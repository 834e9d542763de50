-------------------------- MODULE WebhookDelivery ---------------------------
(***************************************************************************)
(* Outbound webhooks: the publisher and the delivery worker of             *)
(* apps/api/src/modules/public-api/webhooks, and the endpoints and retries *)
(* that operators manage (management/webhooks.service.ts).                 *)
(*                                                                         *)
(* A domain event becomes one delivery per subscribed endpoint.  The cron  *)
(* job of every API instance sweeps the due ones, an operator may force    *)
(* one; each statement and each POST is a step.  Subscriptions to some of  *)
(* the events only, batches and payloads are left out.                     *)
(***************************************************************************)
EXTENDS Naturals, FiniteSets

CONSTANTS
  Endpoints, Deliveries,   \* ids of the rows that are inserted
  Instances, Operators,    \* who attempts deliveries: cron jobs and requests
  MaxAttempts,             \* max_attempts of every delivery
  NoEndpoint, NoDelivery

ASSUME WebhookConstants ==
  /\ Instances \cap Operators = {} /\ MaxAttempts \in Nat \ {0}
  /\ NoEndpoint \notin Endpoints /\ NoDelivery \notin Deliveries

Workers == Instances \cup Operators

VARIABLES
  endpoint,       \* webhook_endpoints: "active" or not, or gone
  delivery,       \* webhook_deliveries
  waiting,        \* pending deliveries whose next_retry_at is still to come
  todo,           \* per instance: the deliveries its sweep has still to attempt
  work,           \* per worker: the attempt it is at
  posts, taken,   \* of a delivery, the POSTs made and whether the consumer took one
  forced          \* deliveries an operator has sent or retried

vars == <<endpoint, delivery, waiting, todo, work, posts, taken, forced>>

-----------------------------------------------------------------------------
EndpointStatuses == {"none", "active", "inactive", "deleted"}
DeliveryStatuses == {"pending", "delivering", "delivered", "failed"}

DeliveryRows == [endpoint : Endpoints \cup {NoEndpoint},
                 status : DeliveryStatuses \cup {"none"}, attempt : Nat]
NotPublished == [endpoint |-> NoEndpoint, status |-> "none", attempt |-> 0]

Steps == {"idle", "force", "claim", "look", "post", "finalize"}
Attempts == [pc : Steps, delivery : Deliveries \cup {NoDelivery}, attempt : Nat,
             status : DeliveryStatuses]
Idle == [pc |-> "idle", delivery |-> NoDelivery, attempt |-> 0, status |-> "pending"]

TypeOK ==
  /\ endpoint \in [Endpoints -> EndpointStatuses] /\ delivery \in [Deliveries -> DeliveryRows]
  /\ waiting \subseteq Deliveries /\ todo \in [Instances -> SUBSET Deliveries]
  /\ work \in [Workers -> Attempts] /\ posts \in [Deliveries -> Nat]
  /\ taken \subseteq Deliveries /\ forced \subseteq Deliveries

Init ==
  /\ endpoint = [e \in Endpoints |-> "none"] /\ delivery = [d \in Deliveries |-> NotPublished]
  /\ waiting = {} /\ todo = [w \in Instances |-> {}] /\ work = [w \in Workers |-> Idle]
  /\ posts = [d \in Deliveries |-> 0] /\ taken = {} /\ forced = {}

-----------------------------------------------------------------------------
\* Endpoints.
SetEndpoint(e, from, to) ==
  /\ endpoint[e] \in from /\ endpoint' = [endpoint EXCEPT ![e] = to]
  /\ UNCHANGED <<delivery, waiting, todo, work, posts, taken, forced>>

createEndpoint(e) == SetEndpoint(e, {"none"}, "active")
updateEndpoint(e, to) == SetEndpoint(e, {"active", "inactive"} \ {to}, to)
deleteEndpoint(e) == SetEndpoint(e, {"active", "inactive"}, "deleted")

-----------------------------------------------------------------------------
\* publish: one INSERT of a row per active endpoint.
Fresh == {d \in Deliveries : delivery[d] = NotPublished}
Pending(e) == [endpoint |-> e, status |-> "pending", attempt |-> 0]

publish ==
  LET subscribed == {e \in Endpoints : endpoint[e] = "active"} IN
  /\ subscribed # {}
  /\ \E id \in [subscribed -> Fresh] :
       /\ \A e, f \in subscribed : e # f => id[e] # id[f]
       /\ delivery' = [d \in Deliveries |->
            IF \E e \in subscribed : id[e] = d
            THEN Pending(CHOOSE e \in subscribed : id[e] = d) ELSE delivery[d]]
  /\ UNCHANGED <<endpoint, waiting, todo, work, posts, taken, forced>>

-----------------------------------------------------------------------------
\* Who attempts a delivery.
At(w, pc) == work[w].pc = pc
Goto(w, pc) == work' = [work EXCEPT ![w].pc = pc]
Take(w, pc, d) == work' = [work EXCEPT ![w] = [Idle EXCEPT !.pc = pc, !.delivery = d]]

\* The tick of an instance that is still at its last sweep does nothing.
\* Mutant: only deliveries that were never attempted are due.
sweepNew(w) ==
  LET due == {d \in Deliveries : delivery[d].status = "pending" /\ delivery[d].attempt = 0} IN
  /\ At(w, "idle") /\ todo[w] = {} /\ due # {}
  /\ todo' = [todo EXCEPT ![w] = due]
  /\ UNCHANGED <<endpoint, delivery, waiting, work, posts, taken, forced>>

sweep(w) ==
  LET due == {d \in Deliveries : delivery[d].status = "pending"} \ waiting IN
  /\ At(w, "idle") /\ todo[w] = {} /\ due # {}
  /\ todo' = [todo EXCEPT ![w] = due]
  /\ UNCHANGED <<endpoint, delivery, waiting, work, posts, taken, forced>>

AttemptNext(w, d) ==
  /\ At(w, "idle") /\ d \in todo[w] /\ Take(w, "claim", d)
  /\ UNCHANGED <<endpoint, delivery, waiting, todo, posts, taken, forced>>

testSend(o, d, e) ==
  /\ At(o, "idle") /\ endpoint[e] \in {"active", "inactive"} /\ d \in Fresh
  /\ delivery' = [delivery EXCEPT ![d] = Pending(e)]
  /\ forced' = forced \cup {d} /\ Take(o, "force", d)
  /\ UNCHANGED <<endpoint, waiting, todo, posts, taken>>

\* Bound: an operator forces a delivery once.
retryDelivery(o, d) ==
  /\ At(o, "idle") /\ delivery[d].status # "none" /\ d \notin forced
  /\ forced' = forced \cup {d} /\ Take(o, "force", d)
  /\ UNCHANGED <<endpoint, delivery, waiting, todo, posts, taken>>

\* retryNow: due at once, whatever became of it.
retryNow(o) ==
  LET d == work[o].delivery IN
  /\ At(o, "force")
  /\ delivery' = [delivery EXCEPT ![d].status = "pending"] /\ waiting' = waiting \ {d}
  /\ Goto(o, "claim") /\ UNCHANGED <<endpoint, todo, posts, taken, forced>>

-----------------------------------------------------------------------------
\* attempt.
Done(w) ==
  /\ work' = [work EXCEPT ![w] = Idle]
  /\ todo' = IF w \in Instances THEN [todo EXCEPT ![w] = @ \ {work[w].delivery}] ELSE todo

\* UPDATE ... WHERE status = 'pending': or another worker has it.
\* Mutant: WHERE id alone.
ClaimAny(w) ==
  LET d == work[w].delivery IN
  /\ At(w, "claim")
  /\ delivery' = [delivery EXCEPT ![d].status = "delivering"] /\ waiting' = waiting \ {d}
  /\ work' = [work EXCEPT ![w].pc = "look", ![w].attempt = delivery[d].attempt + 1]
  /\ UNCHANGED <<endpoint, todo, posts, taken, forced>>

Claim(w) ==
  LET d == work[w].delivery IN
  /\ At(w, "claim")
  /\ \/ /\ delivery[d].status = "pending"
        /\ delivery' = [delivery EXCEPT ![d].status = "delivering"] /\ waiting' = waiting \ {d}
        /\ work' = [work EXCEPT ![w].pc = "look", ![w].attempt = delivery[d].attempt + 1]
        /\ UNCHANGED todo
     \/ /\ delivery[d].status # "pending"
        /\ Done(w) /\ UNCHANGED <<delivery, waiting>>
  /\ UNCHANGED <<endpoint, posts, taken, forced>>

FindEndpoint(w) ==
  LET gone == endpoint[delivery[work[w].delivery].endpoint] = "deleted" IN
  /\ At(w, "look")
  /\ work' = [work EXCEPT ![w].pc = IF gone THEN "finalize" ELSE "post",
                          ![w].status = IF gone THEN "failed" ELSE @]
  /\ UNCHANGED <<endpoint, delivery, waiting, todo, posts, taken, forced>>

planRetry(attempt) == IF attempt >= MaxAttempts THEN "failed" ELSE "pending"

\* The consumer takes it and the answer arrives, or is lost; or it does not take it.
Post(w) ==
  LET d == work[w].delivery IN
  /\ At(w, "post")
  /\ posts' = [posts EXCEPT ![d] = @ + 1]
  /\ \/ /\ taken' = taken \cup {d}
        /\ work' = [work EXCEPT ![w].pc = "finalize", ![w].status = "delivered"]
     \/ /\ taken' \in {taken, taken \cup {d}}
        /\ work' = [work EXCEPT ![w].pc = "finalize",
                                ![w].status = planRetry(work[w].attempt)]
  /\ UNCHANGED <<endpoint, delivery, waiting, todo, forced>>

\* UPDATE WHERE id.
finalize(w) ==
  LET t == work[w] IN
  /\ At(w, "finalize") /\ Done(w)
  /\ delivery' = [delivery EXCEPT ![t.delivery].status = t.status,
                                  ![t.delivery].attempt = t.attempt]
  /\ waiting' = IF t.status = "pending" THEN waiting \cup {t.delivery}
                                        ELSE waiting \ {t.delivery}
  /\ UNCHANGED <<endpoint, posts, taken, forced>>

\* A statement fails: the sweep goes on with its next delivery.
Attempting(w) == work[w].pc \in {"look", "post", "finalize"}

AttemptThrows(w) ==
  /\ work[w].pc \in {"claim", "look", "finalize"} /\ Done(w)
  /\ UNCHANGED <<endpoint, delivery, waiting, posts, taken, forced>>

\* The process stops.
Crash(w) ==
  /\ Attempting(w) /\ work' = [work EXCEPT ![w] = Idle]
  /\ todo' = IF w \in Instances THEN [todo EXCEPT ![w] = {}] ELSE todo
  /\ UNCHANGED <<endpoint, delivery, waiting, posts, taken, forced>>

BackoffOver(d) ==
  /\ d \in waiting /\ waiting' = waiting \ {d}
  /\ UNCHANGED <<endpoint, delivery, todo, work, posts, taken, forced>>

-----------------------------------------------------------------------------
Sweep(w) == sweep(w) \/ \E d \in Deliveries : AttemptNext(w, d)

Step(w) == retryNow(w) \/ Claim(w) \/ FindEndpoint(w) \/ Post(w) \/ finalize(w)

Next ==
  \/ \E e \in Endpoints :
       \/ createEndpoint(e) \/ deleteEndpoint(e)
       \/ \E to \in {"active", "inactive"} : updateEndpoint(e, to)
  \/ publish
  \/ \E o \in Operators, d \in Deliveries :
       retryDelivery(o, d) \/ \E e \in Endpoints : testSend(o, d, e)
  \/ \E w \in Instances : Sweep(w)
  \/ \E w \in Workers : Step(w) \/ AttemptThrows(w) \/ Crash(w)
  \/ \E d \in Deliveries : BackoffOver(d)

Spec == Init /\ [][Next]_vars

\* The cron job comes round, attempts end (a POST after ten seconds at the latest),
\* backoffs end; a claim does not fail every time.
Fairness ==
  /\ \A w \in Workers : WF_vars(Step(w))
  /\ \A w \in Instances : WF_vars(Sweep(w)) /\ SF_vars(Claim(w))
  /\ \A d \in Deliveries : WF_vars(BackoffOver(d))

FairSpec == Spec /\ Fairness

-----------------------------------------------------------------------------
(***************************************************************************)
(* Properties.                                                             *)
(***************************************************************************)
On(d) == {w \in Workers : work[w].delivery = d /\ Attempting(w)}

\* The delivery log is what the consumer has seen.  Whatever the sweeps of several
\* instances, lost answers and crashes do, a delivery no operator forced is attempted by
\* one worker at a time, its attempt count is the number of POSTs, max_attempts at most,
\* and it counts as delivered only if the consumer took it.
LogMatchesConsumer ==
  \A d \in Deliveries :
    LET row == delivery[d] IN
    /\ row.status = "delivered" => d \in taken
    /\ d \notin forced =>
         /\ \A v, w \in On(d) : v = w
         /\ On(d) # {} => row.status = "delivering"
         /\ row.status \in {"pending", "delivered"} => posts[d] = row.attempt
         /\ posts[d] <= MaxAttempts

\* A delivery does not stay pending: it is delivered, given up, or left behind in
\* 'delivering' by a worker that stopped or failed on it.
LeftBehind(d) == delivery[d].status = "delivering" /\ On(d) = {}
EveryDeliverySettles ==
  \A d \in Deliveries :
    delivery[d].status = "pending" ~>
      delivery[d].status \in {"delivered", "failed"} \/ LeftBehind(d)
=============================================================================
