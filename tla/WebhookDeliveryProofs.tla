----------------------- MODULE WebhookDeliveryProofs -----------------------
(* Theorems about WebhookDelivery, for any number of endpoints, deliveries,  *)
(* instances and operators, and any limit of attempts.                       *)
EXTENDS WebhookDelivery, TLAPS

-----------------------------------------------------------------------------
\* What TypeOK does not say: who is at work, or has to, knows a delivery that was
\* published.
Published(d) == d \in Deliveries /\ delivery[d].status # "none"

TypeInv ==
  /\ TypeOK
  /\ \A w \in Workers : ~At(w, "idle") => Published(work[w].delivery)
  /\ \A w \in Instances : \A d \in todo[w] : Published(d)

\* The attempts at a delivery that no operator forced.
AttemptInv(w, d) ==
  LET t == work[w] IN
  /\ delivery[d].status = "delivering"
  /\ t.attempt <= MaxAttempts
  /\ t.pc \in {"look", "post"} => posts[d] + 1 = t.attempt
  /\ t.pc = "finalize" =>
       /\ t.status # "delivering"
       /\ t.status \in {"pending", "delivered"} => posts[d] = t.attempt
       /\ t.status = "pending" => t.attempt < MaxAttempts

Counted(d) ==
  /\ posts[d] <= MaxAttempts
  /\ delivery[d].status = "none" => posts[d] = 0
  /\ delivery[d].status \in {"pending", "delivered"} => posts[d] = delivery[d].attempt
  /\ delivery[d].status = "pending" => delivery[d].attempt < MaxAttempts

Alone(d) == \A v, w \in On(d) : v = w

Log(d) == Counted(d) /\ Alone(d) /\ \A w \in On(d) : AttemptInv(w, d)

LogInv ==
  /\ TypeInv
  /\ \A w \in Workers : At(w, "force") => work[w].delivery \in forced
  /\ \A w \in Workers : At(w, "finalize") /\ work[w].status = "delivered"
                          => work[w].delivery \in taken
  /\ \A d \in Deliveries : delivery[d].status = "delivered" => d \in taken
  /\ \A d \in Deliveries \ forced : Log(d)

-----------------------------------------------------------------------------
LEMMA InitType == Init => TypeInv
BY WebhookConstants
   DEF Init, TypeInv, TypeOK, NotPublished, DeliveryRows, Idle, Attempts, Steps, Published, At,
       EndpointStatuses, DeliveryStatuses, Workers

-----------------------------------------------------------------------------
\* A worker goes on with a delivery that was published.
LEMMA WorkType ==
  ASSUME TypeInv, NEW w \in Workers, NEW k \in Attempts, work' = [work EXCEPT ![w] = k],
         k.pc = "idle" \/ (k.delivery \in Deliveries /\ delivery'[k.delivery].status # "none"),
         \A d \in Deliveries : delivery[d].status # "none" => delivery'[d].status # "none"
  PROVE  /\ work' \in [Workers -> Attempts]
         /\ \A v \in Workers : ~At(v, "idle")' => Published(work[v].delivery)'
BY DEF TypeInv, TypeOK, Published, At

LEMMA IdleType == Idle \in Attempts /\ Idle.pc = "idle"
BY DEF Idle, Attempts, Steps, DeliveryStatuses

LEMMA DoneType ==
  ASSUME TypeInv, NEW w \in Workers, work' = [work EXCEPT ![w] = Idle],
         \A d \in Deliveries : delivery[d].status # "none" => delivery'[d].status # "none"
  PROVE  /\ work' \in [Workers -> Attempts]
         /\ \A v \in Workers : ~At(v, "idle")' => Published(work[v].delivery)'
<1>1. Idle \in Attempts /\ Idle.pc = "idle"
  BY IdleType
<1> QED
  BY <1>1 DEF TypeInv, TypeOK, Published, At

LEMMA TakeType ==
  ASSUME NEW pc \in Steps, NEW d \in Deliveries
  PROVE  /\ [Idle EXCEPT !.pc = pc, !.delivery = d] \in Attempts
         /\ [Idle EXCEPT !.pc = pc, !.delivery = d].delivery = d
BY DEF Idle, Attempts, DeliveryStatuses

\* Every action keeps the types, and leaves what was published so.
LEMMA EndpointsType ==
  ASSUME TypeInv, NEW e \in Endpoints,
         createEndpoint(e) \/ deleteEndpoint(e)
           \/ \E to \in {"active", "inactive"} : updateEndpoint(e, to)
  PROVE  TypeInv'
BY DEF TypeInv, TypeOK, createEndpoint, deleteEndpoint, updateEndpoint, SetEndpoint,
       EndpointStatuses, Published, At

LEMMA PublishType ==
  ASSUME TypeInv, publish
  PROVE  TypeInv'
<1> DEFINE subscribed == {e \in Endpoints : endpoint[e] = "active"}
<1>1. PICK id \in [subscribed -> Fresh] :
        delivery' = [d \in Deliveries |->
          IF \E e \in subscribed : id[e] = d
          THEN Pending(CHOOSE e \in subscribed : id[e] = d) ELSE delivery[d]]
  BY DEF publish
<1>2. UNCHANGED <<endpoint, waiting, todo, work, posts, taken, forced>>
  BY DEF publish
<1>3. ASSUME NEW d \in Deliveries
      PROVE  /\ delivery'[d] \in DeliveryRows
             /\ delivery[d].status # "none" => delivery'[d] = delivery[d]
  <2>1. CASE \E e \in subscribed : id[e] = d
    <3>1. (CHOOSE e \in subscribed : id[e] = d) \in Endpoints
      BY <2>1
    <3>2. d \in Fresh /\ delivery'[d] = Pending(CHOOSE e \in subscribed : id[e] = d)
      BY <1>1, <2>1
    <3> QED
      BY <3>1, <3>2 DEF Pending, Fresh, NotPublished, DeliveryRows, DeliveryStatuses
  <2>2. CASE ~\E e \in subscribed : id[e] = d
    BY <1>1, <2>2 DEF TypeInv, TypeOK
  <2> QED
    BY <2>1, <2>2
<1>4. delivery' \in [Deliveries -> DeliveryRows]
  BY <1>1, <1>3
<1> HIDE DEF subscribed
<1> QED
  BY <1>2, <1>3, <1>4 DEF TypeInv, TypeOK, Published, At

LEMMA OperatorType ==
  ASSUME TypeInv, NEW o \in Operators, NEW d \in Deliveries,
         retryDelivery(o, d) \/ \E e \in Endpoints : testSend(o, d, e)
  PROVE  TypeInv'
<1>1. CASE retryDelivery(o, d)
  BY <1>1 DEF retryDelivery, TypeInv, TypeOK, Take, At, Idle, Attempts, Steps, DeliveryStatuses,
              Published, Workers
<1>2. CASE \E e \in Endpoints : testSend(o, d, e)
  <2>1. PICK e \in Endpoints : testSend(o, d, e)
    BY <1>2
  <2>2. /\ work' = [work EXCEPT ![o] = [Idle EXCEPT !.pc = "force", !.delivery = d]]
        /\ "force" \in Steps /\ o \in Workers
    BY <2>1 DEF testSend, Take, Steps, Workers
  <2>3. /\ delivery' \in [Deliveries -> DeliveryRows] /\ delivery'[d].status # "none"
        /\ \A x \in Deliveries : delivery[x].status # "none" => delivery'[x].status # "none"
    BY <2>1 DEF testSend, TypeInv, TypeOK, Pending, DeliveryRows, DeliveryStatuses
  <2>4. /\ work' \in [Workers -> Attempts]
        /\ \A v \in Workers : ~At(v, "idle")' => Published(work[v].delivery)'
    BY <2>2, <2>3, TakeType, WorkType
  <2> QED
    BY <2>1, <2>3, <2>4 DEF testSend, TypeInv, TypeOK, Published
<1> QED
  BY <1>1, <1>2

LEMMA SweepType ==
  ASSUME TypeInv, NEW w \in Instances, Sweep(w)
  PROVE  TypeInv'
<1>1. CASE sweep(w)
  BY <1>1 DEF sweep, TypeInv, TypeOK, At, Published
<1>2. CASE \E d \in Deliveries : AttemptNext(w, d)
  <2>1. PICK d \in Deliveries : AttemptNext(w, d)
    BY <1>2
  <2>2. /\ work' = [work EXCEPT ![w] = [Idle EXCEPT !.pc = "claim", !.delivery = d]]
        /\ "claim" \in Steps /\ w \in Workers
        /\ UNCHANGED <<endpoint, delivery, waiting, todo, posts, taken, forced>>
    BY <2>1 DEF AttemptNext, Take, Steps, Workers
  <2>3. delivery'[d].status # "none"
    BY <2>1, <2>2 DEF AttemptNext, TypeInv, Published
  <2>4. /\ work' \in [Workers -> Attempts]
        /\ \A v \in Workers : ~At(v, "idle")' => Published(work[v].delivery)'
    BY <2>2, <2>3, TakeType, WorkType
  <2> QED
    BY <2>2, <2>4 DEF TypeInv, TypeOK, Published
<1> QED
  BY <1>1, <1>2 DEF Sweep

LEMMA StepType ==
  ASSUME TypeInv, NEW w \in Workers, Step(w)
  PROVE  TypeInv'
<1>1. CASE retryNow(w)
  BY <1>1 DEF retryNow, Goto, TypeInv, TypeOK, At, Attempts, Steps, DeliveryRows,
              DeliveryStatuses, Published
<1>2. CASE Claim(w)
  <2> DEFINE d == work[w].delivery
             k == [work[w] EXCEPT !.pc = "look", !.attempt = delivery[d].attempt + 1]
  <2>1. d \in Deliveries /\ delivery[d].status # "none"
    BY <1>2 DEF Claim, At, TypeInv, Published
  <2>2. CASE delivery[d].status = "pending"
    <3>1. delivery' \in [Deliveries -> DeliveryRows]
          /\ \A x \in Deliveries : delivery[x].status # "none" => delivery'[x].status # "none"
      BY <1>2, <2>1, <2>2, SMTT(30) DEF Claim, TypeInv, TypeOK, DeliveryRows, DeliveryStatuses
    <3>2. k \in Attempts /\ k.delivery = d
      <4>1. delivery[d] \in DeliveryRows /\ work[w] \in Attempts
        BY <2>1 DEF TypeInv, TypeOK
      <4>2. delivery[d].attempt + 1 \in Nat
        BY <4>1 DEF DeliveryRows
      <4> QED
        BY <4>1, <4>2 DEF Attempts, Steps
    <3>3. work' = [work EXCEPT ![w] = k]
      BY <1>2, <2>2 DEF Claim
    <3> QED
      BY <1>2, <2>1, <2>2, <3>1, <3>2, <3>3, WorkType
         DEF Claim, TypeInv, TypeOK, Published
  <2>3. CASE delivery[d].status # "pending"
    <3>1. work' = [work EXCEPT ![w] = Idle]
          /\ UNCHANGED <<endpoint, delivery, waiting, posts, taken, forced>>
      BY <1>2, <2>3 DEF Claim, Done
    <3>2. todo' \in [Instances -> SUBSET Deliveries] /\ \A v \in Instances : todo'[v] \subseteq todo[v]
      BY <1>2, <2>3 DEF Claim, Done, TypeInv, TypeOK
    <3>3. /\ work' \in [Workers -> Attempts]
          /\ \A v \in Workers : ~At(v, "idle")' => Published(work[v].delivery)'
      BY <3>1, DoneType
    <3> QED
      BY <3>1, <3>2, <3>3 DEF TypeInv, TypeOK, Published
  <2> QED
    BY <2>2, <2>3
<1>3. CASE FindEndpoint(w)
  <2> DEFINE gone == endpoint[delivery[work[w].delivery].endpoint] = "deleted"
             k == [work[w] EXCEPT !.pc = IF gone THEN "finalize" ELSE "post",
                                  !.status = IF gone THEN "failed" ELSE @]
  <2>1. k \in Attempts /\ k.delivery = work[w].delivery /\ work' = [work EXCEPT ![w] = k]
    BY <1>3 DEF FindEndpoint, TypeInv, TypeOK, Attempts, Steps, DeliveryStatuses
  <2>2. UNCHANGED <<endpoint, delivery, waiting, todo, posts, taken, forced>>
    BY <1>3 DEF FindEndpoint
  <2>3. k.delivery \in Deliveries /\ delivery'[k.delivery].status # "none"
    BY <1>3, <2>1, <2>2 DEF FindEndpoint, At, TypeInv, Published
  <2> HIDE DEF k
  <2>4. /\ work' \in [Workers -> Attempts]
        /\ \A v \in Workers : ~At(v, "idle")' => Published(work[v].delivery)'
    BY <2>1, <2>2, <2>3, WorkType
  <2> QED
    BY <2>2, <2>4 DEF TypeInv, TypeOK, Published
<1>4. CASE Post(w)
  BY <1>4, SMTT(30) DEF Post, planRetry, TypeInv, TypeOK, At, Attempts, Steps, DeliveryStatuses, Published
<1>5. CASE finalize(w)
  BY <1>5, SMTT(30) DEF finalize, Done, TypeInv, TypeOK, At, Attempts, Steps, DeliveryRows,
              DeliveryStatuses, Published, Idle, Workers
<1> QED
  BY <1>1, <1>2, <1>3, <1>4, <1>5 DEF Step

LEMMA FailureType ==
  ASSUME TypeInv, NEW w \in Workers, AttemptThrows(w) \/ Crash(w)
  PROVE  TypeInv'
<1>1. work' = [work EXCEPT ![w] = Idle]
      /\ UNCHANGED <<endpoint, delivery, waiting, posts, taken, forced>>
  BY DEF AttemptThrows, Crash, Done
<1>2. todo' \in [Instances -> SUBSET Deliveries] /\ \A v \in Instances : todo'[v] \subseteq todo[v]
  BY DEF AttemptThrows, Crash, Done, TypeInv, TypeOK
<1>3. /\ work' \in [Workers -> Attempts]
      /\ \A v \in Workers : ~At(v, "idle")' => Published(work[v].delivery)'
  BY <1>1, DoneType
<1> QED
  BY <1>1, <1>2, <1>3 DEF TypeInv, TypeOK, Published

LEMMA NextType ==
  ASSUME TypeInv, [Next]_vars
  PROVE  TypeInv'
<1>1. CASE UNCHANGED vars
  BY <1>1 DEF vars, TypeInv, TypeOK, Published, At
<1>2. CASE \E d \in Deliveries : BackoffOver(d)
  BY <1>2 DEF BackoffOver, TypeInv, TypeOK, Published, At
<1> QED
  BY <1>1, <1>2, EndpointsType, PublishType, OperatorType, SweepType, StepType, FailureType
     DEF Next, Workers

\* Types of the tables and of the attempts under way (webhook-delivery.worker.ts).
THEOREM TypeCorrect == Spec => []TypeOK
<1>1. TypeInv => TypeOK
  BY DEF TypeInv
<1> QED
  BY <1>1, InitType, NextType, PTL DEF Spec

-----------------------------------------------------------------------------
LEMMA InitLog == Init => LogInv
BY InitType, WebhookConstants
   DEF Init, LogInv, Log, Counted, Alone, AttemptInv, On, Attempting, At, Idle, NotPublished

\* The log of a delivery stays right while another one is worked on.
LEMMA ElsewhereLog ==
  ASSUME TypeInv, NEW d \in Deliveries, Log(d),
         posts'[d] = posts[d], delivery'[d] = delivery[d],
         NEW w \in Workers, work' = [work EXCEPT ![w] = work'[w]],
         w \notin On(d), w \notin On(d)'
  PROVE  Log(d)'
<1>1. \A v \in Workers \ {w} : work'[v] = work[v]
  BY DEF TypeInv, TypeOK
<1>2. On(d)' = On(d) /\ \A v \in On(d) : work'[v] = work[v]
  BY <1>1 DEF On, Attempting
<1> QED
  BY <1>2 DEF Log, Counted, Alone, AttemptInv

LEMMA EndpointsLog ==
  ASSUME LogInv, NEW e \in Endpoints,
         createEndpoint(e) \/ deleteEndpoint(e)
           \/ \E to \in {"active", "inactive"} : updateEndpoint(e, to)
  PROVE  LogInv'
<1>1. TypeInv'
  BY EndpointsType DEF LogInv
<1> QED
  BY <1>1 DEF LogInv, createEndpoint, deleteEndpoint, updateEndpoint, SetEndpoint, Log,
       Counted, Alone, AttemptInv, On, Attempting, At

LEMMA BackoffLog ==
  ASSUME LogInv, NEW d \in Deliveries, BackoffOver(d)
  PROVE  LogInv'
<1>1. TypeInv'
  BY NextType DEF LogInv, Next
<1> QED
  BY <1>1 DEF LogInv, BackoffOver, Log, Counted, Alone, AttemptInv, On, Attempting, At

LEMMA OperatorLog ==
  ASSUME LogInv, NEW o \in Operators, NEW d \in Deliveries,
         retryDelivery(o, d) \/ \E e \in Endpoints : testSend(o, d, e)
  PROVE  LogInv'
<1>1. TypeInv'
  BY OperatorType DEF LogInv
<1>2. CASE retryDelivery(o, d)
  BY <1>1, <1>2 DEF LogInv, TypeInv, TypeOK, retryDelivery, Take, Idle, Log, Counted, Alone,
       AttemptInv, On, Attempting, At, Workers
<1>3. CASE \E e \in Endpoints : testSend(o, d, e)
  BY <1>1, <1>3 DEF LogInv, TypeInv, TypeOK, testSend, Fresh, Pending, NotPublished, Take, Idle,
       Log, Counted, Alone, AttemptInv, On, Attempting, At, Workers
<1> QED
  BY <1>2, <1>3

LEMMA SweepLog ==
  ASSUME LogInv, NEW w \in Instances, Sweep(w)
  PROVE  LogInv'
<1>1. TypeInv'
  BY SweepType DEF LogInv
<1>2. CASE sweep(w)
  BY <1>1, <1>2 DEF LogInv, sweep, Log, Counted, Alone, AttemptInv, On, Attempting, At
<1>3. CASE \E d \in Deliveries : AttemptNext(w, d)
  BY <1>1, <1>3 DEF LogInv, TypeInv, TypeOK, AttemptNext, Take, Idle, Log, Counted, Alone,
       AttemptInv, On, Attempting, At, Workers
<1> QED
  BY <1>2, <1>3 DEF Sweep

LEMMA FailureLog ==
  ASSUME LogInv, NEW w \in Workers, AttemptThrows(w) \/ Crash(w)
  PROVE  LogInv'
<1>1. TypeInv'
  BY FailureType DEF LogInv
<1> QED
  BY <1>1 DEF LogInv, TypeInv, TypeOK, AttemptThrows, Crash, Done, Idle, Log, Counted, Alone,
       AttemptInv, On, Attempting, At

LEMMA ClaimLog ==
  ASSUME LogInv, NEW w \in Workers, Claim(w)
  PROVE  LogInv'
<1>0. PICK d \in Deliveries : d = work[w].delivery
  BY DEF LogInv, Claim, TypeInv, At, Published
<1> DEFINE k == [work[w] EXCEPT !.pc = "look", !.attempt = delivery[d].attempt + 1]
<1>1. TypeInv /\ TypeInv' /\ work \in [Workers -> Attempts]
      /\ delivery \in [Deliveries -> DeliveryRows]
  BY StepType DEF LogInv, Step, Claim, TypeInv, TypeOK, At, Published
<1>2. CASE delivery[d].status = "pending"
  <2>1. /\ work[w].pc = "claim" /\ work' = [work EXCEPT ![w] = k]
        /\ delivery' = [delivery EXCEPT ![d].status = "delivering"]
        /\ UNCHANGED <<posts, taken, forced>>
    BY <1>0, <1>2 DEF Claim, At
  <2>2. work'[w] = k /\ k.pc = "look" /\ k.delivery = d /\ k.attempt = delivery[d].attempt + 1
    BY <1>0, <1>1, <2>1 DEF Attempts
  <2>3. delivery'[d].status = "delivering" /\ delivery'[d].attempt = delivery[d].attempt
    BY <1>0, <1>1, <2>1 DEF DeliveryRows
  <2> HIDE DEF k
  <2>4. ASSUME NEW x \in Deliveries \ forced'
        PROVE  Log(x)'
    <3>1. Log(x)
      BY <2>1 DEF LogInv
    <3>2. CASE x # d
      <4>1. delivery'[x] = delivery[x] /\ w \notin On(x) /\ w \notin On(x)'
        BY <1>0, <1>1, <2>1, <2>2, <3>2 DEF On
      <4>2. work' = [work EXCEPT ![w] = work'[w]] /\ posts'[x] = posts[x]
        BY <2>1, <2>2
      <4> QED
        BY <3>1, <4>1, <4>2, ElsewhereLog DEF LogInv
    <3>3. CASE x = d
      <4>1. On(d) = {}
        BY <1>2, <3>1, <3>3 DEF Log, AttemptInv
      <4>2. On(d)' = {w}
        BY <1>0, <1>1, <2>1, <2>2, <4>1 DEF On, Attempting
      <4>3. /\ posts[d] = delivery[d].attempt /\ delivery[d].attempt < MaxAttempts
            /\ posts[d] \in Nat /\ posts[d] <= MaxAttempts
        BY <1>0, <1>1, <1>2, <3>1, <3>3 DEF Log, Counted, TypeInv, TypeOK
      <4>4. Counted(d)'
        BY <2>1, <2>3, <4>3 DEF Counted
      <4>5. AttemptInv(w, d)'
        BY <2>1, <2>2, <2>3, <4>3, WebhookConstants DEF AttemptInv
      <4> QED
        BY <3>3, <4>2, <4>4, <4>5 DEF Log, Alone
    <3> QED
      BY <3>2, <3>3
  <2>5. \A x \in Deliveries : delivery'[x].status = "delivered" => x \in taken'
    BY <1>0, <1>1, <2>1, <2>3 DEF LogInv
  <2>6. \A v \in Workers : v = w \/ work'[v] = work[v]
    BY <1>0, <1>1, <2>1
  <2> QED
    BY <1>0, <1>1, <2>1, <2>2, <2>4, <2>5, <2>6 DEF LogInv, At
<1>3. CASE delivery[d].status # "pending"
  BY <1>0, <1>1, <1>3 DEF LogInv, Claim, Done, Idle, Log, Counted, Alone, AttemptInv, On, Attempting, At
<1> QED
  BY <1>2, <1>3

LEMMA FindEndpointLog ==
  ASSUME LogInv, NEW w \in Workers, FindEndpoint(w)
  PROVE  LogInv'
<1>0. PICK d \in Deliveries : d = work[w].delivery
  BY DEF LogInv, FindEndpoint, TypeInv, At, Published
<1>1. TypeInv' /\ work \in [Workers -> Attempts]
  BY StepType DEF LogInv, Step, FindEndpoint, TypeInv, TypeOK, At, Published
<1>2. /\ work[w].pc = "look" /\ UNCHANGED <<delivery, posts, taken, forced>>
      /\ work' = [work EXCEPT ![w] = work'[w]]
      /\ work'[w].delivery = d /\ work'[w].attempt = work[w].attempt
      /\ \/ work'[w].pc = "post"
         \/ work'[w].pc = "finalize" /\ work'[w].status = "failed"
  BY <1>0, <1>1 DEF FindEndpoint, At, Attempts
<1>3. \A v \in Workers : v = w \/ work'[v] = work[v]
  BY <1>0, <1>1, <1>2
<1>4. ASSUME NEW x \in Deliveries \ forced'
      PROVE  Log(x)'
  <2>1. Log(x)
    BY <1>2 DEF LogInv
  <2>2. CASE x # d
    <3>1. w \notin On(x) /\ w \notin On(x)'
      BY <1>0, <1>1, <1>2, <2>2 DEF On
    <3> QED
      BY <1>2, <2>1, <3>1, ElsewhereLog DEF LogInv
  <2>3. CASE x = d
    <3>1. w \in On(d) /\ On(d)' = On(d)
      BY <1>0, <1>1, <1>2, <1>3 DEF On, Attempting
    <3>2. On(d) = {w}
      BY <2>1, <2>3, <3>1 DEF Log, Alone
    <3>3. AttemptInv(w, d)'
      BY <1>2, <2>1, <2>3, <3>1 DEF Log, AttemptInv
    <3> QED
      BY <1>2, <2>1, <2>3, <3>1, <3>2, <3>3 DEF Log, Counted, Alone
  <2> QED
    BY <2>2, <2>3
<1> QED
  BY <1>0, <1>1, <1>2, <1>3, <1>4 DEF LogInv, At

\* max_attempts is respected because the attempt was counted when it was claimed.
LEMMA PostLog ==
  ASSUME LogInv, NEW w \in Workers, Post(w)
  PROVE  LogInv'
<1>0. PICK d \in Deliveries : d = work[w].delivery
  BY DEF LogInv, Post, TypeInv, At, Published
<1>1. TypeInv' /\ work \in [Workers -> Attempts]
      /\ posts \in [Deliveries -> Nat]
  BY StepType DEF LogInv, Step, Post, TypeInv, TypeOK, At, Published
<1>2. /\ work[w].pc = "post" /\ UNCHANGED <<delivery, forced>>
      /\ posts' = [posts EXCEPT ![d] = @ + 1]
      /\ work' = [work EXCEPT ![w] = work'[w]]
      /\ work'[w].delivery = d /\ work'[w].attempt = work[w].attempt
      /\ work'[w].pc = "finalize" /\ taken \subseteq taken'
      /\ \/ work'[w].status = "delivered" /\ d \in taken'
         \/ work'[w].status = "failed"
         \/ work'[w].status = "pending" /\ work[w].attempt < MaxAttempts
  <2>1. work[w].pc = "post" /\ UNCHANGED <<delivery, forced>>
        /\ posts' = [posts EXCEPT ![d] = @ + 1] /\ taken \subseteq taken'
    BY <1>0 DEF Post, At
  <2>2. PICK st \in {"delivered", planRetry(work[w].attempt)} :
          /\ work' = [work EXCEPT ![w].pc = "finalize", ![w].status = st]
          /\ st = "delivered" => d \in taken'
    <3>1. planRetry(work[w].attempt) # "delivered"
      BY DEF planRetry
    <3> QED
      BY <1>0, <3>1 DEF Post
  <2>3. work[w].attempt \in Nat /\ MaxAttempts \in Nat
    BY <1>0, <1>1, WebhookConstants DEF Attempts
  <2>4. st = "delivered" \/ st = "failed" \/ (st = "pending" /\ work[w].attempt < MaxAttempts)
    BY <2>3 DEF planRetry
  <2>5. /\ work' = [work EXCEPT ![w] = work'[w]]
        /\ work'[w].delivery = d /\ work'[w].attempt = work[w].attempt
        /\ work'[w].pc = "finalize" /\ work'[w].status = st
    BY <1>0, <1>1, <2>2 DEF Attempts
  <2> QED
    BY <2>1, <2>2, <2>4, <2>5
<1>3. \A v \in Workers : v = w \/ work'[v] = work[v]
  BY <1>0, <1>1, <1>2
<1>4. ASSUME NEW x \in Deliveries \ forced'
      PROVE  Log(x)'
  <2>1. Log(x)
    BY <1>2 DEF LogInv
  <2>2. CASE x # d
    <3>1. w \notin On(x) /\ w \notin On(x)' /\ posts'[x] = posts[x]
      BY <1>0, <1>1, <1>2, <2>2 DEF On
    <3> QED
      BY <1>2, <2>1, <3>1, ElsewhereLog DEF LogInv
  <2>3. CASE x = d
    <3>1. w \in On(d) /\ On(d)' = On(d)
      BY <1>0, <1>1, <1>2, <1>3 DEF On, Attempting
    <3>2. On(d) = {w} /\ AttemptInv(w, d)
      BY <2>1, <2>3, <3>1 DEF Log, Alone
    <3>3. posts'[d] = posts[d] + 1 /\ posts'[d] = work'[w].attempt /\ posts'[d] <= MaxAttempts
      BY <1>0, <1>1, <1>2, <3>2 DEF AttemptInv
    <3>4. AttemptInv(w, d)'
      BY <1>2, <3>2, <3>3 DEF AttemptInv
    <3>5. Counted(d)'
      BY <1>2, <3>2, <3>3 DEF Counted, AttemptInv
    <3> QED
      BY <2>3, <3>1, <3>2, <3>4, <3>5 DEF Log, Alone
  <2> QED
    BY <2>2, <2>3
<1> QED
  BY <1>0, <1>1, <1>2, <1>3, <1>4 DEF LogInv, At

LEMMA FinalizeLog ==
  ASSUME LogInv, NEW w \in Workers, finalize(w)
  PROVE  LogInv'
<1>0. PICK d \in Deliveries : d = work[w].delivery
  BY DEF LogInv, finalize, TypeInv, At, Published
<1>1. TypeInv' /\ work \in [Workers -> Attempts]
      /\ delivery \in [Deliveries -> DeliveryRows] /\ posts \in [Deliveries -> Nat]
  BY StepType DEF LogInv, Step, finalize, TypeInv, TypeOK, At, Published
<1>2. /\ work[w].pc = "finalize" /\ UNCHANGED <<posts, taken, forced>>
      /\ work' = [work EXCEPT ![w] = work'[w]] /\ work'[w].pc = "idle"
      /\ delivery'[d].status = work[w].status /\ delivery'[d].attempt = work[w].attempt
      /\ \A x \in Deliveries \ {d} : delivery'[x] = delivery[x]
  BY <1>0, <1>1 DEF finalize, At, Done, Idle, DeliveryRows
<1>3. \A v \in Workers : v = w \/ work'[v] = work[v]
  BY <1>0, <1>1, <1>2
<1>4. ASSUME NEW x \in Deliveries \ forced'
      PROVE  Log(x)'
  <2>1. Log(x)
    BY <1>2 DEF LogInv
  <2>2. CASE x # d
    <3>1. w \notin On(x) /\ w \notin On(x)' /\ posts'[x] = posts[x]
      BY <1>0, <1>1, <1>2, <2>2 DEF On, Attempting
    <3> QED
      BY <1>2, <2>1, <2>2, <3>1, ElsewhereLog DEF LogInv
  <2>3. CASE x = d
    <3>1. w \in On(d)
      BY <1>0, <1>2 DEF On, Attempting
    <3>2. On(d) = {w} /\ AttemptInv(w, d)
      BY <2>1, <2>3, <3>1 DEF Log, Alone
    <3>3. On(d)' = {}
      BY <1>0, <1>1, <1>2, <1>3, <3>2 DEF On, Attempting
    <3>4. Counted(d)'
      <4>1. work[w].status # "none"
        BY <1>1 DEF Attempts, DeliveryStatuses
      <4> QED
        BY <1>2, <2>1, <2>3, <3>2, <4>1 DEF Log, Counted, AttemptInv
    <3> QED
      BY <2>3, <3>3, <3>4 DEF Log, Alone
  <2> QED
    BY <2>2, <2>3
<1>5. \A x \in Deliveries : delivery'[x].status = "delivered" => x \in taken'
  BY <1>0, <1>1, <1>2 DEF LogInv, At
<1> QED
  BY <1>0, <1>1, <1>2, <1>3, <1>4, <1>5 DEF LogInv, At

LEMMA StepLog ==
  ASSUME LogInv, NEW w \in Workers, Step(w)
  PROVE  LogInv'
<1>1. TypeInv'
  BY StepType DEF LogInv
<1>2. CASE retryNow(w)
  BY <1>1, <1>2 DEF LogInv, TypeInv, TypeOK, retryNow, Goto, Log, Counted, Alone, AttemptInv, On,
       Attempting, At
<1>3. CASE Claim(w)
  BY <1>3, ClaimLog
<1>4. CASE FindEndpoint(w)
  BY <1>4, FindEndpointLog
<1>5. CASE Post(w)
  BY <1>5, PostLog
<1>6. CASE finalize(w)
  BY <1>6, FinalizeLog
<1> QED
  BY <1>2, <1>3, <1>4, <1>5, <1>6 DEF Step

LEMMA PublishLog ==
  ASSUME LogInv, publish
  PROVE  LogInv'
<1> DEFINE subscribed == {e \in Endpoints : endpoint[e] = "active"}
<1>1. TypeInv' /\ UNCHANGED <<endpoint, waiting, todo, work, posts, taken, forced>>
  BY PublishType DEF LogInv, publish
<1>2. PICK id \in [subscribed -> Fresh] :
        delivery' = [d \in Deliveries |->
          IF \E e \in subscribed : id[e] = d
          THEN Pending(CHOOSE e \in subscribed : id[e] = d) ELSE delivery[d]]
  BY DEF publish
<1>3. ASSUME NEW d \in Deliveries
      PROVE  \/ delivery'[d] = delivery[d]
             \/ /\ delivery[d].status = "none"
                /\ delivery'[d].status = "pending" /\ delivery'[d].attempt = 0
  BY <1>2 DEF Pending, Fresh, NotPublished
<1> HIDE DEF subscribed
<1>4. ASSUME NEW d \in Deliveries \ forced'
      PROVE  Log(d)'
  <2>1. Log(d) /\ On(d)' = On(d)
    BY <1>1 DEF LogInv, On, Attempting
  <2>2. CASE delivery'[d] = delivery[d]
    BY <1>1, <2>1, <2>2 DEF Log, Counted, Alone, AttemptInv
  <2>3. CASE /\ delivery[d].status = "none"
             /\ delivery'[d].status = "pending" /\ delivery'[d].attempt = 0
    <3>1. On(d) = {} /\ posts[d] = 0
      BY <2>1, <2>3 DEF Log, Counted, AttemptInv
    <3> QED
      BY <1>1, <2>1, <2>3, <3>1, WebhookConstants DEF Log, Counted, Alone
  <2> QED
    BY <1>3, <2>2, <2>3
<1>5. \A d \in Deliveries : delivery'[d].status = "delivered" => d \in taken'
  BY <1>1, <1>3 DEF LogInv
<1> QED
  BY <1>1, <1>4, <1>5 DEF LogInv, At

LEMMA NextLog ==
  ASSUME LogInv, [Next]_vars
  PROVE  LogInv'
<1>1. CASE UNCHANGED vars
  <2>1. TypeInv'
    BY <1>1, NextType DEF LogInv
  <2> QED
    BY <1>1, <2>1 DEF vars, LogInv, Log, Counted, Alone, AttemptInv, On, Attempting, At
<1> QED
  BY <1>1, EndpointsLog, BackoffLog, OperatorLog, SweepLog, FailureLog, StepLog, PublishLog
     DEF Next, Workers

\* For any number of sweeping instances and operators: one attempt at a time, as many POSTs
\* as are counted, max_attempts at most, and 'delivered' only if the consumer took it
\* (webhook-delivery.worker.ts: the claim, and the UPDATE that ends an attempt).
THEOREM LogMatchesConsumerHolds == Spec => []LogMatchesConsumer
<1>1. LogInv => LogMatchesConsumer
  BY DEF LogInv, LogMatchesConsumer, Log, Counted, Alone, AttemptInv
<1> QED
  BY <1>1, InitLog, NextLog, PTL DEF Spec
=============================================================================
