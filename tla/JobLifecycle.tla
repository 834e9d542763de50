---------------------------- MODULE JobLifecycle ----------------------------
(* What the job state machine promises of every job, whoever moves it: its  *)
(* status only ever takes a legal move, so a terminal status is for ever.   *)
EXTENDS JobStateMachine

CONSTANT Jobs

VARIABLE status

TypeOK == status \in [Jobs -> JobStatuses]

Init == status = [j \in Jobs |-> "new"]

Move(j, to) ==
  /\ canTransition(status[j], to)
  /\ status' = [status EXCEPT ![j] = to]

Next == \E j \in Jobs, to \in JobStatuses : Move(j, to)

Spec == Init /\ [][Next]_status
=============================================================================
