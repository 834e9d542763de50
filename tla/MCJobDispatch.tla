--------------------------- MODULE MCJobDispatch ----------------------------
(* Instances of JobDispatch for TLC.                                        *)
EXTENDS JobDispatch, TLC

\* The buttons of the web board and of the driver app: assign and unassign are
\* requests of their own there.
AppTargets == {"enroute", "on_scene", "in_progress", "completed", "cancelled", "goa"}

\* Jobs, drivers, rows and connections are told apart by nothing but equality.
Interchangeable ==
  Permutations(Jobs) \cup Permutations(Drivers) \cup Permutations(Shifts)
    \cup Permutations(Conns)

\* Two connections: statements fail everywhere but between a job's event and its COMMIT,
\* which dispatch_serial has; the phantom events would triple the states.
EventOut(c) == tx[c].pc = "commit" /\ tx[c].job # NoJob
ConcurrentNext ==
  \E c \in Conns :
    Request(c) \/ Statement(c) \/ DeadlockVictim(c) \/ (~EventOut(c) /\ Abort(c))
ConcurrentSpec == Init /\ [][ConcurrentNext]_vars
=============================================================================
