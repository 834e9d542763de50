-------------------------- MODULE JobStateMachine --------------------------
(* The job status machine of apps/api/src/modules/jobs/job-state-machine.ts *)
(* and the shift statuses of packages/db/src/schema/driver-shifts.ts.       *)

\* JobStatus.
JobStatuses == {"new", "dispatched", "enroute", "on_scene", "in_progress",
                "completed", "cancelled", "goa"}

TRANSITION_MAP ==
  [new         |-> {"dispatched", "cancelled"},
   dispatched  |-> {"enroute", "new", "cancelled", "goa"},
   enroute     |-> {"on_scene", "cancelled", "goa"},
   on_scene    |-> {"in_progress", "goa", "cancelled"},
   in_progress |-> {"completed", "cancelled"},
   completed   |-> {},
   cancelled   |-> {},
   goa         |-> {}]

TERMINAL_STATUSES == {"completed", "cancelled", "goa"}

canTransition(from, to) == to \in TRANSITION_MAP[from]

ShiftStatuses == {"available", "en_route", "on_scene", "in_progress",
                  "returning", "break"}

\* The shift status a job status is mirrored to, for the three that have one.
MirroredStatus ==
  [enroute |-> "en_route", on_scene |-> "on_scene", in_progress |-> "in_progress"]
=============================================================================
