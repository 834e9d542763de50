SPECIFICATION FairSpec
CONSTANTS
  Actions = {1, 2, 3}
  Inspections = {1}
  Requests = {1, 2}
  BatchSize = 2
  MaxDrains = 2
  MaxFaults = 1
  MaxFailures = 1
  NoAction = NoAction
INVARIANTS
  AppliedTookEffect
  RetriesEnterOnce
PROPERTIES
  EveryActionSettles
CHECK_DEADLOCK FALSE
