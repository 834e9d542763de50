SPECIFICATION FairSpec
CONSTANTS
  k1 = k1
  cron1 = cron1
  cron2 = cron2
  Conns <- TheConns
  Clerks = {k1}
  Sweepers <- TheSweepers
  Steady = {cron1}
  Records = {r1}
  Holds = {h1}
  DailyFees = {0, 1}
  Dispositions = {"disposed"}
  LastDay = 3
  LIEN_ELIGIBLE_AFTER_DAYS = 2
  MAX_BACKFILL_DAYS = 2
  NoConn = NoConn
  NoRecord = NoRecord
INVARIANTS
  StorageTypeOK
  AccruedMatchesRows
PROPERTIES
  EveryDayBilled
CHECK_DEADLOCK FALSE
