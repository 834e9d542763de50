SPECIFICATION FairSpec
CONSTANTS
  b1 = b1
  b2 = b2
  s1 = s1
  cron = cron
  Conns <- TheConns
  Bidders <- TheBidders
  Staff = {s1}
  Sweepers = {cron}
  Lots = {l1}
  Bids = {x1, x2}
  Prices = {1, 2}
  Hours = {0, 2}
  LastBid = 2
  Extension = 2
  NoConn = NoConn
  NoLot = NoLot
  NoBid = NoBid
PROPERTIES
  BidsIncrease
  SoldToHighest
  EndOnlyExtends
  EveryLotCloses
CHECK_DEADLOCK FALSE
