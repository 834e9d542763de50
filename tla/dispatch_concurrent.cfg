SPECIFICATION ConcurrentSpec
CONSTANTS
  Conns = {c1, c2}
  Jobs = {j1, j2}
  Drivers = {d1, d2}
  Trucks = {t1}
  Shifts = {s1, s2}
  Targets = {}
  BoardShifts = {NoShift}
  Reported = {}
  NoConn = NoConn
  NoJob = NoJob
  NoDriver = NoDriver
  NoTruck = NoTruck
  NoShift = NoShift
SYMMETRY Interchangeable
INVARIANTS
  OneOpenShift
  FeedCurrent
  AssignedShiftIsDrivers
  DeadlocksAreSwaps
CHECK_DEADLOCK FALSE
