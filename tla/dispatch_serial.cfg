SPECIFICATION Spec
CONSTANTS
  Conns = {c1}
  Jobs = {j1, j2}
  Drivers = {d1, d2}
  Trucks = {}
  Shifts = {s1, s2}
  Targets <- AppTargets
  BoardShifts = {NoShift}
  Reported = {"break"}
  NoConn = NoConn
  NoJob = NoJob
  NoDriver = NoDriver
  NoTruck = NoTruck
  NoShift = NoShift
SYMMETRY Interchangeable
INVARIANTS
  JobRowsAgree
  ShiftPinnedByOwnJob
PROPERTY ImplementsLifecycle
CHECK_DEADLOCK FALSE
