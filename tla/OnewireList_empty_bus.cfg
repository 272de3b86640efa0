CONSTANTS
  Conns = {a}
  Roms = {r1, r2, r3}
  MinDevices = 0
  MaxRequests = 3
  SearchMayFail = FALSE
SYMMETRY ConnSymmetry
SPECIFICATION Spec
INVARIANT LockFreeWhenIdle
