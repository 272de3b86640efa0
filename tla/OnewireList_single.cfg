CONSTANTS
  Conns = {a}
  Roms = {r1, r2, r3}
  MinDevices = 1
  MaxRequests = 3
  SearchMayFail = FALSE
SYMMETRY ConnSymmetry
SPECIFICATION Spec
INVARIANT ListIsBusPrefix
\* After its last command a connection idles; nothing else runs.
CHECK_DEADLOCK FALSE
