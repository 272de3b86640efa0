\* Two connections share ow_global; either may hang up mid-listing.
CONSTANTS
  Conns = {a, b}
  Roms = {r1, r2, r3}
  MinDevices = 1
  MaxRequests = 3
  SearchMayFail = FALSE
SYMMETRY ConnSymmetry
SPECIFICATION SpecWithHangUp
INVARIANT ListIsBusPrefix
