--------------------------- MODULE MC_OnewireList ---------------------------
(* Model-checking instance of OnewireList.  Connections are               *)
(* interchangeable, so they form a symmetry set.                          *)
EXTENDS OnewireList, TLC

ConnSymmetry == Permutations(Conns)
=============================================================================
