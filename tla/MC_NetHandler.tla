---------------------------- MODULE MC_NetHandler ----------------------------
(* Model-checking instance of NetHandler: the challenge values are       *)
(* interchangeable (the hook only compares them), so they form a          *)
(* symmetry set.                                                          *)
EXTENDS NetHandler, TLC

ChallengeSymmetry == Permutations(Challenges)
=============================================================================
