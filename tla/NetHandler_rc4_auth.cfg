\* RC4 and authentication both built in; the peer may cheat and the link
\* may lose one device segment.
CONSTANTS
  RC4_SUPPORT = TRUE
  AUTH_SUPPORT = TRUE
  BlockLen = 2
  Challenges = {c1, c2}
  NoValue = NoValue
  MaxApp = 2
  MaxReplies = 1
  MaxLoss = 1
  PeerMayCheat = TRUE
SYMMETRY ChallengeSymmetry
SPECIFICATION Spec
INVARIANT InboundIntegrity
INVARIANT AppDataOnlyFromAuthenticatedPeer
INVARIANT PeerNeverDesynchronised
CHECK_DEADLOCK FALSE
