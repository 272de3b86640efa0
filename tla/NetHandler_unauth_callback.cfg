CONSTANTS
  RC4_SUPPORT = TRUE
  AUTH_SUPPORT = TRUE
  BlockLen = 2
  Challenges = {c1, c2}
  NoValue = NoValue
  MaxApp = 2
  MaxReplies = 1
  MaxLoss = 1
  PeerMayCheat = FALSE
SYMMETRY ChallengeSymmetry
SPECIFICATION Spec
INVARIANT AppNotCalledBeforeAuth
CHECK_DEADLOCK FALSE
