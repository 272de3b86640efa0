CONSTANTS
  Upper = {"A"}
  LowerOf <- MCLowerOf
  Chars = {"a", "A", "b"}
  NameChars = {"a", "b"}
  MaxCmdLen = 4
  MaxNameLen = 2
  MaxEntries = 3
  Codes <- MCCodes
SPECIFICATION Spec
INVARIANT DispatchesFirstMatch
\* Each behaviour is one call of the dispatcher.
CHECK_DEADLOCK FALSE
