\* Every command, in any order; ip arguments that never exceed a byte
\* are checked against "show ip", pins against "pin get", "io set"
\* writes against "io get".
CONSTANTS
  IO_PORTS = 1
  NamedPins <- MCNamedPins
  PinNames <- MCPinNames
  PortArgs = {0, 1}
  PinArgs = {0, 1, 8}
  Datas <- MCDatas
  Masks <- MCMasks
  PinValues <- MCPinValues
  IpArgs <- MCIpArgs
  MacArgs <- MCMacArgs
  Watched = {0, 1}
SPECIFICATION Spec
INVARIANT ShowReportsLastAccepted
INVARIANT PinReplyConsistent
INVARIANT IoGetReportsLastWrites
