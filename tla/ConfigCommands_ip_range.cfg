\* "ip 999.1.1.1 10.0.0.1 10.0.0.254" (spec §8) and "mac 0:1:2:3:4:1aa" must be
\* parse errors.
CONSTANTS
  IO_PORTS = 1
  NamedPins <- MCNamedPins
  PinNames <- MCPinNames
  PortArgs = {0, 1}
  PinArgs = {0, 1, 8}
  Datas <- MCDatas
  Masks <- MCMasks
  PinValues <- MCPinValues
  IpArgs <- MCIpArgs
  MacArgs <- MCMacArgs
  Watched = {0, 1}
SPECIFICATION Spec
INVARIANT AddressRejectsOutOfRange
