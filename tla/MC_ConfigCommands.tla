-------------------------- MODULE MC_ConfigCommands --------------------------
(* One I/O port (port 1 is out of range), a pin table with an active-low  *)
(* "led" on pin 0 and an active-high "relay" on pin 1, and a name that    *)
(* is not in the table.  Pin numbers 0, 1 and the out-of-range 8; data    *)
(* that sets bit 0 or every bit but it, masks of pin 0 alone, of a bit    *)
(* beyond the byte (0x1ff) and -1 for the default mask.  Addresses: two   *)
(* good ones, one with 999 in its first octet and one with three fields;  *)
(* macs: a good one, one with 0x1aa in its last field and a short one.    *)
(* The write history follows the two named pins' bits.                    *)
EXTENDS ConfigCommands

MCNamedPins == [n \in {"led", "relay"} |->
                  IF n = "led" THEN [port |-> 0, pin |-> 0, active_high |-> 0]
                               ELSE [port |-> 0, pin |-> 1, active_high |-> 1]]
MCPinNames == {"led", "relay", "fan"}
MCDatas == {1, 254}
MCMasks == {-1, 1, 511}
MCPinValues == {[n |-> 0], [n |-> 2], [w |-> "on"], [w |-> "off"], [w |-> "bad"]}

A1 == [n |-> 4, v |-> <<10, 0, 0, 1>>]
A2 == [n |-> 4, v |-> <<255, 255, 255, 0>>]
Bad == [n |-> 4, v |-> <<999, 1, 1, 1>>]
Short == [n |-> 3, v |-> <<10, 0, 0>>]
MCIpArgs == {<<A1, A2, A1>>, <<A2, A2, A1>>, <<Bad, A1, A2>>,
             <<A1, Short, A2>>, <<A1, A2>>}

MCMacArgs == {[n |-> 6, v |-> <<170, 187, 204, 221, 238, 255>>],
              [n |-> 6, v |-> <<0, 1, 2, 3, 4, 426>>],
              [n |-> 5, v |-> <<0, 1, 2, 3, 4>>]}
=============================================================================
