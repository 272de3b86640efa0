--------------------------- MODULE ConfigCommands ---------------------------
(***************************************************************************)
(* The commands that change the device's configuration, as handlers of    *)
(* the dispatcher (src/ecmd/ecmd.c): "ip", "mac" and what "show ip" and   *)
(* "show mac" read back (272-386, 1069-1140), and the port commands "io   *)
(* set ddr/port", "io get ddr/port/pin", the named-pin commands "pin    *)
(* get", "pin set" and "pin toggle" (750-1004).                          *)
(*                                                                         *)
(* A command is one action: the handler runs to completion and the        *)
(* dispatcher translates its result (EcmdParse!Translate).  Arguments are *)
(* abstracted to what sscanf makes of them: an address argument is the    *)
(* number of "%u" fields it matches and their values, a pin argument is   *)
(* either two numbers or a name (the named-pin fallback), a pin value is  *)
(* a number or one of the words "on", "off" or something else.            *)
(*                                                                         *)
(* Not in this repository's source, and modelled from the spec: the       *)
(* configuration store (eeprom_save_config, the reads of "show ip/mac";   *)
(* spec §6: get/set of settings), the pin table portio_pincfg with its     *)
(* lookups, the input register portio_input (an output pin reads back the *)
(* level it drives) and XOR_LOG, a logical exclusive or.                 *)
(***************************************************************************)
EXTENDS Integers, Sequences, Bitwise

CONSTANTS
  IO_PORTS,     \* number of I/O ports
  NamedPins,    \* portio_pincfg: name -> [port, pin, active_high]
  PinNames,     \* names a "pin" command may give (some not in the table)
  PortArgs,     \* port numbers a command may give
  PinArgs,      \* pin numbers a command may give
  Datas,        \* data values of "io set"
  Masks,        \* mask values of "io set" (-1: no mask given, ret = 2)
  PinValues,    \* values of "pin set": [n |-> number] or [w |-> word]
  IpArgs,       \* argument lists of "ip": sequences of address arguments,
                \* each [n |-> "%u" fields matched, v |-> their values]
  MacArgs,      \* mac arguments: [n |-> "%x" fields matched, v |-> values]
  Watched       \* bits whose writes the history "wrote" follows

Dispatcher == INSTANCE EcmdParse WITH Upper <- {}, LowerOf <- LAMBDA ch : ch

None == <<>>                                        \* a NULL pointer
Ports == 0..IO_PORTS - 1
LO8(x) == x % 256
Bit(pin) == 2^pin                                   \* _BV(pin)
ClearBits(x, m) == x & (255 - LO8(m))               \* x & ~m, x a byte
Bool(x) == x # 0

VARIABLES
  ips,      \* stored ip, netmask and gateway (4 bytes each)
  mac,      \* stored mac (6 bytes)
  ddr,      \* cfg.options.io_ddr
  io,       \* cfg.options.io
  last,     \* the last command, its translated result and whether it had a
            \* field above 255
  accepted, \* history: the values of the last accepted "ip" and "mac"
  said,     \* history: per port and pin, what "pin set/toggle" last replied
  wrote     \* history: per register, port and watched bit, the value the
            \* last "io set" covering it gave it, or Unset (-1) after a pin
            \* command may have changed it

vars == <<ips, mac, ddr, io, last, accepted, said, wrote>>

-----------------------------------------------------------------------------
(* The configuration store and the pin table (spec-modelled). *)
eeprom_save_config(newMac, newIps) ==
  [ret |-> 0, mac |-> IF newMac = None THEN mac ELSE newMac,
              ips |-> IF newIps = None THEN ips ELSE newIps]

NoPin == "none"                                     \* the index 255
named_pin_by_name(n) == IF n \in DOMAIN NamedPins THEN n ELSE NoPin
named_pin_by_pin(port, pin) ==
  IF \E n \in DOMAIN NamedPins : NamedPins[n].port = port /\ NamedPins[n].pin = pin
  THEN CHOOSE n \in DOMAIN NamedPins :
         NamedPins[n].port = port /\ NamedPins[n].pin = pin
  ELSE NoPin
ActiveHigh(port, pin) ==
  LET c == named_pin_by_pin(port, pin)
  IN IF c = NoPin THEN 1 ELSE NamedPins[c].active_high
portio_input(port) == io[port] & ddr[port]
XOR_LOG(a, b) == Bool(a) # Bool(b)

-----------------------------------------------------------------------------
(* "ip" and "mac" *)

\* parse_ip / parse_mac: all fields matched, each int stored into a byte.
parse_ip(a) ==
  IF a.n = 4 THEN [ret |-> 0, bytes |-> [i \in 1..4 |-> LO8(a.v[i])]]
  ELSE [ret |-> -1, bytes |-> <<>>]

parse_mac(a) ==
  IF a.n = 6 THEN [ret |-> 0, bytes |-> [i \in 1..6 |-> LO8(a.v[i])]]
  ELSE [ret |-> -1, bytes |-> <<>>]

\* A handler that stores each address as soon as it is parsed.
parse_cmd_ip_SavesEach(args) ==
  LET ok(i) == i <= Len(args) /\ parse_ip(args[i]).ret = 0
      upto  == CHOOSE k \in 0..3 : (\A i \in 1..k : ok(i)) /\ (k < 3 => ~ok(k + 1))
      part  == [i \in 1..3 |-> IF i <= upto THEN parse_ip(args[i]).bytes ELSE ips[i]]
  IN [ret |-> IF upto = 3 THEN 0 ELSE -1, mac |-> mac, ips |-> part]

\* parse_cmd_ip: three addresses separated by blanks (a missing one is
\* cmd = NULL), each parsed into a local array; only when all three parse
\* is the configuration saved.
parse_cmd_ip(args) ==
  IF Len(args) < 3 \/ \E i \in 1..3 : parse_ip(args[i]).ret < 0
  THEN [ret |-> -1, mac |-> mac, ips |-> ips]
  ELSE eeprom_save_config(None, [i \in 1..3 |-> parse_ip(args[i]).bytes])

parse_cmd_mac(a) ==
  LET p == parse_mac(a)
  IN IF p.ret >= 0 THEN eeprom_save_config(p.bytes, None)
     ELSE [ret |-> p.ret, mac |-> mac, ips |-> ips]

\* What "show ip" and "show mac" print: the stored bytes.
parse_cmd_show_ip == ips
parse_cmd_show_mac == mac

AllBytes(a) == \A i \in DOMAIN a.v : a.v[i] < 256

IpCmd(args) ==
  LET r == parse_cmd_ip(args)
  IN /\ ips' = r.ips /\ mac' = r.mac
     /\ last' = [cmd |-> "ip", wide |-> \E i \in 1..Len(args) : ~AllBytes(args[i]),
                 ret |-> Dispatcher!Translate(r.ret)]
     /\ accepted' = IF r.ret = 0
                    THEN [accepted EXCEPT !.ips = IF \A i \in 1..3 : AllBytes(args[i])
                                                  THEN [i \in 1..3 |-> args[i].v]
                                                  ELSE None]
                    ELSE accepted
     /\ UNCHANGED <<ddr, io, said, wrote>>

MacCmd(a) ==
  LET r == parse_cmd_mac(a)
  IN /\ ips' = r.ips /\ mac' = r.mac
     /\ last' = [cmd |-> "mac", wide |-> ~AllBytes(a),
                 ret |-> Dispatcher!Translate(r.ret)]
     /\ accepted' = IF r.ret = 0
                    THEN [accepted EXCEPT !.mac = IF AllBytes(a) THEN a.v ELSE None]
                    ELSE accepted
     /\ UNCHANGED <<ddr, io, said, wrote>>

-----------------------------------------------------------------------------
(* "io set ddr" and "io set port": "%x %x %x", two fields mean mask 0xff. *)
IoSet(reg, port, data, m) ==
  LET mask == IF m = -1 THEN 255 ELSE m
  IN IF port < IO_PORTS
     THEN [ok |-> TRUE, reg |-> [reg EXCEPT ![port] =
                                  ClearBits(@, mask) | LO8(data & mask)]]
     ELSE [ok |-> FALSE, reg |-> reg]

\* Named pins of a port whose bit a write may have changed.
Touched(port, m) ==
  {<<port, q>> : q \in {q \in 0..7 : m = -1 \/ (Bit(q) & LO8(m)) # 0}}

\* What an accepted "io set" means for each watched bit: a bit of the mask
\* (every bit for the default mask) takes the value of that bit of data.
Wrote(reg, port, data, m, ok) ==
  [k \in DOMAIN wrote |->
     IF ok /\ k[1] = reg /\ k[2] = port /\ (m = -1 \/ (Bit(k[3]) & m) # 0)
     THEN IF (data & Bit(k[3])) # 0 THEN 1 ELSE 0
     ELSE wrote[k]]

IoSetDdr(port, data, mask) ==
  LET r == IoSet(ddr, port, data, mask)
  IN /\ ddr' = r.reg
     /\ last' = [cmd |-> "io set ddr", wide |-> FALSE,
                 ret |-> Dispatcher!Translate(IF r.ok THEN 0 ELSE -1)]
     /\ wrote' = Wrote("ddr", port, data, mask, r.ok)
     /\ UNCHANGED <<ips, mac, io, accepted, said>>

IoSetPort(port, data, mask) ==
  LET r == IoSet(io, port, data, mask)
  IN /\ io' = r.reg
     /\ last' = [cmd |-> "io set port", wide |-> FALSE,
                 ret |-> Dispatcher!Translate(IF r.ok THEN 0 ELSE -1)]
     /\ said' = [l \in DOMAIN said |->
                   IF r.ok /\ l \in Touched(port, mask) THEN "unknown" ELSE said[l]]
     /\ wrote' = Wrote("port", port, data, mask, r.ok)
     /\ UNCHANGED <<ips, mac, ddr, accepted>>

-----------------------------------------------------------------------------
(* "io get ddr", "io get port" and "io get pin": "%x" port, then           *)
(* snprintf "port %d: 0x%02x", 12 characters for a one-digit port.        *)
IoGetReply(reg, port) ==
  IF port < IO_PORTS THEN [ret |-> 12, val |-> reg[port]]
  ELSE [ret |-> -1, val |-> 0]

\* A getter that prints the other register, as its copied neighbour does.
parse_cmd_io_get_port_ReadsDdr(port) == IoGetReply(ddr, port)

parse_cmd_io_get_ddr(port) == IoGetReply(ddr, port)
parse_cmd_io_get_port(port) == IoGetReply(io, port)
parse_cmd_io_get_pin(port) == IoGetReply([p \in Ports |-> portio_input(p)], port)

IoGet(which, port) ==
  LET r == CASE which = "ddr"  -> parse_cmd_io_get_ddr(port)
             [] which = "port" -> parse_cmd_io_get_port(port)
             [] which = "pin"  -> parse_cmd_io_get_pin(port)
  IN /\ last' = [cmd |-> "io get " \o which, wide |-> FALSE,
                 ret |-> Dispatcher!Translate(r.ret), port |-> port, val |-> r.val]
     /\ UNCHANGED <<ips, mac, ddr, io, accepted, said, wrote>>

-----------------------------------------------------------------------------
(* "pin get", "pin set" and "pin toggle".  A pin argument is two numbers *)
(* [port, pin] or a name [name] for the named-pin fallback.               *)

PinRefs == {[port |-> p, pin |-> q] : p \in PortArgs, q \in PinArgs}
           \cup {[name |-> n] : n \in PinNames}

\* sscanf "%u %u", else the named-pin fallback: ret is 2 when a pin is found.
ResolvePin(a) ==
  IF "name" \notin DOMAIN a THEN [ret |-> 2, port |-> a.port, pin |-> a.pin]
  ELSE IF named_pin_by_name(a.name) # NoPin
       THEN [ret |-> 2, port |-> NamedPins[a.name].port,
                        pin |-> NamedPins[a.name].pin]
       ELSE [ret |-> 0, port |-> 0, pin |-> 0]

\* ret == 2 && port < IO_PORTS && pin < 8
PinOk(r) == r.ret = 2 /\ r.port < IO_PORTS /\ r.pin < 8
IsOutput(r) == (ddr[r.port] & Bit(r.pin)) # 0

\* The value of "pin set": "%u %u %u" takes a number only; after a name,
\* "%u", then the words "on" and "off".
PinSetValue(a, v) ==
  CASE "n" \in DOMAIN v                      -> [ok |-> TRUE, on |-> v.n]
    [] "name" \in DOMAIN a /\ v.w = "on"     -> [ok |-> TRUE, on |-> 1]
    [] "name" \in DOMAIN a /\ v.w = "off"    -> [ok |-> TRUE, on |-> 0]
    [] OTHER                                 -> [ok |-> FALSE, on |-> 0]

\* What "pin get" replies for a pin of the table's range.
parse_cmd_pin_get(port, pin) ==
  IF XOR_LOG(portio_input(port) & Bit(pin), 1 - ActiveHigh(port, pin))
  THEN "on" ELSE "off"

Reply(word) == CASE word = "on" -> 2 [] word = "off" -> 3 [] OTHER -> 19

PinGet(a) ==
  LET r == ResolvePin(a)
  IN /\ last' = [cmd |-> "pin get", wide |-> FALSE,
                 ret |-> Dispatcher!Translate(IF PinOk(r)
                           THEN Reply(parse_cmd_pin_get(r.port, r.pin)) ELSE -1)]
     /\ UNCHANGED <<ips, mac, ddr, io, accepted, said, wrote>>

\* Sets the pin's bit to on XOR !active_high, replies with on.
parse_cmd_pin_set(a, v) ==
  LET r == ResolvePin(a)
      val == PinSetValue(a, v)
      ah == ActiveHigh(r.port, r.pin)
  IN CASE ~(val.ok /\ PinOk(r)) -> [ret |-> -1, io |-> io]
       [] ~IsOutput(r)          -> [ret |-> Reply("input"), io |-> io]
       [] OTHER ->
            [ret |-> Reply(IF val.on # 0 THEN "on" ELSE "off"),
             io  |-> [io EXCEPT ![r.port] =
                        IF XOR_LOG(val.on, 1 - ah) THEN @ | Bit(r.pin)
                                                   ELSE ClearBits(@, Bit(r.pin))]]

\* A toggle that replies with the level the pin had before.
parse_cmd_pin_toggle_OldLevel(a) ==
  LET r == ResolvePin(a)
      on == io[r.port] & Bit(r.pin)
      ah == ActiveHigh(r.port, r.pin)
  IN CASE ~PinOk(r)     -> [ret |-> -1, io |-> io]
       [] ~IsOutput(r)  -> [ret |-> Reply("input"), io |-> io]
       [] OTHER ->
            [ret |-> Reply(IF XOR_LOG(on, 1 - ah) THEN "on" ELSE "off"),
             io  |-> [io EXCEPT ![r.port] =
                        IF on # 0 THEN ClearBits(@, Bit(r.pin)) ELSE @ | Bit(r.pin)]]

\* Flips the pin's bit, replies with the new level: !on XOR !active_high.
parse_cmd_pin_toggle(a) ==
  LET r == ResolvePin(a)
      on == io[r.port] & Bit(r.pin)
      ah == ActiveHigh(r.port, r.pin)
  IN CASE ~PinOk(r)     -> [ret |-> -1, io |-> io]
       [] ~IsOutput(r)  -> [ret |-> Reply("input"), io |-> io]
       [] OTHER ->
            [ret |-> Reply(IF XOR_LOG(IF on = 0 THEN 1 ELSE 0, 1 - ah) THEN "on" ELSE "off"),
             io  |-> [io EXCEPT ![r.port] =
                        IF on # 0 THEN ClearBits(@, Bit(r.pin)) ELSE @ | Bit(r.pin)]]

\* The reply of a set or toggle of an output pin, kept for the pin.
Said(a, ret) ==
  LET r == ResolvePin(a)
  IN IF ret \in {2, 3} THEN [said EXCEPT ![<<r.port, r.pin>>] =
                               IF ret = 2 THEN "on" ELSE "off"]
     ELSE said

\* A set or toggle that drove a pin leaves its bit of "io" unknown.
Unset == -1
Forget(a, ret) ==
  LET r == ResolvePin(a)
  IN IF ret \in {2, 3} /\ <<"port", r.port, r.pin>> \in DOMAIN wrote
     THEN [wrote EXCEPT ![<<"port", r.port, r.pin>>] = Unset]
     ELSE wrote

PinSet(a, v) ==
  LET res == parse_cmd_pin_set(a, v)
  IN /\ io' = res.io
     /\ said' = Said(a, res.ret)
     /\ last' = [cmd |-> "pin set", wide |-> FALSE,
                 ret |-> Dispatcher!Translate(res.ret)]
     /\ wrote' = Forget(a, res.ret)
     /\ UNCHANGED <<ips, mac, ddr, accepted>>

PinToggle(a) ==
  LET res == parse_cmd_pin_toggle(a)
  IN /\ io' = res.io
     /\ said' = Said(a, res.ret)
     /\ last' = [cmd |-> "pin toggle", wide |-> FALSE,
                 ret |-> Dispatcher!Translate(res.ret)]
     /\ wrote' = Forget(a, res.ret)
     /\ UNCHANGED <<ips, mac, ddr, accepted>>

-----------------------------------------------------------------------------
Init ==
  /\ ips = [i \in 1..3 |-> <<0, 0, 0, 0>>]
  /\ mac = <<0, 0, 0, 0, 0, 0>>
  /\ ddr = [p \in Ports |-> 0]
  /\ io = [p \in Ports |-> 0]
  /\ last = [cmd |-> "none", wide |-> FALSE, ret |-> 0]
  /\ accepted = [ips |-> ips, mac |-> mac]
  /\ said = [l \in Ports \X (0..7) |-> "unknown"]
  /\ wrote = [k \in {"ddr", "port"} \X Ports \X Watched |-> 0]

Next ==
  \/ \E args \in IpArgs : IpCmd(args)
  \/ \E a \in MacArgs : MacCmd(a)
  \/ \E p \in PortArgs, d \in Datas, m \in Masks :
       IoSetDdr(p, d, m) \/ IoSetPort(p, d, m)
  \/ \E a \in PinRefs : PinGet(a) \/ PinToggle(a)
  \/ \E a \in PinRefs, v \in PinValues : PinSet(a, v)
  \/ \E w \in {"ddr", "port", "pin"}, p \in PortArgs : IoGet(w, p)

Spec == Init /\ [][Next]_vars

-----------------------------------------------------------------------------
\* "show ip" and "show mac" report the values of the last "ip" and "mac"
\* command that was answered OK, whatever other commands, failed ones
\* included, came in between (spec §8): a rejected command leaves
\* the store alone and an accepted one stores every field it was given.
\* Only commands whose fields all fit a byte are compared.
ShowReportsLastAccepted ==
  /\ accepted.ips # None => parse_cmd_show_ip = accepted.ips
  /\ accepted.mac # None => parse_cmd_show_mac = accepted.mac

\* For an output pin, "pin get" reports what the last "pin set" or "pin
\* toggle" of that pin replied, through later commands on other pins and
\* "io set" writes whose mask leaves its bit alone; the reply and the
\* stored bit are both read through the pin's active_high.
PinReplyConsistent ==
  \A l \in DOMAIN said :
    said[l] # "unknown" /\ l[1] \in Ports /\ IsOutput([port |-> l[1], pin |-> l[2]])
      => parse_cmd_pin_get(l[1], l[2]) = said[l]

\* "io get ddr" and "io get port" print, for every watched bit, what the
\* last "io set ddr" or "io set port" whose mask covered the bit wrote
\* into it, through writes with other masks, to the other register and
\* pin commands on other pins; "io get pin" prints the port's bit where
\* the ddr makes the pin an output and 0 where it makes it an input.  This
\* is what the masked read-modify-write of parse_cmd_io_set_* and the three
\* copied getters must achieve together.
IoGetReportsLastWrites ==
  last.cmd \in {"io get ddr", "io get port", "io get pin"} /\ last.port \in Ports =>
    \A b \in Watched :
      LET shown  == IF (last.val & Bit(b)) # 0 THEN 1 ELSE 0
          w(reg) == wrote[<<reg, last.port, b>>]
      IN CASE last.cmd = "io get ddr"  -> shown = w("ddr")
           [] last.cmd = "io get port" -> w("port") # Unset => shown = w("port")
           [] OTHER -> /\ w("ddr") = 0 => shown = 0
                       /\ w("ddr") = 1 /\ w("port") # Unset => shown = w("port")

\* An "ip" or "mac" command with a field that does not fit a byte is
\* answered "parse error" (spec §8: "ip 999.1.1.1 ..." yields ParseError;
\* spec §6: a mac is a colon-separated sequence of hex bytes).  parse_ip
\* and parse_mac store each int field into a uint8_t unchecked.
AddressRejectsOutOfRange ==
  last.cmd \in {"ip", "mac"} /\ last.wide => last.ret = 12

====
