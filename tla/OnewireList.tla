----------------------------- MODULE OnewireList ----------------------------
(***************************************************************************)
(* The "1w list" command: the continuation-bearing handler                 *)
(* parse_onewire_list (src/ecmd/ecmd.c 489-571), the dispatcher's          *)
(* translation of its result (ecmd.c 249-260), the network front end that *)
(* re-invokes the command while the result asks for it, and the 1-Wire    *)
(* ROM search the handler drives.                                          *)
(*                                                                         *)
(* The handler keeps the search position and the flag ow_global.lock in   *)
(* process-wide state shared by every connection.  Each call of the       *)
(* handler runs to completion (one action); calls of different            *)
(* connections interleave between calls of a multi-call sequence.         *)
(*                                                                         *)
(* The front end and the ROM search are not in this repository's source: *)
(* they are modelled from the spec (4.2, 4.3, 5).  The front end emits    *)
(* the n bytes of a result r <= -10 (n = -r - 10) and calls the command   *)
(* again on its next turn; any other result ends the command.  The search *)
(* walks the devices of the bus in a fixed order: ow_search_rom_first     *)
(* yields the first, ow_search_rom_next the one after the current one,    *)
(* and 0 (starting over) after the last.                                  *)
(***************************************************************************)
EXTENDS Integers, Sequences, SequencesExt

CONSTANTS
  Conns,          \* connections that issue "1w list"
  Roms,           \* ROM codes of devices that may be on the bus
  MinDevices,     \* fewest devices on the bus
  MaxRequests,    \* "1w list" commands a connection issues
  SearchMayFail   \* a search may fail on the bus (result -1)

ASSUME MinDevices \in Nat /\ MaxRequests \in Nat \ {0}
ASSUME SearchMayFail \in BOOLEAN

Dispatcher == INSTANCE EcmdParse WITH Upper <- {}, LowerOf <- LAMBDA ch : ch

\* Length of the output the handler writes for one ROM (16 hex digits).
RomText == 16

VARIABLES
  bus,      \* the devices on the bus, in search order
  lock,     \* ow_global.lock
  cursor,   \* search position: index in bus of ow_global.current_rom, 0 none
  st,       \* per connection: "idle", "listing", "ok" or "error"
  out,      \* per connection: ROMs emitted by its current or last listing
            \* (the first Len(bus) + 1 of them: one more than a correct
            \* listing emits)
  requests  \* per connection: "1w list" commands issued

vars == <<bus, lock, cursor, st, out, requests>>

Buses == {b \in UNION {[1..n -> Roms] : n \in MinDevices..Cardinality(Roms)} :
            \A i, j \in DOMAIN b : i # j => b[i] # b[j]}

-----------------------------------------------------------------------------
(* The ROM search of the 1-Wire driver (spec-modelled).  fail: the bus    *)
(* reports an error, which also resets the search.                        *)
ow_search_rom_first(fail) ==
  CASE fail       -> [ret |-> -1, cursor |-> 0]
    [] bus = <<>> -> [ret |-> 0, cursor |-> 0]
    [] OTHER      -> [ret |-> 1, cursor |-> 1]

ow_search_rom_next(fail) ==
  CASE fail              -> [ret |-> -1, cursor |-> 0]
    [] cursor < Len(bus) -> [ret |-> 1, cursor |-> cursor + 1]
    [] OTHER             -> [ret |-> 0, cursor |-> 0]

\* Variants with a plausible coding error: the lock is never consulted, so
\* every call starts a new search; the end of the search leaves the lock
\* set.
parse_onewire_list_NoLockCheck(fail) ==
  LET s == ow_search_rom_first(fail)
  IN CASE s.ret <= 0 -> [ret |-> 0, lock |-> 1, cursor |-> s.cursor]
       [] OTHER     -> [ret |-> -RomText - 10, lock |-> 1, cursor |-> s.cursor]

\* parse_onewire_list: start a search if the lock is free, else continue
\* it; a device found is written out and reported as a continuation
\* (-16 - 10), the end of the search frees the lock and reports 0.
parse_onewire_list(fail) ==
  LET first == lock = 0
      s     == IF first THEN ow_search_rom_first(fail)
                        ELSE ow_search_rom_next(fail)
  IN CASE first /\ s.ret <= 0 -> [ret |-> 0, lock |-> 1, cursor |-> s.cursor]
       [] s.ret = 1 -> [ret |-> -RomText - 10, lock |-> 1, cursor |-> s.cursor]
       [] s.ret = 0 -> [ret |-> 0, lock |-> 0, cursor |-> s.cursor]
       [] OTHER     -> [ret |-> -1, lock |-> lock, cursor |-> s.cursor]

\* One call of the command by connection c, through the dispatcher, and
\* what the front end does with the result; prev is what the listing has
\* emitted before this call.
ListCall(c, prev) ==
  \E fail \in IF SearchMayFail THEN BOOLEAN ELSE {FALSE} :
    LET h   == parse_onewire_list(fail)
        ret == Dispatcher!Translate(h.ret)
    IN /\ lock' = h.lock
       /\ cursor' = h.cursor
       /\ st' = [st EXCEPT ![c] = CASE ret <= -10 -> "listing"
                                    [] ret = 2    -> "ok"
                                    [] OTHER      -> "error"]
       /\ out' = [out EXCEPT ![c] = IF ret <= -10 /\ Len(prev) <= Len(bus)
                                   THEN Append(prev, bus[h.cursor]) ELSE prev]

-----------------------------------------------------------------------------
\* A connection issues "1w list".
Request(c) ==
  /\ st[c] # "listing"
  /\ requests[c] < MaxRequests
  /\ requests' = [requests EXCEPT ![c] = @ + 1]
  /\ ListCall(c, <<>>)
  /\ UNCHANGED bus

\* The front end calls the command again on its next turn.
Continue(c) ==
  /\ st[c] = "listing"
  /\ ListCall(c, out[c])
  /\ UNCHANGED <<bus, requests>>

\* The connection closes in the middle of a listing: nothing calls the
\* handler for it again.
HangUp(c) ==
  /\ st[c] = "listing"
  /\ st' = [st EXCEPT ![c] = "idle"]
  /\ UNCHANGED <<bus, lock, cursor, out, requests>>

Init ==
  /\ bus \in Buses
  /\ lock = 0
  /\ cursor = 0
  /\ st = [c \in Conns |-> "idle"]
  /\ out = [c \in Conns |-> <<>>]
  /\ requests = [c \in Conns |-> 0]

Next == \E c \in Conns : Request(c) \/ Continue(c)

Spec == Init /\ [][Next]_vars

\* Connections that may also close in the middle of a listing.
NextWithHangUp == Next \/ \E c \in Conns : HangUp(c)

SpecWithHangUp == Init /\ [][NextWithHangUp]_vars

-----------------------------------------------------------------------------
TypeOK ==
  /\ bus \in Buses
  /\ lock \in {0, 1}
  /\ cursor \in 0..Len(bus)
  /\ st \in [Conns -> {"idle", "listing", "ok", "error"}]
  /\ out \in [Conns -> Seq(Roms)]
  /\ requests \in [Conns -> 0..MaxRequests]

\* What a connection's listing has emitted is always the bus's devices from
\* the first one on, each once and in search order, and a listing that
\* ends with "OK" has emitted every device: the search position kept
\* between calls belongs to this listing (ecmd.c 493-526, spec 4.3).
ListIsBusPrefix ==
  \A c \in Conns :
    /\ IsPrefix(out[c], bus)
    /\ st[c] = "ok" => out[c] = bus

\* When no listing is in progress the lock is free, so the next "1w list"
\* starts a new search (spec 4.3: the flag is released exactly when a
\* terminal code is returned).
LockFreeWhenIdle ==
  (\A c \in Conns : st[c] # "listing") => lock = 0

=============================================================================
