------------------------------ MODULE RecvQueue ------------------------------
(***************************************************************************)
(* A queue-drain command: parse_ir_receive (src/ecmd/ecmd.c 712-747), the  *)
(* "ir receive" handler that empties rc5_global's queue of received RC5    *)
(* codes, or parse_cmd_recv_fs20 (425-461), "fs20 receive", the same loop *)
(* over fs20_global's queue; and the receive interrupt that fills it.     *)
(* The two differ only in the length of a record, so a behaviour drains   *)
(* one of them, chosen at the start (recLen).                             *)
(*                                                                         *)
(* The handler writes records of recLen characters (with sprintf's        *)
(* terminating NUL, recLen + 1 bytes) while the next one fits the output  *)
(* buffer, then sets the queue length to 0, dropping what did not fit     *)
(* (spec 4.3: snapshot and clear).  The interrupt may fire between any    *)
(* two steps of the handler: each loop test, each record written and the  *)
(* final clear are steps of their own.  l and outlen are uint8_t and the  *)
(* loop test casts outlen + recLen to uint8_t, so they are kept mod 256.  *)
(*                                                                         *)
(* The interrupt is not in this repository's source: it is modelled from  *)
(* the spec (an event is appended while the queue is not full).  A        *)
(* record is the number of the event (1, 2, ...) in order of arrival.    *)
(***************************************************************************)
EXTENDS Integers, Sequences, SequencesExt

CONSTANTS
  RecLens,         \* record lengths of the handlers checked
  QueueLength,     \* the queue's capacity (RC5_QUEUE_LENGTH is 10)
  Lens,            \* output capacities the front end passes as len
  MaxEvents,       \* codes the interrupt receives
  IsrDuringDrain   \* the interrupt is enabled while the handler runs

ASSUME RecLens \subseteq Nat \ {0} /\ QueueLength \in Nat \ {0}
ASSUME Lens \subseteq Nat /\ MaxEvents \in Nat /\ IsrDuringDrain \in BOOLEAN

U8(x) == x % 256

\* Characters of one record: parse_ir_receive's "%02u%02u\n" of a 5-bit
\* address and a 6-bit code, parse_cmd_recv_fs20's "%02x%02x%02x%02x\n"
\* of four bytes.
IrRecLen == 5
Fs20RecLen == 9

VARIABLES
  recLen,    \* the handler: the length of its records
  queue,     \* rc5_global.queue[0 .. len - 1]
  arrived,   \* codes received so far
  pc,        \* the handler: "idle", "loop" (at the loop test) or "clear"
  l,         \* loop index
  outlen,    \* characters written
  buflen,    \* the len argument of the current call
  emitted,   \* records written by the current or last call
  backlog,   \* queue length the final loop test read
  lostWithRoom  \* records cleared although the loop stopped with room left

vars == <<recLen, queue, arrived, pc, l, outlen, buflen, emitted, backlog,
          lostWithRoom>>

-----------------------------------------------------------------------------
\* The front end calls the handler with an output capacity n.
DrainCall(n) ==
  /\ pc = "idle"
  /\ pc' = "loop" /\ l' = 0 /\ outlen' = 0 /\ buflen' = n
  /\ emitted' = <<>>
  /\ UNCHANGED <<recLen, queue, arrived, backlog, lostWithRoom>>

\* A loop test that lets the last record's NUL pass the buffer's end.
LoopCondOffByOne == l < Len(queue) /\ U8(outlen + recLen) <= buflen

\* The loop condition of line 722 (437-438 for fs20), read against the
\* current queue length.
LoopCond == l < Len(queue) /\ U8(outlen + recLen) < buflen

\* Lines 729-735 (442-452): write record l, advance.
DrainEmit ==
  /\ pc = "loop"
  /\ LoopCond
  /\ emitted' = Append(emitted, queue[l + 1])
  /\ l' = U8(l + 1)
  /\ outlen' = U8(outlen + recLen)
  /\ UNCHANGED <<recLen, queue, arrived, pc, buflen, backlog, lostWithRoom>>

\* The loop test fails: the handler leaves the loop.
DrainExit ==
  /\ pc = "loop"
  /\ ~LoopCond
  /\ pc' = "clear"
  /\ backlog' = Len(queue)
  /\ UNCHANGED <<recLen, queue, arrived, l, outlen, buflen, emitted,
                 lostWithRoom>>

\* Lines 743-746 (456-459): clear the queue and return outlen.
DrainClear ==
  /\ pc = "clear"
  /\ queue' = <<>>
  /\ pc' = "idle"
  /\ lostWithRoom' = lostWithRoom \cup
                       IF U8(outlen + recLen) < buflen
                       THEN ToSet(SubSeq(queue, l + 1, Len(queue))) ELSE {}
  /\ UNCHANGED <<recLen, arrived, l, outlen, buflen, emitted, backlog>>

\* The receive interrupt stores a code unless the queue is full.
Receive ==
  /\ arrived < MaxEvents
  /\ IsrDuringDrain \/ pc = "idle"
  /\ arrived' = arrived + 1
  /\ queue' = IF Len(queue) < QueueLength THEN Append(queue, arrived + 1)
                                          ELSE queue
  /\ UNCHANGED <<recLen, pc, l, outlen, buflen, emitted, backlog, lostWithRoom>>

Init ==
  /\ recLen \in RecLens
  /\ queue = <<>> /\ arrived = 0
  /\ pc = "idle" /\ l = 0 /\ outlen = 0 /\ buflen = 0
  /\ emitted = <<>> /\ backlog = 0 /\ lostWithRoom = {}

Next ==
  \/ \E n \in Lens : DrainCall(n)
  \/ DrainEmit \/ DrainExit \/ DrainClear
  \/ Receive

Spec == Init /\ [][Next]_vars

-----------------------------------------------------------------------------
\* Records whose line and NUL fit into n bytes, by the plain count.
Fit(n) == IF n > recLen THEN (n - 1) \div recLen ELSE 0

MinOf(a, b) == IF a <= b THEN a ELSE b

\* When the handler leaves its loop it has written as many of the queued
\* records as fit the buffer, and no more (spec §8: 12 queued records and
\* room for 5 give exactly 5); the written bytes and the NUL never pass
\* the end of the buffer (line 722).
DrainsWhatFits ==
  pc = "clear" =>
    /\ Len(emitted) = MinOf(backlog, Fit(buflen))
    /\ Len(emitted) > 0 => outlen + 1 <= buflen

\* A record is dropped only because it did not fit: a call whose loop
\* ended with room left clears no unwritten record (spec 4.3).
NoRecordLostWithRoom == lostWithRoom = {}

=============================================================================
