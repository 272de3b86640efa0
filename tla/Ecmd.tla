-------------------------------- MODULE Ecmd --------------------------------
(***************************************************************************)
(* The command dispatcher ecmd_parse_command (src/ecmd/ecmd.c 194-261).    *)
(*                                                                         *)
(* A command is a sequence of characters; a table entry's name is the     *)
(* prefix it answers to.  The dispatcher rejects commands of two          *)
(* characters or less, walks the table up to its NULL sentinel comparing  *)
(* each name case-insensitively with the start of the command, calls the *)
(* handler of the first entry that matches with the rest of the command,  *)
(* and translates the handler's return value.  The handler's return value *)
(* is an input: handlers are modelled in their own modules.               *)
(*                                                                         *)
(* The dispatcher is a pure function (module EcmdParse); this module      *)
(* checks it by a state machine that dispatches every command of a        *)
(* bounded set against every table of a bounded set.                      *)
(***************************************************************************)
EXTENDS EcmdParse, SequencesExt

CONSTANTS
  Chars,       \* characters a command may contain
  NameChars,   \* characters a table name may contain
  MaxCmdLen,   \* longest command dispatched
  MaxNameLen,  \* longest table name
  MaxEntries,  \* longest table
  Codes        \* values a handler may return

-----------------------------------------------------------------------------
(* One call of the dispatcher: the table is fixed at start-up, the       *)
(* command and the handler's return value are any of the bounded sets.   *)

Names == UNION {[1..n -> NameChars] : n \in 1..MaxNameLen}
Tables == UNION {[1..n -> Names] : n \in 1..MaxEntries}
Commands == UNION {[1..n -> Chars] : n \in 0..MaxCmdLen}

VARIABLES table, cmd, code, reply

vars == <<table, cmd, code, reply>>

NoReply == [handler |-> 0, rest |-> <<>>, ret |-> 0, text |-> "pending"]

Init ==
  /\ table \in Tables
  /\ cmd \in Commands
  /\ code \in Codes
  /\ reply = NoReply

Dispatch ==
  /\ reply = NoReply
  /\ reply' = ecmd_parse_command(cmd, table, code)
  /\ UNCHANGED <<table, cmd, code>>

Next == Dispatch

Spec == Init /\ [][Next]_vars

TypeOK ==
  /\ table \in Tables
  /\ cmd \in Commands
  /\ reply.handler \in 0..Len(table)
  /\ reply.rest \in Commands
  /\ code \in Codes
  /\ reply.text \in {"pending", "none", "OK", "parse error", "handler"}

-----------------------------------------------------------------------------
\* The table's first entry, in stored order, whose name is a
\* case-insensitive prefix of the command (0 when there is none).
FirstMatch(c, t) ==
  LET hits == {i \in 1..Len(t) :
                 /\ Len(c) >= Len(t[i])
                 /\ [j \in 1..Len(t[i]) |-> ToLower(c[j])]
                    = [j \in 1..Len(t[i]) |-> ToLower(t[i][j])]}
  IN IF hits = {} THEN 0 ELSE CHOOSE i \in hits : \A j \in hits : i <= j

\* A command longer than two characters runs the handler of the first
\* entry whose name it starts with, case ignored, on the command with
\* exactly that name cut off; a shorter one runs no handler (ecmd.c
\* lines 201-250).
DispatchesFirstMatch ==
  reply # NoReply =>
    /\ reply.handler = (IF Len(cmd) <= 2 THEN 0 ELSE FirstMatch(cmd, table))
    /\ reply.handler # 0 =>
         /\ IsSuffix(reply.rest, cmd)
         /\ Len(reply.rest) = Len(cmd) - Len(table[reply.handler])

=============================================================================
