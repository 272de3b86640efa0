----------------------------- MODULE EcmdParse ------------------------------
(***************************************************************************)
(* The pure part of ecmd_parse_command (src/ecmd/ecmd.c 194-261): name     *)
(* matching, the table walk and the translation of the handler's return   *)
(* value.  A command and a table name are sequences of characters.        *)
(***************************************************************************)
EXTENDS Integers, Sequences

CONSTANTS
  Upper,       \* the characters with a lower-case counterpart
  LowerOf(_)   \* their lower-case counterpart (tolower)

ToLower(ch) == IF ch \in Upper THEN LowerOf(ch) ELSE ch

\* A comparison that forgets to ignore case (strncmp_P instead of
\* strncasecmp_P).
MatchesPrefixCaseSensitive(cmd, text) ==
  /\ Len(cmd) >= Len(text)
  /\ \A i \in 1..Len(text) : cmd[i] = text[i]

\* strncasecmp_P(cmd, text, strlen_P(text)) == 0: the comparison stops at
\* the command's terminating NUL, which differs from every character.
MatchesPrefix(cmd, text) ==
  /\ Len(cmd) >= Len(text)
  /\ \A i \in 1..Len(text) : ToLower(cmd[i]) = ToLower(text[i])

\* The loop of lines 214-243: the index of the matching entry, 0 when the
\* NULL sentinel is reached.
RECURSIVE Scan(_, _, _)
Scan(cmd, table, pos) ==
  IF pos > Len(table) THEN 0
  ELSE IF MatchesPrefix(cmd, table[pos]) THEN pos
  ELSE Scan(cmd, table, pos + 1)

\* Lines 252-258: -1 becomes the 12 bytes "parse error", 0 the 2 bytes
\* "OK"; any other value is returned as it is.
Translate(ret) ==
  CASE ret = -1 -> 12
    [] ret = 0  -> 2
    [] OTHER    -> ret

Text(ret) ==
  CASE ret = -1 -> "parse error"
    [] ret = 0  -> "OK"
    [] OTHER    -> "handler"

\* ecmd_parse_command: which handler ran (0: none), on what remainder, and
\* the value returned.  code is what the handler returns.
ecmd_parse_command(cmd, table, code) ==
  IF Len(cmd) <= 2
  THEN [handler |-> 0, rest |-> cmd, ret |-> 0, text |-> "none"]
  ELSE LET pos == Scan(cmd, table, 1)
           ret == IF pos = 0 THEN -1 ELSE code
       IN [handler |-> pos,
           rest    |-> IF pos = 0 THEN cmd
                       ELSE SubSeq(cmd, Len(table[pos]) + 1, Len(cmd)),
           ret     |-> Translate(ret),
           text    |-> Text(ret)]

=============================================================================
