------------------------------- MODULE MC_Ecmd -------------------------------
(* Commands of up to four characters over a, A and b against every table *)
(* of up to three names of one or two lower-case characters: enough for  *)
(* names that are prefixes of each other, a name longer than the command, *)
(* upper-case input and non-empty remainders.                             *)
EXTENDS Ecmd

MCLowerOf(ch) == IF ch = "A" THEN "a" ELSE ch

\* OK, parse error, 7 bytes written, a handler-specific error, and a
\* continuation with 16 bytes written.
MCCodes == {0, -1, 7, -2, -26}
=============================================================================
