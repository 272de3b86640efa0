---------------------------- MODULE SecureChannel ----------------------------
(***************************************************************************)
(* What the TCP hook of src/net/handler.c promises the application in an  *)
(* AUTH build, stated without bytes, ciphers or segments: the AuthGate of *)
(* spec 4.1 and the delivery it gates.                                     *)
(*                                                                         *)
(* A connection goes New -> ChallengeSent -> Authenticated and may be     *)
(* aborted in any state; Aborted is terminal (spec 3).  It authenticates  *)
(* only when the peer has answered the challenge it was sent (vouched),  *)
(* and the application receives the peer's bytes only once it is          *)
(* authenticated, in order and never more than were sent; the bytes that *)
(* follow the response in its segment may arrive with the transition      *)
(* (spec 4.1, "data event while ChallengeSent").  Bytes are counted: the  *)
(* order and content of what is delivered is InboundIntegrity's concern   *)
(* in NetHandler.                                                          *)
(***************************************************************************)
EXTENDS Naturals

CONSTANT MaxSent   \* bytes the peer sends

VARIABLES
  auth_state,   \* "New", "ChallengeSent", "Authenticated" or "Aborted"
  vouched,      \* the peer has answered the challenge it was sent
  sent,         \* application bytes the peer has sent
  delivered     \* of these, the ones the application has received

cvars == <<auth_state, vouched, sent, delivered>>

Init ==
  /\ auth_state = "New" /\ vouched = FALSE
  /\ sent = 0 /\ delivered = 0

Connect ==
  /\ auth_state = "New"
  /\ auth_state' = "ChallengeSent"
  /\ UNCHANGED <<vouched, sent, delivered>>

\* The peer answers the challenge correctly.
Vouch ==
  /\ auth_state = "ChallengeSent" /\ ~vouched
  /\ vouched' = TRUE
  /\ UNCHANGED <<auth_state, sent, delivered>>

Send ==
  /\ auth_state # "Aborted" /\ sent < MaxSent
  /\ sent' = sent + 1
  /\ UNCHANGED <<auth_state, vouched, delivered>>

\* The gate opens; what followed the response may be delivered with it.
Authenticate ==
  /\ auth_state = "ChallengeSent" /\ vouched
  /\ auth_state' = "Authenticated"
  /\ delivered' \in delivered..sent
  /\ UNCHANGED <<vouched, sent>>

Deliver ==
  /\ auth_state = "Authenticated" /\ delivered < sent
  /\ delivered' \in delivered + 1..sent
  /\ UNCHANGED <<auth_state, vouched, sent>>

Abort ==
  /\ auth_state # "Aborted"
  /\ auth_state' = "Aborted"
  /\ UNCHANGED <<vouched, sent, delivered>>

Next == Connect \/ Vouch \/ Send \/ Authenticate \/ Deliver \/ Abort

\* A vouched peer is let in, and what it sent is delivered, unless the
\* connection is aborted first.
Spec == Init /\ [][Next]_cvars /\ WF_cvars(Authenticate) /\ WF_cvars(Deliver)

=============================================================================
