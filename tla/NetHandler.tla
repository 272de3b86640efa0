----------------------------- MODULE NetHandler -----------------------------
(***************************************************************************)
(* The TCP hook network_handle_tcp (src/net/handler.c) of one connection,  *)
(* together with the remote peer and the link between them.               *)
(*                                                                         *)
(* uIP calls the hook once per event of the connection: the completed     *)
(* handshake (connected, possibly with data), new data, a retransmission  *)
(* request and the periodic poll.  The hook runs, in this order, the RC4  *)
(* inbound stage, the challenge/response stage, the application callback  *)
(* and the RC4 outbound stage; an abort returns at once, "goto auth_out"  *)
(* skips only the callback.  Each event is one atomic action (uIP runs    *)
(* the hook to completion).                                                *)
(*                                                                         *)
(* Bytes are records [k, v, p]: the kind of the byte (IV, challenge,      *)
(* response, application byte, or garbage once it has been deciphered    *)
(* at the wrong keystream position), the value it carries (a challenge or *)
(* the index of an application byte) and the RC4 keystream position it   *)
(* was enciphered at (-1 for a byte sent in clear).  Deciphering at       *)
(* position q gives the clear byte back exactly when p = q.  The literal   *)
(* 8 of the code (IV length, challenge length) is the constant BlockLen.  *)
(* The block cipher that turns a challenge into the expected response is  *)
(* a bijection, so a response is represented by the challenge it answers. *)
(***************************************************************************)
EXTENDS Integers, Sequences, SequencesExt

CONSTANTS
  RC4_SUPPORT,   \* build option: RC4 stream encryption of the connection
  AUTH_SUPPORT,  \* build option: challenge/response authentication
  BlockLen,      \* the 8 bytes of an IV, a challenge and a response
  Challenges,    \* values rand() can give a challenge
  NoValue,       \* value of a byte that carries neither challenge nor index
  MaxApp,        \* application bytes the peer sends
  MaxReplies,    \* segments the device's application sends
  MaxLoss,       \* device segments the link loses
  PeerMayCheat   \* the peer may answer the challenge wrongly

ASSUME BlockLen \in Nat \ {0}
ASSUME NoValue \notin Challenges
ASSUME {RC4_SUPPORT, AUTH_SUPPORT, PeerMayCheat} \subseteq BOOLEAN

VARIABLES
  conn,                  \* "listen", "open" or "aborted"
  inbound_initialized,   \* uip_conn->rc4_flags.inbound_initialized
  outbound_initialized,  \* uip_conn->rc4_flags.outbound_initialized
  inPos,                 \* position of the inbound RC4 keystream
  outPos,                \* position of the outbound RC4 keystream
  auth_okay,             \* uip_conn->auth_okay
  auth_challenge,        \* uip_conn->appstate.auth_challenge
  appIn,                 \* bytes the application callback has received
  appReplies,            \* segments the application has sent
  lastAppOut,            \* clear text of the application's last segment
  appCalledUnauth,       \* history: callback ran on an unauthenticated connection
  wire,                  \* the device's unacknowledged segment
  losses,                \* device segments lost so far
  pPending,              \* bytes the peer has written, not yet read by uIP
  pIVSent, pResp, pAppSent, pOutPos,   \* the peer's sending side
  pInInit, pInPos, pChal, pGarbled     \* the peer's receiving side

device == <<conn, inbound_initialized, outbound_initialized, inPos, outPos,
            auth_okay, auth_challenge>>
app    == <<appIn, appReplies, lastAppOut, appCalledUnauth>>
peer   == <<pPending, pIVSent, pResp, pAppSent, pOutPos, pInInit, pInPos,
            pChal, pGarbled>>
vars   == <<device, app, wire, losses, peer>>

Kinds == {"iv", "chal", "resp", "app", "garbage"}
Byte(k, v) == [k |-> k, v |-> v, p |-> -1]
Garbage == Byte("garbage", NoValue)
Block(k, v) == [i \in 1..BlockLen |-> Byte(k, v)]
IVBytes == Block("iv", NoValue)
AppByte(i) == Byte("app", i)

\* rc4_crypt_char over a byte string starting at keystream position pos
Encrypt(s, pos) == [i \in DOMAIN s |-> [s[i] EXCEPT !.p = pos + i - 1]]
Decrypt(s, pos) == [i \in DOMAIN s |->
                      IF s[i].p = pos + i - 1 THEN [s[i] EXCEPT !.p = -1]
                                               ELSE Garbage]

Take(s, n) == SubSeq(s, 1, n)
Drop(s, n) == SubSeq(s, n + 1, Len(s))

-----------------------------------------------------------------------------
(***************************************************************************)
(* The hook, stage by stage, on a frame holding uIP's per-call flags,     *)
(* uip_appdata/uip_len (data), uip_sappdata/uip_slen (send) and the       *)
(* connection's fields.                                                    *)
(***************************************************************************)
Frame(connected, newdata, rexmit, data) ==
  [connected |-> connected, newdata |-> newdata, rexmit |-> rexmit,
   data |-> data, send |-> <<>>, abort |-> FALSE, skipApp |-> FALSE,
   inInit |-> inbound_initialized, outInit |-> outbound_initialized,
   inPos |-> inPos, outPos |-> outPos, authOkay |-> auth_okay,
   challenge |-> auth_challenge]

(* Each stage below is preceded by variants with a plausible coding     *)
(* error (a dropped guard, a miscount, a missing strip); the properties   *)
(* of this module fail for them.                                          *)

\* Lines 72-76: a new connection starts both keystreams afresh.
RC4Reset(f) ==
  IF f.connected THEN [f EXCEPT !.inInit = FALSE, !.outInit = FALSE] ELSE f

RC4ConsumeIVKeepsIV(g) ==
  IF g.inInit \/ ~g.newdata THEN g
  ELSE IF Len(g.data) < BlockLen THEN [g EXCEPT !.abort = TRUE]
  ELSE [g EXCEPT !.inInit = TRUE, !.inPos = 0]

\* Lines 78-97: the first BlockLen bytes the peer sends seed the inbound
\* keystream and are hidden from the application; fewer bytes abort.
RC4ConsumeIV(g) ==
  IF g.inInit \/ ~g.newdata THEN g
  ELSE IF Len(g.data) < BlockLen THEN [g EXCEPT !.abort = TRUE]
  ELSE [g EXCEPT !.inInit = TRUE, !.inPos = 0,
                 !.data = IF Len(g.data) > BlockLen
                          THEN Drop(g.data, BlockLen) ELSE g.data,
                 !.newdata = Len(g.data) > BlockLen]

RC4RefuseRexmitNever(h) == h

\* Lines 99-104: the outbound keystream cannot be rewound, so a
\* retransmission aborts the connection.
RC4RefuseRexmit(h) == IF h.rexmit THEN [h EXCEPT !.abort = TRUE] ELSE h

\* Lines 106-113: decipher the new data in place.
RC4Decipher(h) ==
  IF h.newdata THEN [h EXCEPT !.data = Decrypt(h.data, h.inPos),
                              !.inPos = h.inPos + Len(h.data)]
  ELSE h

\* Lines 71-114: the RC4 inbound stage; an abort returns at once.
RC4Inbound(f) ==
  IF ~RC4_SUPPORT THEN f ELSE
  LET h == RC4ConsumeIV(RC4Reset(f))
  IN IF h.abort THEN h
     ELSE LET k == RC4RefuseRexmit(h)
          IN IF k.abort THEN k ELSE RC4Decipher(k)

ResponseOkLengthOnly(f) == Len(f.data) >= BlockLen

\* Lines 149-174: at least BlockLen bytes, the first of which are the
\* enciphered challenge.
ResponseOk(f) ==
  /\ Len(f.data) >= BlockLen
  /\ Take(f.data, BlockLen) = Block("resp", f.challenge)

StripResponseKeeps(f) ==
  [f EXCEPT !.authOkay = TRUE, !.connected = TRUE]

StripResponseDropsRest(f) ==
  [f EXCEPT !.authOkay = TRUE, !.data = Drop(f.data, BlockLen),
            !.newdata = FALSE, !.connected = TRUE]

\* Lines 176-188: authenticated; strip the response, keep the new-data
\* flag only if bytes remain, and report the connection as new.
StripResponse(f) ==
  [f EXCEPT !.authOkay = TRUE, !.data = Drop(f.data, BlockLen),
            !.newdata = Len(f.data) > BlockLen, !.connected = TRUE]

\* Lines 116-192: send a fresh challenge on connect, resend the stored one
\* on retransmission, check the response; "goto auth_out" skips the
\* application.
AuthStage(f, c) ==
  IF ~AUTH_SUPPORT \/ f.abort THEN f ELSE
  CASE f.connected /\ f.newdata -> [f EXCEPT !.authOkay = FALSE, !.abort = TRUE]
    [] f.connected -> [f EXCEPT !.authOkay = FALSE, !.challenge = c,
                                !.send = Block("chal", c), !.skipApp = TRUE]
    [] f.authOkay -> f
    [] f.rexmit -> [f EXCEPT !.send = Block("chal", f.challenge),
                             !.skipApp = TRUE]
    [] f.newdata -> IF ResponseOk(f) THEN StripResponse(f)
                    ELSE [f EXCEPT !.abort = TRUE]
    [] OTHER -> f

\* Lines 195-217: the application callback, unless the hook skipped it.
\* On a retransmission the application regenerates its last segment,
\* otherwise it may hand a reply to uip_send.
AppRuns(f) == ~f.abort /\ ~f.skipApp
Callback(f, reply) ==
  IF ~AppRuns(f) THEN f
  ELSE [f EXCEPT !.send = IF f.rexmit THEN lastAppOut ELSE reply]

RC4OutboundIVMiscount(f) ==
  IF ~RC4_SUPPORT \/ f.abort THEN f
  ELSE IF ~f.outInit
  THEN [f EXCEPT !.send = IVBytes \o Encrypt(f.send, 0),
                 !.outPos = Len(f.send) - BlockLen, !.outInit = TRUE]
  ELSE [f EXCEPT !.send = Encrypt(f.send, f.outPos),
                 !.outPos = f.outPos + Len(f.send)]

\* Lines 219-248: on the first call prepend a clear IV and start the
\* outbound keystream, then encipher what is to be sent.
RC4Outbound(f) ==
  IF ~RC4_SUPPORT \/ f.abort THEN f
  ELSE IF ~f.outInit
  THEN [f EXCEPT !.send = IVBytes \o Encrypt(f.send, 0),
                 !.outPos = Len(f.send), !.outInit = TRUE]
  ELSE [f EXCEPT !.send = Encrypt(f.send, f.outPos),
                 !.outPos = f.outPos + Len(f.send)]

network_handle_tcp(f, c, reply) ==
  RC4Outbound(Callback(AuthStage(RC4Inbound(f), c), reply))

\* The replies the application may hand to uip_send in this call: uIP
\* takes new data only when the previous segment has been acknowledged.
Replies ==
  {<<>>} \cup IF appReplies < MaxReplies /\ wire.st = "none"
              THEN {<<AppByte(appReplies + 1)>>} ELSE {}

\* One call of the hook on event frame f, and its effect on the state.
Handle(f) ==
  \E c \in Challenges, reply \in Replies :
    LET r == network_handle_tcp(f, c, reply) IN
    /\ conn' = IF r.abort THEN "aborted" ELSE "open"
    /\ inbound_initialized' = r.inInit
    /\ outbound_initialized' = r.outInit
    /\ inPos' = r.inPos
    /\ outPos' = r.outPos
    /\ auth_okay' = r.authOkay
    /\ auth_challenge' = r.challenge
    /\ appIn' = IF AppRuns(r) /\ r.newdata THEN appIn \o r.data ELSE appIn
    /\ appReplies' = IF AppRuns(r) /\ reply # <<>> /\ ~r.rexmit
                     THEN appReplies + 1 ELSE appReplies
    /\ lastAppOut' = IF AppRuns(r) /\ reply # <<>> /\ ~r.rexmit
                     THEN reply ELSE lastAppOut
    /\ appCalledUnauth' = (appCalledUnauth \/ (AppRuns(r) /\ AUTH_SUPPORT
                                                /\ ~r.authOkay))
    /\ wire' = CASE r.abort -> [st |-> "none", seg |-> <<>>]
                 [] r.send # <<>> -> [st |-> "inflight", seg |-> r.send]
                 [] OTHER -> wire

-----------------------------------------------------------------------------
(* uIP events of the connection *)

\* The handshake completes; the segment that completes it may carry data.
Connected(n) ==
  /\ conn = "listen"
  /\ Handle(Frame(TRUE, n > 0, FALSE, Take(pPending, n)))
  /\ pPending' = Drop(pPending, n)
  /\ UNCHANGED <<losses, pIVSent, pResp, pAppSent, pOutPos, pInInit, pInPos,
                 pChal, pGarbled>>

\* uIP hands the next n bytes of the stream to the hook.
NewData(n) ==
  /\ conn = "open"
  /\ Handle(Frame(FALSE, TRUE, FALSE, Take(pPending, n)))
  /\ pPending' = Drop(pPending, n)
  /\ UNCHANGED <<losses, pIVSent, pResp, pAppSent, pOutPos, pInInit, pInPos,
                 pChal, pGarbled>>

\* The retransmission timer of the lost segment fires.
Rexmit ==
  /\ conn = "open"
  /\ wire.st = "lost"
  /\ Handle(Frame(FALSE, FALSE, TRUE, <<>>))
  /\ UNCHANGED <<losses, peer>>

\* uip_periodic polls the connection.
Poll ==
  /\ conn = "open"
  /\ Handle(Frame(FALSE, FALSE, FALSE, <<>>))
  /\ UNCHANGED <<losses, peer>>

(* the link *)

Lose ==
  /\ conn = "open"
  /\ wire.st = "inflight"
  /\ losses < MaxLoss
  /\ wire' = [wire EXCEPT !.st = "lost"]
  /\ losses' = losses + 1
  /\ UNCHANGED <<device, app, peer>>

(* the peer *)

PeerWrite(bytes) == pPending' = pPending \o bytes

\* The peer's enciphering of what it writes.
PeerSeal(bytes) ==
  IF RC4_SUPPORT THEN Encrypt(bytes, pOutPos) ELSE bytes
PeerAdvance(bytes) ==
  pOutPos' = IF RC4_SUPPORT THEN pOutPos + Len(bytes) ELSE pOutPos

PeerSendIV ==
  /\ RC4_SUPPORT /\ ~pIVSent /\ conn # "aborted"
  /\ PeerWrite(IVBytes)
  /\ pIVSent' = TRUE
  /\ UNCHANGED <<device, app, wire, losses, pResp, pAppSent, pOutPos, pInInit,
                 pInPos, pChal, pGarbled>>

\* An honest peer answers the challenge it read; a cheating one sends a
\* response to no challenge.
PeerSendResp ==
  /\ AUTH_SUPPORT /\ pResp = "none" /\ conn # "aborted"
  /\ RC4_SUPPORT => pIVSent
  /\ \/ /\ pChal # NoValue
        /\ PeerWrite(PeerSeal(Block("resp", pChal)))
        /\ pResp' = "ok"
     \/ /\ PeerMayCheat
        /\ PeerWrite(PeerSeal(Block("resp", NoValue)))
        /\ pResp' = "bad"
  /\ PeerAdvance(Block("resp", NoValue))
  /\ UNCHANGED <<device, app, wire, losses, pIVSent, pAppSent, pInInit,
                 pInPos, pChal, pGarbled>>

PeerSendApp ==
  /\ pAppSent < MaxApp /\ conn # "aborted"
  /\ RC4_SUPPORT => pIVSent
  /\ AUTH_SUPPORT => pResp # "none"
  /\ PeerWrite(PeerSeal(<<AppByte(pAppSent + 1)>>))
  /\ PeerAdvance(<<AppByte(pAppSent + 1)>>)
  /\ pAppSent' = pAppSent + 1
  /\ UNCHANGED <<device, app, wire, losses, pIVSent, pResp, pInInit, pInPos,
                 pChal, pGarbled>>

\* The peer receives (and acknowledges) the device's segment: under RC4
\* the first BlockLen bytes of the stream seed its keystream.
PeerReceive ==
  /\ conn = "open"
  /\ wire.st = "inflight"
  /\ LET s    == wire.seg
         seed == ~pInInit /\ RC4_SUPPORT
         body == IF seed THEN Drop(s, BlockLen) ELSE s
         pos  == IF seed THEN 0 ELSE pInPos
         clr  == IF RC4_SUPPORT THEN Decrypt(body, pos) ELSE body
         chal == SelectSeq(clr, LAMBDA b : b.k = "chal")
     IN /\ pInInit' = (pInInit \/ RC4_SUPPORT)
        /\ pInPos' = pos + Len(body)
        /\ pGarbled' = \/ pGarbled
                       \/ seed /\ (Len(s) < BlockLen \/ Take(s, BlockLen) # IVBytes)
                       \/ \E i \in DOMAIN clr : clr[i].k = "garbage"
        /\ pChal' = IF chal # <<>> THEN chal[1].v ELSE pChal
  /\ wire' = [st |-> "none", seg |-> <<>>]
  /\ UNCHANGED <<device, app, losses, pPending, pIVSent, pResp, pAppSent,
                 pOutPos>>

-----------------------------------------------------------------------------
Init ==
  /\ conn = "listen"
  /\ inbound_initialized = FALSE /\ outbound_initialized = FALSE
  /\ inPos = 0 /\ outPos = 0
  /\ auth_okay = FALSE /\ auth_challenge = NoValue
  /\ appIn = <<>> /\ appReplies = 0 /\ lastAppOut = <<>>
  /\ appCalledUnauth = FALSE
  /\ wire = [st |-> "none", seg |-> <<>>]
  /\ losses = 0
  /\ pPending = <<>> /\ pIVSent = FALSE /\ pResp = "none" /\ pAppSent = 0
  /\ pOutPos = 0 /\ pInInit = FALSE /\ pInPos = 0 /\ pChal = NoValue
  /\ pGarbled = FALSE

DeviceNext ==
  \/ \E n \in 0..Len(pPending) : Connected(n)
  \/ \E n \in 1..Len(pPending) : NewData(n)
  \/ Rexmit
  \/ Poll

Next ==
  \/ DeviceNext
  \/ Lose
  \/ PeerSendIV \/ PeerSendResp \/ PeerSendApp \/ PeerReceive

\* uIP reads every segment that arrives and the link delivers what it does
\* not lose; the retransmission timer fires.  The peer need not write.
Fairness ==
  /\ WF_vars(\E n \in 0..Len(pPending) : Connected(n))
  /\ WF_vars(\E n \in 1..Len(pPending) : NewData(n))
  /\ WF_vars(Rexmit)
  /\ WF_vars(PeerReceive)

Spec == Init /\ [][Next]_vars /\ Fairness

-----------------------------------------------------------------------------
ByteT == [k : Kinds, v : Challenges \cup {NoValue} \cup Nat, p : Int]

TypeOK ==
  /\ conn \in {"listen", "open", "aborted"}
  /\ {inbound_initialized, outbound_initialized, auth_okay, appCalledUnauth,
      pIVSent, pInInit, pGarbled} \subseteq BOOLEAN
  /\ {inPos, outPos, pOutPos, pInPos} \subseteq Nat
  /\ auth_challenge \in Challenges \cup {NoValue}
  /\ appIn \in Seq(ByteT) /\ lastAppOut \in Seq(ByteT)
  /\ appReplies \in 0..MaxReplies /\ losses \in 0..MaxLoss
  /\ wire \in [st : {"none", "inflight", "lost"}, seg : Seq(ByteT)]
  /\ pPending \in Seq(ByteT)
  /\ pResp \in {"none", "ok", "bad"} /\ pAppSent \in 0..MaxApp
  /\ pChal \in Challenges \cup {NoValue}

\* The application receives exactly the peer's application bytes, in
\* order, deciphered at the right keystream position: the IV and the
\* challenge response consumed by the hook never reach it, and nothing is
\* lost or garbled between the RC4 stage, the response strip and the
\* callback (handler.c lines 78-113 and 176-188).
InboundIntegrity ==
  appIn = [i \in 1..Len(appIn) |-> AppByte(i)]

\* The application never receives a byte from a peer that has not
\* answered the challenge this connection sent (handler.c lines 140-190).
AppDataOnlyFromAuthenticatedPeer ==
  AUTH_SUPPORT /\ appIn # <<>> => pResp = "ok"

\* Every byte the peer deciphers is deciphered at the keystream position
\* the device enciphered it at: the outbound RC4 stream is never reused or
\* skipped, in particular not by regenerating a lost segment (handler.c
\* lines 99-104 and 219-246).
PeerNeverDesynchronised == ~pGarbled

\* Every application byte the peer sends eventually reaches the
\* application, unless the hook has aborted the connection.
PeerDataDelivered ==
  \A k \in 1..MaxApp :
    (pAppSent >= k) ~> (Len(appIn) >= k \/ conn = "aborted")

\* The hook lets nothing through to the application before the peer has
\* authenticated (the comment at handler.c line 141).
AppNotCalledBeforeAuth == ~appCalledUnauth

\* The AuthGate state of spec 4.1 that the connection's fields encode.
AuthState ==
  CASE conn = "aborted" -> "Aborted"
    [] conn = "listen"  -> "New"
    [] auth_okay        -> "Authenticated"
    [] OTHER            -> "ChallengeSent"

\* The abstract channel, seen through the hook's and the peer's state (an
\* AUTH build: the peer vouches by sending the right response).
Channel == INSTANCE SecureChannel
             WITH MaxSent <- MaxApp, auth_state <- AuthState,
                  vouched <- (pResp = "ok"), sent <- pAppSent,
                  delivered <- Len(appIn)

\* The hook implements the AuthGate: it opens only for a peer that
\* answered the challenge it was sent, is never re-opened after an abort,
\* passes the application no more than the peer sent and nothing before
\* the gate opens, and, under uIP's fairness, lets a vouched peer in and
\* delivers what it sends unless it aborts (handler.c 116-217, spec 4.1).
SecureChannelRefined == Channel!Spec

=============================================================================
