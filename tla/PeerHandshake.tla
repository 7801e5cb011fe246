--------------------------- MODULE PeerHandshake ---------------------------
(***************************************************************************)
(* The two Peer objects (src/internal/peer/peer.go) that two agents keep   *)
(* for each other: Noise XX over the direct and the relay path, driven by  *)
(* each side's Run ticker and by the frames the agents dispatch.  The peer *)
(* with the smaller ID is the initiator; only it sends HS1 and HS3.        *)
(*                                                                         *)
(* A Noise handshake is the pair of ephemerals it mixes: <<a, b>> names    *)
(* the transcript, hence the session keys.  Message 2 opens only for the   *)
(* initiator that sent ephemeral a, message 3 only for the responder that  *)
(* answered a with b.                                                      *)
(*                                                                         *)
(* Run takes its decisions on a snapshot made under p.mu and carries them  *)
(* out after unlocking, each under a lock of its own: tick[p] holds the    *)
(* snapshot, and any frame may be handled between two of the steps.        *)
(*                                                                         *)
(* Timers are not clocked: a timer that has been armed may have run out    *)
(* whenever it is read.  fuel bounds how often that happens.               *)
(***************************************************************************)
EXTENDS Integers

CONSTANTS HasRelay,   \* a relay server is configured (RelayAddr() # nil)
          InitEP,     \* per peer: the coordinator listed a direct endpoint
          MaxEph,     \* bound: ephemerals generated per peer
          Fuels       \* bounds: how often each kind of rare event happens per peer

I == "initiator"
R == "responder"
Peers == {I, R}
Other(p) == IF p = I THEN R ELSE I

Paths == {"direct", "relay"}
PathNone == "none"

Kinds == {"timeout", "roam", "rotate", "restart"}

ASSUME HasRelayAssumption == HasRelay \in BOOLEAN
ASSUME InitEPAssumption == InitEP \in [Peers -> BOOLEAN]
ASSUME MaxEphAssumption == MaxEph \in Nat
ASSUME FuelAssumption == Fuels \subseteq [Peers -> [Kinds -> Nat]]

Ephs == 1 .. MaxEph
Nil == 0

\* The initiator's ephemeral, and the one NewResponder answered it with.
Session == Ephs \X Ephs
NoSession == <<Nil, Nil>>

Messages ==
  [type : {"HS1"}, to : {R}, path : Paths, hs : Ephs \X {Nil}]
    \cup [type : {"HS2"}, to : {I}, path : Paths, hs : Session]
    \cup [type : {"HS3"}, to : {R}, path : Paths, hs : Session]
    \cup [type : {"DATA"}, to : Peers, path : Paths, hs : Session]

VARIABLES mode,         \* path the handshake is attempted on
          path,         \* path established data flows over
          established,
          sess,         \* the installed session
          directEP,     \* DirectEP # nil
          tick,         \* where Run's loop is, and the snapshot it acts on
          initiatorHS,  \* the initiator's handshake: its ephemeral and phase
          hs1Frame,     \* the ephemeral in the cached HS1
          hs3Frame,     \* the handshake of the cached HS3
          hs3Pending,
          responder,    \* the half-open handshake of the responder
          hs1Msg,       \* the ephemeral of the HS1 it accepted
          hs2Frame,     \* the handshake of the cached HS2
          net,          \* every datagram sent so far: any may arrive, ever
          ephs,         \* ephemerals generated so far
          fuel,
          installed,    \* history: <<p, s>> when p installed session s
          reinstalled   \* history: some p installed some s a second time

initVars == <<initiatorHS, hs1Frame, hs3Frame, hs3Pending>>
respVars == <<responder, hs1Msg, hs2Frame>>
sessVars == <<mode, path, established, sess, installed, reinstalled>>
vars == <<sessVars, directEP, tick, initVars, respVars, net, ephs, fuel>>

-----------------------------------------------------------------------------
NoHS == [eph |-> Nil, phase |-> "start"]

\* pc: "new" before Run set the mode; "wait" for the ticker; "acting" after the
\* snapshot; "main" after resendHS3; "switch" after punch; "exited".
Snap(pc, p) ==
  [pc |-> pc, est |-> established[p], mode |-> mode[p], path |-> path[p],
   ep |-> directEP[p], hs3 |-> p = I /\ hs3Pending]

NoSnap(pc) ==
  [pc |-> pc, est |-> FALSE, mode |-> PathNone, path |-> PathNone, ep |-> FALSE, hs3 |-> FALSE]

At(p, pcs) == tick[p].pc \in pcs

Goto(p, pc) ==
  tick' = [tick EXCEPT ![p] = IF pc \in {"wait", "exited"} THEN NoSnap(pc) ELSE [@ EXCEPT !.pc = pc]]

Spend(p, kind) ==
  /\ fuel[p][kind] > 0
  /\ fuel' = [fuel EXCEPT ![p][kind] = @ - 1]

\* sendFrame takes every path but the relay for direct; the datagram leaves
\* unless no address is known.
CanSend(p, pth) == IF pth = "relay" THEN HasRelay ELSE directEP[p]

Datagram(p, type, pth, hs) ==
  [type |-> type, to |-> Other(p), path |-> IF pth = "relay" THEN "relay" ELSE "direct", hs |-> hs]

sendFrame(p, type, pth, hs) ==
  net' = IF CanSend(p, pth) THEN net \cup {Datagram(p, type, pth, hs)} ELSE net

Init ==
  /\ mode = [p \in Peers |-> PathNone]
  /\ path = [p \in Peers |-> PathNone]
  /\ established = [p \in Peers |-> FALSE]
  /\ sess = [p \in Peers |-> NoSession]
  /\ directEP = InitEP
  /\ tick = [p \in Peers |-> NoSnap("new")]
  /\ initiatorHS = NoHS /\ hs1Frame = Nil
  /\ hs3Frame = NoSession /\ hs3Pending = FALSE
  /\ responder = NoSession /\ hs1Msg = Nil /\ hs2Frame = NoSession
  /\ net = {}
  /\ ephs = [p \in Peers |-> 0]
  /\ fuel \in Fuels
  /\ installed = {} /\ reinstalled = FALSE

-----------------------------------------------------------------------------
\* Mutant: the reset forgets the cached HS3.
ResetKeepsHS3(p) ==
  IF p = I
    THEN initiatorHS' = NoHS /\ hs1Frame' = Nil /\ UNCHANGED <<hs3Frame, hs3Pending, respVars>>
    ELSE /\ responder' = NoSession /\ hs1Msg' = Nil /\ hs2Frame' = NoSession
         /\ UNCHANGED initVars

\* A peer has one role, so the other role's fields are nil and stay nil.
resetHandshakeLocked(p) ==
  IF p = I
    THEN /\ initiatorHS' = NoHS /\ hs1Frame' = Nil
         /\ hs3Frame' = NoSession /\ hs3Pending' = FALSE
         /\ UNCHANGED respVars
    ELSE /\ responder' = NoSession /\ hs1Msg' = Nil /\ hs2Frame' = NoSession
         /\ UNCHANGED initVars

setSessionLocked(p, s, pth) ==
  /\ sess' = [sess EXCEPT ![p] = s]
  /\ established' = [established EXCEPT ![p] = TRUE]
  /\ path' = [path EXCEPT ![p] = pth]
  /\ mode' = [mode EXCEPT ![p] = pth]
  /\ installed' = installed \cup {<<p, s>>}
  /\ reinstalled' = (reinstalled \/ <<p, s>> \in installed)

\* NewInitiator and Message1: a fresh ephemeral, waiting for message 2.
NewInitiator ==
  /\ ephs[I] < MaxEph
  /\ ephs' = [ephs EXCEPT ![I] = @ + 1]
  /\ initiatorHS' = [eph |-> ephs[I] + 1, phase |-> "message1"]
  /\ hs1Frame' = ephs[I] + 1

-----------------------------------------------------------------------------
(* Run *)

\* Run's prologue.
RunStart(p) ==
  /\ At(p, {"new"})
  /\ IF directEP[p] \/ HasRelay
       THEN /\ mode' = [mode EXCEPT ![p] = IF directEP[p] THEN "direct" ELSE "relay"]
            /\ Goto(p, "wait")
       ELSE UNCHANGED mode /\ Goto(p, "exited")
  /\ UNCHANGED <<path, established, sess, installed, reinstalled, directEP,
                 initVars, respVars, net, ephs, fuel>>

\* A tick: copy what the loop body will use, and free a stale half-open
\* handshake (hs2Stale).
Snapshot(p) ==
  /\ At(p, {"wait"})
  /\ tick' = [tick EXCEPT ![p] = Snap("acting", p)]
  /\ \/ UNCHANGED <<respVars, fuel>>
     \/ /\ p = R /\ responder # NoSession
        /\ Spend(p, "timeout")
        /\ responder' = NoSession /\ hs1Msg' = Nil /\ hs2Frame' = NoSession
  /\ UNCHANGED <<sessVars, directEP, initVars, net, ephs>>

\* The session the snapshot saw is older than sessionMaxAge.
forceRehandshake(p) ==
  /\ At(p, {"acting"}) /\ tick[p].est
  /\ Spend(p, "rotate")
  /\ sess' = [sess EXCEPT ![p] = NoSession]
  /\ established' = [established EXCEPT ![p] = FALSE]
  /\ resetHandshakeLocked(p)
  /\ Goto(p, "wait")
  /\ UNCHANGED <<mode, path, installed, reinstalled, directEP, net, ephs>>

\* The snapshot saw an unanswered HS3; resendHS3 looks again.
resendHS3 ==
  /\ At(I, {"acting"}) /\ tick[I].est /\ tick[I].hs3
  /\ IF hs3Pending /\ hs3Frame # NoSession
       THEN sendFrame(I, "HS3", mode[I], hs3Frame)
       ELSE UNCHANGED net
  /\ Goto(I, "main")
  /\ UNCHANGED <<sessVars, directEP, initVars, respVars, ephs, fuel>>

\* punch sends on the snapshot's mode; an error ends the tick.
Punching(p) == At(p, {"acting", "main"}) /\ ~tick[p].est

AfterPunch(p) == Goto(p, IF CanSend(p, tick[p].mode) THEN "switch" ELSE "wait")

\* HS1 is due: created once per attempt, resent verbatim after that.
punchHS1 ==
  /\ Punching(I)
  /\ \/ hs1Frame # Nil /\ UNCHANGED <<initiatorHS, hs1Frame, ephs>>
     \/ hs1Frame = Nil /\ NewInitiator
  /\ sendFrame(I, "HS1", tick[I].mode, <<hs1Frame', Nil>>)
  /\ AfterPunch(I)
  /\ UNCHANGED <<sessVars, directEP, hs3Frame, hs3Pending, respVars, fuel>>

\* HS1 is not due, or this is the responder: a probe, which changes nothing
\* at its receiver.
punchProbe(p) ==
  /\ Punching(p)
  /\ AfterPunch(p)
  /\ UNCHANGED <<sessVars, directEP, initVars, respVars, net, ephs, fuel>>

\* Mutant: the handshake is reset, but the attempt stays on its path.
switchModeStays(p) ==
  /\ At(p, {"switch"})
  /\ Spend(p, "timeout")
  /\ resetHandshakeLocked(p)
  /\ Goto(p, "wait")
  /\ UNCHANGED <<mode, path, established, sess, installed, reinstalled, directEP, net, ephs>>

\* switchMode, when the snapshot's phase has lasted for a whole attempt.
switchMode(p) ==
  /\ At(p, {"switch"})
  /\ Spend(p, "timeout")
  /\ IF tick[p].mode = "direct" THEN HasRelay ELSE directEP[p]
  /\ mode' = [mode EXCEPT ![p] = IF tick[p].mode = "direct" THEN "relay" ELSE "direct"]
  /\ resetHandshakeLocked(p)
  /\ Goto(p, "wait")
  /\ UNCHANGED <<path, established, sess, installed, reinstalled, directEP, net, ephs>>

\* The branch of an initiator established on the relay with a direct endpoint.
Roaming == /\ At(I, {"acting", "main"})
           /\ tick[I].est /\ tick[I].path = "relay" /\ tick[I].ep

abandonRoaming ==
  /\ Roaming /\ tick[I].mode = "direct"
  /\ Spend(I, "timeout")
  /\ mode[I] = "direct"
  /\ mode' = [mode EXCEPT ![I] = "relay"]
  /\ resetHandshakeLocked(I)
  /\ Goto(I, "wait")
  /\ UNCHANGED <<path, established, sess, installed, reinstalled, directEP, net, ephs>>

retryDirect ==
  /\ Roaming /\ tick[I].mode # "direct"
  /\ Spend(I, "roam")
  /\ NewInitiator
  /\ hs3Frame' = NoSession /\ hs3Pending' = FALSE
  /\ mode' = [mode EXCEPT ![I] = "direct"]
  /\ sendFrame(I, "HS1", "direct", <<hs1Frame', Nil>>)
  /\ Goto(I, "wait")
  /\ UNCHANGED <<path, established, sess, installed, reinstalled, directEP, respVars>>

\* Nothing (more) is due in this tick.  A keepalive is a Send.
EndTick(p) ==
  /\ At(p, {"switch"}) \/ (At(p, {"acting", "main"}) /\ tick[p].est)
  /\ Goto(p, "wait")
  /\ UNCHANGED <<sessVars, directEP, initVars, respVars, net, ephs, fuel>>

-----------------------------------------------------------------------------
(* The frame handlers.  Frames they ignore change nothing and are left out.  *)
(* The HS1 budget (hs1MaxPerSec) drops frames like the network does.         *)

\* Mutant: an HS1 is answered whatever session is established.
MayHandshakeAlways == TRUE

\* onHS1 refuses a re-handshake over an established direct session.
MayHandshake == ~(established[R] /\ path[R] # "relay")

onHS1(m) ==
  /\ MayHandshake
  /\ IF responder # NoSession /\ hs1Msg = m.hs[1]
       THEN \* a duplicate: retransmit the cached HS2
            /\ sendFrame(R, "HS2", m.path, hs2Frame)
            /\ UNCHANGED <<mode, respVars, ephs, fuel>>
       ELSE \* a different HS1 has to wait until the half-open one timed out
            /\ IF responder # NoSession THEN Spend(R, "timeout") ELSE UNCHANGED fuel
            /\ ephs[R] < MaxEph
            /\ ephs' = [ephs EXCEPT ![R] = @ + 1]
            /\ LET s == <<m.hs[1], ephs[R] + 1>>
               IN  /\ responder' = s /\ hs2Frame' = s /\ hs1Msg' = m.hs[1]
                   /\ sendFrame(R, "HS2", m.path, s)
            /\ mode' = [mode EXCEPT ![R] = m.path]
  /\ UNCHANGED <<path, established, sess, installed, reinstalled, directEP, tick, initVars>>

\* Mutant: the handshake phase is not checked, so that a repeated message 2
\* is processed again.
ReadMessage2AnyPhase(m) == initiatorHS.eph = m.hs[1]

\* Mutant: message 2 is not bound to the ephemeral of the current attempt.
ReadMessage2Unbound(m) == initiatorHS.phase = "message1"

\* Initiator.ReadMessage2, and WriteMessage3 after it, return no error.
ReadMessage2(m) == initiatorHS.phase = "message1" /\ initiatorHS.eph = m.hs[1]

onHS2(m) ==
  /\ initiatorHS # NoHS
  /\ IF ReadMessage2(m)
       THEN /\ setSessionLocked(I, m.hs, m.path)
            /\ initiatorHS' = [initiatorHS EXCEPT !.phase = "complete"]
            /\ hs3Frame' = m.hs /\ hs3Pending' = TRUE
            /\ sendFrame(I, "HS3", m.path, m.hs)
            /\ UNCHANGED hs1Frame
       ELSE /\ initiatorHS' = NoHS /\ hs1Frame' = Nil
            /\ UNCHANGED <<sessVars, hs3Frame, hs3Pending, net>>
  /\ UNCHANGED <<directEP, tick, respVars, ephs, fuel>>

\* Mutant: message 3 is not bound to the responder's own ephemeral.
ReadMessage3Unbound(m) == m.hs[1] = responder[1]

\* Responder.ReadMessage3 returns no error.
ReadMessage3(m) == m.hs = responder

onHS3(m) ==
  /\ responder # NoSession
  /\ IF ReadMessage3(m)
       THEN /\ setSessionLocked(R, responder, m.path)
            /\ responder' = NoSession /\ hs1Msg' = Nil /\ hs2Frame' = NoSession
       ELSE /\ responder' = NoSession
            /\ UNCHANGED <<sessVars, hs1Msg, hs2Frame>>
  /\ UNCHANGED <<directEP, tick, initVars, net, ephs, fuel>>

\* Mutant: a frame of any session answers a pending HS3.
onDataAnySession(m) ==
  /\ ~At(m.to, {"exited"})
  /\ sess[m.to] # NoSession
  /\ m.to = I /\ hs3Pending' = FALSE
  /\ UNCHANGED <<sessVars, directEP, tick, initiatorHS, hs1Frame, hs3Frame, respVars, net, ephs, fuel>>

\* onData: a frame of the current session answers a pending HS3.
onData(m) ==
  /\ ~At(m.to, {"exited"})
  /\ sess[m.to] = m.hs
  /\ m.to = I /\ hs3Pending' = FALSE
  /\ UNCHANGED <<sessVars, directEP, tick, initiatorHS, hs1Frame, hs3Frame, respVars, net, ephs, fuel>>

\* handleFrameByPath
Receive(m) ==
  /\ m \in net
  /\ \/ m.type = "HS1" /\ onHS1(m)
     \/ m.type = "HS2" /\ onHS2(m)
     \/ m.type = "HS3" /\ onHS3(m)
     \/ m.type = "DATA" /\ onData(m)

-----------------------------------------------------------------------------
(* Calls from the agent *)

\* Send of a payload or a keepalive; see DataPath for nonces and delivery.
Send(p) ==
  /\ sess[p] # NoSession
  /\ sendFrame(p, "DATA", path[p], sess[p])
  /\ UNCHANGED <<sessVars, directEP, tick, initVars, respVars, ephs, fuel>>

\* applyPeers learns a direct endpoint; a Peer never unlearns it.
SetDirectEP(p) ==
  /\ ~directEP[p]
  /\ directEP' = [directEP EXCEPT ![p] = TRUE]
  /\ UNCHANGED <<sessVars, tick, initVars, respVars, net, ephs, fuel>>

\* The agent of p restarts, or its applyPeers drops the peer and lists it anew:
\* a new Peer, with nothing of the old one but the static key.
Restart(p) ==
  /\ Spend(p, "restart")
  /\ mode' = [mode EXCEPT ![p] = PathNone]
  /\ path' = [path EXCEPT ![p] = PathNone]
  /\ established' = [established EXCEPT ![p] = FALSE]
  /\ sess' = [sess EXCEPT ![p] = NoSession]
  /\ directEP' = [directEP EXCEPT ![p] = InitEP[p]]
  /\ tick' = [tick EXCEPT ![p] = NoSnap("new")]
  /\ resetHandshakeLocked(p)
  /\ UNCHANGED <<net, ephs, installed, reinstalled>>

-----------------------------------------------------------------------------
\* Run's goroutine of p.
RunStep(p) ==
  \/ RunStart(p)
  \/ Snapshot(p)
  \/ forceRehandshake(p)
  \/ punchProbe(p)
  \/ switchMode(p)
  \/ EndTick(p)

\* What only the initiator's Run does.
InitiatorStep == resendHS3 \/ punchHS1 \/ abandonRoaming \/ retryDirect

Next ==
  \/ \E p \in Peers : RunStep(p) \/ Send(p) \/ SetDirectEP(p) \/ Restart(p)
  \/ InitiatorStep
  \/ \E m \in net : Receive(m)

Spec == Init /\ [][Next]_vars

-----------------------------------------------------------------------------
Snapshots ==
  [pc : {"new", "wait", "acting", "main", "switch", "exited"}, est : BOOLEAN,
   mode : Paths \cup {PathNone}, path : Paths \cup {PathNone}, ep : BOOLEAN, hs3 : BOOLEAN]

TypeOK ==
  /\ mode \in [Peers -> Paths \cup {PathNone}]
  /\ path \in [Peers -> Paths \cup {PathNone}]
  /\ established \in [Peers -> BOOLEAN]
  /\ sess \in [Peers -> Session \cup {NoSession}]
  /\ directEP \in [Peers -> BOOLEAN]
  /\ tick \in [Peers -> Snapshots]
  /\ initiatorHS \in [eph : Ephs \cup {Nil}, phase : {"start", "message1", "complete"}]
  /\ hs1Frame \in Ephs \cup {Nil}
  /\ hs3Frame \in Session \cup {NoSession} /\ hs3Pending \in BOOLEAN
  /\ responder \in Session \cup {NoSession}
  /\ hs1Msg \in Ephs \cup {Nil}
  /\ hs2Frame \in Session \cup {NoSession}
  /\ net \in SUBSET Messages
  /\ ephs \in [Peers -> 0 .. MaxEph]
  /\ fuel \in [Peers -> [Kinds -> Nat]]
  /\ installed \in SUBSET (Peers \X Session)
  /\ reinstalled \in BOOLEAN

\* A responder never installs a session that the initiator did not install
\* before it: duplicated, delayed or crossed handshake messages of different
\* attempts never combine into a session only one side knows of.
Agreement == \A s \in Session : <<R, s>> \in installed => <<I, s>> \in installed

\* Session keys are installed at most once on each side, and an ephemeral
\* serves one session only.  A second installation would restart the nonce
\* counter and the replay window under a key that was already used.
KeysInstalledOnce ==
  /\ ~reinstalled
  /\ \A x, y \in installed :
       x[1] = y[1] /\ (x[2][1] = y[2][1] \/ x[2][2] = y[2][2]) => x = y

\* The HS3 that Run keeps re-emitting is the one of the session in use: a
\* reset, a roaming attempt or a rotation never leaves an old one pending.
PendingHS3IsCurrent ==
  hs3Pending => established[I] /\ hs3Frame = sess[I] /\ sess[I] # NoSession

Order == INSTANCE SessionOrder WITH Initiator <- I, Sessions <- Session

\* The handshake implements SessionOrder: no delayed or repeated HS2 or HS3 of
\* an earlier attempt, on either path, before or after a timeout, a rotation or
\* a restart, takes a peer back to a session older than one it was in.
OrderSpec == Order!Spec

\* A responder's direct session is given up for its own reasons only (age,
\* restart): no handshake message replaces it.
DirectSessionKept ==
  [][(established[R] /\ path[R] = "direct" /\ sess'[R] # sess[R]) => sess'[R] = NoSession]_vars

Agreed == established[I] /\ established[R] /\ sess[I] = sess[R]

\* Peers that agree on a session, which is direct at the responder, agree until
\* one of them drops it (age, restart): neither a late HS2 nor an attempt that
\* Run starts on a snapshot from before the session takes the initiator to a
\* session of its own.
DirectAgreementKept ==
  [][Agreed /\ path[R] = "direct" /\ ~Agreed' => NoSession \in {sess'[I], sess'[R]}]_vars

\* What onData takes for an answer to the HS3 is one: the responder installed
\* the session before the initiator stops re-emitting its HS3, and no late
\* frame of an earlier session or of the initiator's own stops it.
AnswerIsProof ==
  [][hs3Pending /\ ~hs3Pending' /\ hs3Frame' = hs3Frame => <<R, sess[I]>> \in installed]_vars
=============================================================================
