------------------------ MODULE PeerHandshake_proofs ------------------------
(***************************************************************************)
(* Agreement, single use of handshake keys, and sessions that follow each  *)
(* other in order (the refinement of SessionOrder), for every number of    *)
(* ephemerals, every set of open paths and every number of timeouts,       *)
(* roaming attempts, rotations and restarts.                               *)
(***************************************************************************)
EXTENDS PeerHandshake, TLAPS

(* No handshake value in use is newer than the generators of its halves.     *)
Known(hs) == hs[1] <= ephs[I] /\ hs[2] <= ephs[R]

Bounded ==
  /\ \A m \in net : m.type # "DATA" => Known(m.hs)
  /\ \A x \in installed : Known(x[2])
  /\ Known(<<initiatorHS.eph, Nil>>) /\ Known(<<hs1Frame, Nil>>)
  /\ Known(responder) /\ Known(hs2Frame)

(* Message 3 of a handshake exists only once the initiator installed it.     *)
Completed ==
  /\ \A m \in net : m.type = "HS3" => <<I, m.hs>> \in installed
  /\ hs3Frame # NoSession => <<I, hs3Frame>> \in installed

(* A responder ephemeral answers one HS1 only, in the cache and on the wire. *)
OneAnswer ==
  /\ \A m, n \in net : m.type = "HS2" /\ n.type = "HS2" /\ m.hs[2] = n.hs[2] => m.hs = n.hs
  /\ \A m \in net : m.type = "HS2" /\ m.hs[2] = hs2Frame[2] => m.hs = hs2Frame
  /\ responder # NoSession => responder = hs2Frame

(* The initiator installs what an HS2 offered, once per ephemeral.           *)
InitiatorOnce ==
  /\ \A s \in Session : <<I, s>> \in installed => \E m \in net : m.type = "HS2" /\ m.hs = s
  /\ initiatorHS.phase = "message1"
       => \A s \in Session : <<I, s>> \in installed => s[1] # initiatorHS.eph
  /\ \A s, t \in Session :
       <<I, s>> \in installed /\ <<I, t>> \in installed /\ (s[1] = t[1] \/ s[2] = t[2]) => s = t

(* A half-open handshake has not been installed by the responder.            *)
ResponderOnce ==
  responder # NoSession => \A s \in Session : <<R, s>> \in installed => s[2] # responder[2]

IInv ==
  /\ TypeOK /\ Bounded /\ Completed /\ OneAnswer /\ InitiatorOnce /\ ResponderOnce
  /\ Agreement
  /\ ~reinstalled

-----------------------------------------------------------------------------
(* Types of the pieces the actions are made of.                              *)

LEMMA Roles == I # R /\ Peers = {I, R} /\ Other(I) = R /\ Other(R) = I
  BY DEF I, R, Peers, Other

LEMMA NilIsNoEph == Nil \notin Ephs /\ NoSession \notin Session
  BY MaxEphAssumption, SMT DEF Nil, Ephs, Session, NoSession

LEMMA MessageType ==
  ASSUME TypeOK, NEW m \in net
  PROVE  /\ m.path \in Paths
         /\ m.type = "HS1" => m.hs \in Ephs \X {Nil}
         /\ m.type \in {"HS2", "HS3", "DATA"} => m.hs \in Session
         /\ m.type \in {"HS1", "HS2", "HS3", "DATA"}
  BY DEF TypeOK, Messages

LEMMA SendType ==
  ASSUME TypeOK, NEW p \in Peers, NEW type, NEW pth, NEW hs,
         \/ p = I /\ type = "HS1" /\ hs \in Ephs \X {Nil}
         \/ p = R /\ type = "HS2" /\ hs \in Session
         \/ p = I /\ type = "HS3" /\ hs \in Session
         \/ type = "DATA" /\ hs \in Session,
         sendFrame(p, type, pth, hs)
  PROVE  net' \in SUBSET Messages
<1>1. Datagram(p, type, pth, hs) \in Messages
  BY Roles DEF Datagram, Messages, Paths
<1> QED
  BY <1>1 DEF sendFrame, TypeOK

LEMMA GotoType ==
  ASSUME TypeOK, NEW p \in Peers, NEW pc \in {"wait", "main", "switch", "exited"}, Goto(p, pc)
  PROVE  tick' \in [Peers -> Snapshots]
<1>1. NoSnap(pc) \in Snapshots
  BY DEF NoSnap, Snapshots
<1>2. tick[p] \in Snapshots
  BY DEF TypeOK
<1>3. [tick[p] EXCEPT !.pc = pc] \in Snapshots
  BY <1>2 DEF Snapshots
<1> QED
  BY <1>1, <1>3 DEF Goto, TypeOK

LEMMA SpendType ==
  ASSUME TypeOK, NEW p \in Peers, NEW kind \in Kinds, Spend(p, kind)
  PROVE  fuel' \in [Peers -> [Kinds -> Nat]]
<1>1. fuel[p] \in [Kinds -> Nat] /\ fuel[p][kind] \in Nat
  BY DEF TypeOK
<1>2. fuel[p][kind] - 1 \in Nat
  BY <1>1, SMT DEF Spend
<1>3. [fuel[p] EXCEPT ![kind] = fuel[p][kind] - 1] \in [Kinds -> Nat]
  BY <1>1, <1>2
<1>4. fuel' = [fuel EXCEPT ![p] = [fuel[p] EXCEPT ![kind] = fuel[p][kind] - 1]]
  BY DEF Spend
<1> QED
  BY <1>3, <1>4 DEF TypeOK

HandshakeTypes ==
  /\ initiatorHS \in [eph : Ephs \cup {Nil}, phase : {"start", "message1", "complete"}]
  /\ hs1Frame \in Ephs \cup {Nil}
  /\ hs3Frame \in Session \cup {NoSession} /\ hs3Pending \in BOOLEAN
  /\ responder \in Session \cup {NoSession}
  /\ hs1Msg \in Ephs \cup {Nil}
  /\ hs2Frame \in Session \cup {NoSession}

LEMMA ResetType ==
  ASSUME TypeOK, NEW p \in Peers, resetHandshakeLocked(p)
  PROVE  HandshakeTypes'
<1>1. NoHS \in [eph : Ephs \cup {Nil}, phase : {"start", "message1", "complete"}]
  BY DEF NoHS
<1> QED
  BY <1>1 DEF resetHandshakeLocked, TypeOK, HandshakeTypes, initVars, respVars

SessionTypes ==
  /\ mode \in [Peers -> Paths \cup {PathNone}]
  /\ path \in [Peers -> Paths \cup {PathNone}]
  /\ established \in [Peers -> BOOLEAN]
  /\ sess \in [Peers -> Session \cup {NoSession}]
  /\ installed \in SUBSET (Peers \X Session)
  /\ reinstalled \in BOOLEAN

LEMMA InstallType ==
  ASSUME TypeOK, NEW p \in Peers, NEW s \in Session, NEW pth \in Paths, setSessionLocked(p, s, pth)
  PROVE  SessionTypes'
  BY DEF setSessionLocked, TypeOK, SessionTypes

LEMMA NewInitiatorType ==
  ASSUME TypeOK, NewInitiator
  PROVE  /\ hs1Frame' = ephs[I] + 1 /\ hs1Frame' \in Ephs
         /\ initiatorHS' \in [eph : Ephs \cup {Nil}, phase : {"start", "message1", "complete"}]
         /\ ephs' \in [Peers -> 0 .. MaxEph]
         /\ ephs'[I] = ephs[I] + 1 /\ ephs'[R] = ephs[R]
<1>1. ephs[I] \in Nat /\ ephs[I] < MaxEph /\ I \in Peers /\ R \in Peers
  BY MaxEphAssumption, Roles DEF TypeOK, NewInitiator
<1>2. ephs[I] + 1 \in Ephs /\ ephs[I] + 1 \in 0 .. MaxEph
  BY <1>1, MaxEphAssumption, SMT DEF Ephs
<1>3. ephs' = [ephs EXCEPT ![I] = ephs[I] + 1] /\ hs1Frame' = ephs[I] + 1
      /\ initiatorHS' = [eph |-> ephs[I] + 1, phase |-> "message1"]
  BY DEF NewInitiator
<1> QED
  BY <1>1, <1>2, <1>3, Roles DEF TypeOK

TypeParts == /\ SessionTypes /\ HandshakeTypes
             /\ directEP \in [Peers -> BOOLEAN]
             /\ tick \in [Peers -> Snapshots]
             /\ net \in SUBSET Messages
             /\ ephs \in [Peers -> 0 .. MaxEph]
             /\ fuel \in [Peers -> [Kinds -> Nat]]

LEMMA TypeSplit == TypeOK <=> TypeParts
  BY DEF TypeOK, TypeParts, SessionTypes, HandshakeTypes

LEMMA InitType == Init => TypeOK
<1> SUFFICES ASSUME Init PROVE TypeOK
  OBVIOUS
<1>1. NoSnap("new") \in Snapshots
  BY DEF NoSnap, Snapshots
<1>2. NoHS \in [eph : Ephs \cup {Nil}, phase : {"start", "message1", "complete"}]
  BY DEF NoHS
<1>3. 0 \in 0 .. MaxEph
  BY MaxEphAssumption, SMT
<1> QED
  BY <1>1, <1>2, <1>3, InitEPAssumption, FuelAssumption DEF Init, TypeOK

LEMMA RunType == ASSUME IInv, NEW p \in Peers, RunStep(p) PROVE TypeOK'
<1>t. TypeOK /\ TypeParts
  BY TypeSplit DEF IInv
<1>1. CASE RunStart(p)
  <2>1. tick' \in [Peers -> Snapshots]
    BY <1>t, <1>1, GotoType DEF RunStart
  <2>2. mode' \in [Peers -> Paths \cup {PathNone}]
    BY <1>t, <1>1 DEF RunStart, TypeOK, Paths
  <2> QED
    BY <1>t, <1>1, <2>1, <2>2 DEF RunStart, TypeOK, initVars, respVars
<1>2. CASE Snapshot(p)
  <2>1. Snap("acting", p) \in Snapshots
    BY <1>t DEF Snap, Snapshots, TypeOK
  <2>2. tick' \in [Peers -> Snapshots]
    BY <1>t, <1>2, <2>1 DEF Snapshot, TypeOK
  <2>3. fuel' \in [Peers -> [Kinds -> Nat]]
    BY <1>t, <1>2, SpendType DEF Snapshot, Kinds, TypeOK, respVars
  <2> QED
    BY <1>t, <1>2, <2>2, <2>3 DEF Snapshot, TypeOK, initVars, respVars, sessVars
<1>3. CASE forceRehandshake(p)
  <2>1. tick' \in [Peers -> Snapshots]
    BY <1>t, <1>3, GotoType DEF forceRehandshake
  <2>2. fuel' \in [Peers -> [Kinds -> Nat]]
    BY <1>t, <1>3, SpendType DEF forceRehandshake, Kinds
  <2>3. HandshakeTypes'
    BY <1>t, <1>3, ResetType DEF forceRehandshake
  <2>4. SessionTypes'
    BY <1>t, <1>3 DEF forceRehandshake, TypeParts, SessionTypes
  <2>5. TypeParts'
    BY <1>t, <1>3, <2>1, <2>2, <2>3, <2>4 DEF forceRehandshake, TypeParts
  <2> QED
    BY <2>5, TypeSplit DEF TypeOK, TypeParts, SessionTypes, HandshakeTypes
<1>4. CASE punchProbe(p)
  <2>1. tick' \in [Peers -> Snapshots]
    BY <1>t, <1>4, GotoType DEF punchProbe, AfterPunch
  <2> QED
    BY <1>t, <1>4, <2>1 DEF punchProbe, TypeOK, initVars, respVars, sessVars
<1>5. CASE switchMode(p)
  <2>1. tick' \in [Peers -> Snapshots]
    BY <1>t, <1>5, GotoType DEF switchMode
  <2>2. fuel' \in [Peers -> [Kinds -> Nat]]
    BY <1>t, <1>5, SpendType DEF switchMode, Kinds
  <2>3. HandshakeTypes'
    BY <1>t, <1>5, ResetType DEF switchMode
  <2>4. SessionTypes'
    BY <1>t, <1>5 DEF switchMode, TypeParts, SessionTypes, Paths
  <2>5. TypeParts'
    BY <1>t, <1>5, <2>1, <2>2, <2>3, <2>4 DEF switchMode, TypeParts
  <2> QED
    BY <2>5 DEF TypeOK, TypeParts, SessionTypes, HandshakeTypes
<1>6. CASE EndTick(p)
  <2>1. tick' \in [Peers -> Snapshots]
    BY <1>t, <1>6, GotoType DEF EndTick
  <2> QED
    BY <1>t, <1>6, <2>1 DEF EndTick, TypeOK, initVars, respVars, sessVars
<1> QED
  BY <1>1, <1>2, <1>3, <1>4, <1>5, <1>6 DEF RunStep

LEMMA InitiatorType == ASSUME IInv, InitiatorStep PROVE TypeOK'
<1>t. TypeOK /\ TypeParts /\ I \in Peers
  BY TypeSplit, Roles DEF IInv
<1>1. CASE resendHS3
  <2>1. tick' \in [Peers -> Snapshots]
    BY <1>t, <1>1, GotoType DEF resendHS3
  <2>2. net' \in SUBSET Messages
    <3>1. CASE hs3Pending /\ hs3Frame # NoSession
      <4>1. hs3Frame \in Session /\ sendFrame(I, "HS3", mode[I], hs3Frame)
        BY <1>t, <1>1, <3>1 DEF resendHS3, TypeOK
      <4> QED
        BY <1>t, <4>1, SendType
    <3>2. CASE ~(hs3Pending /\ hs3Frame # NoSession)
      BY <1>t, <1>1, <3>2 DEF resendHS3, TypeOK
    <3> QED
      BY <3>1, <3>2
  <2> QED
    BY <1>t, <1>1, <2>1, <2>2 DEF resendHS3, TypeOK, initVars, respVars, sessVars
<1>2. CASE punchHS1
  <2>1. tick' \in [Peers -> Snapshots]
    BY <1>t, <1>2, GotoType DEF punchHS1, AfterPunch
  <2>2. /\ hs1Frame' \in Ephs /\ ephs' \in [Peers -> 0 .. MaxEph]
        /\ initiatorHS' \in [eph : Ephs \cup {Nil}, phase : {"start", "message1", "complete"}]
    <3>1. CASE hs1Frame # Nil /\ UNCHANGED <<initiatorHS, hs1Frame, ephs>>
      BY <1>t, <3>1 DEF TypeOK
    <3>2. CASE NewInitiator
      BY <1>t, <3>2, NewInitiatorType
    <3> QED
      BY <1>2, <3>1, <3>2 DEF punchHS1
  <2>3. net' \in SUBSET Messages
    <3>1. <<hs1Frame', Nil>> \in Ephs \X {Nil} /\ sendFrame(I, "HS1", tick[I].mode, <<hs1Frame', Nil>>)
      BY <1>2, <2>2 DEF punchHS1
    <3> QED
      BY <1>t, <3>1, SendType
  <2> QED
    BY <1>t, <1>2, <2>1, <2>2, <2>3 DEF punchHS1, TypeOK, respVars, sessVars
<1>3. CASE abandonRoaming
  <2>1. tick' \in [Peers -> Snapshots]
    BY <1>t, <1>3, GotoType DEF abandonRoaming
  <2>2. fuel' \in [Peers -> [Kinds -> Nat]]
    BY <1>t, <1>3, SpendType DEF abandonRoaming, Kinds
  <2>3. HandshakeTypes'
    BY <1>t, <1>3, ResetType DEF abandonRoaming
  <2>4. SessionTypes'
    BY <1>t, <1>3 DEF abandonRoaming, TypeParts, SessionTypes, Paths
  <2>5. TypeParts'
    BY <1>t, <1>3, <2>1, <2>2, <2>3, <2>4 DEF abandonRoaming, TypeParts
  <2> QED
    BY <2>5 DEF TypeOK, TypeParts, SessionTypes, HandshakeTypes
<1>4. CASE retryDirect
  <2>1. tick' \in [Peers -> Snapshots]
    BY <1>t, <1>4, GotoType DEF retryDirect
  <2>2. fuel' \in [Peers -> [Kinds -> Nat]]
    BY <1>t, <1>4, SpendType DEF retryDirect, Kinds
  <2>3. /\ hs1Frame' \in Ephs /\ ephs' \in [Peers -> 0 .. MaxEph]
        /\ initiatorHS' \in [eph : Ephs \cup {Nil}, phase : {"start", "message1", "complete"}]
    BY <1>t, <1>4, NewInitiatorType DEF retryDirect
  <2>4. net' \in SUBSET Messages
    <3>1. <<hs1Frame', Nil>> \in Ephs \X {Nil} /\ sendFrame(I, "HS1", "direct", <<hs1Frame', Nil>>)
      BY <1>4, <2>3 DEF retryDirect
    <3> QED
      BY <1>t, <3>1, SendType
  <2>5. mode' \in [Peers -> Paths \cup {PathNone}]
    BY <1>t, <1>4 DEF retryDirect, TypeOK, Paths
  <2> QED
    BY <1>t, <1>4, <2>1, <2>2, <2>3, <2>4, <2>5 DEF retryDirect, TypeOK, respVars
<1> QED
  BY <1>1, <1>2, <1>3, <1>4 DEF InitiatorStep

(* What onHS1 makes of a new HS1: a half-open handshake with a fresh         *)
(* ephemeral of the responder.                                               *)
Accepts(m) ==
  /\ ephs[R] < MaxEph
  /\ ephs' = [ephs EXCEPT ![R] = @ + 1]
  /\ responder' = <<m.hs[1], ephs[R] + 1>> /\ hs2Frame' = <<m.hs[1], ephs[R] + 1>>
  /\ hs1Msg' = m.hs[1]
  /\ sendFrame(R, "HS2", m.path, <<m.hs[1], ephs[R] + 1>>)

LEMMA AcceptType ==
  ASSUME TypeOK, NEW m \in net, m.type = "HS1", Accepts(m)
  PROVE  /\ responder' \in Session /\ hs2Frame' = responder' /\ hs1Msg' \in Ephs
         /\ responder'[1] = m.hs[1] /\ responder'[2] = ephs[R] + 1
         /\ ephs' \in [Peers -> 0 .. MaxEph]
         /\ ephs'[R] = ephs[R] + 1 /\ ephs'[I] = ephs[I]
         /\ net' \in SUBSET Messages
<1>1. ephs[R] \in Nat /\ ephs[R] < MaxEph /\ R \in Peers /\ I \in Peers
  BY MaxEphAssumption, Roles DEF TypeOK, Accepts
<1>2. ephs[R] + 1 \in Ephs /\ ephs[R] + 1 \in 0 .. MaxEph
  BY <1>1, MaxEphAssumption, SMT DEF Ephs
<1>3. m.hs[1] \in Ephs
  BY MessageType
<1>4. <<m.hs[1], ephs[R] + 1>> \in Session
  BY <1>2, <1>3 DEF Session
<1>5. ephs' \in [Peers -> 0 .. MaxEph] /\ ephs'[R] = ephs[R] + 1 /\ ephs'[I] = ephs[I]
  BY <1>1, <1>2, Roles DEF Accepts, TypeOK
<1>6. net' \in SUBSET Messages
  <2>1. sendFrame(R, "HS2", m.path, <<m.hs[1], ephs[R] + 1>>)
    BY DEF Accepts
  <2> QED
    BY <1>1, <1>4, <2>1, SendType
<1> QED
  BY <1>3, <1>4, <1>5, <1>6 DEF Accepts

LEMMA HS1Cases ==
  ASSUME NEW m, onHS1(m)
  PROVE  \/ /\ responder # NoSession
            /\ sendFrame(R, "HS2", m.path, hs2Frame)
            /\ UNCHANGED <<mode, respVars, ephs, fuel>>
         \/ /\ Accepts(m)
            /\ mode' = [mode EXCEPT ![R] = m.path]
            /\ Spend(R, "timeout") \/ UNCHANGED fuel
  BY DEF onHS1, Accepts

LEMMA ReceiveType == ASSUME IInv, NEW m \in net, Receive(m) PROVE TypeOK'
<1>t. TypeOK /\ TypeParts /\ I \in Peers /\ R \in Peers
  BY TypeSplit, Roles DEF IInv
<1>m. /\ m.path \in Paths
      /\ m.type = "HS1" => m.hs \in Ephs \X {Nil}
      /\ m.type \in {"HS2", "HS3", "DATA"} => m.hs \in Session
  BY <1>t, MessageType
<1>1. CASE m.type = "HS1" /\ onHS1(m)
  <2>0. UNCHANGED <<path, established, sess, installed, reinstalled, directEP, tick, initVars>>
    BY <1>1 DEF onHS1
  <2>1. CASE responder # NoSession /\ sendFrame(R, "HS2", m.path, hs2Frame)
             /\ UNCHANGED <<mode, respVars, ephs, fuel>>
    <3>1. hs2Frame \in Session
      BY <1>t, <2>1 DEF IInv, OneAnswer, TypeOK
    <3>2. net' \in SUBSET Messages
      BY <1>t, <2>1, <3>1, SendType
    <3> QED
      BY <1>t, <2>0, <2>1, <3>2 DEF TypeOK, initVars, respVars
  <2>2. CASE Accepts(m) /\ mode' = [mode EXCEPT ![R] = m.path] /\ (Spend(R, "timeout") \/ UNCHANGED fuel)
    <3>1. /\ responder' \in Session /\ hs2Frame' \in Session /\ hs1Msg' \in Ephs
          /\ ephs' \in [Peers -> 0 .. MaxEph] /\ net' \in SUBSET Messages
      BY <1>t, <1>1, <2>2, AcceptType
    <3>2. fuel' \in [Peers -> [Kinds -> Nat]]
      BY <1>t, <2>2, SpendType DEF Kinds, TypeOK
    <3>3. mode' \in [Peers -> Paths \cup {PathNone}]
      BY <1>t, <1>m, <2>2 DEF TypeOK
    <3> QED
      BY <1>t, <2>0, <3>1, <3>2, <3>3 DEF TypeOK, initVars
  <2> QED
    BY <1>1, <2>1, <2>2, HS1Cases
<1>2. CASE m.type = "HS2" /\ onHS2(m)
  <2>1. CASE ReadMessage2(m)
    <3>1. /\ setSessionLocked(I, m.hs, m.path) /\ sendFrame(I, "HS3", m.path, m.hs)
          /\ initiatorHS' = [initiatorHS EXCEPT !.phase = "complete"]
          /\ hs3Frame' = m.hs /\ hs3Pending' = TRUE
          /\ UNCHANGED <<hs1Frame, directEP, tick, respVars, ephs, fuel>>
      BY <1>2, <2>1 DEF onHS2
    <3>2. SessionTypes'
      BY <1>t, <1>m, <1>2, <3>1, InstallType
    <3>3. net' \in SUBSET Messages
      BY <1>t, <1>m, <1>2, <3>1, SendType
    <3>4. initiatorHS' \in [eph : Ephs \cup {Nil}, phase : {"start", "message1", "complete"}]
      BY <1>t, <3>1 DEF TypeOK
    <3>5. HandshakeTypes'
      BY <1>t, <1>m, <1>2, <3>1, <3>4 DEF HandshakeTypes, TypeParts, respVars
    <3>6. TypeParts'
      BY <1>t, <3>1, <3>2, <3>3, <3>5 DEF TypeParts
    <3> QED
      BY <3>6 DEF TypeOK, TypeParts, SessionTypes, HandshakeTypes
  <2>2. CASE ~ReadMessage2(m)
    <3>1. NoHS \in [eph : Ephs \cup {Nil}, phase : {"start", "message1", "complete"}]
      BY DEF NoHS
    <3> QED
      BY <1>t, <1>2, <2>2, <3>1 DEF onHS2, TypeOK, sessVars, respVars
  <2> QED
    BY <2>1, <2>2
<1>3. CASE m.type = "HS3" /\ onHS3(m)
  <2>1. CASE ReadMessage3(m)
    <3>1. /\ setSessionLocked(R, m.hs, m.path)
          /\ responder' = NoSession /\ hs1Msg' = Nil /\ hs2Frame' = NoSession
          /\ UNCHANGED <<directEP, tick, initVars, net, ephs, fuel>>
      BY <1>3, <2>1 DEF onHS3, ReadMessage3
    <3>2. SessionTypes'
      BY <1>t, <1>m, <1>3, <3>1, InstallType
    <3>3. HandshakeTypes'
      BY <1>t, <3>1 DEF HandshakeTypes, TypeParts, initVars
    <3>4. TypeParts'
      BY <1>t, <3>1, <3>2, <3>3 DEF TypeParts
    <3> QED
      BY <3>4 DEF TypeOK, TypeParts, SessionTypes, HandshakeTypes
  <2>2. CASE ~ReadMessage3(m)
    BY <1>t, <1>3, <2>2 DEF onHS3, TypeOK, sessVars, initVars
  <2> QED
    BY <2>1, <2>2
<1>4. CASE m.type = "DATA" /\ onData(m)
  BY <1>t, <1>4 DEF onData, TypeOK, sessVars, respVars
<1> QED
  BY <1>1, <1>2, <1>3, <1>4 DEF Receive

LEMMA CallType ==
  ASSUME IInv, NEW p \in Peers, Send(p) \/ SetDirectEP(p) \/ Restart(p)
  PROVE  TypeOK'
<1>t. TypeOK /\ TypeParts
  BY TypeSplit DEF IInv
<1>1. CASE Send(p)
  <2>1. sess[p] \in Session
    BY <1>t, <1>1 DEF Send, TypeOK
  <2>2. net' \in SUBSET Messages
    BY <1>t, <1>1, <2>1, SendType DEF Send
  <2> QED
    BY <1>t, <1>1, <2>2 DEF Send, TypeOK, sessVars, initVars, respVars
<1>2. CASE SetDirectEP(p)
  BY <1>t, <1>2 DEF SetDirectEP, TypeOK, sessVars, initVars, respVars
<1>3. CASE Restart(p)
  <2>1. NoSnap("new") \in Snapshots
    BY DEF NoSnap, Snapshots
  <2>2. tick' \in [Peers -> Snapshots] /\ directEP' \in [Peers -> BOOLEAN]
    BY <1>t, <1>3, <2>1, InitEPAssumption DEF Restart, TypeOK
  <2>3. fuel' \in [Peers -> [Kinds -> Nat]]
    BY <1>t, <1>3, SpendType DEF Restart, Kinds
  <2>4. HandshakeTypes'
    BY <1>t, <1>3, ResetType DEF Restart
  <2>5. SessionTypes'
    BY <1>t, <1>3 DEF Restart, TypeParts, SessionTypes
  <2>6. TypeParts'
    BY <1>t, <1>3, <2>2, <2>3, <2>4, <2>5 DEF Restart, TypeParts
  <2> QED
    BY <2>6 DEF TypeOK, TypeParts, SessionTypes, HandshakeTypes
<1> QED
  BY <1>1, <1>2, <1>3

LEMMA NextType == IInv /\ [Next]_vars => TypeOK'
<1> SUFFICES ASSUME IInv, [Next]_vars PROVE TypeOK'
  OBVIOUS
<1>1. CASE UNCHANGED vars
  BY <1>1 DEF IInv, vars, TypeOK, sessVars, initVars, respVars
<1> QED
  BY <1>1, RunType, InitiatorType, ReceiveType, CallType DEF Next

-----------------------------------------------------------------------------
(* Numbers and pairs behind a well-typed state.                              *)
LEMMA Shapes ==
  ASSUME TypeOK
  PROVE  /\ ephs[I] \in Nat /\ ephs[R] \in Nat
         /\ \A s \in Session : s[1] \in Nat /\ s[2] \in Nat /\ s[1] # 0 /\ s[2] # 0
         /\ NoSession[1] = 0 /\ NoSession[2] = 0
         /\ Known(NoSession) /\ Known(<<NoHS.eph, Nil>>) /\ Known(<<Nil, Nil>>)
<1>1. ephs[I] \in 0 .. MaxEph /\ ephs[R] \in 0 .. MaxEph
  BY Roles DEF TypeOK
<1>2. ephs[I] \in Nat /\ ephs[R] \in Nat
  BY <1>1, MaxEphAssumption, SMT
<1>3. \A e \in Ephs : e \in Nat /\ e # 0
  BY MaxEphAssumption, SMT DEF Ephs
<1>4. \A s \in Session : s[1] \in Ephs /\ s[2] \in Ephs
  BY DEF Session
<1>5. Known(NoSession) /\ Known(<<NoHS.eph, Nil>>) /\ Known(<<Nil, Nil>>)
  BY <1>2, SMT DEF Known, NoSession, NoHS, Nil
<1> QED
  BY <1>2, <1>3, <1>4, <1>5 DEF NoSession, Nil

(* Steps that generate and install nothing: they forget handshake state, and *)
(* send again what may be sent again.                                        *)
LEMMA QuietStep ==
  ASSUME IInv, TypeOK',
         ephs' = ephs, installed' = installed, reinstalled' = reinstalled,
         initiatorHS' \in {initiatorHS, NoHS}, hs1Frame' \in {hs1Frame, Nil},
         hs3Frame' \in {hs3Frame, NoSession},
         \/ responder' = responder /\ hs2Frame' = hs2Frame
         \/ responder' = NoSession /\ hs2Frame' \in {hs2Frame, NoSession},
         net \subseteq net',
         \A m \in net' \ net : \/ m.type = "DATA"
                               \/ m.type = "HS1" /\ Known(m.hs)
                               \/ m.type = "HS2" /\ m.hs = hs2Frame
                               \/ m.type = "HS3" /\ <<I, m.hs>> \in installed
  PROVE  IInv'
<1>t. TypeOK
  BY DEF IInv
<1>s. /\ \A s \in Session : s[2] # 0
      /\ NoSession[2] = 0
      /\ Known(NoSession) /\ Known(<<NoHS.eph, Nil>>) /\ Known(<<Nil, Nil>>)
  BY <1>t, Shapes
<1>k. \A hs : Known(hs)' <=> (hs[1] <= ephs[I] /\ hs[2] <= ephs[R])
  BY DEF Known
<1>1. Bounded'
  <2>1. \A m \in net' : m.type # "DATA" => Known(m.hs)
    <3>1. \A x \in installed : Known(x[2])
      BY DEF IInv, Bounded
    <3>2. Known(hs2Frame) /\ \A m \in net : m.type # "DATA" => Known(m.hs)
      BY DEF IInv, Bounded
    <3>3. \A m \in net' : <<I, m.hs>> \in installed => Known(m.hs)
      BY <3>1
    <3> QED
      BY <3>2, <3>3
  <2>2. Known(<<initiatorHS'.eph, Nil>>) /\ Known(<<hs1Frame', Nil>>)
    BY <1>s DEF IInv, Bounded
  <2>3. Known(responder') /\ Known(hs2Frame')
    BY <1>s DEF IInv, Bounded
  <2>4. \A x \in installed : Known(x[2])
    BY DEF IInv, Bounded
  <2> QED
    BY <2>1, <2>2, <2>3, <2>4 DEF Bounded, Known
<1>2. Completed'
  BY DEF IInv, Completed
<1>h. \A m \in net' : m.type = "HS2" => m.hs \in Session
  BY DEF TypeOK, Messages
<1>3. OneAnswer'
  <2>1. \A m, n \in net' : m.type = "HS2" /\ n.type = "HS2" /\ m.hs[2] = n.hs[2] => m.hs = n.hs
    BY DEF IInv, OneAnswer
  <2>2. \A m \in net' : m.type = "HS2" /\ m.hs[2] = hs2Frame'[2] => m.hs = hs2Frame'
    <3>1. CASE hs2Frame' = hs2Frame
      BY <3>1 DEF IInv, OneAnswer
    <3>2. CASE hs2Frame' = NoSession
      BY <1>h, <1>s, <3>2
    <3> QED
      BY <3>1, <3>2
  <2>3. responder' # NoSession => responder' = hs2Frame'
    BY DEF IInv, OneAnswer
  <2> QED
    BY <2>1, <2>2, <2>3 DEF OneAnswer
<1>4. InitiatorOnce'
  <2>1. initiatorHS'.phase = "message1" => initiatorHS' = initiatorHS
    BY DEF NoHS
  <2>2. \A s \in Session : <<I, s>> \in installed => \E m \in net' : m.type = "HS2" /\ m.hs = s
    BY DEF IInv, InitiatorOnce
  <2> QED
    BY <2>1, <2>2 DEF IInv, InitiatorOnce
<1>5. ResponderOnce'
  BY DEF IInv, ResponderOnce
<1>6. Agreement' /\ ~reinstalled'
  BY DEF IInv, Agreement
<1> QED
  BY <1>1, <1>2, <1>3, <1>4, <1>5, <1>6 DEF IInv

(* A fresh initiator handshake: its ephemeral is newer than all in use.      *)
LEMMA FreshInitiator ==
  ASSUME IInv, TypeOK', NewInitiator,
         installed' = installed, reinstalled' = reinstalled,
         hs3Frame' \in {hs3Frame, NoSession},
         responder' = responder, hs2Frame' = hs2Frame,
         net \subseteq net',
         \A m \in net' \ net : m.type = "HS1" /\ m.hs = <<hs1Frame', Nil>>
  PROVE  IInv'
<1>t. TypeOK
  BY DEF IInv
<1>s. /\ ephs[I] \in Nat /\ ephs[R] \in Nat
      /\ \A s \in Session : s[1] \in Nat /\ s[2] \in Nat
  BY <1>t, Shapes
<1>e. ephs'[I] = ephs[I] + 1 /\ ephs'[R] = ephs[R] /\ hs1Frame' = ephs[I] + 1
  BY <1>t, NewInitiatorType
<1>i. initiatorHS' = [eph |-> ephs[I] + 1, phase |-> "message1"]
  BY DEF NewInitiator
<1>k. \A hs \in (Nat \X Nat) : Known(hs) => (hs[1] <= ephs'[I] /\ hs[2] <= ephs'[R])
  BY <1>s, <1>e, SMT DEF Known
<1>n. /\ \A m \in net : m.hs \in Nat \X Nat
      /\ \A x \in installed : x[2] \in Nat \X Nat
      /\ responder \in Nat \X Nat /\ hs2Frame \in Nat \X Nat
  <2>1. Ephs \subseteq Nat /\ Nil \in Nat
    BY MaxEphAssumption, SMT DEF Ephs, Nil
  <2>2. Session \subseteq Nat \X Nat /\ NoSession \in Nat \X Nat /\ Ephs \X {Nil} \subseteq Nat \X Nat
    BY <2>1 DEF Session, NoSession
  <2>3. \A m \in net : m.hs \in Session \/ m.hs \in Ephs \X {Nil}
    BY <1>t DEF TypeOK, Messages
  <2> QED
    BY <1>t, <2>2, <2>3 DEF TypeOK
<1>1. Bounded'
  <2>1. \A m \in net' : m.type # "DATA" => m.hs[1] <= ephs'[I] /\ m.hs[2] <= ephs'[R]
    <3>1. ephs[I] + 1 <= ephs'[I] /\ Nil <= ephs'[R]
      BY <1>s, <1>e, SMT DEF Nil
    <3> QED
      BY <1>k, <1>n, <1>e, <3>1 DEF IInv, Bounded
  <2>2. \A x \in installed' : x[2][1] <= ephs'[I] /\ x[2][2] <= ephs'[R]
    BY <1>k, <1>n DEF IInv, Bounded
  <2>3. /\ initiatorHS'.eph <= ephs'[I] /\ Nil <= ephs'[R] /\ hs1Frame' <= ephs'[I]
    BY <1>s, <1>e, <1>i, SMT DEF Nil
  <2>4. /\ responder'[1] <= ephs'[I] /\ responder'[2] <= ephs'[R]
        /\ hs2Frame'[1] <= ephs'[I] /\ hs2Frame'[2] <= ephs'[R]
    BY <1>k, <1>n DEF IInv, Bounded
  <2> QED
    BY <2>1, <2>2, <2>3, <2>4 DEF Bounded, Known
<1>2. Completed'
  BY DEF IInv, Completed
<1>3. OneAnswer'
  BY DEF IInv, OneAnswer
<1>4. InitiatorOnce'
  <2>1. \A s \in Session : <<I, s>> \in installed => s[1] # ephs[I] + 1
    <3> SUFFICES ASSUME NEW s \in Session, <<I, s>> \in installed PROVE s[1] # ephs[I] + 1
      OBVIOUS
    <3>1. s[1] <= ephs[I]
      BY DEF IInv, Bounded, Known
    <3> QED
      BY <1>s, <3>1, SMT
  <2>2. \A s \in Session : <<I, s>> \in installed => \E m \in net' : m.type = "HS2" /\ m.hs = s
    BY DEF IInv, InitiatorOnce
  <2> QED
    BY <1>i, <2>1, <2>2 DEF IInv, InitiatorOnce
<1>5. ResponderOnce' /\ Agreement' /\ ~reinstalled'
  BY DEF IInv, ResponderOnce, Agreement
<1> QED
  BY <1>1, <1>2, <1>3, <1>4, <1>5 DEF IInv

(* The half-open handshake for a new HS1: its responder ephemeral is newer   *)
(* than all in use.                                                          *)
LEMMA FreshResponder ==
  ASSUME IInv, TypeOK', NEW m \in net, m.type = "HS1", Accepts(m),
         installed' = installed, reinstalled' = reinstalled,
         initiatorHS' = initiatorHS, hs1Frame' = hs1Frame, hs3Frame' = hs3Frame
  PROVE  IInv'
<1>t. TypeOK
  BY DEF IInv
<1>s. /\ ephs[I] \in Nat /\ ephs[R] \in Nat
      /\ \A s \in Session : s[1] \in Nat /\ s[2] \in Nat
  BY <1>t, Shapes
<1>a. /\ responder' \in Session /\ hs2Frame' = responder'
      /\ responder'[1] = m.hs[1] /\ responder'[2] = ephs[R] + 1
      /\ ephs'[R] = ephs[R] + 1 /\ ephs'[I] = ephs[I]
  BY <1>t, AcceptType
<1>d. /\ net \subseteq net'
      /\ \A x \in net' \ net : x.type = "HS2" /\ x.hs = responder'
  BY DEF Accepts, sendFrame, Datagram
<1>k. \A hs \in (Nat \X Nat) : Known(hs) => (hs[1] <= ephs'[I] /\ hs[2] <= ephs'[R])
  BY <1>s, <1>a, SMT DEF Known
<1>n. /\ \A x \in net : x.hs \in Nat \X Nat
      /\ \A x \in installed : x[2] \in Nat \X Nat
      /\ <<initiatorHS.eph, Nil>> \in Nat \X Nat /\ <<hs1Frame, Nil>> \in Nat \X Nat
  <2>1. Ephs \subseteq Nat /\ Nil \in Nat
    BY MaxEphAssumption, SMT DEF Ephs, Nil
  <2>2. Session \subseteq Nat \X Nat /\ Ephs \X {Nil} \subseteq Nat \X Nat
    BY <2>1 DEF Session
  <2>3. \A x \in net : x.hs \in Session \/ x.hs \in Ephs \X {Nil}
    BY <1>t DEF TypeOK, Messages
  <2>4. initiatorHS.eph \in Nat /\ hs1Frame \in Nat
    BY <1>t, <2>1 DEF TypeOK
  <2> QED
    BY <1>t, <2>1, <2>2, <2>3, <2>4 DEF TypeOK
<1>1. Bounded'
  <2>1. responder'[1] <= ephs'[I] /\ responder'[2] <= ephs'[R]
    <3>1. m.hs[1] <= ephs[I]
      BY DEF IInv, Bounded, Known
    <3>2. ephs[R] + 1 <= ephs[R] + 1
      BY <1>s, SMT
    <3> QED
      BY <1>a, <3>1, <3>2
  <2>2. \A x \in net' : x.type # "DATA" => x.hs[1] <= ephs'[I] /\ x.hs[2] <= ephs'[R]
    BY <1>d, <1>k, <1>n, <2>1 DEF IInv, Bounded
  <2>3. \A x \in installed' : x[2][1] <= ephs'[I] /\ x[2][2] <= ephs'[R]
    BY <1>k, <1>n DEF IInv, Bounded
  <2>4. /\ initiatorHS'.eph <= ephs'[I] /\ Nil <= ephs'[R] /\ hs1Frame' <= ephs'[I]
    BY <1>k, <1>n DEF IInv, Bounded
  <2> QED
    BY <1>a, <2>1, <2>2, <2>3, <2>4 DEF Bounded, Known
<1>2. Completed'
  BY <1>d DEF IInv, Completed
<1>f. \A x \in net : x.type = "HS2" => x.hs[2] # ephs[R] + 1
  <2> SUFFICES ASSUME NEW x \in net, x.type = "HS2" PROVE x.hs[2] # ephs[R] + 1
    OBVIOUS
  <2>1. x.hs[2] <= ephs[R] /\ x.hs[2] \in Nat
    BY <1>n DEF IInv, Bounded, Known
  <2> QED
    BY <1>s, <2>1, SMT
<1>3. OneAnswer'
  <2>1. \A x \in net' : x.type = "HS2" /\ x.hs[2] = hs2Frame'[2] => x.hs = hs2Frame'
    BY <1>a, <1>d, <1>f
  <2>2. \A x, y \in net' : x.type = "HS2" /\ y.type = "HS2" /\ x.hs[2] = y.hs[2] => x.hs = y.hs
    BY <1>a, <1>d, <1>f, <2>1 DEF IInv, OneAnswer
  <2> QED
    BY <1>a, <2>1, <2>2 DEF OneAnswer
<1>4. InitiatorOnce'
  <2>1. \A s \in Session : <<I, s>> \in installed => \E x \in net' : x.type = "HS2" /\ x.hs = s
    BY <1>d DEF IInv, InitiatorOnce
  <2> QED
    BY <2>1 DEF IInv, InitiatorOnce
<1>5. ResponderOnce'
  <2> SUFFICES ASSUME NEW s \in Session, <<R, s>> \in installed PROVE s[2] # ephs[R] + 1
    BY <1>a DEF ResponderOnce
  <2>1. s[2] <= ephs[R]
    BY DEF IInv, Bounded, Known
  <2> QED
    BY <1>s, <2>1, SMT
<1>6. Agreement' /\ ~reinstalled'
  BY DEF IInv, Agreement
<1> QED
  BY <1>1, <1>2, <1>3, <1>4, <1>5, <1>6 DEF IInv

(* The initiator installs the session of an HS2 that answers its HS1.        *)
LEMMA InitiatorInstalls ==
  ASSUME IInv, TypeOK', NEW m \in net, m.type = "HS2", onHS2(m), ReadMessage2(m)
  PROVE  IInv'
<1>t. TypeOK /\ m.hs \in Session
  BY MessageType DEF IInv
<1>1. /\ installed' = installed \cup {<<I, m.hs>>}
      /\ reinstalled' = (reinstalled \/ <<I, m.hs>> \in installed)
      /\ initiatorHS' = [initiatorHS EXCEPT !.phase = "complete"]
      /\ hs3Frame' = m.hs
      /\ ephs' = ephs /\ hs1Frame' = hs1Frame /\ responder' = responder /\ hs2Frame' = hs2Frame
  BY DEF onHS2, setSessionLocked, respVars
<1>2. initiatorHS'.phase = "complete" /\ initiatorHS'.eph = initiatorHS.eph
  BY <1>t, <1>1 DEF TypeOK
<1>d. /\ net \subseteq net'
      /\ \A x \in net' \ net : x.type = "HS3" /\ x.hs = m.hs
  BY DEF onHS2, sendFrame, Datagram
<1>3. initiatorHS.phase = "message1" /\ initiatorHS.eph = m.hs[1]
  BY DEF ReadMessage2
<1>4. \A s \in Session : <<I, s>> \in installed => s[1] # m.hs[1] /\ s[2] # m.hs[2]
  <2> SUFFICES ASSUME NEW s \in Session, <<I, s>> \in installed
               PROVE  s[1] # m.hs[1] /\ s[2] # m.hs[2]
    OBVIOUS
  <2>1. s[1] # m.hs[1]
    BY <1>3 DEF IInv, InitiatorOnce
  <2>2. PICK n \in net : n.type = "HS2" /\ n.hs = s
    BY DEF IInv, InitiatorOnce
  <2>3. s[2] = m.hs[2] => s = m.hs
    BY <2>2 DEF IInv, OneAnswer
  <2> QED
    BY <2>1, <2>3
<1>5. Known(m.hs)
  BY DEF IInv, Bounded
<1>6. Bounded'
  BY <1>1, <1>2, <1>5, <1>d DEF IInv, Bounded, Known
<1>7. Completed'
  BY <1>1, <1>d DEF IInv, Completed
<1>8. OneAnswer'
  BY <1>1, <1>d DEF IInv, OneAnswer
<1>9. InitiatorOnce'
  <2>1. \A s \in Session : <<I, s>> \in installed' => (s = m.hs \/ <<I, s>> \in installed)
    BY <1>1
  <2>2. \A s \in Session : <<I, s>> \in installed' => \E x \in net' : x.type = "HS2" /\ x.hs = s
    BY <1>d, <2>1 DEF IInv, InitiatorOnce
  <2>3. \A s, t \in Session :
          <<I, s>> \in installed' /\ <<I, t>> \in installed' /\ (s[1] = t[1] \/ s[2] = t[2]) => s = t
    BY <1>4, <2>1 DEF IInv, InitiatorOnce
  <2> QED
    BY <1>2, <2>2, <2>3 DEF InitiatorOnce
<1>10. ResponderOnce'
  BY <1>1, Roles DEF IInv, ResponderOnce
<1>11. Agreement'
  BY <1>1, Roles DEF IInv, Agreement
<1>12. ~reinstalled'
  BY <1>t, <1>1, <1>4 DEF IInv
<1> QED
  BY <1>6, <1>7, <1>8, <1>9, <1>10, <1>11, <1>12 DEF IInv

(* The responder installs its half-open handshake when its HS3 arrives.      *)
LEMMA ResponderInstalls ==
  ASSUME IInv, TypeOK', NEW m \in net, m.type = "HS3", onHS3(m), ReadMessage3(m)
  PROVE  IInv'
<1>t. TypeOK /\ m.hs \in Session
  BY MessageType DEF IInv
<1>s. /\ \A s \in Session : s[2] # 0
      /\ NoSession[2] = 0 /\ Known(NoSession)
  BY <1>t, Shapes
<1>1. /\ installed' = installed \cup {<<R, m.hs>>}
      /\ reinstalled' = (reinstalled \/ <<R, m.hs>> \in installed)
      /\ responder' = NoSession /\ hs2Frame' = NoSession
      /\ initiatorHS' = initiatorHS /\ hs3Frame' = hs3Frame /\ hs1Frame' = hs1Frame
      /\ ephs' = ephs /\ net' = net
      /\ responder # NoSession /\ m.hs = responder
  BY DEF onHS3, setSessionLocked, ReadMessage3, initVars
<1>2. <<R, m.hs>> \notin installed
  BY <1>t, <1>1 DEF IInv, ResponderOnce
<1>3. <<I, m.hs>> \in installed
  BY DEF IInv, Completed
<1>4. Bounded'
  BY <1>1, <1>s DEF IInv, Bounded, Known
<1>5. Completed'
  BY <1>1 DEF IInv, Completed
<1>6. OneAnswer'
  <2>1. \A x \in net : x.type = "HS2" => x.hs \in Session
    BY <1>t, MessageType
  <2> QED
    BY <1>1, <1>s, <2>1 DEF IInv, OneAnswer
<1>7. InitiatorOnce'
  BY <1>1, Roles DEF IInv, InitiatorOnce
<1>8. ResponderOnce'
  BY <1>1 DEF ResponderOnce
<1>9. Agreement'
  BY <1>1, <1>3, Roles DEF IInv, Agreement
<1>10. ~reinstalled'
  BY <1>1, <1>2 DEF IInv
<1> QED
  BY <1>4, <1>5, <1>6, <1>7, <1>8, <1>9, <1>10 DEF IInv

-----------------------------------------------------------------------------
(* Every action is one of the steps above.                                   *)

LEMMA SendAdds ==
  ASSUME NEW p, NEW type, NEW pth, NEW hs, sendFrame(p, type, pth, hs)
  PROVE  /\ net \subseteq net'
         /\ \A m \in net' \ net : m.type = type /\ m.hs = hs
  BY DEF sendFrame, Datagram

LEMMA ResetForgets ==
  ASSUME NEW p \in Peers, resetHandshakeLocked(p)
  PROVE  /\ initiatorHS' \in {initiatorHS, NoHS} /\ hs1Frame' \in {hs1Frame, Nil}
         /\ hs3Frame' \in {hs3Frame, NoSession}
         /\ \/ responder' = responder /\ hs2Frame' = hs2Frame
            \/ responder' = NoSession /\ hs2Frame' \in {hs2Frame, NoSession}
  BY DEF resetHandshakeLocked, initVars, respVars

LEMMA InitIInv == Init => IInv
<1> SUFFICES ASSUME Init PROVE IInv
  OBVIOUS
<1>t. TypeOK
  BY InitType
<1>1. Known(NoSession) /\ Known(<<NoHS.eph, Nil>>) /\ Known(<<Nil, Nil>>)
  BY <1>t, Shapes
<1>2. Bounded
  BY <1>1 DEF Init, Bounded
<1>3. Completed /\ OneAnswer /\ ResponderOnce /\ Agreement /\ ~reinstalled
  BY DEF Init, Completed, OneAnswer, ResponderOnce, Agreement
<1>4. InitiatorOnce
  BY DEF Init, InitiatorOnce
<1> QED
  BY <1>t, <1>2, <1>3, <1>4 DEF IInv

LEMMA RunIInv == ASSUME IInv, NEW p \in Peers, RunStep(p) PROVE IInv'
<1>t. TypeOK'
  BY RunType
<1>1. CASE RunStart(p)
  BY <1>t, <1>1, QuietStep DEF RunStart, initVars, respVars
<1>2. CASE Snapshot(p)
  BY <1>t, <1>2, QuietStep DEF Snapshot, initVars, respVars, sessVars
<1>3. CASE forceRehandshake(p)
  BY <1>t, <1>3, QuietStep, ResetForgets DEF forceRehandshake
<1>4. CASE punchProbe(p)
  BY <1>t, <1>4, QuietStep DEF punchProbe, initVars, respVars, sessVars
<1>5. CASE switchMode(p)
  BY <1>t, <1>5, QuietStep, ResetForgets DEF switchMode
<1>6. CASE EndTick(p)
  BY <1>t, <1>6, QuietStep DEF EndTick, initVars, respVars, sessVars
<1> QED
  BY <1>1, <1>2, <1>3, <1>4, <1>5, <1>6 DEF RunStep

LEMMA InitiatorIInv == ASSUME IInv, InitiatorStep PROVE IInv'
<1>t. TypeOK /\ TypeOK' /\ I \in Peers
  BY InitiatorType, Roles DEF IInv
<1>1. CASE resendHS3
  <2>1. \/ UNCHANGED net
        \/ <<I, hs3Frame>> \in installed /\ sendFrame(I, "HS3", mode[I], hs3Frame)
    BY <1>1 DEF resendHS3, IInv, Completed
  <2>2. /\ net \subseteq net'
        /\ \A m \in net' \ net : m.type = "HS3" /\ <<I, m.hs>> \in installed
    BY <2>1, SendAdds
  <2> QED
    BY <1>t, <1>1, <2>2, QuietStep DEF resendHS3, initVars, respVars, sessVars
<1>2. CASE punchHS1
  <2>0. /\ net \subseteq net'
        /\ \A m \in net' \ net : m.type = "HS1" /\ m.hs = <<hs1Frame', Nil>>
    BY <1>2, SendAdds DEF punchHS1
  <2>1. CASE UNCHANGED <<initiatorHS, hs1Frame, ephs>>
    <3>1. \A m \in net' \ net : m.type = "HS1" /\ Known(m.hs)
      BY <2>0, <2>1 DEF IInv, Bounded
    <3> QED
      BY <1>t, <1>2, <2>0, <2>1, <3>1, QuietStep DEF punchHS1, respVars, sessVars
  <2>2. CASE NewInitiator
    BY <1>t, <1>2, <2>0, <2>2, FreshInitiator DEF punchHS1, respVars, sessVars
  <2> QED
    BY <1>2, <2>1, <2>2 DEF punchHS1
<1>3. CASE abandonRoaming
  BY <1>t, <1>3, QuietStep, ResetForgets DEF abandonRoaming
<1>4. CASE retryDirect
  <2>1. /\ net \subseteq net'
        /\ \A m \in net' \ net : m.type = "HS1" /\ m.hs = <<hs1Frame', Nil>>
    BY <1>4, SendAdds DEF retryDirect
  <2> QED
    BY <1>t, <1>4, <2>1, FreshInitiator DEF retryDirect, respVars
<1> QED
  BY <1>1, <1>2, <1>3, <1>4 DEF InitiatorStep

LEMMA ReceiveIInv == ASSUME IInv, NEW m \in net, Receive(m) PROVE IInv'
<1>t. TypeOK /\ TypeOK'
  BY ReceiveType DEF IInv
<1>1. CASE m.type = "HS1" /\ onHS1(m)
  <2>0. UNCHANGED <<installed, reinstalled, initiatorHS, hs1Frame, hs3Frame>>
    BY <1>1 DEF onHS1, initVars
  <2>1. CASE responder # NoSession /\ sendFrame(R, "HS2", m.path, hs2Frame)
             /\ UNCHANGED <<mode, respVars, ephs, fuel>>
    <3>1. net \subseteq net' /\ \A x \in net' \ net : x.type = "HS2" /\ x.hs = hs2Frame
      BY <2>1, SendAdds
    <3> QED
      BY <1>t, <2>0, <2>1, <3>1, QuietStep DEF respVars
  <2>2. CASE Accepts(m)
    BY <1>t, <1>1, <2>0, <2>2, FreshResponder
  <2> QED
    BY <1>1, <2>1, <2>2, HS1Cases
<1>2. CASE m.type = "HS2" /\ onHS2(m)
  <2>1. CASE ReadMessage2(m)
    BY <1>t, <1>2, <2>1, InitiatorInstalls
  <2>2. CASE ~ReadMessage2(m)
    BY <1>t, <1>2, <2>2, QuietStep DEF onHS2, respVars, sessVars
  <2> QED
    BY <2>1, <2>2
<1>3. CASE m.type = "HS3" /\ onHS3(m)
  <2>1. CASE ReadMessage3(m)
    BY <1>t, <1>3, <2>1, ResponderInstalls
  <2>2. CASE ~ReadMessage3(m)
    BY <1>t, <1>3, <2>2, QuietStep DEF onHS3, initVars, sessVars
  <2> QED
    BY <2>1, <2>2
<1>4. CASE m.type = "DATA" /\ onData(m)
  BY <1>t, <1>4, QuietStep DEF onData, respVars, sessVars
<1> QED
  BY <1>1, <1>2, <1>3, <1>4 DEF Receive

LEMMA CallIInv ==
  ASSUME IInv, NEW p \in Peers, Send(p) \/ SetDirectEP(p) \/ Restart(p)
  PROVE  IInv'
<1>t. TypeOK'
  BY CallType
<1>1. CASE Send(p)
  <2>1. net \subseteq net' /\ \A x \in net' \ net : x.type = "DATA"
    BY <1>1, SendAdds DEF Send
  <2> QED
    BY <1>t, <1>1, <2>1, QuietStep DEF Send, initVars, respVars, sessVars
<1>2. CASE SetDirectEP(p)
  BY <1>t, <1>2, QuietStep DEF SetDirectEP, initVars, respVars, sessVars
<1>3. CASE Restart(p)
  BY <1>t, <1>3, QuietStep, ResetForgets DEF Restart
<1> QED
  BY <1>1, <1>2, <1>3

LEMMA NextIInv == IInv /\ [Next]_vars => IInv'
<1> SUFFICES ASSUME IInv, [Next]_vars PROVE IInv'
  OBVIOUS
<1>1. CASE UNCHANGED vars
  <2>1. TypeOK'
    BY NextType
  <2> QED
    BY <1>1, <2>1, QuietStep DEF vars, sessVars, initVars, respVars
<1> QED
  BY <1>1, RunIInv, InitiatorIInv, ReceiveIInv, CallIInv DEF Next

(* The inductive invariant: IInv holds in every reachable state of the two   *)
(* peers, whatever the network does.                                         *)
THEOREM Invariance == Spec => []IInv
  BY InitIInv, NextIInv, PTL DEF Spec

(* Every field of both Peers keeps its type: no handshake is built from an   *)
(* ephemeral that was not generated, and none is sent to the wrong role.     *)
THEOREM TypeCorrect == Spec => []TypeOK
<1>1. IInv => TypeOK
  BY DEF IInv
<1> QED
  BY <1>1, Invariance, PTL

(* A responder installs no session its initiator did not install first.      *)
THEOREM ResponderAgrees == Spec => []Agreement
<1>1. IInv => Agreement
  BY DEF IInv
<1> QED
  BY <1>1, Invariance, PTL

(* setSessionLocked is called at most once per session on each side, and an  *)
(* ephemeral serves one session only, so no nonce counter and no replay      *)
(* window is ever restarted under a key already used.                        *)
THEOREM SessionKeysOnce == Spec => []KeysInstalledOnce
<1>1. IInv => KeysInstalledOnce
  <2> SUFFICES ASSUME IInv, NEW x \in installed, NEW y \in installed,
                      x[1] = y[1], x[2][1] = y[2][1] \/ x[2][2] = y[2][2]
               PROVE  x = y
    BY DEF IInv, KeysInstalledOnce
  <2>1. /\ x[1] \in {I, R} /\ x[2] \in Session /\ y[2] \in Session
        /\ x = <<x[1], x[2]>> /\ y = <<y[1], y[2]>>
    BY DEF IInv, TypeOK, Peers
  <2>2. <<I, x[2]>> \in installed /\ <<I, y[2]>> \in installed
    BY <2>1 DEF IInv, Agreement
  <2>3. x[2] = y[2]
    BY <2>1, <2>2 DEF IInv, InitiatorOnce
  <2> QED
    BY <2>1, <2>3
<1> QED
  BY <1>1, Invariance, PTL


-----------------------------------------------------------------------------
(* What a step can do to the session of either side.                         *)

InitiatorSide ==
  \/ UNCHANGED <<hs3Pending, hs3Frame, established[I], sess[I]>>
  \/ hs3Pending' = FALSE
  \/ established'[I] /\ hs3Frame' = sess'[I] /\ sess'[I] \in Session

(* Kept, given up, kept while an HS1 is answered, or replaced by the         *)
(* handshake that an accepted HS1 opened.                                    *)
ResponderSide ==
  \/ /\ UNCHANGED <<established[R], path[R], sess[R]>>
     /\ responder' \in {responder, NoSession} \/ MayHandshake
  \/ ~established'[R] /\ sess'[R] = NoSession
  \/ responder # NoSession /\ responder' = NoSession

LEMMA ResetSides ==
  ASSUME NEW p \in Peers, resetHandshakeLocked(p)
  PROVE  /\ p = I => hs3Pending' = FALSE /\ responder' = responder
         /\ p = R => hs3Pending' = hs3Pending /\ hs3Frame' = hs3Frame /\ responder' = NoSession
  BY Roles DEF resetHandshakeLocked, initVars, respVars

LEMMA RunSides == ASSUME IInv, NEW p \in Peers, RunStep(p) PROVE InitiatorSide /\ ResponderSide
<1>t. TypeOK /\ (p = I \/ p = R) /\ I # R /\ I \in Peers /\ R \in Peers
  BY Roles DEF IInv
<1>1. CASE RunStart(p)
  BY <1>1 DEF RunStart, initVars, respVars, InitiatorSide, ResponderSide
<1>2. CASE Snapshot(p)
  BY <1>2 DEF Snapshot, initVars, respVars, sessVars, InitiatorSide, ResponderSide
<1>3. CASE forceRehandshake(p)
  <2>1. /\ sess' = [sess EXCEPT ![p] = NoSession]
        /\ established' = [established EXCEPT ![p] = FALSE]
        /\ path' = path
        /\ resetHandshakeLocked(p)
    BY <1>3 DEF forceRehandshake
  <2> QED
    BY <1>t, <2>1, ResetSides DEF TypeOK, InitiatorSide, ResponderSide
<1>4. CASE punchProbe(p)
  BY <1>4 DEF punchProbe, initVars, respVars, sessVars, InitiatorSide, ResponderSide
<1>5. CASE switchMode(p)
  BY <1>t, <1>5, ResetSides DEF switchMode, InitiatorSide, ResponderSide
<1>6. CASE EndTick(p)
  BY <1>6 DEF EndTick, initVars, respVars, sessVars, InitiatorSide, ResponderSide
<1> QED
  BY <1>1, <1>2, <1>3, <1>4, <1>5, <1>6 DEF RunStep

LEMMA InitiatorSides == ASSUME InitiatorStep PROVE InitiatorSide /\ ResponderSide
<1>1. CASE resendHS3
  BY <1>1 DEF resendHS3, initVars, respVars, sessVars, InitiatorSide, ResponderSide
<1>2. CASE punchHS1
  BY <1>2 DEF punchHS1, respVars, sessVars, InitiatorSide, ResponderSide
<1>3. CASE abandonRoaming
  BY <1>3, Roles, ResetSides DEF abandonRoaming, InitiatorSide, ResponderSide
<1>4. CASE retryDirect
  BY <1>4 DEF retryDirect, respVars, InitiatorSide, ResponderSide
<1> QED
  BY <1>1, <1>2, <1>3, <1>4 DEF InitiatorStep

LEMMA ReceiveSides == ASSUME IInv, NEW m \in net, Receive(m) PROVE InitiatorSide /\ ResponderSide
<1>t. TypeOK /\ I # R /\ I \in Peers /\ R \in Peers
  BY Roles DEF IInv
<1>1. CASE m.type = "HS1" /\ onHS1(m)
  BY <1>1 DEF onHS1, initVars, InitiatorSide, ResponderSide
<1>2. CASE m.type = "HS2" /\ onHS2(m)
  <2>1. CASE ReadMessage2(m)
    <3>1. m.hs \in Session
      BY <1>t, <1>2, MessageType
    <3>2. /\ sess' = [sess EXCEPT ![I] = m.hs]
          /\ established' = [established EXCEPT ![I] = TRUE]
          /\ path' = [path EXCEPT ![I] = m.path]
          /\ hs3Frame' = m.hs /\ responder' = responder
      BY <1>2, <2>1 DEF onHS2, setSessionLocked, respVars
    <3> QED
      BY <1>t, <3>1, <3>2 DEF TypeOK, InitiatorSide, ResponderSide
  <2>2. CASE ~ReadMessage2(m)
    BY <1>2, <2>2 DEF onHS2, respVars, sessVars, InitiatorSide, ResponderSide
  <2> QED
    BY <2>1, <2>2
<1>3. CASE m.type = "HS3" /\ onHS3(m)
  <2>1. CASE ReadMessage3(m)
    <3>1. /\ sess' = [sess EXCEPT ![R] = responder]
          /\ established' = [established EXCEPT ![R] = TRUE]
          /\ responder # NoSession /\ responder' = NoSession
          /\ UNCHANGED initVars
      BY <1>3, <2>1 DEF onHS3, setSessionLocked
    <3> QED
      BY <1>t, <3>1 DEF TypeOK, initVars, InitiatorSide, ResponderSide
  <2>2. CASE ~ReadMessage3(m)
    BY <1>3, <2>2 DEF onHS3, initVars, sessVars, InitiatorSide, ResponderSide
  <2> QED
    BY <2>1, <2>2
<1>4. CASE m.type = "DATA" /\ onData(m)
  BY <1>4 DEF onData, respVars, sessVars, InitiatorSide, ResponderSide
<1> QED
  BY <1>1, <1>2, <1>3, <1>4 DEF Receive

LEMMA CallSides ==
  ASSUME IInv, NEW p \in Peers, Send(p) \/ SetDirectEP(p) \/ Restart(p)
  PROVE  InitiatorSide /\ ResponderSide
<1>t. TypeOK /\ (p = I \/ p = R) /\ I # R /\ I \in Peers /\ R \in Peers
  BY Roles DEF IInv
<1>1. CASE Send(p)
  BY <1>1 DEF Send, initVars, respVars, sessVars, InitiatorSide, ResponderSide
<1>2. CASE SetDirectEP(p)
  BY <1>2 DEF SetDirectEP, initVars, respVars, sessVars, InitiatorSide, ResponderSide
<1>3. CASE Restart(p)
  <2>1. /\ sess' = [sess EXCEPT ![p] = NoSession]
        /\ established' = [established EXCEPT ![p] = FALSE]
        /\ path' = [path EXCEPT ![p] = PathNone]
        /\ resetHandshakeLocked(p)
    BY <1>3 DEF Restart
  <2> QED
    BY <1>t, <2>1, ResetSides DEF TypeOK, InitiatorSide, ResponderSide
<1> QED
  BY <1>1, <1>2, <1>3

LEMMA NextSides == ASSUME IInv, [Next]_vars PROVE InitiatorSide /\ ResponderSide
<1>1. CASE UNCHANGED vars
  BY <1>1 DEF vars, sessVars, initVars, respVars, InitiatorSide, ResponderSide
<1> QED
  BY <1>1, RunSides, InitiatorSides, ReceiveSides, CallSides DEF Next

(* A half-open handshake exists only where onHS1 still takes an HS1: none    *)
(* survives the installation of a direct session.                            *)
SessionInv == PendingHS3IsCurrent /\ (responder # NoSession => MayHandshake)

LEMMA SessionStep == IInv /\ SessionInv /\ [Next]_vars => SessionInv'
<1> SUFFICES ASSUME IInv, SessionInv, [Next]_vars PROVE SessionInv'
  OBVIOUS
<1>1. InitiatorSide /\ ResponderSide
  BY NextSides
<1>2. PendingHS3IsCurrent'
  BY <1>1, NilIsNoEph DEF InitiatorSide, SessionInv, PendingHS3IsCurrent
<1>3. (responder # NoSession => MayHandshake)'
  BY <1>1 DEF ResponderSide, SessionInv, MayHandshake
<1> QED
  BY <1>2, <1>3 DEF SessionInv

LEMMA SessionInvariance == Spec => [](IInv /\ SessionInv)
<1>1. Init => SessionInv
  BY DEF Init, SessionInv, PendingHS3IsCurrent
<1> QED
  BY <1>1, InitIInv, NextIInv, SessionStep, PTL DEF Spec

(* Whatever resets the initiator's handshake (rotation, a switch of paths, a *)
(* roaming attempt begun or given up, a restart) also forgets its HS3: Run   *)
(* only ever re-emits the HS3 of the session in use.                         *)
THEOREM HS3IsCurrent == Spec => []PendingHS3IsCurrent
<1>1. SessionInv => PendingHS3IsCurrent
  BY DEF SessionInv
<1> QED
  BY <1>1, SessionInvariance, PTL

(* onHS1 and onHS3 together never replace the responder's direct session,    *)
(* although only onHS1 looks at it.                                          *)
THEOREM DirectSessionStays == Spec => DirectSessionKept
<1>1. IInv /\ SessionInv /\ [Next]_vars =>
        [(established[R] /\ path[R] = "direct" /\ sess'[R] # sess[R]) => sess'[R] = NoSession]_vars
  <2> SUFFICES ASSUME IInv, SessionInv, [Next]_vars,
                      established[R], path[R] = "direct", sess'[R] # sess[R]
               PROVE  sess'[R] = NoSession
    OBVIOUS
  <2>1. ResponderSide
    BY NextSides
  <2> QED
    BY <2>1 DEF ResponderSide, SessionInv, MayHandshake
<1> QED
  BY <1>1, SessionInvariance, PTL DEF Spec, DirectSessionKept


-----------------------------------------------------------------------------
(* The order of sessions.  Five kinds of steps matter to it: a fresh         *)
(* attempt, an HS1 accepted, the two installations, and the rest, which      *)
(* installs nothing and at most gives up a session.                          *)

Drops(p) ==
  /\ sess' = [sess EXCEPT ![p] = NoSession]
  /\ established' = [established EXCEPT ![p] = FALSE]
  /\ \A q \in Peers \ {p} : path'[q] = path[q]

Forgets ==
  /\ installed' = installed /\ ephs' = ephs
  /\ UNCHANGED <<sess, established, path>> \/ \E p \in Peers : Drops(p)
  /\ initiatorHS' \in {initiatorHS, NoHS}
  /\ responder' \in {responder, NoSession} /\ hs2Frame' \in {hs2Frame, NoSession}
  /\ \A m \in net' \ net : m.type = "HS2" => m.hs = hs2Frame

Attempts ==
  /\ NewInitiator
  /\ UNCHANGED <<installed, sess, established, path, responder, hs2Frame>>
  /\ \A m \in net' \ net : m.type # "HS2"

Answers ==
  /\ MayHandshake
  /\ UNCHANGED <<installed, sess, established, path, initiatorHS>>
  /\ \E m \in net : m.type = "HS1" /\ Accepts(m)

InitiatorIn ==
  /\ initiatorHS.phase = "message1" /\ initiatorHS'.phase = "complete"
  /\ UNCHANGED <<ephs, responder, hs2Frame>>
  /\ \A m \in net' \ net : m.type # "HS2"
  /\ \E m \in net : /\ m.type = "HS2" /\ m.hs[1] = initiatorHS.eph
                    /\ installed' = installed \cup {<<I, m.hs>>}
                    /\ sess' = [sess EXCEPT ![I] = m.hs]
  /\ established' = [established EXCEPT ![I] = TRUE] /\ path'[R] = path[R]

ResponderIn ==
  /\ responder # NoSession /\ <<I, responder>> \in installed
  /\ installed' = installed \cup {<<R, responder>>}
  /\ sess' = [sess EXCEPT ![R] = responder]
  /\ established' = [established EXCEPT ![R] = TRUE]
  /\ responder' = NoSession /\ hs2Frame' = NoSession
  /\ UNCHANGED <<initiatorHS, ephs, net>>

LEMMA ReceiveKinds ==
  ASSUME IInv, NEW m \in net, Receive(m)
  PROVE  Forgets \/ Answers \/ InitiatorIn \/ ResponderIn
<1>t. TypeOK
  BY DEF IInv
<1>1. CASE m.type = "HS1" /\ onHS1(m)
  <2>0. MayHandshake /\ UNCHANGED <<installed, sess, established, path, initiatorHS>>
    BY <1>1 DEF onHS1, initVars
  <2>1. CASE responder # NoSession /\ sendFrame(R, "HS2", m.path, hs2Frame)
             /\ UNCHANGED <<mode, respVars, ephs, fuel>>
    <3>1. \A x \in net' \ net : x.type = "HS2" /\ x.hs = hs2Frame
      BY <2>1, SendAdds
    <3> QED
      BY <2>0, <2>1, <3>1 DEF respVars, Forgets
  <2>2. CASE Accepts(m)
    BY <1>1, <2>0, <2>2 DEF Answers
  <2> QED
    BY <1>1, <2>1, <2>2, HS1Cases
<1>2. CASE m.type = "HS2" /\ onHS2(m)
  <2>1. CASE ReadMessage2(m)
    <3>1. /\ installed' = installed \cup {<<I, m.hs>>} /\ sess' = [sess EXCEPT ![I] = m.hs]
          /\ initiatorHS' = [initiatorHS EXCEPT !.phase = "complete"]
          /\ established' = [established EXCEPT ![I] = TRUE]
          /\ path' = [path EXCEPT ![I] = m.path]
          /\ UNCHANGED <<ephs, responder, hs2Frame>>
          /\ sendFrame(I, "HS3", m.path, m.hs)
      BY <1>2, <2>1 DEF onHS2, setSessionLocked, respVars
    <3>2. initiatorHS'.phase = "complete"
      BY <1>t, <3>1 DEF TypeOK
    <3>3. \A x \in net' \ net : x.type # "HS2"
      BY <3>1, SendAdds
    <3>4. path'[R] = path[R]
      BY <1>t, <3>1, Roles DEF TypeOK
    <3> QED
      BY <1>2, <2>1, <3>1, <3>2, <3>3, <3>4 DEF ReadMessage2, InitiatorIn
  <2>2. CASE ~ReadMessage2(m)
    BY <1>2, <2>2 DEF onHS2, respVars, sessVars, Forgets
  <2> QED
    BY <2>1, <2>2
<1>3. CASE m.type = "HS3" /\ onHS3(m)
  <2>1. CASE ReadMessage3(m)
    <3>1. <<I, m.hs>> \in installed /\ m.hs = responder
      BY <1>3, <2>1 DEF IInv, Completed, ReadMessage3
    <3> QED
      BY <1>3, <2>1, <3>1 DEF onHS3, setSessionLocked, initVars, ResponderIn
  <2>2. CASE ~ReadMessage3(m)
    BY <1>3, <2>2 DEF onHS3, initVars, sessVars, Forgets
  <2> QED
    BY <2>1, <2>2
<1>4. CASE m.type = "DATA" /\ onData(m)
  BY <1>4 DEF onData, respVars, sessVars, Forgets
<1> QED
  BY <1>1, <1>2, <1>3, <1>4 DEF Receive

LEMMA LocalKinds ==
  ASSUME IInv,
         \/ InitiatorStep \/ UNCHANGED vars
         \/ \E p \in Peers : RunStep(p) \/ Send(p) \/ SetDirectEP(p) \/ Restart(p)
  PROVE  Forgets \/ Attempts
<1>1. ASSUME NEW p \in Peers, RunStep(p) PROVE Forgets
  <2>1. CASE RunStart(p)
    BY <2>1 DEF RunStart, initVars, respVars, Forgets
  <2>2. CASE Snapshot(p)
    BY <2>2 DEF Snapshot, initVars, respVars, sessVars, Forgets
  <2>3. CASE forceRehandshake(p)
    BY <2>3, ResetForgets DEF forceRehandshake, Forgets, Drops
  <2>4. CASE punchProbe(p)
    BY <2>4 DEF punchProbe, initVars, respVars, sessVars, Forgets
  <2>5. CASE switchMode(p)
    BY <2>5, ResetForgets DEF switchMode, Forgets
  <2>6. CASE EndTick(p)
    BY <2>6 DEF EndTick, initVars, respVars, sessVars, Forgets
  <2> QED
    BY <1>1, <2>1, <2>2, <2>3, <2>4, <2>5, <2>6 DEF RunStep
<1>2. CASE resendHS3
  <2>1. \A m \in net' \ net : m.type = "HS3"
    BY <1>2, SendAdds DEF resendHS3
  <2> QED
    BY <1>2, <2>1 DEF resendHS3, initVars, respVars, sessVars, Forgets
<1>3. CASE punchHS1
  <2>1. \A m \in net' \ net : m.type = "HS1"
    BY <1>3, SendAdds DEF punchHS1
  <2> QED
    BY <1>3, <2>1 DEF punchHS1, respVars, sessVars, Forgets, Attempts
<1>4. CASE abandonRoaming
  BY <1>4, Roles, ResetForgets DEF abandonRoaming, Forgets
<1>5. CASE retryDirect
  <2>1. \A m \in net' \ net : m.type = "HS1"
    BY <1>5, SendAdds DEF retryDirect
  <2> QED
    BY <1>5, <2>1 DEF retryDirect, respVars, Attempts
<1>6. ASSUME NEW p \in Peers, Send(p) PROVE Forgets
  <2>1. \A m \in net' \ net : m.type = "DATA"
    BY <1>6, SendAdds DEF Send
  <2> QED
    BY <1>6, <2>1 DEF Send, initVars, respVars, sessVars, Forgets
<1>7. ASSUME NEW p \in Peers, SetDirectEP(p) PROVE Forgets
  BY <1>7 DEF SetDirectEP, initVars, respVars, sessVars, Forgets
<1>8. ASSUME NEW p \in Peers, Restart(p) PROVE Forgets
  <2>1. Drops(p)
    BY <1>8 DEF Restart, Drops, IInv, TypeOK
  <2> QED
    BY <1>8, <2>1, ResetForgets DEF Restart, Forgets
<1>9. CASE UNCHANGED vars
  BY <1>9 DEF vars, initVars, respVars, sessVars, Forgets
<1> QED
  BY <1>1, <1>2, <1>3, <1>4, <1>5, <1>6, <1>7, <1>8, <1>9 DEF InitiatorStep

LEMMA NextKinds ==
  ASSUME IInv, [Next]_vars
  PROVE  Forgets \/ Attempts \/ Answers \/ InitiatorIn \/ ResponderIn
  BY ReceiveKinds, LocalKinds DEF Next


(* Sessions in the order of their handshakes: of two sessions, the one with  *)
(* the later initiator ephemeral has the later responder ephemeral.          *)
After(hs) == \A s \in Session : <<I, s>> \in installed /\ s[1] < hs[1] => s[2] < hs[2]

(* The initiator waits for message 2 of its latest attempt only; whatever    *)
(* the responder offered, and still offers, comes after what the initiator   *)
(* installed of earlier attempts; and the half-open handshake comes after    *)
(* all that the responder installed.                                         *)
OrderInv ==
  /\ initiatorHS.phase = "message1" => initiatorHS.eph = ephs[I]
  /\ \A m \in net : m.type = "HS2" => After(m.hs)
  /\ After(hs2Frame)
  /\ responder # NoSession => \A s \in Session : <<R, s>> \in installed => s[2] < responder[2]

LEMMA OrderInit == Init => OrderInv
  BY NilIsNoEph DEF Init, OrderInv, After, NoHS

LEMMA OrderForgets == ASSUME IInv, OrderInv, Forgets PROVE OrderInv'
<1>s. NoSession[1] = 0 /\ \A s \in Session : s[1] \in Nat
  BY Shapes DEF IInv
<1>1. After(NoSession)
  BY <1>s DEF After
<1>2. \A hs : After(hs)' <=> \A s \in Session : <<I, s>> \in installed /\ s[1] < hs[1] => s[2] < hs[2]
  BY DEF After, Forgets
<1>3. \A m \in net' : m.type = "HS2" => After(m.hs)
  BY DEF Forgets, OrderInv
<1>4. After(hs2Frame')
  BY <1>1 DEF Forgets, OrderInv
<1>5. initiatorHS'.phase = "message1" => initiatorHS'.eph = ephs'[I]
  BY DEF Forgets, OrderInv, NoHS
<1>6. responder' # NoSession => \A s \in Session : <<R, s>> \in installed' => s[2] < responder'[2]
  BY DEF Forgets, OrderInv
<1> QED
  BY <1>2, <1>3, <1>4, <1>5, <1>6 DEF OrderInv, After, Forgets

LEMMA OrderAttempts == ASSUME IInv, OrderInv, Attempts PROVE OrderInv'
<1>1. initiatorHS'.eph = ephs'[I]
  BY NewInitiatorType DEF Attempts, NewInitiator, IInv
<1>2. \A m \in net' : m.type = "HS2" => m \in net
  BY DEF Attempts
<1> QED
  BY <1>1, <1>2 DEF Attempts, OrderInv, After

LEMMA OrderAnswers == ASSUME IInv, OrderInv, Answers PROVE OrderInv'
<1>t. TypeOK
  BY DEF IInv
<1>0. PICK m \in net : m.type = "HS1" /\ Accepts(m)
  BY DEF Answers
<1>1. /\ responder'[2] = ephs[R] + 1 /\ ephs'[I] = ephs[I] /\ hs2Frame' = responder'
  BY <1>t, <1>0, AcceptType
<1>2. \A x \in net' \ net : x.hs = responder'
  BY <1>0, SendAdds DEF Accepts
<1>3. \A x \in installed : x[2] \in Session => x[2][2] < ephs[R] + 1
  <2> SUFFICES ASSUME NEW x \in installed, x[2] \in Session PROVE x[2][2] < ephs[R] + 1
    OBVIOUS
  <2>1. x[2][2] <= ephs[R]
    BY DEF IInv, Bounded, Known
  <2>2. x[2][2] \in Nat /\ ephs[R] \in Nat
    BY <1>t, Shapes
  <2> QED
    BY <2>1, <2>2
<1>4. \A p \in Peers, s \in Session : <<p, s>> \in installed => s[2] < responder'[2]
  BY <1>1, <1>3
<1>5. After(responder')
  BY <1>4, Roles DEF After
<1>6. \A x \in net' : x.type = "HS2" => After(x.hs)
  BY <1>2, <1>5 DEF OrderInv
<1>7. (initiatorHS.phase = "message1" => initiatorHS.eph = ephs[I])'
  BY <1>1 DEF OrderInv, Answers
<1> QED
  BY <1>1, <1>4, <1>5, <1>6, <1>7, Roles DEF OrderInv, Answers, After

LEMMA OrderInitiatorIn == ASSUME IInv, OrderInv, InitiatorIn PROVE OrderInv'
<1>t. TypeOK
  BY DEF IInv
<1>0. PICK m \in net : /\ m.type = "HS2" /\ m.hs[1] = initiatorHS.eph
                       /\ installed' = installed \cup {<<I, m.hs>>}
  BY DEF InitiatorIn
<1>1. m.hs[1] = ephs[I]
  BY <1>0 DEF InitiatorIn, OrderInv
<1>2. \A hs \in Session \cup {NoSession} : Known(hs) /\ After(hs) => After(hs)'
  <2> SUFFICES ASSUME NEW hs \in Session \cup {NoSession}, Known(hs), After(hs),
                      NEW s \in Session, <<I, s>> \in installed', s[1] < hs[1]
               PROVE  s[2] < hs[2]
    BY DEF After
  <2>1. hs[1] <= ephs[I] /\ ephs[I] \in Nat /\ hs[1] \in Nat
    BY <1>t, Shapes DEF Known
  <2>2. s # m.hs
    BY <1>1, <2>1
  <2>3. <<I, s>> \in installed
    BY <1>0, <2>2
  <2> QED
    BY <2>3 DEF After
<1>3. \A x \in net' : x.type = "HS2" => After(x.hs)'
  <2> SUFFICES ASSUME NEW x \in net, x.type = "HS2" PROVE After(x.hs)'
    BY DEF InitiatorIn
  <2>1. x.hs \in Session /\ Known(x.hs) /\ After(x.hs)
    BY <1>t, MessageType DEF IInv, Bounded, OrderInv
  <2> QED
    BY <1>2, <2>1
<1>4. After(hs2Frame)'
  <2>1. hs2Frame \in Session \cup {NoSession} /\ Known(hs2Frame) /\ After(hs2Frame)
    BY <1>t DEF TypeOK, IInv, Bounded, OrderInv
  <2>2. hs2Frame' = hs2Frame
    BY DEF InitiatorIn
  <2> QED
    BY <1>2, <2>1, <2>2 DEF After
<1>5. \A s \in Session : <<R, s>> \in installed' => <<R, s>> \in installed
  BY <1>0, Roles
<1> QED
  BY <1>3, <1>4, <1>5 DEF OrderInv, InitiatorIn

LEMMA OrderResponderIn == ASSUME IInv, OrderInv, ResponderIn PROVE OrderInv'
<1>1. \A s \in Session : <<I, s>> \in installed' => <<I, s>> \in installed
  BY Roles DEF ResponderIn
<1>2. NoSession[1] = 0 /\ \A s \in Session : s[1] \in Nat
  BY Shapes DEF IInv
<1>3. After(hs2Frame)'
  BY <1>2 DEF After, ResponderIn
<1>4. \A m \in net' : m.type = "HS2" => After(m.hs)'
  BY <1>1 DEF OrderInv, After, ResponderIn
<1> QED
  BY <1>3, <1>4 DEF OrderInv, ResponderIn

LEMMA OrderInvariance == Spec => [](IInv /\ OrderInv)
<1>1. IInv /\ OrderInv /\ [Next]_vars => OrderInv'
  BY NextKinds, OrderForgets, OrderAttempts, OrderAnswers, OrderInitiatorIn, OrderResponderIn
<1> QED
  BY <1>1, InitIInv, OrderInit, NextIInv, PTL DEF Spec

(* What the initiator installs is later, on both sides, than all it          *)
(* installed before.                                                         *)
LEMMA InitiatorLater ==
  ASSUME IInv, OrderInv, InitiatorIn
  PROVE  \E s \in Session : Order!Install(I, s)
<1>t. TypeOK
  BY DEF IInv
<1>0. PICK m \in net : /\ m.type = "HS2" /\ m.hs[1] = initiatorHS.eph
                       /\ installed' = installed \cup {<<I, m.hs>>}
                       /\ sess' = [sess EXCEPT ![I] = m.hs]
  BY DEF InitiatorIn
<1>1. m.hs \in Session /\ m.hs[1] = ephs[I] /\ After(m.hs)
  BY <1>t, <1>0, MessageType DEF InitiatorIn, OrderInv
<1>2. ASSUME NEW x \in installed, x[1] = I PROVE Order!Later(m.hs, x[2])
  <2>1. x = <<I, x[2]>> /\ x[2] \in Session
    BY <1>t, <1>2 DEF TypeOK
  <2>2. x[2][1] <= ephs[I] /\ x[2][1] # ephs[I]
    BY <1>0, <1>1, <2>1 DEF IInv, Bounded, Known, InitiatorOnce, InitiatorIn
  <2>3. x[2][1] < m.hs[1]
    BY <1>t, <1>1, <2>1, <2>2, Shapes
  <2>4. x[2][2] < m.hs[2]
    BY <1>1, <2>1, <2>3 DEF After
  <2> QED
    BY <1>t, <1>1, <2>1, <2>3, <2>4, Shapes DEF Order!Later
<1> QED
  BY <1>0, <1>1, <1>2 DEF Order!Install

(* What the responder installs is later, on both sides, than all it          *)
(* installed before: all of it is the initiator's too, hence in order.       *)
LEMMA ResponderLater ==
  ASSUME IInv, OrderInv, ResponderIn
  PROVE  \E s \in Session : Order!Install(R, s)
<1>t. TypeOK
  BY DEF IInv
<1>1. responder \in Session /\ <<I, responder>> \in installed
  BY <1>t DEF TypeOK, ResponderIn
<1>2. ASSUME NEW x \in installed, x[1] = R PROVE Order!Later(responder, x[2])
  <2> DEFINE t == x[2]
  <2>1. x = <<R, t>> /\ t \in Session
    BY <1>t, <1>2 DEF TypeOK
  <2>2. t[2] < responder[2]
    BY <2>1 DEF OrderInv, ResponderIn
  <2>3. <<I, t>> \in installed
    BY <2>1 DEF IInv, Agreement
  <2>4. PICK n \in net : n.type = "HS2" /\ n.hs = t
    BY <2>1, <2>3 DEF IInv, InitiatorOnce
  <2>5. After(t)
    BY <2>4 DEF OrderInv
  <2>6. responder[1] < t[1] => responder[2] < t[2]
    BY <1>1, <2>5 DEF After
  <2>7. responder[1] = t[1] => responder = t
    BY <1>1, <2>1, <2>3 DEF IInv, InitiatorOnce
  <2>8. /\ responder[1] \in Nat /\ responder[2] \in Nat /\ t[1] \in Nat /\ t[2] \in Nat
    BY <1>t, <1>1, <2>1, Shapes
  <2> HIDE DEF t
  <2>9. t[1] < responder[1]
    BY <2>2, <2>6, <2>7, <2>8
  <2>10. Order!Later(responder, t)
    BY <2>2, <2>8, <2>9 DEF Order!Later
  <2> QED
    BY <2>10 DEF t
<1> QED
  BY <1>1, <1>2 DEF Order!Install, ResponderIn

LEMMA OrderStep == ASSUME IInv, OrderInv, [Next]_vars PROVE [Order!Next]_(Order!vars)
<1>1. CASE Forgets
  BY <1>1 DEF Forgets, Drops, Order!Next, Order!GiveUp, Order!vars
<1>2. CASE Attempts \/ Answers
  BY <1>2 DEF Attempts, Answers, Order!vars
<1>3. CASE InitiatorIn
  BY <1>3, InitiatorLater, Roles DEF Order!Next
<1>4. CASE ResponderIn
  BY <1>4, ResponderLater, Roles DEF Order!Next
<1> QED
  BY <1>1, <1>2, <1>3, <1>4, NextKinds

(* The handshake implements SessionOrder, for any number of attempts: no     *)
(* message of an earlier attempt, however late, takes a peer back to a       *)
(* session older than one it was in, and the initiator is always first.      *)
THEOREM SessionsInOrder == Spec => OrderSpec
<1>1. Init => Order!Init
  BY DEF Init, Order!Init
<1>2. IInv /\ OrderInv /\ [Next]_vars => [Order!Next]_(Order!vars)
  BY OrderStep
<1> QED
  BY <1>1, <1>2, OrderInvariance, PTL DEF Spec, OrderSpec, Order!Spec


-----------------------------------------------------------------------------
(* What the responder offered last: the half-open handshake, if there is     *)
(* one, and the direct session, since none was accepted beside it.           *)
LatestInv ==
  /\ \A p \in Peers : established[p] <=> sess[p] # NoSession
  /\ sess[I] # NoSession => <<I, sess[I]>> \in installed
  /\ responder # NoSession => responder[2] = ephs[R]
  /\ established[R] /\ path[R] = "direct" => sess[R][2] = ephs[R]

LEMMA LatestInit == Init => LatestInv
  BY Roles DEF Init, LatestInv

LEMMA LatestStep == ASSUME IInv, LatestInv, [Next]_vars PROVE LatestInv'
<1>t. TypeOK /\ I \in Peers /\ R \in Peers /\ I # R
  BY Roles DEF IInv
<1>n. NoSession \notin Session
  BY NilIsNoEph
<1>1. CASE Forgets
  <2>1. CASE UNCHANGED <<sess, established, path>>
    BY <1>1, <2>1 DEF Forgets, LatestInv
  <2>2. ASSUME NEW p \in Peers, Drops(p) PROVE LatestInv'
    BY <1>t, <1>1, <2>2 DEF Forgets, Drops, LatestInv, TypeOK
  <2> QED
    BY <1>1, <2>1, <2>2 DEF Forgets
<1>2. CASE Attempts
  <2>1. ephs'[R] = ephs[R]
    BY <1>t, <1>2, NewInitiatorType DEF Attempts
  <2> QED
    BY <1>2, <2>1 DEF Attempts, LatestInv
<1>3. CASE Answers
  <2>1. responder'[2] = ephs'[R]
    BY <1>t, <1>3, AcceptType DEF Answers
  <2>2. ~(established[R] /\ path[R] = "direct")
    BY <1>3 DEF Answers, MayHandshake
  <2> QED
    BY <1>3, <2>1, <2>2 DEF Answers, LatestInv
<1>4. CASE InitiatorIn
  <2>1. PICK s \in Session : /\ installed' = installed \cup {<<I, s>>}
                             /\ sess' = [sess EXCEPT ![I] = s]
    BY <1>t, <1>4, MessageType DEF InitiatorIn
  <2> QED
    BY <1>t, <1>n, <1>4, <2>1 DEF InitiatorIn, LatestInv, TypeOK
<1>5. CASE ResponderIn
  <2>1. responder \in Session
    BY <1>t, <1>5 DEF ResponderIn, TypeOK
  <2> QED
    BY <1>t, <1>n, <1>5, <2>1 DEF ResponderIn, LatestInv, TypeOK
<1> QED
  BY <1>1, <1>2, <1>3, <1>4, <1>5, NextKinds

(* The initiator cannot leave a session that is the responder's latest       *)
(* offer: message 2 of a later attempt would have to be a later offer.       *)
LEMMA NoLaterOffer ==
  ASSUME IInv, OrderInv, LatestInv, InitiatorIn, Agreed
  PROVE  path[R] # "direct"
<1> SUFFICES ASSUME path[R] = "direct" PROVE FALSE
  OBVIOUS
<1>t. TypeOK /\ I \in Peers /\ R \in Peers
  BY Roles DEF IInv
<1>1. PICK m \in net : m.type = "HS2" /\ m.hs[1] = initiatorHS.eph
  BY DEF InitiatorIn
<1>2. m.hs \in Session /\ m.hs[2] <= ephs[R] /\ m.hs[1] = ephs[I] /\ After(m.hs)
  BY <1>t, <1>1, MessageType DEF IInv, Bounded, Known, OrderInv, InitiatorIn
<1> DEFINE s == sess[I]
<1>3. s \in Session /\ <<I, s>> \in installed /\ s[2] = ephs[R]
  BY <1>t DEF LatestInv, Agreed, TypeOK
<1>4. s[1] <= ephs[I] /\ s[1] # ephs[I]
  BY <1>1, <1>2, <1>3 DEF IInv, Bounded, Known, InitiatorOnce, InitiatorIn
<1>5. /\ s[1] \in Nat /\ s[2] \in Nat /\ m.hs[1] \in Nat /\ m.hs[2] \in Nat
  BY <1>t, <1>2, <1>3, Shapes
<1> HIDE DEF s
<1>6. s[1] < m.hs[1]
  BY <1>2, <1>4, <1>5
<1>7. s[2] < m.hs[2]
  BY <1>2, <1>3, <1>6 DEF After
<1> QED
  BY <1>2, <1>3, <1>5, <1>7

LEMMA LatestInvariance == Spec => [](IInv /\ SessionInv /\ OrderInv /\ LatestInv)
<1>1. IInv /\ LatestInv /\ [Next]_vars => LatestInv'
  BY LatestStep
<1> QED
  BY <1>1, LatestInit, SessionInvariance, OrderInvariance, PTL DEF Spec

(* Two peers that agree on a session stay in it while it is direct at the    *)
(* responder and neither drops it, whatever is still under way and however   *)
(* old the snapshot is that the initiator's Run acts on.                     *)
THEOREM AgreementStays == Spec => DirectAgreementKept
<1>1. IInv /\ SessionInv /\ OrderInv /\ LatestInv /\ [Next]_vars =>
        [Agreed /\ path[R] = "direct" /\ ~Agreed' => NoSession \in {sess'[I], sess'[R]}]_vars
  <2> SUFFICES ASSUME IInv, SessionInv, OrderInv, LatestInv, [Next]_vars,
                      Agreed, path[R] = "direct", ~Agreed'
               PROVE  NoSession \in {sess'[I], sess'[R]}
    OBVIOUS
  <2>1. CASE Forgets
    <3>1. PICK p \in Peers : Drops(p)
      BY <2>1 DEF Forgets, Agreed
    <3>2. sess'[p] = NoSession
      BY <3>1 DEF Drops, IInv, TypeOK
    <3> QED
      BY <3>2, Roles
  <2>2. CASE Attempts \/ Answers
    BY <2>2 DEF Attempts, Answers, Agreed
  <2>3. CASE InitiatorIn
    BY <2>3, NoLaterOffer
  <2>4. CASE ResponderIn
    BY <2>4 DEF ResponderIn, SessionInv, MayHandshake, Agreed
  <2> QED
    BY <2>1, <2>2, <2>3, <2>4, NextKinds
<1> QED
  BY <1>1, LatestInvariance, PTL DEF Spec, DirectAgreementKept


-----------------------------------------------------------------------------
(* Frames of a session are sent by a peer that installed it.                 *)
DataInv ==
  /\ \A p \in Peers : sess[p] # NoSession => <<p, sess[p]>> \in installed
  /\ \A m \in net : m.type = "DATA" => <<Other(m.to), m.hs>> \in installed

(* Only Send puts a data frame on the wire, one of the session in use.       *)
NewData ==
  \A m \in net' \ net :
    m.type = "DATA" => \E p \in Peers : sess[p] # NoSession /\ m.to = Other(p) /\ m.hs = sess[p]

(* An HS3 that stays cached is answered by a frame of its session only.      *)
AnswersHS3 ==
  hs3Pending /\ ~hs3Pending' /\ hs3Frame' = hs3Frame
    => \E m \in net : m.type = "DATA" /\ m.to = I /\ m.hs = sess[I]

LEMMA ResetAnswers ==
  ASSUME NEW p \in Peers, resetHandshakeLocked(p), PendingHS3IsCurrent
  PROVE  AnswersHS3
<1>1. CASE p = I
  <2>1. hs3Frame' = NoSession
    BY <1>1 DEF resetHandshakeLocked
  <2>2. hs3Pending => hs3Frame # NoSession
    BY Zenon DEF PendingHS3IsCurrent
  <2> QED
    BY <2>1, <2>2 DEF AnswersHS3
<1>2. CASE p # I
  BY <1>2 DEF resetHandshakeLocked, initVars, AnswersHS3
<1> QED
  BY <1>1, <1>2

LEMMA RunData ==
  ASSUME PendingHS3IsCurrent, NEW p \in Peers, RunStep(p)
  PROVE  NewData /\ AnswersHS3
<1>1. net' = net
  BY DEF RunStep, RunStart, Snapshot, forceRehandshake, punchProbe, switchMode, EndTick
<1>2. CASE RunStart(p) \/ Snapshot(p) \/ punchProbe(p) \/ EndTick(p)
  BY <1>1, <1>2 DEF RunStart, Snapshot, punchProbe, EndTick, initVars, NewData, AnswersHS3
<1>3. CASE forceRehandshake(p) \/ switchMode(p)
  BY <1>1, <1>3, ResetAnswers DEF forceRehandshake, switchMode, NewData
<1> QED
  BY <1>2, <1>3 DEF RunStep

LEMMA InitiatorData == ASSUME PendingHS3IsCurrent, InitiatorStep PROVE NewData /\ AnswersHS3
<1>1. CASE resendHS3
  <2>1. \A m \in net' \ net : m.type = "HS3"
    BY <1>1, SendAdds DEF resendHS3
  <2> QED
    BY <1>1, <2>1 DEF resendHS3, initVars, NewData, AnswersHS3
<1>2. CASE punchHS1
  <2>1. \A m \in net' \ net : m.type = "HS1"
    BY <1>2, SendAdds DEF punchHS1
  <2> QED
    BY <1>2, <2>1 DEF punchHS1, NewData, AnswersHS3
<1>3. CASE abandonRoaming
  BY <1>3, Roles, ResetAnswers DEF abandonRoaming, NewData
<1>4. CASE retryDirect
  <2>1. \A m \in net' \ net : m.type = "HS1"
    BY <1>4, SendAdds DEF retryDirect
  <2>2. hs3Pending => hs3Frame # NoSession
    BY Zenon DEF PendingHS3IsCurrent
  <2>3. hs3Frame' = NoSession
    BY <1>4 DEF retryDirect
  <2> QED
    BY <2>1, <2>2, <2>3 DEF NewData, AnswersHS3
<1> QED
  BY <1>1, <1>2, <1>3, <1>4 DEF InitiatorStep

LEMMA ReceiveData ==
  ASSUME IInv, PendingHS3IsCurrent, NEW m \in net, Receive(m)
  PROVE  NewData /\ AnswersHS3
<1>1. CASE m.type = "HS1" /\ onHS1(m)
  <2>1. PICK s : sendFrame(R, "HS2", m.path, s)
    BY <1>1, HS1Cases, Zenon DEF Accepts
  <2>2. \A x \in net' \ net : x.type = "HS2"
    BY <2>1, SendAdds
  <2> QED
    BY <1>1, <2>2 DEF onHS1, initVars, NewData, AnswersHS3
<1>2. CASE m.type = "HS2" /\ onHS2(m)
  <2>1. \A x \in net' \ net : x.type = "HS3"
    BY <1>2, SendAdds DEF onHS2
  <2>2. hs3Pending' = TRUE \/ hs3Pending' = hs3Pending
    BY <1>2 DEF onHS2
  <2> QED
    BY <2>1, <2>2 DEF NewData, AnswersHS3
<1>3. CASE m.type = "HS3" /\ onHS3(m)
  BY <1>3 DEF onHS3, initVars, NewData, AnswersHS3
<1>4. CASE m.type = "DATA" /\ onData(m)
  BY <1>4 DEF onData, NewData, AnswersHS3
<1> QED
  BY <1>1, <1>2, <1>3, <1>4 DEF Receive

LEMMA CallData ==
  ASSUME IInv, PendingHS3IsCurrent, NEW p \in Peers, Send(p) \/ SetDirectEP(p) \/ Restart(p)
  PROVE  NewData /\ AnswersHS3
<1>1. CASE Send(p)
  <2>1. net' \subseteq net \cup {Datagram(p, "DATA", path[p], sess[p])} /\ sess[p] # NoSession
    BY <1>1 DEF Send, sendFrame
  <2>2. Datagram(p, "DATA", path[p], sess[p]).to = Other(p) /\ Datagram(p, "DATA", path[p], sess[p]).hs = sess[p]
    BY DEF Datagram
  <2> QED
    BY <1>1, <2>1, <2>2 DEF Send, initVars, NewData, AnswersHS3
<1>2. CASE SetDirectEP(p)
  BY <1>2 DEF SetDirectEP, initVars, NewData, AnswersHS3
<1>3. CASE Restart(p)
  BY <1>3, ResetAnswers DEF Restart, NewData
<1> QED
  BY <1>1, <1>2, <1>3

LEMMA NextData ==
  ASSUME IInv, PendingHS3IsCurrent, [Next]_vars
  PROVE  NewData /\ AnswersHS3
<1>1. CASE UNCHANGED vars
  BY <1>1 DEF vars, initVars, NewData, AnswersHS3
<1> QED
  BY <1>1, RunData, InitiatorData, ReceiveData, CallData DEF Next

LEMMA DataStep == ASSUME IInv, PendingHS3IsCurrent, DataInv, [Next]_vars PROVE DataInv'
<1>t. TypeOK /\ I \in Peers /\ R \in Peers /\ I # R
  BY Roles DEF IInv
<1>1. installed \subseteq installed'
  BY NextKinds DEF Forgets, Attempts, Answers, InitiatorIn, ResponderIn
<1>2. \A p \in Peers : sess'[p] # NoSession => <<p, sess'[p]>> \in installed'
  <2>1. CASE Forgets
    BY <1>t, <1>1, <2>1 DEF Forgets, Drops, DataInv, TypeOK
  <2>2. CASE Attempts \/ Answers
    BY <2>2 DEF Attempts, Answers, DataInv
  <2>3. CASE InitiatorIn
    BY <1>t, <1>1, <2>3 DEF InitiatorIn, DataInv, TypeOK
  <2>4. CASE ResponderIn
    BY <1>t, <1>1, <2>4 DEF ResponderIn, DataInv, TypeOK
  <2> QED
    BY <2>1, <2>2, <2>3, <2>4, NextKinds
<1>3. ASSUME NEW m \in net', m.type = "DATA" PROVE <<Other(m.to), m.hs>> \in installed'
  <2>1. CASE m \in net
    BY <1>1, <1>3, <2>1 DEF DataInv
  <2>2. CASE m \notin net
    <3>1. PICK p \in Peers : sess[p] # NoSession /\ m.to = Other(p) /\ m.hs = sess[p]
      BY <1>3, <2>2, NextData DEF NewData
    <3>2. Other(m.to) = p
      BY <3>1, Roles
    <3> QED
      BY <1>1, <3>1, <3>2 DEF DataInv
  <2> QED
    BY <2>1, <2>2
<1> QED
  BY <1>2, <1>3 DEF DataInv

(* The initiator stops re-emitting an HS3 it keeps only when the responder   *)
(* did install the session: what onData accepts as the answer can come from  *)
(* nobody else and from no other session.                                    *)
THEOREM AnswerProves == Spec => AnswerIsProof
<1>1. Init => DataInv
  BY DEF Init, DataInv
<1>2. SessionInv => PendingHS3IsCurrent
  BY DEF SessionInv
<1>3. IInv /\ PendingHS3IsCurrent /\ DataInv /\ [Next]_vars => DataInv'
  BY DataStep
<1>4. IInv /\ PendingHS3IsCurrent /\ DataInv /\ [Next]_vars =>
        [hs3Pending /\ ~hs3Pending' /\ hs3Frame' = hs3Frame => <<R, sess[I]>> \in installed]_vars
  <2> SUFFICES ASSUME IInv, PendingHS3IsCurrent, DataInv, [Next]_vars,
                      hs3Pending, ~hs3Pending', hs3Frame' = hs3Frame
               PROVE  <<R, sess[I]>> \in installed
    OBVIOUS
  <2>1. AnswersHS3
    BY NextData
  <2>2. PICK m \in net : m.type = "DATA" /\ m.to = I /\ m.hs = sess[I]
    BY <2>1, Zenon DEF AnswersHS3
  <2> QED
    BY <2>2, Roles DEF DataInv
<1> QED
  BY <1>1, <1>2, <1>3, <1>4, SessionInvariance, PTL DEF Spec, AnswerIsProof
=============================================================================
