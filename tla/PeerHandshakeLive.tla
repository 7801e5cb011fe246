------------------------- MODULE PeerHandshakeLive -------------------------
(***************************************************************************)
(* PeerHandshake over a fair-lossy network.  A datagram is in flight from  *)
(* the moment it is handed to the socket until it arrives or is lost; what *)
(* is sent once may never arrive, so that only the retransmissions of Run  *)
(* (HS1 by punch, HS3 by resendHS3) and onHS1's repeated HS2 get a         *)
(* handshake through.  Restarts, rotations and roaming do not happen here. *)
(***************************************************************************)
EXTENDS PeerHandshake

CONSTANT Networks
  \* dead: the paths on which nothing arrives; replays: datagrams of the past
  \* may arrive again at any time; rearms: the responder's timers run out again
  \* and again; timely: no timer runs out on a handshake both sides pursue;
  \* fuel: what the peers start with

ASSUME NetworksAssumption ==
  Networks \subseteq [dead : SUBSET Paths, replays : BOOLEAN, rearms : BOOLEAN,
                      timely : BOOLEAN, fuel : Fuels]

VARIABLES inFlight,  \* the datagrams sent and neither arrived nor lost
          network    \* the one this behaviour runs on

liveVars == <<vars, inFlight, network>>

LiveInit ==
  /\ Init
  /\ inFlight = {}
  /\ network \in Networks /\ fuel = network.fuel

-----------------------------------------------------------------------------
\* What a sendFrame puts on its way, resent or not.
Handed(p, type, pth, hs) ==
  {m \in {Datagram(p, type, pth, hs)} : CanSend(p, pth) /\ m.path \notin network.dead}

\* What the handler of m answers with.
Answer(m) ==
  CASE m.type = "HS1" -> Handed(R, "HS2", m.path, hs2Frame')
    [] m.type = "HS2" /\ ReadMessage2(m) -> Handed(I, "HS3", m.path, m.hs)
    [] OTHER -> {}

\* The responder is half-open in a handshake that the initiator has completed.
HS3Due == responder # NoSession /\ responder = hs3Frame

\* ... or that it is still at.
Pursued == HS3Due \/ (responder # NoSession /\ responder[1] = initiatorHS.eph)

\* In this step a timer of p (attemptFor, responderHandshakeTimeout) runs out.
Expired(p) == fuel'[p]["timeout"] # fuel[p]["timeout"]

\* A timely network gets what is sent every 500 ms through within the 3 s and
\* 10 s of those timers: the responder's do not run out on a handshake that the
\* initiator pursues, nor the initiator's on one it has just completed.  The
\* initiator's attempt may well be over while the HS2 is on its way.
InTime ==
  network.timely => (Expired(I) => ~HS3Due) /\ (Expired(R) => ~Pursued)

\* When a timer has run out, nothing of an earlier attempt is still on its way.
Overdue ==
  IF network.timely /\ \E p \in Peers : Expired(p)
    THEN {m \in inFlight : m.hs[1] # initiatorHS.eph} ELSE {}

LiveRun(p) ==
  /\ RunStep(p) /\ InTime
  /\ inFlight' = inFlight \ Overdue
  /\ UNCHANGED network

LiveSend(p) ==
  /\ Send(p)
  /\ inFlight' = inFlight \cup Handed(p, "DATA", path[p], sess[p])
  /\ UNCHANGED network

\* Mutant: HS3 is sent by onHS2 only.
RetransmitHS1Only ==
  /\ \/ /\ punchHS1
        /\ inFlight' = inFlight \cup Handed(I, "HS1", tick[I].mode, <<hs1Frame', Nil>>)
     \/ resendHS3 /\ UNCHANGED inFlight
  /\ UNCHANGED network

\* Run sends the HS1 of its attempt, or the HS3 that is still unanswered.
Retransmit ==
  /\ \/ /\ punchHS1
        /\ inFlight' = inFlight \cup Handed(I, "HS1", tick[I].mode, <<hs1Frame', Nil>>)
     \/ /\ resendHS3
        /\ inFlight' = inFlight \cup IF hs3Pending /\ hs3Frame # NoSession
                                       THEN Handed(I, "HS3", mode[I], hs3Frame) ELSE {}
  /\ UNCHANGED network

\* A datagram arrives.
Arrive(m) ==
  /\ Receive(m) /\ InTime
  /\ m \in inFlight \ Overdue
  /\ inFlight' = ((inFlight \ Overdue) \ {m}) \cup Answer(m)
  /\ UNCHANGED network

\* A datagram is lost, or arrives and is ignored.
Lose(m) == inFlight' = inFlight \ {m} /\ UNCHANGED <<vars, network>>

\* A datagram arrives a second time, or long after it was given up for lost.
Replay(m) ==
  /\ network.replays /\ m.path \notin network.dead
  /\ Receive(m) /\ InTime
  /\ inFlight' = (inFlight \ Overdue) \cup Answer(m)
  /\ UNCHANGED network

\* The responder's next timer has been running for its whole window.
Rearm ==
  /\ network.rearms /\ fuel[R]["timeout"] = 0
  /\ fuel' = [fuel EXCEPT ![R]["timeout"] = 1]
  /\ UNCHANGED <<sessVars, directEP, tick, initVars, respVars, net, ephs, inFlight, network>>

LiveNext ==
  \/ \E p \in Peers : LiveRun(p) \/ LiveSend(p)
  \/ Retransmit
  \/ \E m \in inFlight : Arrive(m) \/ Lose(m)
  \/ \E m \in net : Replay(m)
  \/ Rearm

-----------------------------------------------------------------------------
\* A timer of p runs out: the attempt moves to the other path, or the
\* half-open handshake is freed.
Expire(p) == LiveRun(p) /\ Expired(p)

Delivered(type) == \E m \in inFlight : m.type = type /\ Arrive(m)

(* Run's loop keeps turning.  What is due again and again (HS1 or HS3 after  *)
(* HS1ResendInterval, the switch or the release when a timer is not          *)
(* restarted) is done in some tick.  Of the handshake messages of one type   *)
(* sent over and over on a working path some arrive; one that is sent a      *)
(* bounded number of times need not.                                         *)
Fairness ==
  /\ \A p \in Peers : WF_liveVars(LiveRun(p)) /\ SF_liveVars(Expire(p))
  /\ WF_liveVars(Rearm)
  /\ SF_liveVars(Retransmit)
  /\ \A type \in {"HS1", "HS2", "HS3"} : SF_liveVars(Delivered(type))

LiveSpec == LiveInit /\ [][LiveNext]_liveVars /\ Fairness

-----------------------------------------------------------------------------
\* On a network that works, whatever is lost, duplicated, delayed or crossed,
\* the two peers end in one session and stay in it.
ConvergesWhenOpen == network.dead = {} => <>[]Agreed

\* With the direct path dead the two peers get into one session over the relay:
\* each side leaves the dead path, frees its half of abandoned attempts
\* (switchMode, responderHandshakeTimeout) and starts over at moments of its own.
MeetOverRelay == network.dead = {"direct"} => <>Agreed

\* The promise of the HS3 retransmission: the responder installs the session,
\* or the initiator leaves it.
HS3Recovers ==
  \A s \in Session :
    (established[I] /\ sess[I] = s) ~> (<<R, s>> \in installed \/ sess[I] # s)
=============================================================================
