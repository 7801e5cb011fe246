---------------------------- MODULE Agent_proofs ----------------------------
(***************************************************************************)
(* Proofs about the agent, for any mesh, any capacity of Peer.recv, any    *)
(* workload and any bounds.  The inductive invariant has one part for each *)
(* group of variables; an action that leaves a group alone keeps its part. *)
(***************************************************************************)
EXTENDS Agent, TLAPS

Messages == {QueryResult} \cup [type : {"peer_list"}, peers : [IDs -> {"absent", "bare", "ep", "bad"}]]
ConnRec == [st : {"free", "open", "closed"}, up : BOOLEAN, asked : Nat,
            reader : {"none", "reading", "done"}, inbox : Seq(Messages)]
PeerRec == [run : {"none", "new", "loop", "done"}, loop : {"none", "on", "done"},
            closed : BOOLEAN, cancelled : BOOLEAN, recvClosed : BOOLEAN, recv : Seq(Nat),
            ep : BOOLEAN, est : BOOLEAN, ep0 : BOOLEAN]
PingRec == [pc : {"idle", "wait", "sent", "waiting"}, on : SUBSET Objs, seq : Nat]
Load == [daemon : BOOLEAN, tun : BOOLEAN, relay : BOOLEAN, ids : SUBSET IDs,
         listed : SUBSET {"absent", "bare", "ep", "bad"},
         stops : Nat, registers : Nat, lists : Nat, losses : Nat, frames : Nat,
         packets : Nat, pings : Nat, queries : Nat]
Events == {"stops", "registers", "lists", "losses", "frames", "packets", "pings", "queries"}
MainPcs == {"stun", "begin", "dial", "initiate", "write", "settle", "bridge", "serve",
            "closeCtrl", "closePeers", "closed", "failed"}

(* Only the installed connection is open, and none while register dials.    *)
CtrlInv ==
  /\ main \in MainPcs /\ ctxDone \in BOOLEAN
  /\ ctrl \in {NoConn} \cup Conns /\ ctrlConn \in {NoConn} \cup Conns
  /\ conn \in [Conns -> ConnRec]
  /\ \A c \in Conns : conn[c].st = "open" => c = ctrl /\ main # "dial"

(* The peers in the table run, unless Run found no path: nobody but the     *)
(* table's own changes cancels them.                                        *)
Serving(o) ==
  /\ ~obj[o].closed
  /\ obj[o].cancelled => obj[o].run = "done"
  /\ obj[o].run = "done" => ~obj[o].ep0 /\ ~load.relay

Named == \A o, p \in peers : o[1] = p[1] => o = p

TableInv ==
  /\ peers \subseteq Objs /\ cancels \subseteq peers
  /\ obj \in [Objs -> PeerRec]
  /\ \A o \in Objs : Len(obj[o].recv) <= RecvCap
  /\ bridge \in {"none", "open", "closed"} /\ routes \in [Addrs -> SUBSET Objs]
  /\ Named
  /\ \A o \in Objs \ peers : Made(o) => obj[o].closed
  /\ ~ctxDone /\ main # "closed" => \A o \in peers : Serving(o)
  /\ RouteExact

DataInv ==
  /\ pump \in [pc : {"none", "read", "send", "done"}, to : SUBSET Objs]
  /\ rx \in [pc : {"none", "read", "handle", "done"}, to : SUBSET Objs]

(* The one waiter is that of the ping in flight, until its answer is there. *)
PingInv ==
  /\ ping \in PingRec
  /\ replies \subseteq Nat \X Objs
  /\ ping.pc \in {"sent", "waiting"} => ping.seq > 0
  /\ pingOut \cup pong \subseteq {ping.seq} /\ pingOut \cap pong = {}
  /\ ping.pc # "waiting" => pingOut \cup pong = {}

QueryInv ==
  /\ query \in [pc : {"idle", "drain", "send", "wait"}, on : {NoConn} \cup Conns]
  /\ queryCh \in BOOLEAN

IInv == load \in Load /\ CtrlInv /\ TableInv /\ DataInv /\ PingInv /\ QueryInv

-----------------------------------------------------------------------------
(* A bounded event uses up its budget and changes nothing else of the       *)
(* workload.                                                                *)
LEMMA Burnt ==
  ASSUME load \in Load, NEW k \in Events, Burn(k)
  PROVE  load' \in Load /\ load'.relay = load.relay
<1>1. load' = [load EXCEPT ![k] = load[k] - 1] /\ load[k] > 0
  BY DEF Burn, Load
<1>2. CASE k = "stops"
  BY <1>1, <1>2 DEF Load
<1>3. CASE k = "registers"
  BY <1>1, <1>3 DEF Load
<1>4. CASE k = "lists"
  BY <1>1, <1>4 DEF Load
<1>5. CASE k = "losses"
  BY <1>1, <1>5 DEF Load
<1>6. CASE k = "frames"
  BY <1>1, <1>6 DEF Load
<1>7. CASE k = "packets"
  BY <1>1, <1>7 DEF Load
<1>8. CASE k = "pings"
  BY <1>1, <1>8 DEF Load
<1>9. CASE k = "queries"
  BY <1>1, <1>9 DEF Load
<1> QED
  BY <1>2, <1>3, <1>4, <1>5, <1>6, <1>7, <1>8, <1>9 DEF Events

LEMMA InitIInv == Init => IInv
<1> SUFFICES ASSUME Init PROVE IInv
  OBVIOUS
<1>1. load \in Load
  BY WorkloadsAssumption DEF Init, Load
<1>2. CtrlInv
  <2>1. Free \in ConnRec /\ Free.st # "open"
    BY DEF Free, ConnRec
  <2> QED
    BY <2>1 DEF Init, CtrlInv, MainPcs
<1>3. TableInv
  <2>1. NoPeer \in PeerRec /\ NoPeer.run = "none" /\ NoPeer.recv = <<>>
    BY DEF NoPeer, PeerRec
  <2> QED
    BY <2>1, BoundsAssumption DEF Init, TableInv, Named, Made, RouteExact
<1>4. DataInv /\ PingInv /\ QueryInv
  BY DEF Init, DataInv, PingInv, PingRec, QueryInv, Idle
<1> QED
  BY <1>1, <1>2, <1>3, <1>4 DEF IInv


-----------------------------------------------------------------------------
(* The control connections.                                                 *)

LEMMA ConnFields ==
  ASSUME NEW x \in ConnRec
  PROVE  /\ [x EXCEPT !.st = "closed"] \in ConnRec /\ [x EXCEPT !.st = "closed"].st = "closed"
         /\ \A b \in BOOLEAN : [x EXCEPT !.up = b] \in ConnRec /\ [x EXCEPT !.up = b].st = x.st
         /\ \A n \in Nat : [x EXCEPT !.asked = n] \in ConnRec /\ [x EXCEPT !.asked = n].st = x.st
         /\ \A r \in {"none", "reading", "done"} :
              [x EXCEPT !.reader = r] \in ConnRec /\ [x EXCEPT !.reader = r].st = x.st
         /\ \A q \in Seq(Messages) :
              [x EXCEPT !.inbox = q] \in ConnRec /\ [x EXCEPT !.inbox = q].st = x.st
  BY DEF ConnRec

(* Changing a connection otherwise than by opening it.                      *)
LEMMA ConnKept ==
  ASSUME CtrlInv, NEW c \in Conns, NEW x \in ConnRec, x.st \in {conn[c].st, "closed"},
         conn' = [conn EXCEPT ![c] = x],
         main' \in MainPcs, main' = "dial" => main = "dial", UNCHANGED <<ctxDone, ctrl, ctrlConn>>
  PROVE  CtrlInv'
<1>1. conn' \in [Conns -> ConnRec] /\ \A d \in Conns : conn'[d] = IF d = c THEN x ELSE conn[d]
  BY DEF CtrlInv
<1>2. \A d \in Conns : conn'[d].st = "open" => conn[d].st = "open"
  BY <1>1
<1> QED
  BY <1>1, <1>2 DEF CtrlInv

(* register, Close and a failed handshake close what is installed.          *)
LEMMA OldClosed ==
  ASSUME CtrlInv, conn' = CloseOld
  PROVE  conn' \in [Conns -> ConnRec] /\ \A c \in Conns : conn'[c].st # "open"
<1>1. CASE ctrl = NoConn
  <2>1. ctrl \notin Conns
    BY <1>1, BoundsAssumption DEF NoConn, Conns
  <2> QED
    BY <1>1, <2>1 DEF CtrlInv, CloseOld
<1>2. CASE ctrl # NoConn
  <2>1. ctrl \in Conns
    BY <1>2 DEF CtrlInv
  <2>2. conn' = [conn EXCEPT ![ctrl] = [conn[ctrl] EXCEPT !.st = "closed"]]
    BY <1>2, <2>1 DEF CtrlInv, CloseOld
  <2>3. [conn[ctrl] EXCEPT !.st = "closed"] \in ConnRec /\ [conn[ctrl] EXCEPT !.st = "closed"].st = "closed"
    BY <2>1, ConnFields DEF CtrlInv
  <2> QED
    BY <2>1, <2>2, <2>3 DEF CtrlInv
<1> QED
  BY <1>1, <1>2

LEMMA MainCtrl == ASSUME IInv, MainStep \/ CtxDone PROVE CtrlInv'
<1>0. CtrlInv
  BY DEF IInv
<1>1. CASE /\ UNCHANGED <<ctrl, ctrlConn, conn>> /\ main' \in MainPcs \ {"dial"} /\ ctxDone' \in BOOLEAN
  BY <1>0, <1>1 DEF CtrlInv
<1>2. CASE RegisterBegin \/ CloseCtrl
  <2>1. /\ conn' = CloseOld /\ UNCHANGED <<ctxDone, ctrl, ctrlConn>> /\ main' \in MainPcs
    BY <1>2 DEF RegisterBegin, CloseCtrl, MainPcs
  <2> QED
    BY <1>0, <2>1, OldClosed DEF CtrlInv
<1>3. CASE InitiateFails
  <2>1. /\ conn' = CloseOld /\ ctrl' = NoConn /\ UNCHANGED <<ctxDone, ctrlConn>> /\ main' \in MainPcs
    BY <1>3 DEF InitiateFails, RegisterFailed, MainPcs
  <2> QED
    BY <1>0, <2>1, OldClosed DEF CtrlInv
<1>4. CASE Dial
  <2>1. PICK c \in Conns : /\ conn' = [conn EXCEPT ![c].st = "open", ![c].up = TRUE]
                           /\ ctrl' = c
    BY <1>4 DEF Dial
  <2> DEFINE x == [conn[c] EXCEPT !.st = "open", !.up = TRUE]
  <2>2. conn' = [conn EXCEPT ![c] = x]
    BY <1>0, <2>1 DEF CtrlInv
  <2>3. x \in ConnRec
    BY <1>0, <2>1 DEF CtrlInv, ConnRec
  <2>4. main = "dial" /\ main' = "initiate" /\ UNCHANGED <<ctxDone, ctrlConn>>
    BY <1>4 DEF Dial
  <2> HIDE DEF x
  <2>5. \A d \in Conns : conn'[d].st = "open" => d = c
    BY <1>0, <2>1, <2>2, <2>4 DEF CtrlInv
  <2> QED
    BY <1>0, <2>1, <2>2, <2>3, <2>4, <2>5 DEF CtrlInv, MainPcs
<1>5. CASE Initiate
  BY <1>0, <1>5 DEF CtrlInv, Initiate, MainPcs
<1>6. CASE WriteRegister
  <2>1. main' \in MainPcs \ {"dial"} /\ UNCHANGED <<ctxDone, ctrl, ctrlConn>>
    BY <1>6 DEF WriteRegister, MainPcs
  <2>2. CASE ctrl \in Conns
    <3>1. conn' = [conn EXCEPT ![ctrl] = [conn[ctrl] EXCEPT !.reader = "reading"]]
      BY <1>0, <1>6, <2>2 DEF WriteRegister, CtrlInv
    <3>2. /\ [conn[ctrl] EXCEPT !.reader = "reading"] \in ConnRec
          /\ [conn[ctrl] EXCEPT !.reader = "reading"].st = conn[ctrl].st
      BY <1>0, <2>2, ConnFields DEF CtrlInv
    <3> QED
      BY <1>0, <2>1, <2>2, <3>1, <3>2, ConnKept
  <2>3. CASE ctrl \notin Conns
    <3>1. conn' = conn
      BY <1>0, <1>6, <2>3 DEF WriteRegister, CtrlInv
    <3> QED
      BY <1>0, <2>1, <3>1 DEF CtrlInv
  <2> QED
    BY <2>2, <2>3
<1> QED
  BY <1>0, <1>1, <1>2, <1>3, <1>4, <1>5, <1>6
  DEF MainStep, CtxDone, Stun, DialFails, RegisterFailed, WriteRegisterFails, Settle, attachBridge,
      CloseSocket, ClosePeers, CtrlInv, MainPcs

LEMMA ConnectionCtrl ==
  ASSUME IInv, NEW c \in Conns, PeerList(c) \/ Answer(c) \/ ConnectionLost(c) \/ ReaderStep(c)
  PROVE  CtrlInv'
<1>0. CtrlInv /\ conn[c] \in ConnRec /\ conn \in [Conns -> ConnRec] /\ main \in MainPcs
  BY DEF IInv, CtrlInv
<1>1. conn[c].inbox \in Seq(Messages) /\ conn[c].asked \in Nat
  BY <1>0 DEF ConnRec
<1>2. UNCHANGED <<main, ctxDone, ctrl, ctrlConn>>
  BY DEF PeerList, Answer, ConnectionLost, ReaderStep, ReadMsg, ReaderEnds
<1>3. SUFFICES \E x \in ConnRec : x.st \in {conn[c].st, "closed"} /\ conn' = [conn EXCEPT ![c] = x]
  BY <1>0, <1>2, ConnKept
<1>4. CASE PeerList(c)
  <2>1. PICK l \in [IDs -> load.listed] : conn' = [conn EXCEPT ![c].inbox = Append(@, PeerListMsg(l))]
    BY <1>4 DEF PeerList
  <2>2. PeerListMsg(l) \in Messages
    BY DEF IInv, Load, Messages, PeerListMsg
  <2>3. Append(conn[c].inbox, PeerListMsg(l)) \in Seq(Messages)
    BY <1>1, <2>2
  <2>4. conn' = [conn EXCEPT ![c] = [conn[c] EXCEPT !.inbox = Append(conn[c].inbox, PeerListMsg(l))]]
    BY <1>0, <2>1
  <2> QED
    BY <1>0, <2>3, <2>4, ConnFields
<1>5. CASE Answer(c)
  <2> DEFINE q == Append(conn[c].inbox, QueryResult)
             x == [conn[c] EXCEPT !.asked = conn[c].asked - 1]
  <2>1. q \in Seq(Messages) /\ conn[c].asked - 1 \in Nat
    BY <1>1, <1>5 DEF Messages, Answer
  <2>2. x \in ConnRec /\ x.st = conn[c].st /\ x.inbox = conn[c].inbox
    BY <1>0, <2>1 DEF ConnRec
  <2>3. [x EXCEPT !.inbox = q] \in ConnRec /\ [x EXCEPT !.inbox = q].st = x.st
    BY <2>1, <2>2, ConnFields
  <2>4. conn' = [conn EXCEPT ![c] = [x EXCEPT !.inbox = q]]
    BY <1>0, <1>5, <2>2 DEF Answer
  <2> QED
    BY <2>2, <2>3, <2>4
<1>6. CASE ConnectionLost(c)
  <2>1. conn' = [conn EXCEPT ![c] = [conn[c] EXCEPT !.up = FALSE]]
    BY <1>0, <1>6 DEF ConnectionLost
  <2> QED
    BY <1>0, <2>1, ConnFields
<1>7. CASE ReadMsg(c)
  <2>1. conn' = [conn EXCEPT ![c] = [conn[c] EXCEPT !.inbox = Tail(conn[c].inbox)]]
    BY <1>0, <1>7 DEF ReadMsg
  <2>2. Tail(conn[c].inbox) \in Seq(Messages)
    BY <1>1, <1>7 DEF ReadMsg
  <2> QED
    BY <1>0, <2>1, <2>2, ConnFields
<1>8. CASE ReaderEnds(c)
  <2> DEFINE x == [conn[c] EXCEPT !.reader = "done", !.st = "closed"]
  <2>1. x \in ConnRec /\ x.st = "closed"
    BY <1>0 DEF ConnRec
  <2>2. \A d \in Conns : conn'[d] = [conn[d] EXCEPT !.reader = IF d = c THEN "done" ELSE @,
                                                   !.st = IF d = c THEN "closed" ELSE @]
    BY <1>8 DEF ReaderEnds, Local
  <2>3. \A d \in Conns : conn'[d] = IF d = c THEN x ELSE conn[d]
    <3>1. conn'[c] = x
      BY <2>2
    <3>2. ASSUME NEW d \in Conns, d # c PROVE conn'[d] = conn[d]
      <4>1. conn[d] \in ConnRec
        BY <1>0
      <4>2. conn'[d] = [conn[d] EXCEPT !.reader = conn[d].reader, !.st = conn[d].st]
        BY <2>2, <3>2, <4>1 DEF ConnRec
      <4> QED
        BY <4>1, <4>2 DEF ConnRec
    <3> QED
      BY <3>1, <3>2
  <2>4. conn' = [conn EXCEPT ![c] = x]
    <3>1. conn' = [d \in Conns |-> conn'[d]]
      BY <1>8 DEF ReaderEnds
    <3> HIDE DEF x
    <3> QED
      BY <1>0, <2>3, <3>1
  <2> QED
    BY <2>1, <2>4
<1> QED
  BY <1>4, <1>5, <1>6, <1>7, <1>8 DEF ReaderStep

LEMMA QueryCtrl == ASSUME IInv, QueryStep PROVE CtrlInv'
<1>0. CtrlInv /\ query.on \in {NoConn} \cup Conns
  BY DEF IInv, QueryInv
<1>1. CASE UNCHANGED ctrlVars
  BY <1>0, <1>1 DEF CtrlInv, ctrlVars
<1>2. CASE QuerySend /\ conn' = [conn EXCEPT ![query.on].asked = @ + 1]
  <2>1. UNCHANGED <<main, ctxDone, ctrl, ctrlConn>>
    BY <1>2 DEF QuerySend
  <2>2. CASE query.on \in Conns
    <3>1. conn[query.on] \in ConnRec /\ conn[query.on].asked + 1 \in Nat
      BY <1>0, <2>2 DEF CtrlInv, ConnRec
    <3>2. conn' = [conn EXCEPT ![query.on] = [conn[query.on] EXCEPT !.asked = conn[query.on].asked + 1]]
      BY <1>0, <1>2, <2>2 DEF CtrlInv
    <3>3. main \in MainPcs
      BY <1>0 DEF CtrlInv
    <3> QED
      BY <1>0, <2>1, <2>2, <3>1, <3>2, <3>3, ConnFields, ConnKept
  <2>3. CASE query.on \notin Conns
    <3>1. conn' = conn
      BY <1>0, <1>2, <2>3 DEF CtrlInv
    <3> QED
      BY <1>0, <2>1, <3>1 DEF CtrlInv
  <2> QED
    BY <2>2, <2>3
<1> QED
  BY <1>1, <1>2 DEF QueryStep, QueryBegin, QueryDrain, QuerySend, QueryEnds, ctrlVars

LEMMA CtrlNext == ASSUME IInv, [Next]_vars PROVE CtrlInv'
<1>1. CASE UNCHANGED ctrlVars
  BY <1>1 DEF IInv, CtrlInv, ctrlVars
<1>2. CASE \E o \in Objs : RunStep(o) \/ MessageLoopStep(o)
  BY <1>1, <1>2 DEF RunStep, MessageLoopStep, RunStart, RunReturns, HandlePayload, MessageLoopEnds
<1>3. CASE ReceiveFrame \/ HandleFrame \/ ReceiveLoopEnds \/ RoutePacket \/ SinkSend \/ PumpEnds \/ DeviceFails
  BY <1>1, <1>3 DEF ReceiveFrame, HandleFrame, ReceiveLoopEnds, RoutePacket, SinkSend, PumpEnds, DeviceFails
<1>4. CASE PingStep
  BY <1>1, <1>4 DEF PingStep, PingBegin, PingSend, PingGivesUp, PingWaiter, PingAnswered, PingTimeout
<1>5. CASE UNCHANGED vars
  BY <1>1, <1>5 DEF vars
<1> QED
  BY <1>2, <1>3, <1>4, <1>5, MainCtrl, ConnectionCtrl, QueryCtrl DEF Next


-----------------------------------------------------------------------------
(* The workload; a context that is done and an agent that is closed stay so.*)
LEMMA LoadNext ==
  ASSUME IInv, [Next]_vars
  PROVE  /\ load' \in Load /\ load'.relay = load.relay
         /\ ctxDone => ctxDone'
         /\ main = "closed" => main' = "closed"
<1>0. load \in Load
  BY DEF IInv
<1>1. load' = load \/ \E k \in Events : Burn(k)
  <2>1. CASE MainStep \/ CtxDone
    BY <2>1 DEF MainStep, CtxDone, Stun, RegisterBegin, DialFails, Dial, Initiate, InitiateFails, WriteRegister,
       WriteRegisterFails, Settle, attachBridge, CloseSocket, CloseCtrl, ClosePeers, Events
  <2>2. CASE \E c \in Conns : PeerList(c) \/ Answer(c) \/ ConnectionLost(c) \/ ReaderStep(c)
    BY <2>2 DEF PeerList, Answer, ConnectionLost, ReaderStep, ReadMsg, ReaderEnds, Events
  <2>3. CASE \E o \in Objs : RunStep(o) \/ MessageLoopStep(o)
    BY <2>3 DEF RunStep, MessageLoopStep, RunStart, RunReturns, HandlePayload, MessageLoopEnds
  <2>4. CASE ReceiveFrame \/ HandleFrame \/ ReceiveLoopEnds \/ RoutePacket \/ SinkSend \/ PumpEnds \/ DeviceFails
    BY <2>4 DEF ReceiveFrame, HandleFrame, ReceiveLoopEnds, RoutePacket, SinkSend, PumpEnds, DeviceFails, Events
  <2>5. CASE PingStep \/ QueryStep
    BY <2>5 DEF PingStep, PingBegin, PingSend, PingGivesUp, PingWaiter, PingAnswered, PingTimeout,
       QueryStep, QueryBegin, QueryDrain, QuerySend, QueryEnds, Events
  <2>6. CASE UNCHANGED vars
    BY <2>6 DEF vars
  <2> QED
    BY <2>1, <2>2, <2>3, <2>4, <2>5, <2>6 DEF Next
<1>2. load' \in Load /\ load'.relay = load.relay
  BY <1>0, <1>1, Burnt
<1>3. (ctxDone => ctxDone') /\ (main = "closed" => main' = "closed")
  <2>1. CASE UNCHANGED <<main, ctxDone>>
    BY <2>1
  <2>2. CASE MainStep \/ CtxDone
    <3>1. MainStep => main # "closed" /\ ctxDone' = ctxDone
      BY DEF MainStep, Stun, RegisterBegin, DialFails, Dial, Initiate, InitiateFails, WriteRegister,
         WriteRegisterFails, Settle, attachBridge, CloseSocket, CloseCtrl, ClosePeers
    <3>2. CtxDone => main' = main /\ ctxDone' = TRUE
      BY DEF CtxDone
    <3> QED
      BY <2>2, <3>1, <3>2
  <2>3. CASE \E c \in Conns : PeerList(c) \/ Answer(c) \/ ConnectionLost(c) \/ ReaderStep(c)
    BY <2>1, <2>3 DEF PeerList, Answer, ConnectionLost, ReaderStep, ReadMsg, ReaderEnds
  <2>4. CASE \E o \in Objs : RunStep(o) \/ MessageLoopStep(o)
    BY <2>1, <2>4 DEF RunStep, MessageLoopStep, RunStart, RunReturns, HandlePayload, MessageLoopEnds, ctrlVars
  <2>5. CASE ReceiveFrame \/ HandleFrame \/ ReceiveLoopEnds \/ RoutePacket \/ SinkSend \/ PumpEnds \/ DeviceFails
    BY <2>1, <2>5 DEF ReceiveFrame, HandleFrame, ReceiveLoopEnds, RoutePacket, SinkSend, PumpEnds, DeviceFails,
       ctrlVars
  <2>6. CASE PingStep \/ QueryStep
    BY <2>1, <2>6 DEF PingStep, PingBegin, PingSend, PingGivesUp, PingWaiter, PingAnswered, PingTimeout,
       QueryStep, QueryBegin, QueryDrain, QuerySend, QueryEnds, ctrlVars
  <2>7. CASE UNCHANGED vars
    BY <2>1, <2>7 DEF vars, ctrlVars
  <2> QED
    BY <2>2, <2>3, <2>4, <2>5, <2>6, <2>7 DEF Next
<1> QED
  BY <1>2, <1>3

(* The pump and the receive loop hand over objects the agent has made.      *)
LEMMA DataNext == ASSUME IInv, [Next]_vars PROVE DataInv'
<1>0. DataInv /\ TableInv
  BY DEF IInv
<1>1. CASE UNCHANGED <<pump, rx>>
  BY <1>0, <1>1 DEF DataInv
<1>2. CASE Settle
  BY <1>0, <1>2 DEF Settle, DataInv
<1>3. CASE attachBridge
  BY <1>0, <1>3 DEF attachBridge, DataInv
<1>4. CASE ReceiveFrame
  BY <1>0, <1>4 DEF ReceiveFrame, DataInv, TableInv
<1>5. CASE HandleFrame
  BY <1>0, <1>5 DEF HandleFrame, DataInv
<1>6. CASE ReceiveLoopEnds
  BY <1>0, <1>6 DEF ReceiveLoopEnds, DataInv
<1>7. CASE RoutePacket
  BY <1>0, <1>7 DEF RoutePacket, DataInv, TableInv
<1>8. CASE SinkSend \/ PumpEnds \/ DeviceFails
  BY <1>0, <1>8 DEF SinkSend, PumpEnds, DeviceFails, DataInv
<1>9. CASE MainStep \/ CtxDone
  BY <1>1, <1>2, <1>3, <1>9 DEF MainStep, CtxDone, Stun, RegisterBegin, DialFails, Dial, Initiate, InitiateFails,
     WriteRegister, WriteRegisterFails, CloseSocket, CloseCtrl, ClosePeers, dataVars
<1>10. CASE \E c \in Conns : PeerList(c) \/ Answer(c) \/ ConnectionLost(c) \/ ReaderStep(c)
  BY <1>1, <1>10 DEF PeerList, Answer, ConnectionLost, ReaderStep, ReadMsg, ReaderEnds, dataVars
<1>11. CASE \E o \in Objs : RunStep(o) \/ MessageLoopStep(o)
  BY <1>1, <1>11 DEF RunStep, MessageLoopStep, RunStart, RunReturns, HandlePayload, MessageLoopEnds, dataVars
<1>12. CASE PingStep \/ QueryStep
  BY <1>1, <1>12 DEF PingStep, PingBegin, PingSend, PingGivesUp, PingWaiter, PingAnswered, PingTimeout,
     QueryStep, QueryBegin, QueryDrain, QuerySend, QueryEnds, dataVars
<1>13. CASE UNCHANGED vars
  BY <1>1, <1>13 DEF vars, dataVars
<1> QED
  BY <1>4, <1>5, <1>6, <1>7, <1>8, <1>9, <1>10, <1>11, <1>12, <1>13 DEF Next

LEMMA QueryNext == ASSUME IInv, [Next]_vars PROVE QueryInv'
<1>0. QueryInv /\ ctrlConn \in {NoConn} \cup Conns
  BY DEF IInv, CtrlInv
<1>1. CASE UNCHANGED queryVars
  BY <1>0, <1>1 DEF QueryInv, queryVars
<1>2. CASE QueryStep
  <2>1. CASE QueryBegin
    BY <1>0, <2>1 DEF QueryBegin, QueryInv
  <2>2. CASE QueryDrain
    BY <1>0, <2>2 DEF QueryDrain, QueryInv
  <2>3. CASE QuerySend
    <3>1. queryCh' = queryCh /\ \E pc \in {"wait", "idle"} : query' = [query EXCEPT !.pc = pc]
      BY <2>3 DEF QuerySend
    <3> QED
      BY <1>0, <3>1 DEF QueryInv
  <2>4. CASE QueryEnds
    BY <1>0, <2>4 DEF QueryEnds, QueryInv
  <2> QED
    BY <1>2, <2>1, <2>2, <2>3, <2>4 DEF QueryStep
<1>3. CASE \E c \in Conns : PeerList(c) \/ Answer(c) \/ ConnectionLost(c) \/ ReaderStep(c)
  BY <1>0, <1>1, <1>3 DEF PeerList, Answer, ConnectionLost, ReaderStep, ReadMsg, ReaderEnds, Offer, QueryInv,
     queryVars
<1>4. CASE MainStep \/ CtxDone
  BY <1>1, <1>4 DEF MainStep, CtxDone, Stun, RegisterBegin, DialFails, Dial, Initiate, InitiateFails,
     WriteRegister, WriteRegisterFails, Settle, attachBridge, CloseSocket, CloseCtrl, ClosePeers
<1>5. CASE \E o \in Objs : RunStep(o) \/ MessageLoopStep(o)
  BY <1>1, <1>5 DEF RunStep, MessageLoopStep, RunStart, RunReturns, HandlePayload, MessageLoopEnds
<1>6. CASE ReceiveFrame \/ HandleFrame \/ ReceiveLoopEnds \/ RoutePacket \/ SinkSend \/ PumpEnds \/ DeviceFails
  BY <1>1, <1>6 DEF ReceiveFrame, HandleFrame, ReceiveLoopEnds, RoutePacket, SinkSend, PumpEnds, DeviceFails
<1>7. CASE PingStep
  BY <1>1, <1>7 DEF PingStep, PingBegin, PingSend, PingGivesUp, PingWaiter, PingAnswered, PingTimeout
<1>8. CASE UNCHANGED vars
  BY <1>1, <1>8 DEF vars
<1> QED
  BY <1>2, <1>3, <1>4, <1>5, <1>6, <1>7, <1>8 DEF Next

-----------------------------------------------------------------------------
(* Pings.                                                                   *)
LEMMA PingOn ==
  ASSUME NEW x \in PingRec, NEW l \in {"idle", "wait", "sent", "waiting"}, NEW O \in SUBSET Objs
  PROVE  /\ [x EXCEPT !.pc = l, !.on = O] \in PingRec
         /\ [x EXCEPT !.pc = l, !.on = O].pc = l /\ [x EXCEPT !.pc = l, !.on = O].seq = x.seq
  BY DEF PingRec

LEMMA PingNext == ASSUME IInv, [Next]_vars PROVE PingInv'
<1>0. PingInv /\ ping.seq \in Nat /\ ping.on \subseteq Objs /\ peers \subseteq Objs
  BY DEF IInv, PingInv, TableInv, PingRec
<1>1. CASE UNCHANGED <<ping, pingOut, pong, replies>>
  BY <1>0, <1>1 DEF PingInv
<1>2. CASE PingBegin
  <2>1. PICK o \in peers : ping' = [ping EXCEPT !.pc = "wait", !.on = {o}]
    BY <1>2 DEF PingBegin
  <2>2. ping' \in PingRec /\ ping'.pc = "wait" /\ ping'.seq = ping.seq
    <3>1. ping \in PingRec /\ {o} \in SUBSET Objs
      BY <1>0 DEF PingInv
    <3> QED
      BY <2>1, <3>1, PingOn
  <2> QED
    BY <1>0, <1>2, <2>2 DEF PingBegin, PingInv
<1>3. CASE PingSend
  <2>1. PICK o \in ping.on :
          \/ replies' = replies \cup {<<ping.seq + 1, o>>} /\ ping' = [ping EXCEPT !.pc = "sent", !.seq = @ + 1]
          \/ \E pc \in {"sent", "idle"} : ping' = [ping EXCEPT !.pc = pc, !.seq = @ + 1] /\ UNCHANGED replies
    BY <1>3 DEF PingSend
  <2>2. replies' \subseteq Nat \X Objs
    BY <1>0, <2>1 DEF PingInv
  <2>3. /\ ping' \in PingRec
        /\ ping'.pc \in {"sent", "idle"} /\ ping'.seq = ping.seq + 1
    <3>1. \E pc \in {"sent", "idle"} : ping' = [ping EXCEPT !.pc = pc, !.seq = ping.seq + 1]
      BY <2>1
    <3>2. ping \in PingRec /\ ping.seq + 1 \in Nat
      BY <1>0 DEF PingInv
    <3>3. PICK pc \in {"sent", "idle"} : ping' = [ping EXCEPT !.pc = pc, !.seq = ping.seq + 1]
      BY <3>1
    <3> DEFINE n == ping.seq + 1
    <3>4. n \in Nat /\ ping' = [ping EXCEPT !.pc = pc, !.seq = n] /\ pc \in {"idle", "wait", "sent", "waiting"}
      BY <3>2, <3>3
    <3> HIDE DEF n
    <3>5. ping' \in PingRec /\ ping'.pc = pc /\ ping'.seq = n
      BY <3>2, <3>4 DEF PingRec
    <3> QED
      BY <3>5 DEF n
  <2>4. pingOut = {} /\ pong = {} /\ pingOut' = {} /\ pong' = {}
    BY <1>0, <1>3 DEF PingSend, PingInv
  <2> QED
    BY <1>0, <2>2, <2>3, <2>4 DEF PingInv
<1>4. CASE PingGivesUp
  BY <1>0, <1>4 DEF PingGivesUp, PingInv, PingRec
<1>5. CASE PingWaiter
  BY <1>0, <1>5 DEF PingWaiter, PingInv, PingRec
<1>6. CASE PingAnswered
  BY <1>0, <1>6 DEF PingAnswered, PingInv, PingRec
<1>7. CASE PingTimeout
  BY <1>0, <1>7 DEF PingTimeout, dropPing, PingInv, PingRec
<1>8. CASE HandleFrame
  BY <1>0, <1>8 DEF HandleFrame, PingInv
<1>9. CASE \E o \in Objs : HandlePayload(o)
  BY <1>0, <1>9 DEF HandlePayload, PingInv
<1>10. CASE MainStep \/ CtxDone
  BY <1>1, <1>10 DEF MainStep, CtxDone, Stun, RegisterBegin, DialFails, Dial, Initiate, InitiateFails,
     WriteRegister, WriteRegisterFails, Settle, attachBridge, CloseSocket, CloseCtrl, ClosePeers, dataVars
<1>11. CASE \E c \in Conns : PeerList(c) \/ Answer(c) \/ ConnectionLost(c) \/ ReaderStep(c)
  BY <1>1, <1>11 DEF PeerList, Answer, ConnectionLost, ReaderStep, ReadMsg, ReaderEnds, dataVars
<1>12. CASE \E o \in Objs : RunStep(o) \/ MessageLoopEnds(o)
  BY <1>1, <1>12 DEF RunStep, RunStart, RunReturns, MessageLoopEnds, dataVars
<1>13. CASE ReceiveFrame \/ ReceiveLoopEnds \/ RoutePacket \/ SinkSend \/ PumpEnds \/ DeviceFails
  BY <1>1, <1>13 DEF ReceiveFrame, ReceiveLoopEnds, RoutePacket, SinkSend, PumpEnds, DeviceFails
<1>14. CASE QueryStep \/ UNCHANGED vars
  BY <1>1, <1>14 DEF QueryStep, QueryBegin, QueryDrain, QuerySend, QueryEnds, dataVars, vars
<1> QED
  BY <1>2, <1>3, <1>4, <1>5, <1>6, <1>7, <1>8, <1>9, <1>10, <1>11, <1>12, <1>13, <1>14
  DEF Next, PingStep, MessageLoopStep


-----------------------------------------------------------------------------
(* The peer table, its objects and the routes.                              *)

LEMMA TableKept ==
  ASSUME TableInv, UNCHANGED peerVars, load'.relay = load.relay,
         ctxDone => ctxDone', main = "closed" => main' = "closed"
  PROVE  TableInv'
<1>1. UNCHANGED <<peers, cancels, obj, bridge, routes>>
  BY DEF peerVars
<1> QED
  BY <1>1 DEF TableInv, Named, Made, Serving, RouteExact

(* One object changes, and stays as it is in the eyes of the table.         *)
LEMMA ObjectKept ==
  ASSUME TableInv, NEW o \in Objs, NEW x \in PeerRec, obj' = [obj EXCEPT ![o] = x],
         Len(x.recv) <= RecvCap, x.run = "none" <=> obj[o].run = "none", x.closed = obj[o].closed,
         (~ctxDone /\ o \in peers /\ Serving(o)) => ((x.cancelled => x.run = "done") /\ (x.run = "done" => ~x.ep0 /\ ~load.relay)),
         UNCHANGED <<peers, cancels, bridge, routes, ctxDone, main>>, load'.relay = load.relay
  PROVE  TableInv'
<1>1. obj' \in [Objs -> PeerRec] /\ \A p \in Objs : obj'[p] = IF p = o THEN x ELSE obj[p]
  BY DEF TableInv
<1>2. \A p \in Objs : Len(obj'[p].recv) <= RecvCap
  BY <1>1 DEF TableInv
<1>3. \A p \in Objs \ peers : Made(p)' => obj'[p].closed
  BY <1>1 DEF TableInv, Made
<1>4. ~ctxDone /\ main # "closed" => \A p \in peers : Serving(p)'
  BY <1>1 DEF TableInv, Serving
<1> QED
  BY <1>1, <1>2, <1>3, <1>4 DEF TableInv, Named, RouteExact

LEMMA RunTable == ASSUME IInv, NEW o \in Objs, RunStep(o) PROVE TableInv'
<1>0. TableInv /\ obj[o] \in PeerRec /\ obj \in [Objs -> PeerRec] /\ Len(obj[o].recv) <= RecvCap
  BY DEF IInv, TableInv
<1> DEFINE y == Returned(o)
           z == [[obj[o] EXCEPT !.run = "loop"] EXCEPT !.ep0 = obj[o].ep]
           u == [Returned(o) EXCEPT !.ep0 = obj[o].ep]
<1>1. /\ y \in PeerRec /\ y.run = "done" /\ y.closed = obj[o].closed /\ y.recv = obj[o].recv
      /\ z \in PeerRec /\ z.run = "loop" /\ z.closed = obj[o].closed /\ z.recv = obj[o].recv
      /\ z.cancelled = obj[o].cancelled
      /\ u \in PeerRec /\ u.run = "done" /\ u.closed = obj[o].closed /\ u.recv = obj[o].recv
      /\ u.ep0 = obj[o].ep
  BY <1>0 DEF Returned, PeerRec
<1>2. UNCHANGED <<peers, cancels, bridge, routes, ctxDone, main, load>>
  BY DEF RunStep, RunStart, RunReturns, ctrlVars
<1>3. CASE RunStart(o)
  <2>1. obj[o].run = "new"
    BY <1>3 DEF RunStart
  <2>2. CASE obj[o].ep \/ load.relay
    <3>1. obj' = [obj EXCEPT ![o] = z]
      BY <1>0, <1>3, <2>2 DEF RunStart, HasPath
    <3>2. Serving(o) => ~z.cancelled
      BY <1>1, <2>1 DEF Serving
    <3> HIDE DEF y, z, u
    <3> QED
      BY <1>0, <1>1, <1>2, <2>1, <3>1, <3>2, ObjectKept
  <2>3. CASE ~(obj[o].ep \/ load.relay)
    <3>1. obj' = [obj EXCEPT ![o] = u]
      BY <1>0, <1>3, <2>3 DEF RunStart, HasPath
    <3> HIDE DEF y, z, u
    <3> QED
      BY <1>0, <1>1, <1>2, <2>1, <2>3, <3>1, ObjectKept
  <2> QED
    BY <2>2, <2>3
<1>4. CASE RunReturns(o)
  <2>1. obj' = [obj EXCEPT ![o] = y] /\ obj[o].run = "loop"
    BY <1>4 DEF RunReturns
  <2>2. ~ctxDone => ~Serving(o)
    BY <1>4, <2>1 DEF RunReturns, Serving
  <2> HIDE DEF y, z, u
  <2> QED
    BY <1>0, <1>1, <1>2, <2>1, <2>2, ObjectKept
<1> QED
  BY <1>3, <1>4 DEF RunStep

LEMMA LoopTable == ASSUME IInv, NEW o \in Objs, MessageLoopStep(o) PROVE TableInv'
<1>0. TableInv /\ obj[o] \in PeerRec /\ obj \in [Objs -> PeerRec] /\ Len(obj[o].recv) <= RecvCap
  BY DEF IInv, TableInv
<1>1. UNCHANGED <<peers, cancels, bridge, routes, ctxDone, main, load>>
  BY DEF MessageLoopStep, HandlePayload, MessageLoopEnds, ctrlVars
<1>2. SUFFICES \E x \in PeerRec : /\ obj' = [obj EXCEPT ![o] = x] /\ Len(x.recv) <= RecvCap
                                  /\ x.run = obj[o].run /\ x.closed = obj[o].closed
                                  /\ x.cancelled = obj[o].cancelled /\ x.ep0 = obj[o].ep0
  BY <1>0, <1>1, ObjectKept DEF Serving
<1>3. CASE HandlePayload(o)
  <2> DEFINE t == Tail(obj[o].recv)
             x == [obj[o] EXCEPT !.recv = t]
  <2>1. obj[o].recv \in Seq(Nat) /\ obj[o].recv # <<>>
    BY <1>0, <1>3 DEF HandlePayload, PeerRec
  <2>2. t \in Seq(Nat) /\ Len(t) = Len(obj[o].recv) - 1 /\ Len(obj[o].recv) \in Nat
    BY <2>1
  <2>3. Len(t) <= RecvCap
    BY <1>0, <2>2, BoundsAssumption
  <2>4. obj' = [obj EXCEPT ![o] = x]
    BY <1>0, <1>3 DEF HandlePayload
  <2> HIDE DEF t
  <2>5. /\ x \in PeerRec /\ x.recv = t /\ x.run = obj[o].run /\ x.closed = obj[o].closed
        /\ x.cancelled = obj[o].cancelled /\ x.ep0 = obj[o].ep0
    BY <1>0, <2>2 DEF PeerRec
  <2> HIDE DEF x
  <2> QED
    BY <2>3, <2>4, <2>5
<1>4. CASE MessageLoopEnds(o)
  <2> DEFINE x == [obj[o] EXCEPT !.loop = "done"]
  <2>1. obj' = [obj EXCEPT ![o] = x]
    BY <1>0, <1>4 DEF MessageLoopEnds
  <2>2. /\ x \in PeerRec /\ x.recv = obj[o].recv /\ x.run = obj[o].run /\ x.closed = obj[o].closed
        /\ x.cancelled = obj[o].cancelled /\ x.ep0 = obj[o].ep0
    BY <1>0 DEF PeerRec
  <2> HIDE DEF x
  <2> QED
    BY <1>0, <2>1, <2>2
<1> QED
  BY <1>3, <1>4 DEF MessageLoopStep

LEMMA FrameTable == ASSUME IInv, HandleFrame PROVE TableInv'
<1>0. TableInv /\ obj \in [Objs -> PeerRec] /\ rx.to \subseteq Objs /\ replies \subseteq Nat \X Objs
  BY DEF IInv, TableInv, DataInv, PingInv
<1>1. UNCHANGED <<peers, cancels, bridge, routes, ctxDone, main, load>>
  BY DEF HandleFrame, ctrlVars
<1>2. PICK o \in rx.to :
        \/ obj' = [obj EXCEPT ![o].est = TRUE]
        \/ \E s \in Nat : onData(o, s)
        \/ obj' = obj
  <2>1. \A r \in replies : r[1] \in Nat
    BY <1>0
  <2> QED
    BY <2>1 DEF HandleFrame
<1>3. obj[o] \in PeerRec /\ o \in Objs /\ obj[o].recv \in Seq(Nat) /\ Len(obj[o].recv) <= RecvCap
  BY <1>0 DEF TableInv, PeerRec
<1>4. SUFFICES \E x \in PeerRec : /\ obj' = [obj EXCEPT ![o] = x] /\ Len(x.recv) <= RecvCap
                                  /\ x.run = obj[o].run /\ x.closed = obj[o].closed
                                  /\ x.cancelled = obj[o].cancelled /\ x.ep0 = obj[o].ep0
  BY <1>0, <1>1, <1>3, ObjectKept DEF Serving
<1>5. CASE obj' = [obj EXCEPT ![o].est = TRUE]
  <2> DEFINE x == [obj[o] EXCEPT !.est = TRUE]
  <2>1. obj' = [obj EXCEPT ![o] = x]
    BY <1>0, <1>3, <1>5
  <2>2. /\ x \in PeerRec /\ x.recv = obj[o].recv /\ x.run = obj[o].run /\ x.closed = obj[o].closed
        /\ x.cancelled = obj[o].cancelled /\ x.ep0 = obj[o].ep0
    BY <1>3 DEF PeerRec
  <2> HIDE DEF x
  <2> QED
    BY <1>3, <2>1, <2>2
<1>6. ASSUME NEW s \in Nat, obj' = [obj EXCEPT ![o].recv = Append(@, s)], Len(obj[o].recv) < RecvCap
      PROVE  \E x \in PeerRec : /\ obj' = [obj EXCEPT ![o] = x] /\ Len(x.recv) <= RecvCap
                                /\ x.run = obj[o].run /\ x.closed = obj[o].closed
                                /\ x.cancelled = obj[o].cancelled /\ x.ep0 = obj[o].ep0
  <2> DEFINE t == Append(obj[o].recv, s)
             x == [obj[o] EXCEPT !.recv = t]
  <2>1. t \in Seq(Nat) /\ Len(t) = Len(obj[o].recv) + 1 /\ Len(obj[o].recv) \in Nat
    BY <1>3
  <2>2. Len(t) <= RecvCap
    BY <1>6, <2>1, BoundsAssumption
  <2>3. obj' = [obj EXCEPT ![o] = x]
    BY <1>0, <1>3, <1>6
  <2> HIDE DEF t
  <2>4. /\ x \in PeerRec /\ x.recv = t /\ x.run = obj[o].run /\ x.closed = obj[o].closed
        /\ x.cancelled = obj[o].cancelled /\ x.ep0 = obj[o].ep0
    BY <1>3, <2>1 DEF PeerRec
  <2> HIDE DEF x
  <2> QED
    BY <2>2, <2>3, <2>4
<1>7. CASE obj' = obj
  <2>1. obj' = [obj EXCEPT ![o] = obj[o]]
    BY <1>0, <1>3, <1>7
  <2> QED
    BY <1>3, <2>1
<1> QED
  BY <1>2, <1>5, <1>6, <1>7 DEF onData

LEMMA CloseTable == ASSUME IInv, CloseCtrl \/ ClosePeers \/ attachBridge PROVE TableInv'
<1>0. TableInv /\ peers \subseteq Objs /\ cancels \subseteq peers /\ obj \in [Objs -> PeerRec]
  BY DEF IInv, TableInv
<1>1. CASE CloseCtrl
  <2>1. /\ UNCHANGED <<peers, cancels, obj, routes, ctxDone, load>> /\ main # "closed"
        /\ bridge' \in {"none", "open", "closed"} /\ (bridge' = "none" <=> bridge = "none")
    BY <1>0, <1>1 DEF CloseCtrl, TableInv
  <2>2. RouteExact'
    BY <1>0, <2>1 DEF TableInv, RouteExact
  <2> QED
    BY <1>0, <2>1, <2>2 DEF TableInv, Named, Made, Serving
<1>2. CASE ClosePeers
  <2>1. UNCHANGED <<peers, bridge, routes>> /\ cancels' = {} /\ main' = "closed"
    BY <1>2 DEF ClosePeers
  <2>2. \A o \in Objs : /\ obj'[o] \in PeerRec /\ obj'[o].run = obj[o].run /\ obj'[o].recv = obj[o].recv
                        /\ obj[o].closed => obj'[o].closed
    <3> SUFFICES ASSUME NEW o \in Objs
                 PROVE  /\ obj'[o] \in PeerRec /\ obj'[o].run = obj[o].run /\ obj'[o].recv = obj[o].recv
                        /\ obj[o].closed => obj'[o].closed
      OBVIOUS
    <3> DEFINE a == obj[o].cancelled \/ o \in cancels
               b == obj[o].closed \/ o \in peers
    <3>1. obj[o] \in PeerRec /\ a \in BOOLEAN /\ b \in BOOLEAN /\ (obj[o].closed => b)
      BY <1>0 DEF PeerRec
    <3>2. obj'[o] = [obj[o] EXCEPT !.cancelled = a, !.closed = b]
      BY <1>2 DEF ClosePeers
    <3> HIDE DEF a, b
    <3> QED
      BY <3>1, <3>2 DEF PeerRec
  <2>3. obj' \in [Objs -> PeerRec]
    <3>1. obj' = [o \in Objs |-> obj'[o]]
      BY <1>2 DEF ClosePeers
    <3> QED
      BY <2>2, <3>1
  <2>4. RouteExact' /\ Named'
    BY <1>0, <2>1 DEF TableInv, RouteExact, Named
  <2>5. \A o \in Objs \ peers : Made(o)' => obj'[o].closed
    BY <1>0, <2>2 DEF TableInv, Made
  <2> QED
    BY <1>0, <2>1, <2>2, <2>3, <2>4, <2>5 DEF TableInv
<1>3. CASE attachBridge
  <2>1. UNCHANGED <<peers, cancels, obj, ctxDone, load>> /\ main # "closed"
    BY <1>3 DEF attachBridge
  <2>2. CASE UNCHANGED <<bridge, routes>>
    BY <1>0, <2>1, <2>2, TableKept DEF peerVars
  <2>3. CASE bridge' = "open" /\ routes' = Wired
    <3>1. RouteExact' /\ routes' \in [Addrs -> SUBSET Objs]
      BY <1>0, <2>1, <2>3 DEF RouteExact, Wired
    <3> QED
      BY <1>0, <2>1, <2>3, <3>1 DEF TableInv, Named, Made, Serving
  <2> QED
    BY <1>3, <2>2, <2>3 DEF attachBridge
<1> QED
  BY <1>1, <1>2, <1>3

(* Who is added has no object in the table yet.                             *)
LEMMA AddedFacts ==
  ASSUME NEW l
  PROVE  \A o \in Added(l) : /\ l[o[1]] # "absent" /\ o[1] \in IDs
                             /\ \A p \in peers : p[1] # o[1]
                             /\ \A p \in Added(l) : p[1] = o[1] => p = o
<1>1. \A i : New(i)[1] = i
  BY DEF New
<1> QED
  BY <1>1 DEF Added

LEMMA NoPeerFields ==
  /\ NoPeer \in PeerRec /\ NoPeer.recv = <<>>
  /\ ~NoPeer.closed /\ ~NoPeer.cancelled /\ ~NoPeer.recvClosed
  BY DEF NoPeer, PeerRec

LEMMA EndpointLearnt ==
  ASSUME NEW x \in PeerRec
  PROVE  LET y == [x EXCEPT !.ep = TRUE]
         IN  /\ y \in PeerRec /\ y.run = x.run /\ y.closed = x.closed
             /\ y.cancelled = x.cancelled /\ y.recv = x.recv /\ y.ep0 = x.ep0
  BY DEF PeerRec

LEMMA ApplyTable ==
  ASSUME IInv, NEW l, applyPeers(l), UNCHANGED <<main, ctxDone, load>>
  PROVE  TableInv'
<1> DEFINE A == Added(l)
           D == Dropped(l)
<1>0. /\ TableInv /\ peers \subseteq Objs /\ cancels \subseteq peers /\ obj \in [Objs -> PeerRec]
      /\ A \subseteq Objs
  BY DEF IInv, TableInv, applyPeers
<1>1. D \subseteq peers /\ A \cap peers = {}
  BY AddedFacts DEF Dropped
<1>2. peers' = (peers \ D) \cup A /\ cancels' = (cancels \ D) \cup A /\ bridge' = bridge
  BY DEF applyPeers
<1> DEFINE F(o) ==
        CASE o \in A -> [NoPeer EXCEPT !.run = "new", !.loop = "on", !.ep = (l[o[1]] = "ep")]
          [] o \in D -> Shut(o)
          [] o \in peers \ D /\ l[o[1]] = "ep" -> [obj[o] EXCEPT !.ep = TRUE]
          [] OTHER -> obj[o]
<1>3. obj' = [o \in Objs |-> F(o)]
  BY DEF applyPeers
<1> HIDE DEF F
<1>4. \A o \in Objs : obj'[o] = F(o)
  BY <1>3
<1> HIDE DEF A, D
<1>5. \A o \in A : /\ obj'[o] \in PeerRec /\ obj'[o].recv = <<>> /\ obj'[o].run = "new" /\ ~obj'[o].closed
                   /\ ~obj'[o].cancelled
  <2> SUFFICES ASSUME NEW o \in A
               PROVE  /\ obj'[o] \in PeerRec /\ obj'[o].recv = <<>> /\ obj'[o].run = "new" /\ ~obj'[o].closed
                      /\ ~obj'[o].cancelled
    OBVIOUS
  <2>1. \E b \in BOOLEAN : obj'[o] = [NoPeer EXCEPT !.run = "new", !.loop = "on", !.ep = b]
    <3>1. F(o) = [NoPeer EXCEPT !.run = "new", !.loop = "on", !.ep = (l[o[1]] = "ep")]
      BY <1>1 DEF F
    <3> QED
      BY <1>0, <1>4, <3>1
  <2> QED
    BY <2>1, NoPeerFields DEF PeerRec
<1>6. \A o \in D : obj'[o] \in PeerRec /\ obj'[o].recv = obj[o].recv /\ obj'[o].closed
  <2> SUFFICES ASSUME NEW o \in D
               PROVE  obj'[o] \in PeerRec /\ obj'[o].recv = obj[o].recv /\ obj'[o].closed
    OBVIOUS
  <2> DEFINE b == obj[o].cancelled \/ o \in cancels
  <2>1. o \in Objs /\ o \notin A /\ obj[o] \in PeerRec /\ b \in BOOLEAN
    BY <1>0, <1>1 DEF PeerRec
  <2>2. obj'[o] = [obj[o] EXCEPT !.cancelled = b, !.closed = TRUE]
    <3>1. F(o) = Shut(o)
      BY <2>1 DEF F
    <3> QED
      BY <1>4, <2>1, <3>1 DEF Shut
  <2> HIDE DEF b
  <2> QED
    BY <2>1, <2>2 DEF PeerRec
<1>7. \A o \in Objs \ (A \cup D) :
        /\ obj'[o] \in PeerRec /\ obj'[o].run = obj[o].run /\ obj'[o].closed = obj[o].closed
        /\ obj'[o].cancelled = obj[o].cancelled /\ obj'[o].recv = obj[o].recv
        /\ obj'[o].ep0 = obj[o].ep0
  <2> SUFFICES ASSUME NEW o \in Objs \ (A \cup D)
               PROVE  /\ obj'[o] \in PeerRec /\ obj'[o].run = obj[o].run /\ obj'[o].closed = obj[o].closed
                      /\ obj'[o].cancelled = obj[o].cancelled /\ obj'[o].recv = obj[o].recv
                      /\ obj'[o].ep0 = obj[o].ep0
    OBVIOUS
  <2>1. obj[o] \in PeerRec
    BY <1>0
  <2>2. obj'[o] = obj[o] \/ obj'[o] = [obj[o] EXCEPT !.ep = TRUE]
    BY <1>4 DEF F
  <2> QED
    BY <2>1, <2>2, EndpointLearnt
<1>8. /\ peers' \subseteq Objs /\ cancels' \subseteq peers' /\ obj' \in [Objs -> PeerRec]
      /\ \A o \in Objs : Len(obj'[o].recv) <= RecvCap
  <2>1. \A o \in Objs : Len(obj'[o].recv) <= RecvCap
    BY <1>0, <1>5, <1>6, <1>7, BoundsAssumption DEF TableInv
  <2>2. obj' \in [Objs -> PeerRec]
    BY <1>3, <1>4, <1>5, <1>6, <1>7
  <2> QED
    BY <1>0, <1>1, <1>2, <2>1, <2>2
<1>9. Named'
  BY <1>0, <1>1, <1>2, AddedFacts DEF TableInv, Named, A
<1>10. \A o \in Objs \ peers' : Made(o)' => obj'[o].closed
  BY <1>0, <1>2, <1>6, <1>7 DEF TableInv, Made
<1>11. ~ctxDone' /\ main' # "closed" => \A o \in peers' : Serving(o)'
  BY <1>0, <1>2, <1>5, <1>7 DEF TableInv, Serving
<1>12. RouteExact' /\ routes' \in [Addrs -> SUBSET Objs]
  <2>1. CASE bridge = "none"
    BY <1>0, <1>2, <2>1 DEF TableInv, RouteExact, applyPeers
  <2>2. CASE bridge # "none"
    <3>1. routes' = [a \in Addrs |-> LET sinks == {o \in A : Overlay[o[1]] = a}
                                     IN  IF sinks # {} THEN sinks ELSE routes[a] \ D]
      BY <2>2 DEF applyPeers, A, D
    <3>2. ASSUME NEW a \in Addrs PROVE routes'[a] = {o \in peers' : Overlay[o[1]] = a}
      <4>1. routes[a] = {o \in peers : Overlay[o[1]] = a}
        BY <1>0, <2>2 DEF TableInv, RouteExact
      <4>2. CASE {o \in A : Overlay[o[1]] = a} = {}
        BY <1>2, <3>1, <4>1, <4>2
      <4>3. CASE {o \in A : Overlay[o[1]] = a} # {}
        <5>1. PICK n \in A : Overlay[n[1]] = a
          BY <4>3
        <5>2. a # NoAddr /\ n[1] \in IDs /\ \A o \in peers : o[1] # n[1] /\ o[1] \in IDs
          BY <1>0, <5>1, AddedFacts DEF Addrs, A, Objs
        <5>3. \A o \in peers : Overlay[o[1]] # a
          BY <5>1, <5>2, OverlayAssumption
        <5> QED
          BY <1>2, <3>1, <4>3, <5>3
      <4> QED
        BY <4>2, <4>3
    <3>3. routes' = [a \in Addrs |-> {o \in peers' : Overlay[o[1]] = a}]
      BY <3>1, <3>2
    <3> QED
      BY <1>8, <3>3 DEF RouteExact
  <2> QED
    BY <2>1, <2>2
<1> QED
  BY <1>0, <1>2, <1>8, <1>9, <1>10, <1>11, <1>12 DEF TableInv

LEMMA TableNext == ASSUME IInv, [Next]_vars PROVE TableInv'
<1>0. /\ TableInv /\ load'.relay = load.relay
      /\ (ctxDone => ctxDone') /\ (main = "closed" => main' = "closed")
  BY LoadNext DEF IInv
<1>1. CASE UNCHANGED peerVars
  BY <1>0, <1>1, TableKept
<1>2. CASE \E c \in Conns : PeerList(c) \/ Answer(c) \/ ConnectionLost(c) \/ ReaderEnds(c)
  BY <1>1, <1>2 DEF PeerList, Answer, ConnectionLost, ReaderEnds
<1>3. CASE \E c \in Conns : ReadMsg(c)
  <2>1. PICK c \in Conns : ReadMsg(c)
    BY <1>3
  <2>2. UNCHANGED <<main, ctxDone, load>>
    BY <2>1 DEF ReadMsg
  <2>3. UNCHANGED peerVars \/ \E l : applyPeers(l)
    BY <2>1 DEF ReadMsg
  <2> QED
    BY <1>1, <2>2, <2>3, ApplyTable
<1>4. CASE MainStep \/ CtxDone
  BY <1>1, <1>4, CloseTable DEF MainStep, CtxDone, Stun, RegisterBegin, DialFails, Dial, Initiate, InitiateFails,
     WriteRegister, WriteRegisterFails, Settle, CloseSocket
<1>5. CASE \E o \in Objs : RunStep(o) \/ MessageLoopStep(o)
  BY <1>5, RunTable, LoopTable
<1>6. CASE HandleFrame
  BY <1>6, FrameTable
<1>7. CASE ReceiveFrame \/ ReceiveLoopEnds \/ RoutePacket \/ SinkSend \/ PumpEnds \/ DeviceFails
  BY <1>1, <1>7 DEF ReceiveFrame, ReceiveLoopEnds, RoutePacket, SinkSend, PumpEnds, DeviceFails
<1>8. CASE PingStep \/ QueryStep
  BY <1>1, <1>8 DEF PingStep, PingBegin, PingSend, PingGivesUp, PingWaiter, PingAnswered, PingTimeout,
     QueryStep, QueryBegin, QueryDrain, QuerySend, QueryEnds
<1>9. CASE UNCHANGED vars
  BY <1>1, <1>9 DEF vars
<1> QED
  BY <1>2, <1>3, <1>4, <1>5, <1>6, <1>7, <1>8, <1>9 DEF Next, ReaderStep


-----------------------------------------------------------------------------
(* What a step may do to recv, which its deferred close makes final.        *)
LEMMA RecvStep ==
  ASSUME IInv, [Next]_vars, NEW o \in Objs, obj[o].recvClosed
  PROVE  Len(obj'[o].recv) <= Len(obj[o].recv)
<1>0. obj \in [Objs -> PeerRec] /\ obj[o] \in PeerRec /\ obj[o].recv \in Seq(Nat) /\ Len(obj[o].recv) \in Nat
  BY DEF IInv, TableInv, PeerRec
<1>1. CASE obj'[o] = obj[o] \/ obj'[o].recv = obj[o].recv \/ obj'[o].recv = <<>>
  BY <1>0, <1>1
<1>2. CASE \E p \in Objs : RunStep(p)
  <2>1. PICK p \in Objs : RunStep(p)
    BY <1>2
  <2>2. obj[p] \in PeerRec
    BY <1>0
  <2>3. \/ obj' = [obj EXCEPT ![p] = [[obj[p] EXCEPT !.run = "loop"] EXCEPT !.ep0 = obj[p].ep]]
        \/ obj' = [obj EXCEPT ![p] = [Returned(p) EXCEPT !.ep0 = obj[p].ep]]
        \/ obj' = [obj EXCEPT ![p] = Returned(p)]
    BY <1>0, <2>1 DEF RunStep, RunStart, RunReturns
  <2>4. /\ [[obj[p] EXCEPT !.run = "loop"] EXCEPT !.ep0 = obj[p].ep].recv = obj[p].recv
        /\ [Returned(p) EXCEPT !.ep0 = obj[p].ep].recv = obj[p].recv
        /\ Returned(p).recv = obj[p].recv
    BY <2>2 DEF Returned, PeerRec
  <2> QED
    BY <1>0, <1>1, <2>3, <2>4
<1>3. CASE \E p \in Objs : HandlePayload(p)
  <2>1. PICK p \in Objs : HandlePayload(p)
    BY <1>3
  <2>2. CASE p # o
    BY <1>0, <1>1, <2>1, <2>2 DEF HandlePayload
  <2>3. CASE p = o
    <3>1. obj'[o].recv = Tail(obj[o].recv) /\ obj[o].recv # <<>>
      BY <1>0, <2>1, <2>3 DEF HandlePayload, PeerRec
    <3> QED
      BY <1>0, <3>1
  <2> QED
    BY <2>2, <2>3
<1>4. CASE \E p \in Objs : MessageLoopEnds(p)
  <2>1. PICK p \in Objs : obj' = [obj EXCEPT ![p].loop = "done"]
    BY <1>4 DEF MessageLoopEnds
  <2>2. obj'[o].recv = obj[o].recv
    BY <1>0, <2>1 DEF PeerRec
  <2> QED
    BY <1>1, <2>2
<1>5. CASE HandleFrame
  <2>1. PICK p \in rx.to : obj' = [obj EXCEPT ![p].est = TRUE] \/ (\E s : onData(p, s)) \/ obj' = obj
    BY <1>5 DEF HandleFrame
  <2>2. CASE obj' = [obj EXCEPT ![p].est = TRUE]
    <3>1. obj'[o].recv = obj[o].recv
      BY <1>0, <2>2 DEF PeerRec
    <3> QED
      BY <1>1, <3>1
  <2>3. CASE \E s : onData(p, s)
    <3>1. obj'[o] = obj[o]
      BY <1>0, <2>3 DEF onData
    <3> QED
      BY <1>1, <3>1
  <2> QED
    BY <1>1, <2>1, <2>2, <2>3
<1>6. CASE \E c \in Conns : ReadMsg(c)
  <2>1. (UNCHANGED obj) \/ \E l : applyPeers(l)
    BY <1>6 DEF ReadMsg, peerVars
  <2>2. ASSUME NEW l, applyPeers(l)
        PROVE  obj'[o].recv = obj[o].recv \/ obj'[o].recv = <<>>
    <3>1. o \in Added(l) => obj'[o].recv = <<>>
      <4> SUFFICES ASSUME o \in Added(l) PROVE obj'[o].recv = <<>>
        OBVIOUS
      <4>1. o \notin peers
        BY AddedFacts
      <4>2. obj'[o] = [NoPeer EXCEPT !.run = "new", !.loop = "on", !.ep = (l[o[1]] = "ep")]
        BY <2>2, <4>1 DEF applyPeers, Dropped
      <4>3. \E b \in BOOLEAN : obj'[o] = [NoPeer EXCEPT !.run = "new", !.loop = "on", !.ep = b]
        BY <4>2
      <4> QED
        BY <4>3, NoPeerFields DEF PeerRec
    <3>2. o \notin Added(l) =>
            \/ obj'[o] = obj[o] \/ obj'[o] = [obj[o] EXCEPT !.ep = TRUE]
            \/ \E b \in BOOLEAN : obj'[o] = [obj[o] EXCEPT !.cancelled = b, !.closed = TRUE]
      <4>1. Shut(o) = [obj[o] EXCEPT !.cancelled = obj[o].cancelled \/ o \in cancels, !.closed = TRUE]
        BY DEF Shut
      <4>2. o \notin Added(l) => obj'[o] = obj[o] \/ obj'[o] = [obj[o] EXCEPT !.ep = TRUE] \/ obj'[o] = Shut(o)
        BY <2>2 DEF applyPeers
      <4> QED
        BY <4>1, <4>2
    <3> QED
      BY <1>0, <3>1, <3>2 DEF PeerRec
  <2> QED
    BY <1>1, <2>1, <2>2
<1>7. CASE ClosePeers
  <2> DEFINE a == obj[o].cancelled \/ o \in cancels
             b == obj[o].closed \/ o \in peers
  <2>1. obj'[o] = [obj[o] EXCEPT !.cancelled = a, !.closed = b]
    BY <1>7 DEF ClosePeers
  <2> HIDE DEF a, b
  <2>2. obj'[o].recv = obj[o].recv
    BY <1>0, <2>1 DEF PeerRec
  <2> QED
    BY <1>1, <2>2
<1>8. CASE MainStep \/ CtxDone
  BY <1>1, <1>7, <1>8 DEF MainStep, CtxDone, Stun, RegisterBegin, DialFails, Dial, Initiate, InitiateFails,
     WriteRegister, WriteRegisterFails, Settle, attachBridge, CloseSocket, CloseCtrl, peerVars
<1>9. CASE \E c \in Conns : PeerList(c) \/ Answer(c) \/ ConnectionLost(c) \/ ReaderEnds(c)
  BY <1>1, <1>9 DEF PeerList, Answer, ConnectionLost, ReaderEnds, peerVars
<1>10. CASE ReceiveFrame \/ ReceiveLoopEnds \/ RoutePacket \/ SinkSend \/ PumpEnds \/ DeviceFails
  BY <1>1, <1>10 DEF ReceiveFrame, ReceiveLoopEnds, RoutePacket, SinkSend, PumpEnds, DeviceFails, peerVars
<1>11. CASE PingStep \/ QueryStep
  BY <1>1, <1>11 DEF PingStep, PingBegin, PingSend, PingGivesUp, PingWaiter, PingAnswered, PingTimeout,
     QueryStep, QueryBegin, QueryDrain, QuerySend, QueryEnds, peerVars
<1>12. CASE UNCHANGED vars
  BY <1>1, <1>12 DEF vars, peerVars
<1> QED
  BY <1>2, <1>3, <1>4, <1>5, <1>6, <1>8, <1>9, <1>10, <1>11, <1>12 DEF Next, ReaderStep, MessageLoopStep

(* Who may close a connection that is open.                                 *)
LEMMA CloseStep ==
  ASSUME IInv, [Next]_vars, NEW c \in Conns, conn[c].st = "open", conn'[c].st = "closed"
  PROVE  main' # main \/ ~conn[c].up
<1>0. conn \in [Conns -> ConnRec] /\ conn[c] \in ConnRec
  BY DEF IInv, CtrlInv
<1>1. CASE conn' = conn
  BY <1>1
<1>2. CASE MainStep
  <2>1. RegisterBegin \/ InitiateFails \/ CloseCtrl \/ Dial \/ WriteRegister => main' # main
    BY DEF RegisterBegin, InitiateFails, RegisterFailed, CloseCtrl, Dial, WriteRegister
  <2> QED
    BY <1>1, <1>2, <2>1 DEF MainStep, Stun, DialFails, Initiate, WriteRegisterFails, Settle, attachBridge,
       CloseSocket, ClosePeers
<1>3. ASSUME NEW d \in Conns, PeerList(d) \/ Answer(d) \/ ConnectionLost(d) \/ ReadMsg(d)
      PROVE  conn'[c].st = conn[c].st
  <2>1. \/ \E q : conn' = [conn EXCEPT ![d].inbox = q]
        \/ \E n, q : conn' = [conn EXCEPT ![d].asked = n, ![d].inbox = q]
        \/ conn' = [conn EXCEPT ![d].up = FALSE]
    BY <1>3 DEF PeerList, Answer, ConnectionLost, ReadMsg
  <2> QED
    BY <1>0, <2>1 DEF ConnRec
<1>4. ASSUME NEW d \in Conns, ReaderEnds(d)
      PROVE  ~conn[c].up
  <2>1. conn'[c] = [conn[c] EXCEPT !.reader = IF c = d THEN "done" ELSE @, !.st = IF c = d THEN "closed" ELSE @]
    BY <1>4 DEF ReaderEnds, Local
  <2>2. c # d => conn'[c].st = conn[c].st
    BY <1>0, <2>1 DEF ConnRec
  <2>3. c = d
    BY <2>2
  <2> QED
    BY <1>4, <2>3 DEF ReaderEnds
<1>5. CASE QuerySend
  <2>1. conn' = conn \/ conn' = [conn EXCEPT ![query.on].asked = conn[query.on].asked + 1]
    BY <1>5 DEF QuerySend
  <2> DEFINE n == conn[query.on].asked + 1
  <2>2. ASSUME conn' = [conn EXCEPT ![query.on].asked = n] PROVE conn'[c].st = conn[c].st
    <3> HIDE DEF n
    <3> QED
      BY <1>0, <2>2 DEF ConnRec
  <2> QED
    BY <1>1, <2>1, <2>2
<1>6. CASE \E o \in Objs : RunStep(o) \/ MessageLoopStep(o)
  BY <1>1, <1>6 DEF RunStep, MessageLoopStep, RunStart, RunReturns, HandlePayload, MessageLoopEnds, ctrlVars
<1>7. CASE ReceiveFrame \/ HandleFrame \/ ReceiveLoopEnds \/ RoutePacket \/ SinkSend \/ PumpEnds \/ DeviceFails
  BY <1>1, <1>7 DEF ReceiveFrame, HandleFrame, ReceiveLoopEnds, RoutePacket, SinkSend, PumpEnds, DeviceFails,
     ctrlVars
<1>8. CASE PingStep \/ QueryBegin \/ QueryDrain \/ QueryEnds \/ CtxDone
  BY <1>1, <1>8 DEF PingStep, PingBegin, PingSend, PingGivesUp, PingWaiter, PingAnswered, PingTimeout,
     QueryBegin, QueryDrain, QueryEnds, CtxDone, ctrlVars
<1>9. CASE UNCHANGED vars
  BY <1>1, <1>9 DEF vars, ctrlVars
<1> QED
  BY <1>2, <1>3, <1>4, <1>5, <1>6, <1>7, <1>8, <1>9 DEF Next, ReaderStep, QueryStep

-----------------------------------------------------------------------------
(* Control connections, peer table, loops, pings and queries stay in order, *)
(* whatever the agent's goroutines and the coordinator interleave.          *)
THEOREM Invariance == Spec => []IInv
<1>1. IInv /\ [Next]_vars => IInv'
  BY CtrlNext, TableNext, DataNext, PingNext, QueryNext, LoadNext DEF IInv
<1> QED
  BY <1>1, InitIInv, PTL DEF Spec

(* Every variable of the agent keeps its type; only the connection that     *)
(* register installed last can be open.                                     *)
THEOREM TypeCorrect == Spec => []TypeOK
<1>1. ASSUME IInv PROVE TypeOK
  <2>1. CtrlInv /\ TableInv /\ DataInv /\ PingInv /\ QueryInv
    BY <1>1 DEF IInv
  <2>2. pingOut \subseteq 1 .. ping.seq /\ pong \subseteq 1 .. ping.seq
    BY <2>1 DEF PingInv, PingRec
  <2>3. \A c \in Conns : /\ conn[c].st \in {"free", "open", "closed"}
                         /\ conn[c].up \in BOOLEAN
                         /\ conn[c].reader \in {"none", "reading", "done"}
                         /\ conn[c].st = "open" => c = ctrl
    BY <2>1 DEF CtrlInv, ConnRec
  <2>4. \A o \in Objs : /\ obj[o].run \in {"none", "new", "loop", "done"}
                        /\ obj[o].loop \in {"none", "on", "done"}
                        /\ Len(obj[o].recv) <= RecvCap
    BY <2>1 DEF TableInv, PeerRec
  <2>5. /\ pump.pc \in {"none", "read", "send", "done"} /\ pump.to \subseteq Objs
        /\ rx.pc \in {"none", "read", "handle", "done"} /\ rx.to \subseteq Objs
        /\ ping.pc \in {"idle", "wait", "sent", "waiting"}
        /\ query.pc \in {"idle", "drain", "send", "wait"} /\ queryCh \in BOOLEAN
    BY <2>1 DEF DataInv, PingInv, PingRec, QueryInv
  <2> QED
    BY <2>1, <2>2, <2>3, <2>4, <2>5 DEF TypeOK, CtrlInv, TableInv, MainPcs
<1> QED
  BY <1>1, Invariance, PTL

(* The table that applyPeers keeps and the Peer objects agree, in whatever  *)
(* order the lists of old and new connections are read.                     *)
THEOREM TrackedAreServed == Spec => []TrackedServed
<1>1. IInv => TrackedServed
  BY DEF IInv, TableInv, Named, Serving, TrackedServed
<1> QED
  BY <1>1, Invariance, PTL

(* Whether a peer was listed before or after attachBridge, it has its route *)
(* as long as it is tracked and not longer.                                 *)
THEOREM RoutesExact == Spec => []RouteExact
<1>1. IInv => RouteExact
  BY DEF IInv, TableInv
<1> QED
  BY <1>1, Invariance, PTL

(* Ping and ProbeRTT leave no waiter behind.                                *)
THEOREM WaitersGone == Spec => []NoWaiterLeft
<1>1. IInv => NoWaiterLeft
  BY DEF IInv, PingInv, NoWaiterLeft
<1> QED
  BY <1>1, Invariance, PTL

(* No frame is handed to a recv channel that Run has closed.                *)
THEOREM ClosedStaysSilent == Spec => NothingSentOnClosed
<1>1. IInv /\ [Next]_vars =>
        [\A o \in Objs : obj[o].recvClosed => Len(obj'[o].recv) <= Len(obj[o].recv)]_vars
  BY RecvStep
<1> QED
  BY <1>1, Invariance, PTL DEF Spec, NothingSentOnClosed

(* The reader of a replaced connection never closes its replacement.        *)
THEOREM ReplacementIsKept == Spec => ReplacementKept
<1>1. IInv /\ [Next]_vars =>
        [\A c \in Conns : (conn[c].st = "open" /\ conn'[c].st = "closed") => (main' # main \/ ~conn[c].up)]_vars
  BY CloseStep
<1> QED
  BY <1>1, Invariance, PTL DEF Spec, ReplacementKept
=============================================================================
