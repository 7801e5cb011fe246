------------------------------- MODULE Agent -------------------------------
(***************************************************************************)
(* One agent (src/internal/agent): the goroutine that sets it up, registers*)
(* it again every 30 s and closes it; the reader of each control           *)
(* connection; the peer table that applyPeers keeps, with the two          *)
(* goroutines of every Peer object; the receive loop of the data socket;   *)
(* the TUN bridge's routes; pings and a coordinator query.                 *)
(*                                                                         *)
(* The coordinator is the environment: it sends any peer list on a         *)
(* connection that registered, answers queries, and may drop a connection  *)
(* at any time.  Sessions are established by the environment too (see      *)
(* PeerHandshake).  A Peer object is <<name, n>>, the n-th made for a name.*)
(***************************************************************************)
EXTENDS Integers, Sequences, FiniteSets

CONSTANTS IDs,       \* the names of the other agents
          Overlay,   \* ipByPeer: name -> IPv4 overlay address, or NoAddr
          RecvCap,   \* capacity of Peer.recv
          MaxConns,  \* bound: control connections
          MaxInc,    \* bound: Peer objects per name
          MaxInbox,  \* bound: unread messages per control connection
          Workloads  \* how the agent is configured, and bounds on what may happen

NoAddr == "none"

ASSUME OverlayAssumption == \A i \in IDs : Overlay[i] = NoAddr \/ \A j \in IDs \ {i} : Overlay[j] # Overlay[i]
ASSUME BoundsAssumption == {RecvCap, MaxConns, MaxInc, MaxInbox} \subseteq Nat
ASSUME WorkloadsAssumption ==
  Workloads \subseteq [daemon : BOOLEAN, tun : BOOLEAN, relay : BOOLEAN, ids : SUBSET IDs,
                       listed : SUBSET {"absent", "bare", "ep", "bad"},
                       stops : Nat, registers : Nat, lists : Nat, losses : Nat, frames : Nat,
                       packets : Nat, pings : Nat, queries : Nat]

Conns == 1 .. MaxConns
Objs == IDs \X (1 .. MaxInc)
Addrs == {Overlay[i] : i \in IDs} \ {NoAddr}
NoConn == 0

VARIABLES main,      \* where the goroutine of Run, or of a command, is
          ctxDone,   \* its context is done
          ctrl,      \* a.ctrl
          ctrlConn,  \* a.ctrlConn
          conn,      \* the control connections
          peers,     \* a.peers: the objects in it
          cancels,   \* a.peerCancel: the objects in it
          obj,       \* the Peer objects
          bridge,    \* none, open or closed
          routes,    \* Router.routes: the object at each overlay address
          pump,      \* tunBridge.run, and the object it is about to send to
          socket,    \* the data socket is open
          rx,        \* receiveLoop, and the objects it is about to hand a frame
          ping,      \* the goroutine in Ping or ProbeRTT
          pingOut,   \* a.pingOut: the sequence numbers in it
          pong,      \* sequence numbers whose waiter channel holds an answer
          replies,   \* pongs that may arrive: sequence number and session
          query,     \* the goroutine in QueryCoordinator
          queryCh,   \* a.queryCh holds an answer
          load       \* the configuration, and what is left of the workload

ctrlVars == <<main, ctxDone, ctrl, ctrlConn, conn>>
peerVars == <<peers, cancels, obj, bridge, routes>>
dataVars == <<pump, socket, rx, ping, pingOut, pong, replies>>
queryVars == <<query, queryCh>>
vars == <<ctrlVars, peerVars, dataVars, queryVars, load>>

Free == [st |-> "free", up |-> FALSE, asked |-> 0, reader |-> "none", inbox |-> <<>>]
NoPeer == [run |-> "none", loop |-> "none", closed |-> FALSE, cancelled |-> FALSE,
           recvClosed |-> FALSE, recv |-> <<>>, ep |-> FALSE, est |-> FALSE, ep0 |-> FALSE]
Idle == [pc |-> "idle", on |-> {}, seq |-> 0]

\* A peer list says of every name that it is "absent", listed "bare", listed with
\* an endpoint ("ep"), or listed with a public key that does not parse ("bad").
PeerListMsg(l) == [type |-> "peer_list", peers |-> l]
QueryResult == [type |-> "query_result"]

Init ==
  /\ main = "stun" /\ ctxDone = FALSE
  /\ ctrl = NoConn /\ ctrlConn = NoConn
  /\ conn = [c \in Conns |-> Free]
  /\ peers = {} /\ cancels = {}
  /\ obj = [o \in Objs |-> NoPeer]
  /\ bridge = "none" /\ routes = [a \in Addrs |-> {}]
  /\ pump = [pc |-> "none", to |-> {}]
  /\ socket = TRUE /\ rx = [pc |-> "none", to |-> {}]
  /\ ping = Idle /\ pingOut = {} /\ pong = {} /\ replies = {}
  /\ query = [pc |-> "idle", on |-> NoConn] /\ queryCh = FALSE
  /\ load \in Workloads

\* The workload allows one more event of this kind.
Burn(k) == load[k] > 0 /\ load' = [load EXCEPT ![k] = @ - 1]

Made(o) == obj[o].run # "none"

-----------------------------------------------------------------------------
(* Setup and registration.  setup registers once; Run's ticker does it again.*)

FirstTime == rx.pc = "none"

\* setup fails and Run or the command returns; the daemon only logs a failed
\* re-registration.
RegisterFailed == main' = IF FirstTime THEN "failed" ELSE "serve"

\* resolvePublicEndpoint: one request, answered or not within its deadline.
Stun ==
  /\ main = "stun"
  /\ main' \in {"begin", "failed"}
  /\ UNCHANGED <<ctxDone, ctrl, ctrlConn, conn, peerVars, dataVars, queryVars, load>>

\* Mutant: the old connection is left to its reader.
CloseOldNot == conn

\* register closes the old connection before it dials, holding ctrlMu.
CloseOld == IF ctrl = NoConn THEN conn ELSE [conn EXCEPT ![ctrl].st = "closed"]

RegisterBegin ==
  /\ \/ main = "begin" /\ UNCHANGED load
     \/ main = "serve" /\ load.daemon /\ Burn("registers")
  /\ main' = "dial"
  /\ conn' = CloseOld
  /\ UNCHANGED <<ctxDone, ctrl, ctrlConn, peerVars, dataVars, queryVars>>

DialFails ==
  /\ main = "dial"
  /\ RegisterFailed
  /\ UNCHANGED <<ctxDone, ctrl, ctrlConn, conn, peerVars, dataVars, queryVars, load>>

\* Connection c is the next that register dials; MaxConns bounds how many.
Fresh(c) == conn[c].st = "free" /\ \A d \in Conns : d < c => conn[d].st # "free"

Dial ==
  /\ main = "dial" /\ ~ctxDone
  /\ \E c \in Conns :
       /\ Fresh(c)
       /\ conn' = [conn EXCEPT ![c].st = "open", ![c].up = TRUE]
       /\ ctrl' = c
  /\ main' = "initiate"
  /\ UNCHANGED <<ctxDone, ctrlConn, peerVars, dataVars, queryVars, load>>

\* control.Initiate; ctrlMu is released after it.
Initiate ==
  /\ main = "initiate"
  /\ ctrlConn' = ctrl
  /\ main' = "write"
  /\ UNCHANGED <<ctxDone, ctrl, conn, peerVars, dataVars, queryVars, load>>

InitiateFails ==
  /\ main = "initiate"
  /\ conn' = CloseOld
  /\ ctrl' = NoConn
  /\ RegisterFailed
  /\ UNCHANGED <<ctxDone, ctrlConn, peerVars, dataVars, queryVars, load>>

\* The register message is written and the reader started.
WriteRegister ==
  /\ main = "write"
  /\ conn' = [conn EXCEPT ![ctrl].reader = "reading"]
  /\ main' = IF FirstTime THEN "settle" ELSE "serve"
  /\ UNCHANGED <<ctxDone, ctrl, ctrlConn, peerVars, dataVars, queryVars, load>>

\* WriteMsg fails: the connection stays installed, without a reader.
WriteRegisterFails ==
  /\ main = "write" /\ ~conn[ctrl].up
  /\ RegisterFailed
  /\ UNCHANGED <<ctxDone, ctrl, ctrlConn, conn, peerVars, dataVars, queryVars, load>>

\* setup gives the registration a moment and starts the receive loop.
Settle ==
  /\ main = "settle"
  /\ \/ main' = "bridge" /\ rx' = [rx EXCEPT !.pc = "read"]
     \/ ctxDone /\ main' = "failed" /\ UNCHANGED rx
  /\ UNCHANGED <<ctxDone, ctrl, ctrlConn, conn, peerVars, pump, socket, ping, pingOut, pong, replies,
                 queryVars, load>>

\* Mutant: peers that are known already get no route.
WiredNot == routes

\* Routes for the peers known when the bridge is attached.
Wired == [a \in Addrs |-> {o \in peers : Overlay[o[1]] = a}]

\* The daemon opens its TUN device, if it is configured, and attaches it.
attachBridge ==
  /\ main = "bridge"
  /\ \/ /\ load.tun /\ main' = "serve"
        /\ bridge' = "open" /\ routes' = Wired /\ pump' = [pump EXCEPT !.pc = "read"]
     \/ load.tun /\ main' = "failed" /\ UNCHANGED <<bridge, routes, pump>>
     \/ ~load.tun /\ main' = "serve" /\ UNCHANGED <<bridge, routes, pump>>
  /\ UNCHANGED <<ctxDone, ctrl, ctrlConn, conn, peers, cancels, obj,
                 socket, rx, ping, pingOut, pong, replies, queryVars, load>>

CtxDone ==
  /\ ~ctxDone /\ Burn("stops")
  /\ ctxDone' = TRUE
  /\ UNCHANGED <<main, ctrl, ctrlConn, conn, peerVars, dataVars, queryVars>>

\* Run closes the agent when its context is done, a command when it has pinged,
\* probed and queried for as long as it cares to.
Through == ctxDone \/ ~load.daemon

CloseSocket ==
  /\ main = "serve" /\ Through
  /\ socket' = FALSE
  /\ main' = "closeCtrl"
  /\ UNCHANGED <<ctxDone, ctrl, ctrlConn, conn, peerVars, pump, rx, ping, pingOut, pong, replies, queryVars, load>>

CloseCtrl ==
  /\ main = "closeCtrl"
  /\ conn' = CloseOld
  /\ bridge' = IF bridge = "open" THEN "closed" ELSE bridge
  /\ main' = "closePeers"
  /\ UNCHANGED <<ctxDone, ctrl, ctrlConn, peers, cancels, obj, routes, dataVars, queryVars, load>>

\* The last part of Close cancels and closes the peers, which stay in a.peers.
ClosePeers ==
  /\ main = "closePeers"
  /\ obj' = [o \in Objs |-> [obj[o] EXCEPT !.cancelled = @ \/ o \in cancels,
                                           !.closed = @ \/ o \in peers]]
  /\ cancels' = {}
  /\ main' = "closed"
  /\ UNCHANGED <<ctxDone, ctrl, ctrlConn, conn, peers, bridge, routes, dataVars, queryVars, load>>

-----------------------------------------------------------------------------
(* The coordinator.                                                          *)

Sendable(c) == conn[c].st = "open" /\ conn[c].up /\ Len(conn[c].inbox) < MaxInbox

\* A broadcast reaches a connection as soon as its handshake is done.
PeerList(c) ==
  /\ Sendable(c) /\ c = ctrlConn /\ Burn("lists")
  /\ \E l \in [IDs -> load.listed] :
       /\ \A i \in IDs \ load.ids : l[i] = "absent"
       /\ conn' = [conn EXCEPT ![c].inbox = Append(@, PeerListMsg(l))]
  /\ UNCHANGED <<main, ctxDone, ctrl, ctrlConn, peerVars, dataVars, queryVars>>

Answer(c) ==
  /\ Sendable(c) /\ conn[c].asked > 0
  /\ conn' = [conn EXCEPT ![c].asked = @ - 1, ![c].inbox = Append(@, QueryResult)]
  /\ UNCHANGED <<main, ctxDone, ctrl, ctrlConn, peerVars, dataVars, queryVars, load>>

\* The coordinator evicts the agent, stops, or cannot be reached any more.
ConnectionLost(c) ==
  /\ conn[c].up /\ Burn("losses")
  /\ conn' = [conn EXCEPT ![c].up = FALSE]
  /\ UNCHANGED <<main, ctxDone, ctrl, ctrlConn, peerVars, dataVars, queryVars>>

-----------------------------------------------------------------------------
(* ctrlReaderLoop and applyPeers.                                            *)

\* The object made for a name that is not tracked.
New(i) == <<i, 1 + Cardinality({o \in Objs : o[1] = i /\ Made(o)})>>

\* The tracked peers that the list does not mention.
Dropped(l) == {o \in peers : l[o[1]] = "absent"}

\* A name that is not tracked gets an object, unless its key does not parse; a
\* tracked one is kept before its key is looked at.
Added(l) == {New(i) : i \in {j \in IDs : l[j] \in {"bare", "ep"} /\ \A o \in peers : o[1] # j}}

\* Mutant: a dropped peer is forgotten, its goroutines are not told.
ShutForget(o) == obj[o]

\* The dropped peer's context is cancelled and the peer closed.
Shut(o) == [obj[o] EXCEPT !.cancelled = @ \/ o \in cancels, !.closed = TRUE]

\* The whole of applyPeers, under a.mu.  MaxInc bounds the objects it makes.
applyPeers(l) ==
  /\ Added(l) \subseteq Objs
  /\ peers' = (peers \ Dropped(l)) \cup Added(l)
  /\ cancels' = (cancels \ Dropped(l)) \cup Added(l)
  /\ obj' = [o \in Objs |->
       CASE o \in Added(l)   -> [NoPeer EXCEPT !.run = "new", !.loop = "on", !.ep = (l[o[1]] = "ep")]
         [] o \in Dropped(l) -> Shut(o)
         [] o \in peers \ Dropped(l) /\ l[o[1]] = "ep" -> [obj[o] EXCEPT !.ep = TRUE]
         [] OTHER -> obj[o]]
  /\ routes' = IF bridge = "none" THEN routes
               ELSE [a \in Addrs |-> LET sinks == {o \in Added(l) : Overlay[o[1]] = a}
                                     IN  IF sinks # {} THEN sinks ELSE routes[a] \ Dropped(l)]
  /\ UNCHANGED bridge

\* Mutant: the reader waits until somebody takes the answer.
OfferBlocking == ~queryCh /\ queryCh' = TRUE

\* The answer goes to queryCh, or nowhere if one is waiting there.
Offer == queryCh' = TRUE

\* A message was received; what is buffered is read even after a Close.
ReadMsg(c) ==
  /\ conn[c].reader = "reading" /\ conn[c].inbox # <<>>
  /\ conn' = [conn EXCEPT ![c].inbox = Tail(@)]
  /\ LET m == Head(conn[c].inbox)
     IN  \/ m.type = "query_result" /\ Offer /\ UNCHANGED peerVars
         \/ m.type = "peer_list" /\ applyPeers(m.peers) /\ UNCHANGED queryCh
  /\ UNCHANGED <<main, ctxDone, ctrl, ctrlConn, dataVars, query, load>>

\* Mutant: the reader closes a.ctrl, whichever connection that is by now.
LocalShared(c) == ctrl

\* The connection that the reader's deferred Close is for.
Local(c) == c

ReaderEnds(c) ==
  /\ conn[c].reader = "reading" /\ (conn[c].st = "closed" \/ ~conn[c].up)
  /\ conn' = [d \in Conns |-> [conn[d] EXCEPT !.reader = IF d = c THEN "done" ELSE @,
                                              !.st = IF d = Local(c) THEN "closed" ELSE @]]
  /\ UNCHANGED <<main, ctxDone, ctrl, ctrlConn, peerVars, dataVars, queryVars, load>>

-----------------------------------------------------------------------------
(* The goroutines of a Peer object: Run and peerMessageLoop.                 *)

\* Mutant: Run returns and leaves recv open.
ReturnedOpen(o) == [obj[o] EXCEPT !.run = "done", !.cancelled = TRUE]

\* Run returns: its deferred function closes recv, then its context is cancelled.
Returned(o) == [obj[o] EXCEPT !.run = "done", !.recvClosed = TRUE, !.cancelled = TRUE]

\* Mutant: Run gives up without a relay, whatever endpoint it was given.
HasPathRelay(o) == load.relay

HasPath(o) == obj[o].ep \/ load.relay

\* Without an endpoint and a relay there is nothing to do, for good.  ep0 is
\* history: whether Run found an endpoint.
RunStart(o) ==
  /\ obj[o].run = "new"
  /\ obj' = [obj EXCEPT ![o] = [(IF HasPath(o) THEN [@ EXCEPT !.run = "loop"] ELSE Returned(o))
                                 EXCEPT !.ep0 = obj[o].ep]]
  /\ UNCHANGED <<ctrlVars, peers, cancels, bridge, routes, dataVars, queryVars, load>>

RunReturns(o) ==
  /\ obj[o].run = "loop" /\ (obj[o].closed \/ obj[o].cancelled \/ ctxDone)
  /\ obj' = [obj EXCEPT ![o] = Returned(o)]
  /\ UNCHANGED <<ctrlVars, peers, cancels, bridge, routes, dataVars, queryVars, load>>

\* handlePeerPayload: a pong goes to its waiter, if there is one (dispatchPing);
\* pings are answered and packets written to the device.
HandlePayload(o) ==
  /\ obj[o].loop = "on" /\ obj[o].recv # <<>>
  /\ LET s == Head(obj[o].recv)
     IN  pong' = pong \cup ({s} \cap pingOut) /\ pingOut' = pingOut \ {s}
  /\ obj' = [obj EXCEPT ![o].recv = Tail(@)]
  /\ UNCHANGED <<ctrlVars, peers, cancels, bridge, routes, pump, socket, rx, ping, replies, queryVars, load>>

MessageLoopEnds(o) ==
  /\ obj[o].loop = "on" /\ obj[o].recv = <<>> /\ obj[o].recvClosed
  /\ obj' = [obj EXCEPT ![o].loop = "done"]
  /\ UNCHANGED <<ctrlVars, peers, cancels, bridge, routes, dataVars, queryVars, load>>

-----------------------------------------------------------------------------
(* receiveLoop and HandleFrame.                                              *)

\* A datagram is matched to a tracked peer under a.mu, which is then released.
ReceiveFrame ==
  /\ rx.pc = "read" /\ socket /\ Burn("frames")
  /\ \E o \in peers : (obj[o].ep \/ load.relay) /\ rx' = [pc |-> "handle", to |-> {o}]
  /\ UNCHANGED <<ctrlVars, peerVars, pump, socket, ping, pingOut, pong, replies, queryVars>>

\* Mutant: onData does not ask whether the peer is closed.
onDataAlways(o, s) ==
  obj' = IF obj[o].est /\ Len(obj[o].recv) < RecvCap
           THEN [obj EXCEPT ![o].recv = Append(@, s)] ELSE obj

\* onData hands a payload to recv, unless the peer is closed or recv full.
onData(o, s) ==
  obj' = IF /\ ~obj[o].closed /\ ~obj[o].recvClosed /\ obj[o].est
            /\ Len(obj[o].recv) < RecvCap
           THEN [obj EXCEPT ![o].recv = Append(@, s)] ELSE obj

\* The frame completes a handshake, is a pong of this session, carries another
\* payload (0), or has no effect.
HandleFrame ==
  /\ rx.pc = "handle" /\ rx' = [pc |-> "read", to |-> {}]
  /\ \E o \in rx.to :
       \/ obj' = [obj EXCEPT ![o].est = TRUE] /\ UNCHANGED replies
       \/ \E r \in replies : r[2] = o /\ onData(o, r[1]) /\ replies' = replies \ {r}
       \/ onData(o, 0) /\ UNCHANGED replies
       \/ UNCHANGED <<obj, replies>>
  /\ UNCHANGED <<ctrlVars, peers, cancels, bridge, routes, pump, socket, ping, pingOut, pong, queryVars, load>>

\* With the socket closed the loop spins until the context is done.
ReceiveLoopEnds ==
  /\ rx.pc = "read" /\ ~socket /\ ctxDone
  /\ rx' = [rx EXCEPT !.pc = "done"]
  /\ UNCHANGED <<ctrlVars, peerVars, pump, socket, ping, pingOut, pong, replies, queryVars, load>>

-----------------------------------------------------------------------------
(* The TUN bridge: packets from the device into the peer sessions.           *)

\* RoutePacket looks the destination up under the router's lock.  A malformed
\* or unroutable packet is counted and dropped.
RoutePacket ==
  /\ pump.pc = "read" /\ bridge = "open" /\ Burn("packets")
  /\ \E a \in Addrs : routes[a] # {} /\ pump' = [pc |-> "send", to |-> routes[a]]
  /\ UNCHANGED <<ctrlVars, peerVars, socket, rx, ping, pingOut, pong, replies, queryVars>>

\* The packet is sent outside the lock, by a peer that may have been dropped
\* since; DataPath has what Send does with it.
SinkSend ==
  /\ pump.pc = "send"
  /\ pump' = [pc |-> "read", to |-> {}]
  /\ UNCHANGED <<ctrlVars, peerVars, socket, rx, ping, pingOut, pong, replies, queryVars, load>>

\* The device is closed: the read fails, and run returns.
PumpEnds ==
  /\ pump.pc = "read" /\ bridge = "closed"
  /\ pump' = [pump EXCEPT !.pc = "done"]
  /\ UNCHANGED <<ctrlVars, peerVars, socket, rx, ping, pingOut, pong, replies, queryVars, load>>

\* The device fails: run closes it and returns; the routes stay.
DeviceFails ==
  /\ pump.pc = "read" /\ bridge = "open" /\ Burn("losses")
  /\ pump' = [pump EXCEPT !.pc = "done"]
  /\ UNCHANGED <<ctrlVars, peerVars, socket, rx, ping, pingOut, pong, replies, queryVars>>

-----------------------------------------------------------------------------
(* Ping and ProbeRTT.                                                        *)

PingBegin ==
  /\ ping.pc = "idle" /\ main = "serve" /\ Burn("pings")
  /\ \E o \in peers : ping' = [ping EXCEPT !.pc = "wait", !.on = {o}]
  /\ UNCHANGED <<ctrlVars, peerVars, pump, socket, rx, pingOut, pong, replies, queryVars>>

\* The session is there and the ping is sent; Ping goes on if that failed,
\* ProbeRTT does not.  The waiter is not registered yet.
PingSend ==
  /\ ping.pc = "wait"
  /\ \E o \in ping.on :
       /\ obj[o].est
       /\ \/ replies' = replies \cup {<<ping.seq + 1, o>>}
             /\ ping' = [ping EXCEPT !.pc = "sent", !.seq = @ + 1]
          \/ \E pc \in {"sent", "idle"} : ping' = [ping EXCEPT !.pc = pc, !.seq = @ + 1]
             /\ UNCHANGED replies
  /\ UNCHANGED <<ctrlVars, peerVars, pump, socket, rx, pingOut, pong, queryVars, load>>

\* WaitEstablished returns an error: the peer was closed, or time is up.
PingGivesUp ==
  /\ ping.pc = "wait"
  /\ ping' = [ping EXCEPT !.pc = "idle", !.on = {}]
  /\ UNCHANGED <<ctrlVars, peerVars, pump, socket, rx, pingOut, pong, replies, queryVars, load>>

PingWaiter ==
  /\ ping.pc = "sent"
  /\ pingOut' = pingOut \cup {ping.seq}
  /\ ping' = [ping EXCEPT !.pc = "waiting"]
  /\ UNCHANGED <<ctrlVars, peerVars, pump, socket, rx, pong, replies, queryVars, load>>

PingAnswered ==
  /\ ping.pc = "waiting" /\ ping.seq \in pong
  /\ pong' = pong \ {ping.seq}
  /\ ping' = [ping EXCEPT !.pc = "idle", !.on = {}]
  /\ UNCHANGED <<ctrlVars, peerVars, pump, socket, rx, pingOut, replies, queryVars, load>>

\* Mutant: a lost ping keeps its waiter.
dropPingNot(seq) == pingOut

dropPing(seq) == pingOut \ {seq}

PingTimeout ==
  /\ ping.pc = "waiting"
  /\ pingOut' = dropPing(ping.seq) /\ pong' = pong \ {ping.seq}
  /\ ping' = [ping EXCEPT !.pc = "idle", !.on = {}]
  /\ UNCHANGED <<ctrlVars, peerVars, pump, socket, rx, replies, queryVars, load>>

-----------------------------------------------------------------------------
(* QueryCoordinator.                                                         *)

\* It takes the connection under ctrlMu, which register holds while it dials.
QueryBegin ==
  /\ query.pc = "idle" /\ ~FirstTime /\ main \notin {"dial", "initiate"} /\ Burn("queries")
  /\ query' = [pc |-> "drain", on |-> ctrlConn]
  /\ UNCHANGED <<ctrlVars, peerVars, dataVars, queryCh>>

QueryDrain ==
  /\ query.pc = "drain"
  /\ queryCh' = FALSE /\ query' = [query EXCEPT !.pc = "send"]
  /\ UNCHANGED <<ctrlVars, peerVars, dataVars, load>>

QuerySend ==
  /\ query.pc = "send"
  /\ \/ /\ conn[query.on].st = "open"
        /\ conn' = [conn EXCEPT ![query.on].asked = @ + 1]
        /\ query' = [query EXCEPT !.pc = "wait"]
     \/ /\ conn[query.on].st = "closed" \/ ~conn[query.on].up
        /\ query' = [query EXCEPT !.pc = "idle"]
        /\ UNCHANGED conn
  /\ UNCHANGED <<main, ctxDone, ctrl, ctrlConn, peerVars, dataVars, queryCh, load>>

QueryEnds ==
  /\ query.pc = "wait"
  /\ queryCh' \in {queryCh, FALSE}   \* the context is done, or an answer is there
  /\ query' = [query EXCEPT !.pc = "idle"]
  /\ UNCHANGED <<ctrlVars, peerVars, dataVars, load>>

-----------------------------------------------------------------------------
MainStep ==
  \/ Stun \/ RegisterBegin \/ DialFails \/ Dial \/ Initiate \/ InitiateFails
  \/ WriteRegister \/ WriteRegisterFails \/ Settle \/ attachBridge
  \/ CloseSocket \/ CloseCtrl \/ ClosePeers

ReaderStep(c) == ReadMsg(c) \/ ReaderEnds(c)
RunStep(o) == RunStart(o) \/ RunReturns(o)
MessageLoopStep(o) == HandlePayload(o) \/ MessageLoopEnds(o)
PingStep == PingBegin \/ PingSend \/ PingGivesUp \/ PingWaiter \/ PingAnswered \/ PingTimeout
QueryStep == QueryBegin \/ QueryDrain \/ QuerySend \/ QueryEnds

Next ==
  \/ MainStep \/ CtxDone
  \/ \E c \in Conns : PeerList(c) \/ Answer(c) \/ ConnectionLost(c) \/ ReaderStep(c)
  \/ \E o \in Objs : RunStep(o) \/ MessageLoopStep(o)
  \/ ReceiveFrame \/ HandleFrame \/ ReceiveLoopEnds
  \/ RoutePacket \/ SinkSend \/ PumpEnds \/ DeviceFails
  \/ PingStep \/ QueryStep

Spec == Init /\ [][Next]_vars

(* Goroutines that can run do run.  Nothing is assumed of the coordinator,   *)
(* the network, the context, or whether anybody pings or queries.            *)
Fairness ==
  /\ WF_vars(MainStep)
  /\ \A c \in Conns : WF_vars(ReaderStep(c))
  /\ \A o \in Objs : WF_vars(RunStep(o)) /\ WF_vars(MessageLoopStep(o))
  /\ WF_vars(HandleFrame \/ ReceiveLoopEnds) /\ WF_vars(SinkSend \/ PumpEnds)

FairSpec == Spec /\ Fairness

-----------------------------------------------------------------------------
TypeOK ==
  /\ main \in {"stun", "begin", "dial", "initiate", "write", "settle", "bridge", "serve",
               "closeCtrl", "closePeers", "closed", "failed"}
  /\ ctxDone \in BOOLEAN
  /\ ctrl \in {NoConn} \cup Conns /\ ctrlConn \in {NoConn} \cup Conns
  /\ \A c \in Conns : /\ conn[c].st \in {"free", "open", "closed"}
                      /\ conn[c].up \in BOOLEAN
                      /\ conn[c].reader \in {"none", "reading", "done"}
                      /\ conn[c].st = "open" => c = ctrl
  /\ peers \subseteq Objs /\ cancels \subseteq peers
  /\ \A o \in Objs : /\ obj[o].run \in {"none", "new", "loop", "done"}
                     /\ obj[o].loop \in {"none", "on", "done"}
                     /\ Len(obj[o].recv) <= RecvCap
  /\ bridge \in {"none", "open", "closed"}
  /\ routes \in [Addrs -> SUBSET Objs]
  /\ pump.pc \in {"none", "read", "send", "done"} /\ pump.to \subseteq Objs
  /\ rx.pc \in {"none", "read", "handle", "done"} /\ rx.to \subseteq Objs
  /\ ping.pc \in {"idle", "wait", "sent", "waiting"}
  /\ pingOut \subseteq 1 .. ping.seq /\ pong \subseteq 1 .. ping.seq
  /\ query.pc \in {"idle", "drain", "send", "wait"} /\ queryCh \in BOOLEAN

\* REVIEW R5: a connection that works is closed only by the re-registration
\* that replaces it or by Close.  The reader of an earlier connection, which
\* ends some time after the replacement, never takes the new one with it.
ReplacementKept ==
  [][\A c \in Conns : (conn[c].st = "open" /\ conn'[c].st = "closed") => (main' # main \/ ~conn[c].up)]_vars

\* The peer table and the Peer objects agree, in whatever order the lists of
\* old and new connections are applied: a name has at most one object in the
\* table, every object that is not in it has been closed, and none that is in
\* it is closed or has stopped, unless its Run found neither an endpoint nor a
\* relay when it started.
TrackedServed ==
  (~ctxDone /\ main # "closed") =>
    /\ \A o, p \in peers : o[1] = p[1] => o = p
    /\ \A o \in Objs \ peers : Made(o) => obj[o].closed
    /\ \A o \in peers : ~obj[o].closed /\ (obj[o].run = "done" => ~obj[o].ep0 /\ ~load.relay)

\* attachBridge: "a peer_list that arrived before the device was opened is not
\* lost".  Every tracked peer with an overlay address has its route, and no
\* route leads to an object that is no longer tracked.
RouteExact ==
  bridge # "none" => \A a \in Addrs : routes[a] = {o \in peers : Overlay[o[1]] = a}

\* Nothing is sent on a closed recv channel, which would panic, although the
\* receive loop hands frames to a peer that may have been dropped meanwhile.
NothingSentOnClosed ==
  [][\A o \in Objs : obj[o].recvClosed => Len(obj'[o].recv) <= Len(obj[o].recv)]_vars

\* dropPing: a ping that timed out, was cancelled, or whose pong came before
\* its waiter leaves nothing in pingOut.
NoWaiterLeft == ping.pc # "waiting" => pingOut = {}

Ended(o) == obj[o].run = "done" /\ obj[o].loop = "done"

\* Both goroutines of a closed peer end; and once the agent is closed and its
\* context is done, no goroutine and no connection of it is left, not even one
\* of a peer that a late list added after Close.
GoroutinesEnd ==
  /\ \A o \in Objs : obj[o].closed ~> Ended(o)
  /\ (main = "closed" /\ ctxDone) ~>
       /\ rx.pc = "done" /\ pump.pc \in {"none", "done"}
       /\ \A o \in Objs : Made(o) => Ended(o)
       /\ \A c \in Conns : conn[c].st # "open" /\ conn[c].reader # "reading"

\* "Drop rather than block the control loop": the reader gets through
\* everything it received, although nobody may be waiting for an answer.
ControlLoopRuns ==
  \A c \in Conns : (conn[c].reader = "reading" /\ conn[c].inbox # <<>>) ~>
                     (conn[c].inbox = <<>> \/ conn[c].reader = "done")
=============================================================================
