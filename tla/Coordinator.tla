---------------------------- MODULE Coordinator ----------------------------
(***************************************************************************)
(* The control-plane server (src/internal/coordinator/coordinator.go): one *)
(* handleClient goroutine per connection, the registry they share, and the *)
(* peer_list broadcast, which is assembled under s.mu but written after    *)
(* unlocking, so that broadcasts of different handlers interleave.         *)
(*                                                                         *)
(* A connection is used once.  How concurrent WriteMsg calls share one     *)
(* connection is in ControlWrite; here a write reaches the client or fails.*)
(* Messages that are refused or ignored change nothing and are left out.   *)
(***************************************************************************)
EXTENDS Integers, FiniteSets

CONSTANTS Conns, IDs,
          KeyOf,             \* the static key each connection authenticates with
          MayRegister,       \* the IDs a connection's client registers
          MaxRegistrations,  \* maxRegistrations
          MaxMsgs            \* bound: register messages per connection

ASSUME MayRegisterAssumption == MayRegister \in [Conns -> SUBSET IDs]
ASSUME MaxRegistrationsAssumption == MaxRegistrations \in Nat
ASSUME MaxMsgsAssumption == MaxMsgs \in Nat

VARIABLES registrations,  \* ID -> registration
          clients,        \* conn -> the ID it registered last
          ctrlConns,      \* connections with a control session
          open,           \* connections whose socket is open
          pc,             \* where each handler is
          msg,            \* the register message a handler is working on
          list,           \* the peer list a handler is broadcasting
          todo,           \* the sessions its broadcast has still to write to
          msgs,           \* messages left per connection
          known,          \* client side: the IDs its agent keeps a peer for
          told            \* history: the IDs some list told the client of

vars == <<registrations, clients, ctrlConns, open, pc, msg, list, todo, msgs, known, told>>

NoReg == [key |-> "none"]
Registration(c) == [key |-> KeyOf[c], owner |-> c]
Registered == {i \in IDs : registrations[i] # NoReg}

Untracked == [tracked |-> FALSE]
Tracked == [tracked |-> TRUE, id |-> "none"]
Client(i) == [tracked |-> TRUE, id |-> i]

NoMsg == "none"

Init ==
  /\ registrations = [i \in IDs |-> NoReg]
  /\ clients = [c \in Conns |-> Untracked]
  /\ ctrlConns = {} /\ open = {}
  /\ pc = [c \in Conns |-> "start"]
  /\ msg = [c \in Conns |-> NoMsg]
  /\ list = [c \in Conns |-> {}]
  /\ todo = [c \in Conns |-> {}]
  /\ msgs = [c \in Conns |-> MaxMsgs]
  /\ known = [c \in Conns |-> {}] /\ told = [c \in Conns |-> {}]

Goto(c, l) == pc' = [pc EXCEPT ![c] = l]

-----------------------------------------------------------------------------
\* Mutant: the registration goes with any connection that registered its ID.
cleanupConnAnyOwner(c) ==
  /\ registrations' = [i \in IDs |-> IF clients[c] = Client(i) THEN NoReg ELSE registrations[i]]
  /\ clients' = [clients EXCEPT ![c] = Untracked]
  /\ ctrlConns' = ctrlConns \ {c}
  /\ open' = open \ {c}

\* Mutant: the cleanup is done once, whatever the handler did since.
cleanupConnOnce(c) ==
  /\ IF c \in open
       THEN /\ registrations' = [i \in IDs |->
                 IF clients[c] = Client(i) /\ registrations[i] # NoReg /\ registrations[i].owner = c
                   THEN NoReg ELSE registrations[i]]
            /\ clients' = [clients EXCEPT ![c] = Untracked]
       ELSE UNCHANGED <<registrations, clients>>
  /\ ctrlConns' = ctrlConns \ {c}
  /\ open' = open \ {c}

cleanupConn(c) ==
  /\ registrations' = [i \in IDs |->
       IF clients[c] = Client(i) /\ registrations[i] # NoReg /\ registrations[i].owner = c
         THEN NoReg ELSE registrations[i]]
  /\ clients' = [clients EXCEPT ![c] = Untracked]
  /\ ctrlConns' = ctrlConns \ {c}
  /\ open' = open \ {c}

\* serveControl accepts a connection; its handler tracks it.
Accept(c) ==
  /\ pc[c] = "start"
  /\ clients' = [clients EXCEPT ![c] = Tracked]
  /\ open' = open \cup {c}
  /\ Goto(c, "handshake")
  /\ UNCHANGED <<registrations, ctrlConns, msg, list, todo, msgs, known, told>>

\* control.Accept succeeded.
Handshake(c) ==
  /\ pc[c] = "handshake" /\ c \in open
  /\ ctrlConns' = ctrlConns \cup {c}
  /\ Goto(c, "read")
  /\ UNCHANGED <<registrations, clients, open, msg, list, todo, msgs, known, told>>

\* ReadMsg returns a register message that passes the checks made before the
\* lock.  Bytes that arrived before the socket was closed may still be read.
ReadRegister(c) ==
  /\ pc[c] = "read" /\ msgs[c] > 0
  /\ msgs' = [msgs EXCEPT ![c] = @ - 1]
  /\ \E i \in MayRegister[c] : msg' = [msg EXCEPT ![c] = i]
  /\ Goto(c, "register")
  /\ UNCHANGED <<registrations, clients, ctrlConns, open, list, todo, known, told>>

\* Mutant: the registry takes one more than its cap.
RefusedLate(c) ==
  LET cur == registrations[msg[c]]
  IN  IF cur = NoReg THEN Cardinality(Registered) > MaxRegistrations ELSE cur.key # KeyOf[c]

\* Key pinning and the registry cap.
Refused(c) ==
  LET cur == registrations[msg[c]]
  IN  IF cur = NoReg THEN Cardinality(Registered) >= MaxRegistrations ELSE cur.key # KeyOf[c]

Refuse(c) ==
  /\ pc[c] = "register" /\ Refused(c)
  /\ msg' = [msg EXCEPT ![c] = NoMsg]
  /\ Goto(c, "read")
  /\ UNCHANGED <<registrations, clients, ctrlConns, open, list, todo, msgs, known, told>>

\* Mutant: the list is assembled before the sender is in it.
RegisterListFirst(c) ==
  /\ pc[c] = "register" /\ ~Refused(c)
  /\ registrations' = [registrations EXCEPT ![msg[c]] = Registration(c)]
  /\ clients' = [clients EXCEPT ![c] = Client(msg[c])]
  /\ list' = [list EXCEPT ![c] = Registered]
  /\ msg' = [msg EXCEPT ![c] = NoMsg]
  /\ Goto(c, "broadcast")
  /\ UNCHANGED <<ctrlConns, open, todo, msgs, known, told>>

\* The critical section of handleClient: registration and peer list.
Register(c) ==
  /\ pc[c] = "register" /\ ~Refused(c)
  /\ registrations' = [registrations EXCEPT ![msg[c]] = Registration(c)]
  /\ clients' = [clients EXCEPT ![c] = Client(msg[c])]
  /\ list' = [list EXCEPT ![c] = Registered']
  /\ msg' = [msg EXCEPT ![c] = NoMsg]
  /\ Goto(c, "broadcast")
  /\ UNCHANGED <<ctrlConns, open, todo, msgs, known, told>>

\* broadcast collects the sessions under the lock.
Broadcast(c) ==
  /\ pc[c] = "broadcast"
  /\ todo' = [todo EXCEPT ![c] = ctrlConns]
  /\ Goto(c, "write")
  /\ UNCHANGED <<registrations, clients, ctrlConns, open, msg, list, msgs, known, told>>

\* c's broadcast writes to d, in the random order of map iteration; d's agent
\* (applyPeers) keeps a peer for every ID listed and drops all others.
Write(c, d) ==
  /\ pc[c] = "write" /\ d \in todo[c] /\ d \in open
  /\ known' = [known EXCEPT ![d] = list[c]]
  /\ told' = [told EXCEPT ![d] = @ \cup list[c]]
  /\ todo' = [todo EXCEPT ![c] = @ \ {d}]
  /\ UNCHANGED <<registrations, clients, ctrlConns, open, pc, msg, list, msgs>>

\* The write fails: d is closed, or its client stopped reading.  d is evicted.
WriteFails(c, d) ==
  /\ pc[c] = "write" /\ d \in todo[c]
  /\ todo' = [todo EXCEPT ![c] = @ \ {d}]
  /\ cleanupConn(d)
  /\ UNCHANGED <<pc, msg, list, msgs, known, told>>

BroadcastDone(c) ==
  /\ pc[c] = "write" /\ todo[c] = {}
  /\ list' = [list EXCEPT ![c] = {}]
  /\ Goto(c, "read")
  /\ UNCHANGED <<registrations, clients, ctrlConns, open, msg, todo, msgs, known, told>>

\* ReadMsg or the handshake fails (disconnect, idle timeout, eviction): the
\* deferred cleanupConn runs and the handler ends.
Leave(c) ==
  /\ pc[c] \in {"handshake", "read"}
  /\ cleanupConn(c)
  /\ Goto(c, "done")
  /\ UNCHANGED <<msg, list, todo, msgs, known, told>>

Next ==
  \E c \in Conns :
    \/ Accept(c) \/ Handshake(c) \/ ReadRegister(c) \/ Refuse(c) \/ Register(c)
    \/ Broadcast(c) \/ BroadcastDone(c) \/ Leave(c)
    \/ \E d \in Conns : Write(c, d) \/ WriteFails(c, d)

Spec == Init /\ [][Next]_vars

-----------------------------------------------------------------------------
TypeOK ==
  /\ registrations \in [IDs -> {NoReg} \cup {Registration(c) : c \in Conns}]
  /\ Cardinality(Registered) <= MaxRegistrations
  /\ clients \in [Conns -> {Untracked, Tracked} \cup {Client(i) : i \in IDs}]
  /\ ctrlConns \subseteq Conns /\ open \subseteq Conns
  /\ pc \in [Conns -> {"start", "handshake", "read", "register", "broadcast", "write", "done"}]
  /\ msg \in [Conns -> {NoMsg} \cup IDs]
  /\ list \in [Conns -> SUBSET IDs]
  /\ todo \in [Conns -> SUBSET Conns]
  /\ msgs \in [Conns -> 0 .. MaxMsgs]
  /\ known \in [Conns -> SUBSET IDs] /\ told \in [Conns -> SUBSET IDs]

\* A name stays with its key as long as it is registered, and is released only
\* by the cleanup of the connection that owns it: the late cleanup or eviction
\* of an earlier connection never takes the registration of a reconnected agent.
NameHeld ==
  [][\A i \in Registered :
       IF i \in Registered' THEN registrations'[i].key = registrations[i].key
                            ELSE registrations[i].owner \notin open']_vars

\* REVIEW R3: a registration is pruned on disconnect.  When a handler has
\* ended, none of the maps mentions its connection any more, even if another
\* handler evicted it while it was registering.
NothingLeftBehind ==
  \A c \in Conns : pc[c] = "done" =>
    /\ clients[c] = Untracked /\ c \notin ctrlConns
    /\ \A i \in Registered : registrations[i].owner # c

\* No register message is being worked on.
Settled == \A c \in Conns : pc[c] \notin {"register", "broadcast", "write"}

\* The connections that own the ID they registered and receive broadcasts.
Live == {c \in ctrlConns : \E i \in Registered : clients[c] = Client(i) /\ registrations[i].owner = c}

\* Once the broadcasts are done, any two live clients have been told of each
\* other, however registrations, evictions and broadcasts interleaved.
EveryoneTold == Settled => \A c, d \in Live : clients[d].id \in told[c]

\* ARCHITECTURE: clients "receive peer_list broadcasts containing every
\* registered peer".  Once the broadcasts are done, every live client knows
\* every live client.
EveryoneKnown == Settled => \A c, d \in Live : clients[d].id \in known[c]
=============================================================================
