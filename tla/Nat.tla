-------------------------------- MODULE Nat --------------------------------
(***************************************************************************)
(* The NAT emulator (src/internal/nat/nat.go): the table of mappings, the  *)
(* goroutine that serves the inside door, one reader per public socket,    *)
(* the periodic cleanup, and Close.  The handlers take b.mu for their      *)
(* lookup only: a datagram is read before it and written after it, when    *)
(* the mapping may be gone and the socket closed.                          *)
(*                                                                         *)
(* Datagrams that are malformed or come from a stranger at the door change *)
(* nothing but counters and are left out.  Time is counted in ticks, up to *)
(* one beyond the TTL.                                                     *)
(***************************************************************************)
EXTENDS Integers, FiniteSets

CONSTANTS Addrs,      \* external addresses <<IP, port>>
          TTL,        \* MappingTTL in ticks; 0: mappings never expire
          MaxSockets  \* bound: ephemeral sockets the system has

ASSUME AddrsAssumption == \A a \in Addrs : a = <<a[1], a[2]>>
ASSUME TTLAssumption == TTL \in Nat
ASSUME MaxSocketsAssumption == MaxSockets \in Nat

Behaviors == {"fullcone", "restricted", "symmetric"}

Fixed == 0                      \* fixedConn
Ephemeral == 1 .. MaxSockets    \* sockets of symmetric mappings, used once each
Sockets == {Fixed} \cup Ephemeral
NoSocket == MaxSockets + 1

VARIABLES behavior,  \* cfg.Behavior
          mappings,  \* mapping key -> entry
          open,      \* public sockets that are open
          used,      \* ephemeral sockets used so far
          door,      \* where serveOutbound is
          doorOpen,
          reader,    \* where each public socket's reader is
          stage,     \* how far Close got
          silence,   \* history: ticks since the host last sent to an address
          met        \* history: IPs it sent to since it was silent for a TTL

vars == <<behavior, mappings, open, used, door, doorOpen, reader, stage, silence, met>>

IP(a) == a[1]

AnyDst == <<"any">>
Keys == Addrs \cup {AnyDst}
NoEntry == [sock |-> NoSocket, contactIP |-> {}, age |-> 0]

Idle == [at |-> "read"]
Ended == [at |-> "ended"]
NotStarted == [at |-> "none"]

\* New and Run, for a box of any behavior.
Init ==
  /\ behavior \in Behaviors
  /\ mappings = [k \in Keys |-> NoEntry]
  /\ open = IF behavior = "symmetric" THEN {} ELSE {Fixed}
  /\ used = 0
  /\ door = Idle /\ doorOpen = TRUE
  /\ reader = [s \in Sockets |-> IF s \in open THEN Idle ELSE NotStarted]
  /\ stage = "running"
  /\ silence = [a \in Addrs |-> TTL + 1] /\ met = {}

\* One mapping for all destinations, or one per destination.
keyOf(dst) == IF behavior = "symmetric" THEN dst ELSE AnyDst

Older(ticks) == IF TTL = 0 \/ ticks > TTL THEN ticks ELSE ticks + 1

lastSeenExpired(e) == TTL > 0 /\ e.age > TTL

\* Mutant: reclaiming a mapping forgets its socket.
reclaimedOpen(ks) == {}

\* The sockets that go with the mappings ks: all but the fixed one.
reclaimed(ks) == {mappings[k].sock : k \in ks} \ {Fixed}

-----------------------------------------------------------------------------
(* The inside door *)

ReadOutbound(dst) ==
  /\ door = Idle /\ doorOpen
  /\ door' = [at |-> "lookup", dst |-> dst]
  /\ UNCHANGED <<behavior, mappings, open, used, doorOpen, reader, stage, silence, met>>

\* outboundSocket finds a mapping it may use.
Lives(k) == mappings[k] # NoEntry /\ ~lastSeenExpired(mappings[k])

\* handleOutbound goes on to write to dst through socket s.
WriteThrough(s, dst) ==
  /\ door' = [at |-> "write", sock |-> s]
  /\ silence' = [silence EXCEPT ![dst] = 0]
  /\ met' = met \cup {IP(dst)}

Refresh ==
  /\ door.at = "lookup" /\ Lives(keyOf(door.dst))
  /\ LET k == keyOf(door.dst)
     IN  /\ mappings' = [mappings EXCEPT
              ![k].age = 0,
              ![k].contactIP = IF behavior = "restricted" THEN @ \cup {IP(door.dst)} ELSE @]
         /\ WriteThrough(mappings[k].sock, door.dst)
  /\ UNCHANGED <<behavior, open, used, doorOpen, reader, stage>>

\* A box that is not symmetric maps to its fixed socket, even when closed.
NewFixed ==
  /\ door.at = "lookup" /\ behavior # "symmetric" /\ ~Lives(keyOf(door.dst))
  /\ mappings' = [mappings EXCEPT ![keyOf(door.dst)] =
       [sock |-> Fixed, age |-> 0,
        contactIP |-> IF behavior = "restricted" THEN {IP(door.dst)} ELSE {}]]
  /\ WriteThrough(Fixed, door.dst)
  /\ UNCHANGED <<behavior, open, used, doorOpen, reader, stage>>

\* Mutant: a closed box still allocates sockets.
MayAllocateAlways == used < MaxSockets

\* b.closed is not set, and ListenPacket has a socket left.
MayAllocate == stage = "running" /\ used < MaxSockets

\* A symmetric box allocates a socket and starts its reader.
NewSymmetric ==
  /\ door.at = "lookup" /\ behavior = "symmetric" /\ ~Lives(door.dst)
  /\ MayAllocate
  /\ used' = used + 1
  /\ mappings' = [mappings EXCEPT ![door.dst] =
       [sock |-> used + 1, age |-> 0, contactIP |-> {IP(door.dst)}]]
  /\ open' = (open \ reclaimed({door.dst})) \cup {used + 1}
  /\ reader' = [reader EXCEPT ![used + 1] = Idle]
  /\ WriteThrough(used + 1, door.dst)
  /\ UNCHANGED <<behavior, doorOpen, stage>>

\* The box is closed, or ListenPacket fails: an expired mapping is gone already.
AllocateFails ==
  /\ door.at = "lookup" /\ behavior = "symmetric" /\ ~Lives(door.dst)
  /\ mappings' = [mappings EXCEPT ![door.dst] = NoEntry]
  /\ open' = open \ reclaimed({door.dst})
  /\ door' = Idle
  /\ UNCHANGED <<behavior, used, doorOpen, reader, stage, silence, met>>

outboundSocket == Refresh \/ NewFixed \/ NewSymmetric \/ AllocateFails

\* WriteToUDP: the datagram leaves, or the socket is closed and it is dropped.
WriteOutbound ==
  /\ door.at = "write"
  /\ door' = Idle
  /\ UNCHANGED <<behavior, mappings, open, used, doorOpen, reader, stage, silence, met>>

DoorEnds ==
  /\ door = Idle /\ ~doorOpen
  /\ door' = Ended
  /\ UNCHANGED <<behavior, mappings, open, used, doorOpen, reader, stage, silence, met>>

-----------------------------------------------------------------------------
(* The public sockets *)

ReadInbound(s, src) ==
  /\ reader[s] = Idle /\ s \in open
  /\ reader' = [reader EXCEPT ![s] = [at |-> "lookup", src |-> src]]
  /\ UNCHANGED <<behavior, mappings, open, used, door, doorOpen, stage, silence, met>>

\* Is a datagram from src on socket s admitted?
lookupInbound(s, src) ==
  IF behavior = "symmetric"
    THEN mappings[src].sock = s /\ ~lastSeenExpired(mappings[src])
    ELSE /\ Lives(AnyDst)
         /\ behavior = "restricted" => IP(src) \in mappings[AnyDst].contactIP

\* Mutant: a datagram that is let in keeps its mapping alive.
handleInboundRefreshes(s) ==
  /\ reader[s].at = "lookup"
  /\ LET ok == lookupInbound(s, reader[s].src)
         k == keyOf(reader[s].src)
     IN  /\ reader' = [reader EXCEPT ![s] = IF ok THEN [at |-> "write", src |-> @.src] ELSE Idle]
         /\ mappings' = IF ok THEN [mappings EXCEPT ![k].age = 0] ELSE mappings
  /\ UNCHANGED <<behavior, open, used, door, doorOpen, stage, silence, met>>

handleInbound(s) ==
  /\ reader[s].at = "lookup"
  /\ reader' = [reader EXCEPT ![s] =
       IF lookupInbound(s, @.src) THEN [at |-> "write", src |-> @.src] ELSE Idle]
  /\ UNCHANGED <<behavior, mappings, open, used, door, doorOpen, stage, silence, met>>

\* WriteToUDP to the private host, or a drop if the socket was closed.
Deliver(s) ==
  /\ reader[s].at = "write"
  /\ reader' = [reader EXCEPT ![s] = Idle]
  /\ UNCHANGED <<behavior, mappings, open, used, door, doorOpen, stage, silence, met>>

ReaderEnds(s) ==
  /\ reader[s] = Idle /\ s \notin open
  /\ reader' = [reader EXCEPT ![s] = Ended]
  /\ UNCHANGED <<behavior, mappings, open, used, door, doorOpen, stage, silence, met>>

-----------------------------------------------------------------------------
\* The periodic cleanup; Stats prunes in the same way, and at any time.
cleanup ==
  LET ks == {k \in Keys : mappings[k] # NoEntry /\ lastSeenExpired(mappings[k])}
  IN  /\ ks # {}
      /\ open' = open \ reclaimed(ks)
      /\ mappings' = [k \in Keys |-> IF k \in ks THEN NoEntry ELSE mappings[k]]
      /\ UNCHANGED <<behavior, used, door, doorOpen, reader, stage, silence, met>>

\* Close sets b.closed under the lock,
Close ==
  /\ stage = "running" /\ stage' = "closed"
  /\ UNCHANGED <<behavior, mappings, open, used, door, doorOpen, reader, silence, met>>

\* closes the door and the fixed socket without it,
CloseDoor ==
  /\ stage = "closed" /\ stage' = "doors"
  /\ doorOpen' = FALSE /\ open' = open \ {Fixed}
  /\ UNCHANGED <<behavior, mappings, used, door, reader, silence, met>>

\* and then, under the lock again, closes and deletes every mapping.
CloseMappings ==
  /\ stage = "doors" /\ stage' = "done"
  /\ open' = open \ {mappings[k].sock : k \in Keys}
  /\ mappings' = [k \in Keys |-> NoEntry]
  /\ UNCHANGED <<behavior, used, door, doorOpen, reader, silence, met>>

Tick ==
  /\ mappings' = [k \in Keys |->
       IF mappings[k] = NoEntry THEN NoEntry ELSE [mappings[k] EXCEPT !.age = Older(@)]]
  /\ silence' = [a \in Addrs |-> Older(silence[a])]
  /\ met' = IF \A a \in Addrs : silence'[a] > TTL THEN {} ELSE met
  /\ UNCHANGED <<behavior, open, used, door, doorOpen, reader, stage>>

DoorStep == outboundSocket \/ WriteOutbound \/ DoorEnds
ReaderStep(s) == handleInbound(s) \/ Deliver(s) \/ ReaderEnds(s)
CloseStep == CloseDoor \/ CloseMappings

Next ==
  \/ \E dst \in Addrs : ReadOutbound(dst)
  \/ DoorStep
  \/ \E s \in Sockets : ReaderStep(s) \/ \E src \in Addrs : ReadInbound(s, src)
  \/ cleanup \/ Close \/ CloseStep \/ Tick

Spec == Init /\ [][Next]_vars

(* Goroutines keep running; nothing is assumed of the datagrams they wait    *)
(* for, of the clock, or of when Close is called.                            *)
Fairness == WF_vars(DoorStep) /\ WF_vars(CloseStep) /\ \A s \in Sockets : WF_vars(ReaderStep(s))

FairSpec == Spec /\ Fairness

-----------------------------------------------------------------------------
\* In particular, the keys in use are those of the box's behavior.
TypeOK ==
  /\ behavior \in Behaviors
  /\ mappings \in [Keys -> [sock : Sockets \cup {NoSocket}, age : 0 .. TTL + 1,
                            contactIP : SUBSET {IP(a) : a \in Addrs}]]
  /\ \A k \in Keys : mappings[k] # NoEntry => (k = AnyDst <=> behavior # "symmetric")
  /\ open \subseteq Sockets
  /\ used \in 0 .. MaxSockets
  /\ door \in {Idle, Ended} \cup [at : {"lookup"}, dst : Addrs]
                            \cup [at : {"write"}, sock : Sockets]
  /\ doorOpen \in BOOLEAN
  /\ reader \in [Sockets -> {NotStarted, Idle, Ended} \cup [at : {"lookup", "write"}, src : Addrs]]
  /\ stage \in {"running", "closed", "doors", "done"}
  /\ silence \in [Addrs -> 0 .. TTL + 1]
  /\ met \subseteq {IP(a) : a \in Addrs}

\* No socket leaks: an open ephemeral socket belongs to exactly one mapping,
\* whatever expiry, re-creation, cleanup and Close did in between.
SocketOwned ==
  \A s \in open \cap Ephemeral : Cardinality({k \in Keys : mappings[k].sock = s}) = 1

\* The host sent to a within the TTL.
Recent(a) == silence[a] <= TTL

\* What the host's own traffic entitles an outside address to.
Invited(s, src) ==
  CASE behavior = "fullcone" -> \E a \in Addrs : Recent(a)
    [] behavior = "restricted" -> IP(src) \in met
    [] behavior = "symmetric" -> Recent(src) /\ mappings[src].sock = s

\* Only what the inside host sends opens and holds a mapping: an outside
\* datagram passes lookupInbound exactly if the host's traffic within the TTL
\* entitles it to; traffic from outside extends nothing, and nothing of an
\* expired mapping comes back with its successor.
FilterExact ==
  [][\A s \in Sockets :
       reader[s].at = "lookup" /\ reader'[s] # reader[s] =>
         /\ reader'[s].at = "write" => Invited(s, reader[s].src)
         /\ stage = "running" /\ Invited(s, reader[s].src) => reader'[s].at = "write"]_vars

\* After Close, Run returns: the goroutine at the door and every reader end,
\* also the reader of a socket allocated while the box was being closed.
RunReturns ==
  (stage # "running") ~> (door = Ended /\ \A s \in Sockets : reader[s].at \in {"none", "ended"})
=============================================================================
