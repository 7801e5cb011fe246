----------------------------- MODULE Nat_proofs -----------------------------
(***************************************************************************)
(* Proofs about the NAT emulator, for any outside addresses, any TTL and   *)
(* any number of sockets.                                                  *)
(***************************************************************************)
EXTENDS Nat, FiniteSetTheorems, TLAPS

Entry == [sock : Sockets \cup {NoSocket}, age : 0 .. TTL + 1,
          contactIP : SUBSET {IP(a) : a \in Addrs}]

(* A symmetric box maps to ephemeral sockets it has allocated, any other    *)
(* box to its fixed socket; without a TTL no mapping grows old.             *)
EntryInv ==
  \A k \in Keys : mappings[k] # NoEntry =>
    /\ mappings[k].sock \in Sockets
    /\ mappings[k].sock = Fixed <=> behavior # "symmetric"
    /\ mappings[k].sock <= used
    /\ TTL = 0 => mappings[k].age = 0

(* Every open ephemeral socket has a mapping, and no two mappings share one.*)
OwnedInv ==
  /\ \A s \in open \cap Ephemeral : \E k \in Keys : mappings[k].sock = s
  /\ \A k, l \in Keys : mappings[k].sock \in Ephemeral /\ mappings[k].sock = mappings[l].sock => k = l

(* A socket that was not allocated yet has no reader.                       *)
UnusedInv == \A s \in Ephemeral : s > used => reader[s] = NotStarted

(* A mapping is as old as the host's last datagram through it.              *)
AgeInv ==
  IF behavior = "symmetric"
    THEN \A a \in Addrs : mappings[a] # NoEntry => mappings[a].age = silence[a]
    ELSE IF mappings[AnyDst] # NoEntry
      THEN /\ \A a \in Addrs : mappings[AnyDst].age <= silence[a]
           /\ \E a \in Addrs : mappings[AnyDst].age = silence[a]
      ELSE stage # "done" => \A a \in Addrs : silence[a] > TTL

(* The contacts of a restricted mapping are the hosts met since the last    *)
(* time nothing was sent for a TTL; Close may forget some of them.          *)
MetInv ==
  behavior = "restricted" =>
    /\ Lives(AnyDst) => mappings[AnyDst].contactIP \subseteq met
    /\ stage # "done" => met = IF Lives(AnyDst) THEN mappings[AnyDst].contactIP ELSE {}

IInv == TypeOK /\ EntryInv /\ OwnedInv /\ UnusedInv /\ AgeInv /\ MetInv

-----------------------------------------------------------------------------
LEMMA KeyFacts == AnyDst \notin Addrs /\ AnyDst \in Keys /\ Addrs \subseteq Keys
<1>1. AnyDst \notin Addrs
  <2> SUFFICES ASSUME AnyDst \in Addrs PROVE FALSE
    OBVIOUS
  <2>1. AnyDst = <<AnyDst[1], AnyDst[2]>>
    BY AddrsAssumption
  <2>2. DOMAIN AnyDst = 1 .. 1 /\ DOMAIN <<AnyDst[1], AnyDst[2]>> = 1 .. 2
    BY DEF AnyDst
  <2> QED
    BY <2>1, <2>2, SMT
<1> QED
  BY <1>1 DEF Keys

LEMMA NoEntryFacts ==
  /\ NoEntry.sock = NoSocket /\ NoEntry.age = 0 /\ NoEntry.contactIP = {}
  /\ NoEntry \in Entry
  /\ NoSocket \notin Sockets /\ NoSocket \notin Ephemeral
  /\ Fixed \in Sockets /\ Fixed \notin Ephemeral /\ Ephemeral \subseteq Sockets
  /\ \A s \in Sockets : s # Fixed => s \in Ephemeral
  BY MaxSocketsAssumption, TTLAssumption DEF NoEntry, NoSocket, Sockets, Ephemeral, Fixed, Entry

(* The type of every variable, with the entries by their name.              *)
LEMMA Types ==
  ASSUME TypeOK
  PROVE  /\ behavior \in Behaviors
         /\ mappings \in [Keys -> Entry]
         /\ \A k \in Keys : mappings[k] # NoEntry => (k = AnyDst <=> behavior # "symmetric")
         /\ open \subseteq Sockets /\ used \in 0 .. MaxSockets
         /\ reader \in [Sockets -> {NotStarted, Idle, Ended} \cup [at : {"lookup", "write"}, src : Addrs]]
         /\ silence \in [Addrs -> 0 .. TTL + 1]
  BY DEF TypeOK, Entry

LEMMA EntryType ==
  ASSUME NEW s \in Sockets, NEW n \in 0 .. TTL + 1, NEW c \in SUBSET {IP(a) : a \in Addrs}
  PROVE  /\ [sock |-> s, age |-> n, contactIP |-> c] \in Entry
         /\ [sock |-> s, age |-> n, contactIP |-> c] # NoEntry
<1>1. [sock |-> s, age |-> n, contactIP |-> c] \in Entry
  BY DEF Entry
<1>2. [sock |-> s, age |-> n, contactIP |-> c].sock = s
  OBVIOUS
<1> QED
  BY <1>1, <1>2, NoEntryFacts

LEMMA DoorLookup ==
  ASSUME TypeOK, door.at = "lookup"
  PROVE  door.dst \in Addrs /\ keyOf(door.dst) \in Keys
<1>1. door.dst \in Addrs
  BY DEF TypeOK, Idle, Ended
<1> QED
  BY <1>1, KeyFacts DEF keyOf

LEMMA OlderFacts ==
  ASSUME NEW n \in 0 .. TTL + 1
  PROVE  /\ Older(n) \in 0 .. TTL + 1 /\ n <= Older(n)
         /\ \A m \in 0 .. TTL + 1 : n <= m => Older(n) <= Older(m)
         /\ n > TTL => Older(n) > TTL
  BY TTLAssumption DEF Older

(* A mapping lives as long as its age is within the TTL.                    *)
LEMMA LivesByAge ==
  ASSUME TypeOK, EntryInv, NEW k \in Keys
  PROVE  /\ Lives(k) <=> mappings[k] # NoEntry /\ mappings[k].age <= TTL
         /\ mappings[k] # NoEntry => (lastSeenExpired(mappings[k]) <=> mappings[k].age > TTL)
<1>1. mappings[k].age \in 0 .. TTL + 1
  BY Types DEF Entry
<1> QED
  BY <1>1, TTLAssumption DEF Lives, lastSeenExpired, EntryInv

LEMMA InitIInv == Init => IInv
<1> SUFFICES ASSUME Init PROVE IInv
  OBVIOUS
<1>1. mappings = [k \in Keys |-> NoEntry] /\ silence = [a \in Addrs |-> TTL + 1]
  BY DEF Init
<1>2. TypeOK
  BY <1>1, NoEntryFacts, MaxSocketsAssumption, TTLAssumption DEF Init, TypeOK, Behaviors, Entry
<1>3. OwnedInv
  BY <1>1, NoEntryFacts DEF Init, OwnedInv
<1>4. UnusedInv
  BY NoEntryFacts DEF Init, UnusedInv
<1>5. AgeInv /\ MetInv
  BY <1>1, KeyFacts, TTLAssumption DEF Init, AgeInv, MetInv, Lives
<1> QED
  BY <1>1, <1>2, <1>3, <1>4, <1>5 DEF IInv, EntryInv

(* Steps that leave the mappings, their sockets and the histories alone.    *)
LEMMA QuietIInv ==
  ASSUME IInv, TypeOK', UNCHANGED <<behavior, mappings, used, silence, met>>,
         open' \cap Ephemeral = open \cap Ephemeral,
         stage = "done" => stage' = "done",
         \A s \in Ephemeral : reader[s] = NotStarted => reader'[s] = NotStarted
  PROVE  IInv'
<1>1. EntryInv' /\ UnusedInv' /\ OwnedInv'
  BY DEF IInv, EntryInv, UnusedInv, OwnedInv
<1>2. AgeInv' /\ MetInv'
  <2>1. \A k : Lives(k)' <=> Lives(k)
    BY DEF Lives, lastSeenExpired
  <2> QED
    BY <2>1 DEF IInv, AgeInv, MetInv
<1> QED
  BY <1>1, <1>2 DEF IInv

LEMMA DoorQuiet ==
  ASSUME IInv, (\E dst \in Addrs : ReadOutbound(dst)) \/ WriteOutbound \/ DoorEnds
  PROVE  IInv'
<1>1. TypeOK'
  BY DEF IInv, TypeOK, ReadOutbound, WriteOutbound, DoorEnds
<1> QED
  BY <1>1, QuietIInv DEF ReadOutbound, WriteOutbound, DoorEnds

LEMMA ReaderQuiet ==
  ASSUME IInv, NEW s \in Sockets, ReaderStep(s) \/ \E src \in Addrs : ReadInbound(s, src)
  PROVE  IInv' /\ UNCHANGED <<behavior, mappings, used, silence, met>>
<1> DEFINE R == {NotStarted, Idle, Ended} \cup [at : {"lookup", "write"}, src : Addrs]
<1>0. /\ Idle \in R /\ Ended \in R /\ Idle # NotStarted
      /\ \A src \in Addrs : [at |-> "lookup", src |-> src] \in R /\ [at |-> "write", src |-> src] \in R
      /\ reader \in [Sockets -> R]
      /\ \A r \in R : r.at \in {"lookup", "write"} => r.src \in Addrs /\ r # NotStarted
  BY DEF Idle, Ended, NotStarted, IInv, TypeOK
<1> HIDE DEF R
<1>1. /\ UNCHANGED <<behavior, mappings, open, used, door, doorOpen, stage, silence, met>>
      /\ \E r \in R : reader' = [reader EXCEPT ![s] = r]
      /\ reader[s] # NotStarted
  <2>1. CASE \E src \in Addrs : ReadInbound(s, src)
    <3>1. PICK src \in Addrs : ReadInbound(s, src)
      BY <2>1
    <3> QED
      BY <1>0, <3>1 DEF ReadInbound
  <2>2. CASE handleInbound(s)
    <3>1. reader[s].src \in Addrs /\ reader[s] # NotStarted
      BY <1>0, <2>2 DEF handleInbound
    <3>2. \/ reader' = [reader EXCEPT ![s] = [at |-> "write", src |-> reader[s].src]]
          \/ reader' = [reader EXCEPT ![s] = Idle]
      BY <1>0, <2>2 DEF handleInbound
    <3> QED
      BY <1>0, <2>2, <3>1, <3>2 DEF handleInbound
  <2>3. CASE Deliver(s)
    BY <1>0, <2>3 DEF Deliver
  <2>4. CASE ReaderEnds(s)
    BY <1>0, <2>4 DEF ReaderEnds
  <2> QED
    BY <2>1, <2>2, <2>3, <2>4 DEF ReaderStep
<1>2. reader' \in [Sockets -> R]
  BY <1>0, <1>1
<1>3. TypeOK'
  BY <1>1, <1>2 DEF IInv, TypeOK, R
<1>4. \A t \in Ephemeral : reader[t] = NotStarted => reader'[t] = NotStarted
  BY <1>1, NoEntryFacts DEF IInv, TypeOK
<1> QED
  BY <1>1, <1>3, <1>4, QuietIInv

LEMMA CloseQuiet ==
  ASSUME IInv, Close \/ CloseDoor
  PROVE  IInv'
<1>1. TypeOK'
  BY DEF IInv, TypeOK, Close, CloseDoor
<1>2. open' \cap Ephemeral = open \cap Ephemeral
  BY NoEntryFacts DEF Close, CloseDoor
<1> QED
  BY <1>1, <1>2, QuietIInv DEF Close, CloseDoor

-----------------------------------------------------------------------------
(* A datagram to dst renews its mapping, or makes one.                      *)
LEMMA MappedAge ==
  ASSUME TypeOK, AgeInv, NEW dst \in Addrs, NEW e \in Entry, e # NoEntry, e.age = 0,
         mappings' = [mappings EXCEPT ![keyOf(dst)] = e],
         silence' = [silence EXCEPT ![dst] = 0], behavior' = behavior
  PROVE  AgeInv'
<1>1. silence'[dst] = 0 /\ \A a \in Addrs : silence'[a] \in Nat /\ (a # dst => silence'[a] = silence[a])
  BY Types, TTLAssumption
<1>2. CASE behavior = "symmetric"
  <2>1. \A a \in Addrs : mappings'[a] = IF a = dst THEN e ELSE mappings[a]
    BY <1>2, Types, KeyFacts DEF keyOf
  <2> QED
    BY <1>1, <1>2, <2>1 DEF AgeInv
<1>3. CASE behavior # "symmetric"
  <2>1. mappings'[AnyDst] = e
    BY <1>3, Types, KeyFacts DEF keyOf
  <2> QED
    BY <1>1, <1>3, <2>1 DEF AgeInv
<1> QED
  BY <1>2, <1>3

LEMMA DoorWrites ==
  ASSUME TypeOK, NEW s \in Sockets, NEW dst \in Addrs, WriteThrough(s, dst)
  PROVE  /\ door' \in [at : {"write"}, sock : Sockets]
         /\ silence' = [silence EXCEPT ![dst] = 0] /\ silence' \in [Addrs -> 0 .. TTL + 1]
         /\ met' = met \cup {IP(dst)} /\ met' \subseteq {IP(a) : a \in Addrs}
  BY TTLAssumption DEF TypeOK, WriteThrough

LEMMA EntryRenewed ==
  ASSUME NEW x \in Entry, NEW c \in SUBSET {IP(a) : a \in Addrs}
  PROVE  [x EXCEPT !.age = 0, !.contactIP = c] = [sock |-> x.sock, age |-> 0, contactIP |-> c]
<1> DEFINE y == [sock |-> x.sock, age |-> 0, contactIP |-> x.contactIP]
<1>1. [x EXCEPT !.age = 0] = y
  BY DEF Entry
<1>2. [y EXCEPT !.contactIP = c] = [sock |-> x.sock, age |-> 0, contactIP |-> c]
  OBVIOUS
<1>3. [x EXCEPT !.age = 0, !.contactIP = c] = [[x EXCEPT !.age = 0] EXCEPT !.contactIP = c]
  OBVIOUS
<1> QED
  BY <1>1, <1>2, <1>3

LEMMA RefreshIInv == ASSUME IInv, Refresh PROVE IInv'
<1> DEFINE dst == door.dst
           k == keyOf(dst)
           C == IF behavior = "restricted" THEN mappings[k].contactIP \cup {IP(dst)} ELSE mappings[k].contactIP
           e == [sock |-> mappings[k].sock, age |-> 0, contactIP |-> C]
<1>1. dst \in Addrs /\ k \in Keys /\ TypeOK
  BY DoorLookup DEF Refresh, IInv
<1>2. mappings[k] # NoEntry /\ Lives(k) /\ mappings[k] \in Entry /\ mappings[k].sock \in Sockets
  BY <1>1, Types DEF Refresh, Lives, IInv, EntryInv
<1>3. C \in SUBSET {IP(a) : a \in Addrs}
  BY <1>1, <1>2 DEF Entry
<1>4. e \in Entry /\ e # NoEntry /\ e.sock = mappings[k].sock /\ e.age = 0 /\ e.contactIP = C
  BY <1>2, <1>3, EntryType, TTLAssumption
<1>5. mappings' = [mappings EXCEPT ![k] = e]
  <2>1. mappings' = [mappings EXCEPT ![k] = [mappings[k] EXCEPT !.age = 0, !.contactIP = C]]
    BY <1>1, Types DEF Refresh
  <2>2. [mappings[k] EXCEPT !.age = 0, !.contactIP = C] = e
    BY <1>2, <1>3, EntryRenewed
  <2> QED
    BY <2>1, <2>2
<1>6. /\ WriteThrough(mappings[k].sock, dst)
      /\ UNCHANGED <<behavior, open, used, doorOpen, reader, stage>>
  BY DEF Refresh
<1> HIDE DEF e, C
<1>7. /\ door' \in [at : {"write"}, sock : Sockets]
      /\ silence' = [silence EXCEPT ![dst] = 0] /\ silence' \in [Addrs -> 0 .. TTL + 1]
      /\ met' = met \cup {IP(dst)} /\ met' \subseteq {IP(a) : a \in Addrs}
  BY <1>1, <1>2, <1>6, DoorWrites
<1> HIDE DEF k, dst
<1>8. \A l \in Keys : mappings'[l] = IF l = k THEN e ELSE mappings[l]
  BY <1>1, <1>5, Types
<1>9. \A l \in Keys : mappings'[l].sock = mappings[l].sock /\ (mappings'[l] # NoEntry <=> mappings[l] # NoEntry)
  BY <1>2, <1>4, <1>8
<1>10. TypeOK'
  <2>1. mappings' \in [Keys -> Entry]
    BY <1>1, <1>4, <1>5, Types
  <2> QED
    BY <1>1, <1>6, <1>7, <1>9, <2>1 DEF TypeOK, Entry
<1>11. EntryInv' /\ OwnedInv' /\ UnusedInv'
  BY <1>4, <1>6, <1>8, <1>9 DEF IInv, EntryInv, OwnedInv, UnusedInv
<1>12. AgeInv'
  BY <1>1, <1>4, <1>5, <1>6, <1>7, MappedAge DEF IInv, k
<1>13. MetInv'
  <2> SUFFICES ASSUME behavior = "restricted" PROVE MetInv'
    BY <1>6 DEF MetInv
  <2>1. k = AnyDst /\ C = mappings[k].contactIP \cup {IP(dst)}
    BY DEF k, keyOf, C
  <2>2. Lives(AnyDst)' /\ mappings'[AnyDst].contactIP = C
    BY <1>1, <1>4, <1>8, <2>1, TTLAssumption DEF Lives, lastSeenExpired
  <2> QED
    BY <1>2, <1>6, <1>7, <2>1, <2>2 DEF IInv, MetInv
<1> QED
  BY <1>10, <1>11, <1>12, <1>13 DEF IInv

LEMMA NewFixedIInv == ASSUME IInv, NewFixed PROVE IInv'
<1> DEFINE dst == door.dst
           C == IF behavior = "restricted" THEN {IP(dst)} ELSE {}
           e == [sock |-> Fixed, age |-> 0, contactIP |-> C]
<1>1. dst \in Addrs /\ TypeOK /\ behavior # "symmetric" /\ keyOf(dst) = AnyDst /\ ~Lives(AnyDst)
  BY DoorLookup DEF NewFixed, IInv, keyOf
<1>2. e \in Entry /\ e # NoEntry /\ e.sock = Fixed /\ e.age = 0 /\ e.contactIP = C
  BY <1>1, EntryType, NoEntryFacts, TTLAssumption
<1>3. /\ mappings' = [mappings EXCEPT ![AnyDst] = e] /\ WriteThrough(Fixed, dst)
      /\ UNCHANGED <<behavior, open, used, doorOpen, reader, stage>>
  BY <1>1 DEF NewFixed
<1> HIDE DEF e, C, dst
<1>4. /\ door' \in [at : {"write"}, sock : Sockets]
      /\ silence' = [silence EXCEPT ![dst] = 0] /\ silence' \in [Addrs -> 0 .. TTL + 1]
      /\ met' = met \cup {IP(dst)} /\ met' \subseteq {IP(a) : a \in Addrs}
  BY <1>1, <1>3, DoorWrites, NoEntryFacts
<1>5. \A l \in Keys : mappings'[l] = IF l = AnyDst THEN e ELSE mappings[l]
  BY <1>1, <1>3, Types, KeyFacts
<1>6. TypeOK'
  <2>1. mappings' \in [Keys -> Entry]
    BY <1>1, <1>2, <1>3, Types
  <2>2. \A l \in Keys : mappings'[l] # NoEntry => (l = AnyDst <=> behavior # "symmetric")
    BY <1>1, <1>5, Types
  <2> QED
    BY <1>1, <1>3, <1>4, <2>1, <2>2 DEF TypeOK, Entry
<1>7. EntryInv' /\ UnusedInv'
  <2>1. Fixed <= used
    BY <1>1, Types, MaxSocketsAssumption DEF Fixed
  <2> QED
    BY <1>1, <1>2, <1>3, <1>5, <2>1, NoEntryFacts DEF IInv, EntryInv, UnusedInv
<1>8. OwnedInv'
  <2>1. \A l \in Keys : mappings[l].sock \notin Ephemeral
    BY <1>1, NoEntryFacts DEF IInv, EntryInv
  <2> QED
    BY <1>2, <1>3, <1>5, <2>1, NoEntryFacts DEF IInv, OwnedInv
<1>9. AgeInv'
  BY <1>1, <1>2, <1>3, <1>4, MappedAge DEF IInv
<1>10. MetInv'
  <2> SUFFICES ASSUME behavior = "restricted" PROVE MetInv'
    BY <1>3 DEF MetInv
  <2>1. Lives(AnyDst)' /\ mappings'[AnyDst].contactIP = {IP(dst)}
    BY <1>2, <1>5, KeyFacts, TTLAssumption DEF Lives, lastSeenExpired, C
  <2> QED
    BY <1>1, <1>3, <1>4, <2>1 DEF IInv, MetInv
<1> QED
  BY <1>6, <1>7, <1>8, <1>9, <1>10 DEF IInv


-----------------------------------------------------------------------------
(* Mappings that go take their sockets along.                               *)
LEMMA Forgotten ==
  ASSUME IInv, NEW K \in SUBSET Keys,
         mappings' = [k \in Keys |-> IF k \in K THEN NoEntry ELSE mappings[k]],
         open' \subseteq open, open' \cap reclaimed(K) = {},
         UNCHANGED <<behavior, used, reader, silence, met>>
  PROVE  /\ mappings' \in [Keys -> Entry]
         /\ \A k \in Keys : mappings'[k] # NoEntry => mappings'[k] = mappings[k] /\ k \notin K
         /\ \A k \in Keys \ K : mappings'[k] = mappings[k]
         /\ EntryInv' /\ OwnedInv' /\ UnusedInv'
<1>1. mappings \in [Keys -> Entry]
  BY Types DEF IInv
<1>2. mappings' \in [Keys -> Entry]
  BY <1>1, NoEntryFacts
<1>3. /\ \A k \in Keys : mappings'[k] = IF k \in K THEN NoEntry ELSE mappings[k]
      /\ \A k \in Keys : mappings'[k] # NoEntry => mappings'[k] = mappings[k] /\ k \notin K
  OBVIOUS
<1>4. EntryInv' /\ UnusedInv'
  BY <1>3 DEF IInv, EntryInv, UnusedInv
<1>5. ASSUME NEW s \in open' \cap Ephemeral
      PROVE  \E k \in Keys : mappings'[k].sock = s
  <2>1. PICK k \in Keys : mappings[k].sock = s
    BY DEF IInv, OwnedInv
  <2>2. k \notin K
    BY <2>1, NoEntryFacts DEF reclaimed
  <2> QED
    BY <1>3, <2>1, <2>2
<1>6. ASSUME NEW k \in Keys, NEW l \in Keys, mappings'[k].sock \in Ephemeral,
             mappings'[k].sock = mappings'[l].sock
      PROVE  k = l
  BY <1>3, <1>6, NoEntryFacts DEF IInv, OwnedInv
<1>7. OwnedInv'
  BY <1>5, <1>6 DEF OwnedInv
<1> QED
  BY <1>2, <1>3, <1>4, <1>7

LEMMA AllocateFailsIInv == ASSUME IInv, AllocateFails PROVE IInv'
<1> DEFINE dst == door.dst
<1>1. dst \in Addrs /\ dst \in Keys /\ dst # AnyDst /\ behavior = "symmetric" /\ TypeOK
  BY DoorLookup, KeyFacts DEF AllocateFails, IInv
<1>2. /\ mappings' = [mappings EXCEPT ![dst] = NoEntry] /\ open' = open \ reclaimed({dst}) /\ door' = Idle
      /\ UNCHANGED <<behavior, used, doorOpen, reader, stage, silence, met>>
  BY DEF AllocateFails
<1> HIDE DEF dst
<1>3. mappings' = [k \in Keys |-> IF k \in {dst} THEN NoEntry ELSE mappings[k]]
  BY <1>1, <1>2, Types
<1>4. /\ mappings' \in [Keys -> Entry] /\ EntryInv' /\ OwnedInv' /\ UnusedInv'
      /\ \A k \in Keys : mappings'[k] # NoEntry => mappings'[k] = mappings[k]
  BY <1>1, <1>2, <1>3, Forgotten
<1>5. TypeOK'
  BY <1>1, <1>2, <1>4 DEF TypeOK, Entry
<1>6. AgeInv' /\ MetInv'
  BY <1>1, <1>2, <1>4, KeyFacts DEF IInv, AgeInv, MetInv
<1> QED
  BY <1>4, <1>5, <1>6 DEF IInv

LEMMA NewSymmetricIInv == ASSUME IInv, NewSymmetric PROVE IInv'
<1> DEFINE dst == door.dst
           n == used + 1
           e == [sock |-> n, age |-> 0, contactIP |-> {IP(dst)}]
<1>1. dst \in Addrs /\ dst \in Keys /\ dst # AnyDst /\ behavior = "symmetric" /\ TypeOK /\ keyOf(dst) = dst
  BY DoorLookup, KeyFacts DEF NewSymmetric, IInv, keyOf
<1>2. n \in Ephemeral /\ n \in Sockets /\ n # Fixed /\ n \in 0 .. MaxSockets /\ used \in Nat /\ n > used
  BY <1>1, Types, MaxSocketsAssumption DEF NewSymmetric, MayAllocate, Ephemeral, Sockets, Fixed
<1>3. e \in Entry /\ e # NoEntry /\ e.sock = n /\ e.age = 0
  <2>1. {IP(dst)} \in SUBSET {IP(a) : a \in Addrs} /\ 0 \in 0 .. TTL + 1
    BY <1>1, TTLAssumption
  <2> QED
    BY <1>2, <2>1, EntryType
<1>4. /\ mappings' = [mappings EXCEPT ![dst] = e] /\ open' = (open \ reclaimed({dst})) \cup {n}
      /\ used' = n /\ reader' = [reader EXCEPT ![n] = Idle] /\ WriteThrough(n, dst)
      /\ UNCHANGED <<behavior, doorOpen, stage>>
  BY DEF NewSymmetric
<1> HIDE DEF e, dst
<1>5. /\ door' \in [at : {"write"}, sock : Sockets]
      /\ silence' = [silence EXCEPT ![dst] = 0] /\ silence' \in [Addrs -> 0 .. TTL + 1]
      /\ met' = met \cup {IP(dst)} /\ met' \subseteq {IP(a) : a \in Addrs}
  BY <1>1, <1>2, <1>4, DoorWrites
<1>6. \A l \in Keys : mappings'[l] = IF l = dst THEN e ELSE mappings[l]
  BY <1>1, <1>4, Types
<1>7. \A l \in Keys : mappings[l].sock \in Ephemeral => mappings[l].sock <= used
  BY NoEntryFacts DEF IInv, EntryInv
<1>8. TypeOK'
  <2>1. mappings' \in [Keys -> Entry]
    BY <1>1, <1>3, <1>4, Types
  <2>2. \A l \in Keys : mappings'[l] # NoEntry => (l = AnyDst <=> behavior # "symmetric")
    BY <1>1, <1>6, Types
  <2>3. reader' \in [Sockets -> {NotStarted, Idle, Ended} \cup [at : {"lookup", "write"}, src : Addrs]]
    BY <1>1, <1>4, Types
  <2>4. open' \subseteq Sockets
    BY <1>1, <1>2, <1>4, Types
  <2> HIDE DEF n
  <2> QED
    BY <1>1, <1>2, <1>4, <1>5, <2>1, <2>2, <2>3, <2>4 DEF TypeOK, Entry
<1>9. EntryInv'
  <2> SUFFICES ASSUME NEW l \in Keys, mappings'[l] # NoEntry
               PROVE  /\ mappings'[l].sock \in Sockets
                      /\ mappings'[l].sock = Fixed <=> behavior' # "symmetric"
                      /\ mappings'[l].sock <= used'
                      /\ TTL = 0 => mappings'[l].age = 0
    BY DEF EntryInv
  <2>1. CASE l = dst
    BY <1>1, <1>2, <1>3, <1>4, <1>6, <2>1
  <2>2. CASE l # dst
    <3>1. mappings'[l] = mappings[l]
      BY <1>6, <2>2
    <3>2. mappings[l].sock \in Sockets /\ mappings[l].sock <= used /\ mappings[l].sock # Fixed
      BY <1>1, <3>1 DEF IInv, EntryInv
    <3>3. mappings[l].sock <= n
      BY <1>2, <3>2 DEF Sockets, Ephemeral, Fixed
    <3> QED
      BY <1>1, <1>4, <3>1, <3>2, <3>3 DEF IInv, EntryInv
  <2> QED
    BY <2>1, <2>2
<1>10. \A l \in Keys : mappings[l].sock # n
  BY <1>2, <1>7
<1> HIDE DEF n
<1>11. OwnedInv'
  <2>1. ASSUME NEW s \in open' \cap Ephemeral
        PROVE  \E k \in Keys : mappings'[k].sock = s
    <3>1. CASE s = n
      BY <1>1, <1>3, <1>6, <3>1
    <3>2. CASE s # n
      <4>1. s \in open /\ s \notin reclaimed({dst})
        BY <1>4, <3>2
      <4>2. PICK k \in Keys : mappings[k].sock = s
        BY <4>1 DEF IInv, OwnedInv
      <4>3. k # dst
        BY <4>1, <4>2, NoEntryFacts DEF reclaimed
      <4> QED
        BY <1>6, <4>2, <4>3
    <3> QED
      BY <3>1, <3>2
  <2>2. ASSUME NEW k \in Keys, NEW l \in Keys, mappings'[k].sock \in Ephemeral,
               mappings'[k].sock = mappings'[l].sock
        PROVE  k = l
    BY <1>3, <1>6, <1>10, <2>2 DEF IInv, OwnedInv
  <2> QED
    BY <2>1, <2>2 DEF OwnedInv
<1>12. UnusedInv'
  <2> SUFFICES ASSUME NEW s \in Ephemeral, s > n PROVE reader'[s] = NotStarted
    BY <1>4 DEF UnusedInv
  <2>1. s # n /\ s > used
    BY <1>2 DEF Ephemeral
  <2> QED
    BY <1>1, <1>4, <2>1, Types, NoEntryFacts DEF IInv, UnusedInv
<1>13. AgeInv'
  BY <1>1, <1>3, <1>4, <1>5, MappedAge DEF IInv
<1>14. MetInv'
  BY <1>1, <1>4 DEF MetInv
<1> QED
  BY <1>8, <1>9, <1>11, <1>12, <1>13, <1>14 DEF IInv

LEMMA CleanupIInv == ASSUME IInv, cleanup PROVE IInv'
<1> DEFINE K == {k \in Keys : mappings[k] # NoEntry /\ lastSeenExpired(mappings[k])}
<1>1. /\ open' = open \ reclaimed(K)
      /\ mappings' = [k \in Keys |-> IF k \in K THEN NoEntry ELSE mappings[k]]
      /\ UNCHANGED <<behavior, used, door, doorOpen, reader, stage, silence, met>>
  BY DEF cleanup
<1>2. \A k \in K : k \in Keys /\ mappings[k] # NoEntry /\ mappings[k].age > TTL /\ ~Lives(k)
  BY LivesByAge DEF IInv, Lives
<1>3. K \in SUBSET Keys
  OBVIOUS
<1> HIDE DEF K
<1>4. /\ mappings' \in [Keys -> Entry] /\ EntryInv' /\ OwnedInv' /\ UnusedInv'
      /\ \A k \in Keys : mappings'[k] # NoEntry => mappings'[k] = mappings[k] /\ k \notin K
      /\ \A k \in Keys \ K : mappings'[k] = mappings[k]
  BY <1>1, <1>3, Forgotten
<1>5. TypeOK'
  BY <1>1, <1>4 DEF IInv, TypeOK, Entry
<1>6. AgeInv'
  <2>1. CASE behavior = "symmetric"
    BY <1>1, <1>4, <2>1, KeyFacts DEF IInv, AgeInv
  <2>2. CASE behavior # "symmetric" /\ AnyDst \in K
    <3>1. \A a \in Addrs : silence[a] \in Nat /\ mappings[AnyDst].age \in Nat
      BY Types, KeyFacts, TTLAssumption DEF IInv, Entry
    <3>2. \A a \in Addrs : silence[a] > TTL
      BY <1>2, <2>2, <3>1, TTLAssumption DEF IInv, AgeInv
    <3>3. mappings'[AnyDst] = NoEntry
      BY <1>1, <2>2, KeyFacts
    <3> QED
      BY <1>1, <2>2, <3>2, <3>3 DEF AgeInv
  <2>3. CASE behavior # "symmetric" /\ AnyDst \notin K
    BY <1>1, <1>4, <2>3, KeyFacts DEF IInv, AgeInv
  <2> QED
    BY <2>1, <2>2, <2>3
<1>7. MetInv'
  <2>1. Lives(AnyDst)' <=> Lives(AnyDst)
    BY <1>1, <1>2, <1>4, KeyFacts DEF Lives, lastSeenExpired
  <2>2. Lives(AnyDst) => mappings'[AnyDst] = mappings[AnyDst]
    BY <1>2, <1>4, KeyFacts
  <2> QED
    BY <1>1, <2>1, <2>2 DEF IInv, MetInv
<1> QED
  BY <1>4, <1>5, <1>6, <1>7 DEF IInv

LEMMA CloseMappingsIInv == ASSUME IInv, CloseMappings PROVE IInv'
<1>1. /\ mappings' = [k \in Keys |-> NoEntry] /\ open' = open \ {mappings[k].sock : k \in Keys}
      /\ stage' = "done" /\ UNCHANGED <<behavior, used, door, doorOpen, reader, silence, met>>
  BY DEF CloseMappings
<1>2. mappings' = [k \in Keys |-> IF k \in Keys THEN NoEntry ELSE mappings[k]]
  BY <1>1
<1>3. open' \subseteq open /\ open' \cap reclaimed(Keys) = {}
  BY <1>1 DEF reclaimed
<1>4. mappings' \in [Keys -> Entry] /\ EntryInv' /\ OwnedInv' /\ UnusedInv'
  BY <1>1, <1>2, <1>3, Forgotten
<1>5. \A k \in Keys : mappings'[k] = NoEntry
  BY <1>1
<1>6. TypeOK'
  BY <1>1, <1>4, <1>5 DEF IInv, TypeOK, Entry
<1>7. AgeInv' /\ MetInv'
  BY <1>1, <1>5, KeyFacts DEF AgeInv, MetInv, Lives
<1> QED
  BY <1>4, <1>6, <1>7 DEF IInv

LEMMA EntryAged ==
  ASSUME NEW x \in Entry, NEW n \in 0 .. TTL + 1
  PROVE  [x EXCEPT !.age = n] = [sock |-> x.sock, age |-> n, contactIP |-> x.contactIP]
  BY DEF Entry

LEMMA TickIInv == ASSUME IInv, Tick PROVE IInv'
<1>1. TypeOK /\ mappings \in [Keys -> Entry] /\ silence \in [Addrs -> 0 .. TTL + 1]
  BY Types DEF IInv
<1>2. UNCHANGED <<behavior, open, used, door, doorOpen, reader, stage>>
  BY DEF Tick
<1>3. \A a \in Addrs : silence'[a] = Older(silence[a]) /\ silence'[a] \in 0 .. TTL + 1
  BY <1>1, OlderFacts DEF Tick
<1>4. \A k \in Keys : mappings[k] = NoEntry => mappings'[k] = NoEntry
  BY DEF Tick
<1>5. ASSUME NEW k \in Keys, mappings[k] # NoEntry
      PROVE  /\ mappings'[k] \in Entry /\ mappings'[k] # NoEntry
             /\ mappings'[k].sock = mappings[k].sock /\ mappings'[k].contactIP = mappings[k].contactIP
             /\ mappings[k].age \in 0 .. TTL + 1
             /\ mappings'[k].age = Older(mappings[k].age)
  <2> DEFINE n == Older(mappings[k].age)
             x == mappings[k]
  <2>1. x \in Entry /\ x.age \in 0 .. TTL + 1 /\ x.sock \in Sockets /\ x.contactIP \in SUBSET {IP(a) : a \in Addrs}
    BY <1>1, <1>5 DEF Entry, IInv, EntryInv
  <2>2. n \in 0 .. TTL + 1
    BY <2>1, OlderFacts
  <2>3. mappings'[k] = [x EXCEPT !.age = n]
    BY <1>5 DEF Tick
  <2> HIDE DEF n, x
  <2>4. mappings'[k] = [sock |-> x.sock, age |-> n, contactIP |-> x.contactIP]
    BY <2>1, <2>2, <2>3, EntryAged
  <2>5. mappings'[k] \in Entry /\ mappings'[k] # NoEntry
    BY <2>1, <2>2, <2>4, EntryType
  <2>6. mappings'[k].sock = x.sock /\ mappings'[k].contactIP = x.contactIP /\ mappings'[k].age = n
    BY <2>4
  <2> QED
    BY <2>1, <2>5, <2>6 DEF n, x
<1>6. \A k \in Keys : mappings'[k].sock = mappings[k].sock /\ (mappings'[k] # NoEntry <=> mappings[k] # NoEntry)
  BY <1>4, <1>5
<1>7. TypeOK'
  <2>1. mappings' \in [Keys -> Entry]
    <3>1. \A k \in Keys : mappings'[k] \in Entry
      BY <1>4, <1>5, NoEntryFacts
    <3>2. mappings' = [k \in Keys |-> mappings'[k]]
      BY DEF Tick
    <3> QED
      BY <3>1, <3>2
  <2>2. silence' \in [Addrs -> 0 .. TTL + 1]
    BY <1>3 DEF Tick
  <2>3. met' \subseteq {IP(a) : a \in Addrs}
    BY <1>1 DEF Tick, TypeOK
  <2> QED
    BY <1>1, <1>2, <1>6, <2>1, <2>2, <2>3 DEF TypeOK, Entry
<1>8. EntryInv' /\ OwnedInv' /\ UnusedInv'
  <2>1. \A k \in Keys : mappings[k] # NoEntry /\ TTL = 0 => mappings'[k].age = 0
    BY <1>5 DEF IInv, EntryInv, Older
  <2> QED
    BY <1>2, <1>6, <2>1 DEF IInv, EntryInv, OwnedInv, UnusedInv
<1>9. AgeInv'
  <2>1. CASE behavior = "symmetric"
    <3>1. ASSUME NEW a \in Addrs, mappings'[a] # NoEntry PROVE mappings'[a].age = silence'[a]
      BY <1>3, <1>5, <1>6, <2>1, <3>1, KeyFacts DEF IInv, AgeInv
    <3> QED
      BY <1>2, <2>1, <3>1 DEF AgeInv
  <2>2. CASE behavior # "symmetric" /\ mappings[AnyDst] # NoEntry
    <3>1. \A a \in Addrs : mappings'[AnyDst].age <= silence'[a]
      <4> SUFFICES ASSUME NEW a \in Addrs PROVE mappings'[AnyDst].age <= silence'[a]
        OBVIOUS
      <4>1. mappings[AnyDst].age <= silence[a] /\ silence[a] \in 0 .. TTL + 1
        BY <1>1, <2>2 DEF IInv, AgeInv
      <4> QED
        BY <1>3, <1>5, <2>2, <4>1, KeyFacts, OlderFacts
    <3>2. \E a \in Addrs : mappings'[AnyDst].age = silence'[a]
      BY <1>3, <1>5, <2>2, KeyFacts DEF IInv, AgeInv
    <3> QED
      BY <1>2, <1>6, <2>2, <3>1, <3>2, KeyFacts DEF AgeInv
  <2>3. CASE behavior # "symmetric" /\ mappings[AnyDst] = NoEntry
    <3>1. ASSUME stage # "done", NEW a \in Addrs PROVE silence'[a] > TTL
      <4>1. silence[a] > TTL /\ silence[a] \in 0 .. TTL + 1
        BY <1>1, <2>3, <3>1 DEF IInv, AgeInv
      <4> QED
        BY <1>3, <4>1, OlderFacts
    <3> QED
      BY <1>2, <1>4, <2>3, <3>1, KeyFacts DEF AgeInv
  <2> QED
    BY <2>1, <2>2, <2>3
<1>10. MetInv'
  <2> SUFFICES ASSUME behavior = "restricted" PROVE MetInv'
    BY <1>2 DEF MetInv
  <2>1. EntryInv' /\ TypeOK'
    BY <1>7, <1>8
  <2>2. Lives(AnyDst)' <=> mappings'[AnyDst] # NoEntry /\ mappings'[AnyDst].age <= TTL
    <3>1. mappings'[AnyDst].age \in 0 .. TTL + 1
      BY <2>1, KeyFacts DEF TypeOK
    <3> QED
      BY <2>1, <3>1, TTLAssumption, KeyFacts DEF Lives, lastSeenExpired, EntryInv
  <2>3. CASE Lives(AnyDst)'
    <3>1. mappings[AnyDst] # NoEntry /\ mappings'[AnyDst].age <= TTL
      BY <1>6, <2>2, <2>3, KeyFacts
    <3>2. mappings[AnyDst].age <= TTL
      BY <1>5, <3>1, KeyFacts, OlderFacts, TTLAssumption
    <3>3. Lives(AnyDst)
      BY <1>1, <3>1, <3>2, KeyFacts, LivesByAge DEF IInv
    <3>4. \E a \in Addrs : silence'[a] <= TTL
      BY <1>2, <1>6, <1>9, <3>1, KeyFacts DEF AgeInv
    <3>5. met' = met
      BY <1>3, <3>4, TTLAssumption DEF Tick
    <3>6. mappings'[AnyDst].contactIP = mappings[AnyDst].contactIP
      BY <1>5, <3>1, KeyFacts
    <3> QED
      BY <1>2, <2>3, <3>3, <3>5, <3>6 DEF IInv, MetInv
  <2>4. CASE ~Lives(AnyDst)'
    <3>1. stage # "done" => met' = {}
      <4>1. CASE mappings[AnyDst] = NoEntry
        BY <4>1 DEF IInv, MetInv, Lives, Tick
      <4>2. CASE mappings[AnyDst] # NoEntry
        <5>1. mappings'[AnyDst].age > TTL /\ mappings'[AnyDst] # NoEntry /\ mappings'[AnyDst].age \in Nat
          BY <1>5, <1>6, <2>2, <2>4, <4>2, KeyFacts, OlderFacts, TTLAssumption
        <5>2. \A a \in Addrs : silence'[a] > TTL
          BY <1>2, <1>3, <1>9, <5>1, TTLAssumption DEF AgeInv
        <5> QED
          BY <5>2 DEF Tick
      <4> QED
        BY <4>1, <4>2
    <3> QED
      BY <1>2, <2>4, <3>1 DEF MetInv
  <2> QED
    BY <2>3, <2>4
<1> QED
  BY <1>7, <1>8, <1>9, <1>10 DEF IInv

LEMMA NextIInv == IInv /\ [Next]_vars => IInv'
<1> SUFFICES ASSUME IInv, [Next]_vars PROVE IInv'
  OBVIOUS
<1>1. CASE UNCHANGED vars
  <2>1. TypeOK'
    BY <1>1 DEF IInv, TypeOK, vars
  <2> QED
    BY <1>1, <2>1, QuietIInv DEF vars
<1>2. CASE (\E dst \in Addrs : ReadOutbound(dst)) \/ DoorStep
  BY <1>2, DoorQuiet, RefreshIInv, NewFixedIInv, NewSymmetricIInv, AllocateFailsIInv DEF DoorStep, outboundSocket
<1>3. CASE \E s \in Sockets : ReaderStep(s) \/ \E src \in Addrs : ReadInbound(s, src)
  BY <1>3, ReaderQuiet
<1>4. CASE cleanup \/ Close \/ CloseStep \/ Tick
  BY <1>4, CleanupIInv, CloseQuiet, CloseMappingsIInv, TickIInv DEF CloseStep
<1> QED
  BY <1>1, <1>2, <1>3, <1>4 DEF Next


-----------------------------------------------------------------------------
(* Who may still pass, from what the table and the histories have in common.*)
LEMMA AdmittedInvited ==
  ASSUME IInv, NEW s \in Sockets, NEW src \in Addrs, lookupInbound(s, src)
  PROVE  Invited(s, src)
<1>1. CASE behavior = "symmetric"
  <2>1. mappings[src].sock = s /\ mappings[src] # NoEntry /\ ~lastSeenExpired(mappings[src])
    BY <1>1, NoEntryFacts DEF lookupInbound
  <2>2. mappings[src].age <= TTL
    BY <2>1, LivesByAge, KeyFacts DEF Lives, IInv
  <2> QED
    BY <1>1, <2>1, <2>2 DEF IInv, AgeInv, Invited, Recent
<1>2. CASE behavior = "fullcone"
  <2>1. mappings[AnyDst] # NoEntry /\ mappings[AnyDst].age <= TTL
    BY <1>2, LivesByAge, KeyFacts DEF lookupInbound, IInv
  <2> QED
    BY <1>2, <2>1 DEF IInv, AgeInv, Invited, Recent
<1>3. CASE behavior = "restricted"
  BY <1>3 DEF lookupInbound, IInv, MetInv, Invited
<1> QED
  BY <1>1, <1>2, <1>3 DEF IInv, TypeOK, Behaviors

LEMMA InvitedAdmitted ==
  ASSUME IInv, NEW s \in Sockets, NEW src \in Addrs, stage = "running", Invited(s, src)
  PROVE  lookupInbound(s, src)
<1>1. CASE behavior = "symmetric"
  <2>1. mappings[src].sock = s /\ mappings[src] # NoEntry /\ silence[src] <= TTL
    BY <1>1, NoEntryFacts DEF Invited, Recent
  <2>2. mappings[src].age <= TTL
    BY <1>1, <2>1 DEF IInv, AgeInv
  <2> QED
    BY <1>1, <2>1, <2>2, LivesByAge, KeyFacts DEF Lives, IInv, lookupInbound
<1>2. CASE behavior = "fullcone"
  <2>1. PICK a \in Addrs : silence[a] <= TTL /\ silence[a] \in Nat
    BY <1>2, Types DEF Invited, Recent, IInv
  <2>2. mappings[AnyDst] # NoEntry /\ mappings[AnyDst].age <= silence[a]
    BY <1>2, <2>1, TTLAssumption DEF IInv, AgeInv
  <2>3. mappings[AnyDst].age \in 0 .. TTL + 1
    BY Types, KeyFacts DEF IInv, Entry
  <2>4. Lives(AnyDst)
    BY <2>1, <2>2, <2>3, TTLAssumption, LivesByAge, KeyFacts DEF IInv
  <2> QED
    BY <1>2, <2>4 DEF lookupInbound
<1>3. CASE behavior = "restricted"
  BY <1>3 DEF lookupInbound, IInv, MetInv, Invited
<1> QED
  BY <1>1, <1>2, <1>3 DEF IInv, TypeOK, Behaviors

(* Only the socket's own reader decides about a datagram it has read.       *)
LEMMA OnlyItsReader ==
  ASSUME IInv, [Next]_vars, NEW s \in Sockets, reader[s].at = "lookup", reader'[s] # reader[s]
  PROVE  handleInbound(s)
<1>0. /\ reader[s] # Idle /\ reader[s] # NotStarted /\ reader[s].at # "write"
      /\ reader \in [Sockets -> {NotStarted, Idle, Ended} \cup [at : {"lookup", "write"}, src : Addrs]]
  BY Types DEF Idle, NotStarted, IInv
<1>1. CASE \E t \in Sockets : ReaderStep(t) \/ \E src \in Addrs : ReadInbound(t, src)
  <2>1. PICK t \in Sockets : ReaderStep(t) \/ \E src \in Addrs : ReadInbound(t, src)
    BY <1>1
  <2>2. CASE t # s
    BY <1>0, <2>1, <2>2 DEF ReaderStep, handleInbound, Deliver, ReaderEnds, ReadInbound
  <2>3. CASE t = s
    BY <1>0, <2>1, <2>3 DEF ReaderStep, Deliver, ReaderEnds, ReadInbound
  <2> QED
    BY <2>2, <2>3
<1>2. CASE NewSymmetric
  <2>1. used + 1 \in Ephemeral /\ used + 1 > used
    BY <1>2, Types, MaxSocketsAssumption DEF IInv, NewSymmetric, MayAllocate, Ephemeral
  <2>2. reader[used + 1] = NotStarted
    BY <2>1 DEF IInv, UnusedInv
  <2> QED
    BY <1>0, <1>2, <2>2 DEF NewSymmetric
<1>3. CASE UNCHANGED reader
  BY <1>3
<1> QED
  BY <1>1, <1>2, <1>3 DEF Next, vars, ReadOutbound, DoorStep, outboundSocket, Refresh, NewFixed, AllocateFails,
     WriteOutbound, DoorEnds, cleanup, Close, CloseStep, CloseDoor, CloseMappings, Tick

LEMMA FilterStep ==
  ASSUME IInv, [Next]_vars, NEW s \in Sockets, reader[s].at = "lookup", reader'[s] # reader[s]
  PROVE  /\ reader'[s].at = "write" => Invited(s, reader[s].src)
         /\ stage = "running" /\ Invited(s, reader[s].src) => reader'[s].at = "write"
<1>1. handleInbound(s)
  BY OnlyItsReader
<1>2. reader[s].src \in Addrs
  BY Types DEF IInv, Idle, Ended, NotStarted
<1>3. reader'[s] = IF lookupInbound(s, reader[s].src) THEN [at |-> "write", src |-> reader[s].src] ELSE Idle
  BY <1>1, Types DEF handleInbound, IInv
<1>4. reader'[s].at = "write" <=> lookupInbound(s, reader[s].src)
  BY <1>3 DEF Idle
<1> QED
  BY <1>2, <1>4, AdmittedInvited, InvitedAdmitted

-----------------------------------------------------------------------------
(* The mappings, their sockets and the host's traffic stay in step, whatever*)
(* the handlers, the cleanup and Close interleave.                          *)
THEOREM Invariance == Spec => []IInv
<1> QED
  BY InitIInv, NextIInv, PTL DEF Spec

(* Every variable of the box keeps its type, and only keys of its behavior  *)
(* are in use.                                                              *)
THEOREM TypeCorrect == Spec => []TypeOK
<1>1. IInv => TypeOK
  BY DEF IInv
<1> QED
  BY <1>1, Invariance, PTL

(* No socket leaks: whatever expiry, re-creation, cleanup and Close do, an  *)
(* open ephemeral socket belongs to exactly one mapping.                    *)
THEOREM SocketsOwned == Spec => []SocketOwned
<1>1. ASSUME IInv PROVE SocketOwned
  <2> SUFFICES ASSUME NEW s \in open \cap Ephemeral
               PROVE  Cardinality({k \in Keys : mappings[k].sock = s}) = 1
    BY DEF SocketOwned
  <2>1. PICK k \in Keys : mappings[k].sock = s
    BY <1>1 DEF IInv, OwnedInv
  <2>2. {l \in Keys : mappings[l].sock = s} = {k}
    BY <1>1, <2>1 DEF IInv, OwnedInv
  <2> QED
    BY <2>2, FS_Singleton
<1> QED
  BY <1>1, Invariance, PTL

(* lookupInbound admits a datagram exactly if the host's own traffic within *)
(* the TTL entitles its sender to it.                                       *)
THEOREM FilterIsExact == Spec => FilterExact
<1>1. IInv /\ [Next]_vars =>
        [\A s \in Sockets :
           reader[s].at = "lookup" /\ reader'[s] # reader[s] =>
             /\ reader'[s].at = "write" => Invited(s, reader[s].src)
             /\ stage = "running" /\ Invited(s, reader[s].src) => reader'[s].at = "write"]_vars
  BY FilterStep
<1> QED
  BY <1>1, Invariance, PTL DEF Spec, FilterExact
=============================================================================
