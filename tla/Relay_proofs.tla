---------------------------- MODULE Relay_proofs ----------------------------
(***************************************************************************)
(* Proofs about the relay server, for any names and addresses, any budgets *)
(* and any thresholds.                                                     *)
(***************************************************************************)
EXTENDS Relay, FiniteSetTheorems, TLAPS

(* The entries of a map that are no older than limit.                       *)
Young(m, limit) == \A k \in DOMAIN m : m[k].absent \/ m[k].age <= limit

(* Until the next sweep may come, nothing is older than the last one left   *)
(* it, by the time that passed since.                                       *)
PruneInv ==
  lastSweep < Second =>
    /\ Young(srcRate, 2 * Second + lastSweep) /\ Young(srcBytes, 2 * Second + lastSweep)
    /\ Young(nameBytes, 2 * Second + lastSweep) /\ Young(pins, 2 * PinGrace + lastSweep)

(* The server's own counters age up to the length of their window.          *)
GlobalInv == globalRate.age <= Second /\ globalBytes.age <= Second

IInv == TypeOK /\ PruneInv /\ GlobalInv

(* Entry c is no older than x was.                                          *)
NoOlder(x, c) == \A L \in Nat : x.absent \/ x.age <= L => c.absent \/ c.age <= L

(* Map r is m after the sweep's turn, with c as its entry for k or without. *)
Renewed(m, limit, k, c, r) == r = Pruned(m, limit) \/ r = [Pruned(m, limit) EXCEPT ![k] = c]

PinSet == {None} \cup {Pin(a, age) : a \in Addrs, age \in Ages}

-----------------------------------------------------------------------------
LEMMA OldFacts ==
  /\ Old \in Nat /\ Old >= 2 * Second + Second /\ Old >= 2 * PinGrace + Second
  /\ Old > Second /\ Second \in Nat /\ PinGrace \in Nat /\ Second > 0 /\ PinGrace > 0
  /\ Ages = 0 .. Old
  BY SecondAssumption, PinGraceAssumption DEF Old, Ages

LEMMA EntryFacts ==
  /\ None.age = Old /\ None.absent = TRUE
  /\ \A age, n : Counter(age, n).age = age /\ Counter(age, n).count = n /\ Counter(age, n).absent = FALSE
  /\ \A a, age : Pin(a, age).addr = a /\ Pin(a, age).age = age /\ Pin(a, age).absent = FALSE
  BY DEF None, Counter, Pin

(* What a counter can be.                                                   *)
LEMMA CounterCases ==
  ASSUME NEW cap \in Int, NEW c
  PROVE  c \in Counters(cap) <=>
           \/ c = None
           \/ \E age \in Ages, n \in 0 .. (IF cap > 0 THEN cap ELSE 0) : c = Counter(age, n)
  BY DEF Counters

LEMMA PinCases ==
  ASSUME NEW p
  PROVE  p \in PinSet <=> p = None \/ \E a \in Addrs, age \in Ages : p = Pin(a, age)
  BY DEF PinSet

(* take keeps a counter within its cap and makes no entry older.            *)
LEMMA TakeFacts ==
  ASSUME NEW cap \in Int, NEW c \in Counters(cap), NEW amount \in Nat
  PROVE  /\ take(c, amount, cap).c \in Counters(cap)
         /\ NoOlder(c, take(c, amount, cap).c)
         /\ c.age <= Second => take(c, amount, cap).c.age <= Second
<1> DEFINE r == take(c, amount, cap).c
<1>0. Ages = 0 .. Old /\ Second \in Nat /\ Old \in Nat
  BY OldFacts
<1>1. CASE cap <= 0
  <2>1. r = c
    BY <1>1 DEF take
  <2> QED
    BY <2>1 DEF NoOlder
<1>2. CASE cap > 0 /\ (c.absent \/ c.age >= Second)
  <2> DEFINE n == IF amount > cap THEN cap ELSE amount
  <2>1. r = Counter(0, n) /\ n \in 0 .. cap /\ 0 \in Ages
    BY <1>0, <1>2 DEF take
  <2>2. r \in Counters(cap) /\ r.age = 0
    BY <1>2, <2>1, CounterCases, EntryFacts
  <2> QED
    BY <1>0, <2>2 DEF NoOlder
<1>3. CASE cap > 0 /\ ~(c.absent \/ c.age >= Second)
  <2>1. PICK age \in Ages, n \in 0 .. cap : c = Counter(age, n)
    BY <1>3, CounterCases, EntryFacts
  <2>2. r = c \/ (r = Counter(age, n + amount) /\ n + amount <= cap)
    BY <1>3, <2>1, EntryFacts DEF take
  <2>3. CASE r = c
    BY <2>3 DEF NoOlder
  <2>4. CASE r = Counter(age, n + amount) /\ n + amount <= cap
    <3>1. n + amount \in 0 .. cap
      BY <1>3, <2>1, <2>4
    <3>2. r \in Counters(cap) /\ r.age = c.age
      BY <1>3, <2>1, <2>4, <3>1, CounterCases, EntryFacts
    <3> QED
      BY <1>0, <1>3, <2>1, <3>2, EntryFacts DEF NoOlder
  <2> QED
    BY <2>2, <2>3, <2>4
<1> QED
  BY <1>1, <1>2, <1>3

(* The sweep keeps types, and leaves only young entries when it is due.     *)
LEMMA PrunedFacts ==
  ASSUME NEW S, NEW T, None \in T, NEW m \in [S -> T], NEW limit
  PROVE  /\ Pruned(m, limit) \in [S -> T]
         /\ ~SweepDue => Pruned(m, limit) = m
         /\ \A k \in S : Pruned(m, limit)[k] = IF SweepDue /\ m[k].age > limit THEN None ELSE m[k]
  BY DEF Pruned


(* One map: pruned, and with an entry renewed that is no older than before. *)
LEMMA RenewedMap ==
  ASSUME NEW S, NEW T, None \in T, \A t \in T : t.age \in Nat, NEW m \in [S -> T],
         NEW limit, limit \in Nat, NEW k \in S, NEW c \in T, NoOlder(Pruned(m, limit)[k], c),
         NEW r, Renewed(m, limit, k, c, r)
  PROVE  /\ r \in [S -> T]
         /\ SweepDue => Young(r, limit)
         /\ ~SweepDue => \A L \in Nat : Young(m, L) => Young(r, L)
<1> DEFINE p == Pruned(m, limit)
<1>1. None.absent
  BY EntryFacts
<1>2. /\ p \in [S -> T] /\ (~SweepDue => p = m)
      /\ \A j \in S : p[j] = IF SweepDue /\ m[j].age > limit THEN None ELSE m[j]
  BY DEF Pruned
<1>3. SweepDue => Young(p, limit)
  <2> SUFFICES ASSUME SweepDue, NEW j \in S PROVE p[j].absent \/ p[j].age <= limit
    BY <1>2 DEF Young
  <2>1. m[j].age \in Nat
    OBVIOUS
  <2> QED
    BY <1>1, <1>2, <2>1
<1> HIDE DEF p
<1>4. r \in [S -> T] /\ \A L \in Nat : Young(p, L) => Young(r, L)
  BY <1>2 DEF Young, Renewed, NoOlder, p
<1> QED
  BY <1>2, <1>3, <1>4

(* A map of counters: pruned, and charged for a packet.                     *)
LEMMA CounterMap ==
  ASSUME NEW cap, cap \in Int, NEW S, NEW m \in [S -> Counters(cap)], NEW k \in S,
         NEW amount, amount \in Nat, NEW r,
         Renewed(m, 2 * Second, k, take(Pruned(m, 2 * Second)[k], amount, cap).c, r)
  PROVE  /\ r \in [S -> Counters(cap)]
         /\ SweepDue => Young(r, 2 * Second)
         /\ ~SweepDue => \A L \in Nat : Young(m, L) => Young(r, L)
<1> DEFINE two == 2 * Second
           p == Pruned(m, two)
           c == take(p[k], amount, cap).c
<1>1. None \in Counters(cap) /\ two \in Nat
  BY OldFacts DEF Counters
<1>2. \A t \in Counters(cap) : t.age \in Nat
  BY CounterCases, EntryFacts, OldFacts
<1>3. p \in [S -> Counters(cap)]
  BY <1>1 DEF Pruned
<1>4. c \in Counters(cap) /\ NoOlder(p[k], c)
  BY <1>3, TakeFacts
<1>5. Renewed(m, two, k, c, r)
  OBVIOUS
<1> HIDE DEF two, c
<1>6. /\ r \in [S -> Counters(cap)]
      /\ SweepDue => Young(r, two)
      /\ ~SweepDue => \A L \in Nat : Young(m, L) => Young(r, L)
  BY <1>1, <1>2, <1>4, <1>5, RenewedMap
<1> QED
  BY <1>6 DEF two

(* The effect of a packet on each variable, whatever the verdicts are.      *)
LEMMA PacketEffect ==
  ASSUME NEW src \in Names, NEW dst \in Names, NEW frame \in FrameLens, NEW a \in Addrs,
         handlePacket(src, dst, frame, a)
  PROVE  /\ \/ srcRate' = Pruned(srcRate, 2 * Second)
            \/ srcRate' = [Pruned(srcRate, 2 * Second) EXCEPT
                             ![a] = take(Pruned(srcRate, 2 * Second)[a], 1, MaxPPS).c]
         /\ \/ srcBytes' = Pruned(srcBytes, 2 * Second)
            \/ srcBytes' = [Pruned(srcBytes, 2 * Second) EXCEPT
                              ![a] = take(Pruned(srcBytes, 2 * Second)[a], Header + frame, MaxBytesPS).c]
         /\ LET nb == take(Pruned(nameBytes, 2 * Second)[dst], frame, NameQuotaBytes)
            IN  \/ nameBytes' = Pruned(nameBytes, 2 * Second) /\ recent' = recent
                \/ /\ nameBytes' = [Pruned(nameBytes, 2 * Second) EXCEPT ![dst] = nb.c]
                   /\ recent' = IF nb.ok THEN [recent EXCEPT ![dst] = [t \in Ticks |-> @[t] + frame]] ELSE recent
         /\ \/ pins' = Pruned(pins, 2 * PinGrace)
            \/ /\ pins' = [Pruned(pins, 2 * PinGrace) EXCEPT ![src] = Pin(a, 0)]
               /\ MayClaim(Pruned(pins, 2 * PinGrace)[src], a)
         /\ globalRate' = take(globalRate, 1, GlobalMaxPPS).c
         /\ \/ globalBytes' = globalBytes
            \/ globalBytes' = take(globalBytes, Header + frame, GlobalMaxBytesPS).c
         /\ lastSweep' = IF SweepDue THEN 0 ELSE lastSweep
  BY DEF handlePacket

LEMMA PinMap ==
  ASSUME pins \in [Names -> PinSet], NEW src \in Names, NEW a \in Addrs,
         pins' = Pruned(pins, 2 * PinGrace) \/ pins' = [Pruned(pins, 2 * PinGrace) EXCEPT ![src] = Pin(a, 0)]
  PROVE  /\ pins' \in [Names -> PinSet]
         /\ SweepDue => Young(pins', 2 * PinGrace)
         /\ ~SweepDue => \A L \in Nat : Young(pins, L) => Young(pins', L)
<1> DEFINE p == Pruned(pins, 2 * PinGrace)
<1>0. None \in PinSet /\ None.absent /\ 2 * PinGrace \in Nat
  BY EntryFacts, OldFacts DEF PinSet
<1>1. Pin(a, 0) \in PinSet /\ Pin(a, 0).age = 0
  BY OldFacts, PinCases, EntryFacts
<1>2. /\ p \in [Names -> PinSet] /\ (~SweepDue => p = pins)
      /\ \A j \in Names : p[j] = IF SweepDue /\ pins[j].age > 2 * PinGrace THEN None ELSE pins[j]
  BY <1>0, PrunedFacts
<1>3. SweepDue => Young(p, 2 * PinGrace)
  <2> SUFFICES ASSUME SweepDue, NEW j \in Names PROVE p[j].absent \/ p[j].age <= 2 * PinGrace
    BY <1>2 DEF Young
  <2>1. pins[j].age \in Nat
    BY PinCases, EntryFacts, OldFacts
  <2> QED
    BY <1>0, <1>2, <2>1
<1>4. pins' = p \/ pins' = [p EXCEPT ![src] = Pin(a, 0)]
  OBVIOUS
<1> HIDE DEF p
<1>5. pins' \in [Names -> PinSet] /\ \A L \in Nat : Young(p, L) => Young(pins', L)
  BY <1>1, <1>2, <1>4 DEF Young
<1> QED
  BY <1>0, <1>2, <1>3, <1>5

LEMMA PacketIInv ==
  ASSUME IInv, NEW src \in Names, NEW dst \in Names, NEW frame \in FrameLens, NEW a \in Addrs,
         handlePacket(src, dst, frame, a)
  PROVE  IInv'
<1>0. /\ TypeOK /\ frame \in Nat /\ Header + frame \in Nat /\ 1 \in Nat
      /\ 2 * Second \in Nat /\ 2 * PinGrace \in Nat
  BY FrameLensAssumption, HeaderAssumption, OldFacts DEF IInv
<1>1. /\ MaxPPS \in Int /\ MaxBytesPS \in Int /\ NameQuotaBytes \in Int
      /\ GlobalMaxPPS \in Int /\ GlobalMaxBytesPS \in Int
  BY CapsAssumption
<1>2. /\ srcRate' \in [Addrs -> Counters(MaxPPS)]
      /\ SweepDue => Young(srcRate', 2 * Second)
      /\ ~SweepDue => \A L \in Nat : Young(srcRate, L) => Young(srcRate', L)
  <2>1. srcRate \in [Addrs -> Counters(MaxPPS)]
    BY <1>0 DEF TypeOK
  <2>2. Renewed(srcRate, 2 * Second, a, take(Pruned(srcRate, 2 * Second)[a], 1, MaxPPS).c, srcRate')
    BY PacketEffect DEF Renewed
  <2> QED
    BY <1>0, <1>1, <2>1, <2>2, CounterMap
<1>3. /\ srcBytes' \in [Addrs -> Counters(MaxBytesPS)]
      /\ SweepDue => Young(srcBytes', 2 * Second)
      /\ ~SweepDue => \A L \in Nat : Young(srcBytes, L) => Young(srcBytes', L)
  <2>1. srcBytes \in [Addrs -> Counters(MaxBytesPS)]
    BY <1>0 DEF TypeOK
  <2>2. Renewed(srcBytes, 2 * Second, a, take(Pruned(srcBytes, 2 * Second)[a], Header + frame, MaxBytesPS).c, srcBytes')
    BY PacketEffect DEF Renewed
  <2> QED
    BY <1>0, <1>1, <2>1, <2>2, CounterMap
<1>4. /\ nameBytes' \in [Names -> Counters(NameQuotaBytes)]
      /\ SweepDue => Young(nameBytes', 2 * Second)
      /\ ~SweepDue => \A L \in Nat : Young(nameBytes, L) => Young(nameBytes', L)
  <2>1. nameBytes \in [Names -> Counters(NameQuotaBytes)]
    BY <1>0 DEF TypeOK
  <2>2. Renewed(nameBytes, 2 * Second, dst, take(Pruned(nameBytes, 2 * Second)[dst], frame, NameQuotaBytes).c, nameBytes')
    BY PacketEffect DEF Renewed
  <2> QED
    BY <1>0, <1>1, <2>1, <2>2, CounterMap
<1>5. /\ pins' \in [Names -> PinSet]
      /\ SweepDue => Young(pins', 2 * PinGrace)
      /\ ~SweepDue => \A L \in Nat : Young(pins, L) => Young(pins', L)
  BY <1>0, PacketEffect, PinMap DEF TypeOK, PinSet
<1>6. /\ globalRate' \in Counters(GlobalMaxPPS) /\ globalRate'.age <= Second
      /\ globalBytes' \in Counters(GlobalMaxBytesPS) /\ globalBytes'.age <= Second
  <2>1. /\ globalRate \in Counters(GlobalMaxPPS) /\ globalRate.age <= Second
        /\ globalBytes \in Counters(GlobalMaxBytesPS) /\ globalBytes.age <= Second
    BY DEF IInv, TypeOK, GlobalInv
  <2>2. globalRate' = take(globalRate, 1, GlobalMaxPPS).c
    BY PacketEffect
  <2> DEFINE len == Header + frame
  <2>3. globalBytes' = globalBytes \/ globalBytes' = take(globalBytes, len, GlobalMaxBytesPS).c
    BY PacketEffect
  <2> HIDE DEF len
  <2>4. len \in Nat
    BY <1>0 DEF len
  <2>5. globalRate' \in Counters(GlobalMaxPPS) /\ globalRate'.age <= Second
    BY <1>0, <1>1, <2>1, <2>2, TakeFacts, Zenon
  <2>6. globalBytes' \in Counters(GlobalMaxBytesPS) /\ globalBytes'.age <= Second
    BY <1>1, <2>1, <2>3, <2>4, TakeFacts, Zenon
  <2> QED
    BY <2>5, <2>6
<1>7. recent' \in [Names -> [Ticks -> Nat]]
  <2>1. recent \in [Names -> [Ticks -> Nat]]
    BY <1>0 DEF TypeOK
  <2>2. recent' = recent \/ recent' = [recent EXCEPT ![dst] = [t \in Ticks |-> @[t] + frame]]
    BY PacketEffect
  <2> DEFINE f == [t \in Ticks |-> recent[dst][t] + frame]
  <2>3. f \in [Ticks -> Nat]
    BY <1>0, <2>1
  <2>4. recent' = recent \/ recent' = [recent EXCEPT ![dst] = f]
    BY <2>1, <2>2
  <2> HIDE DEF f
  <2> QED
    BY <2>1, <2>3, <2>4
<1>8. lastSweep' = (IF SweepDue THEN 0 ELSE lastSweep) /\ lastSweep \in 0 .. Second
  BY <1>0, PacketEffect DEF TypeOK
<1>9. TypeOK'
  BY <1>2, <1>3, <1>4, <1>5, <1>6, <1>7, <1>8, OldFacts DEF TypeOK, PinSet
<1>10. PruneInv'
  <2>1. CASE SweepDue
    BY <1>2, <1>3, <1>4, <1>5, <1>8, <2>1, OldFacts DEF PruneInv
  <2>2. CASE ~SweepDue
    <3>1. 2 * Second + lastSweep \in Nat /\ 2 * PinGrace + lastSweep \in Nat
      BY <1>8, OldFacts
    <3> QED
      BY <1>2, <1>3, <1>4, <1>5, <1>8, <2>2, <3>1 DEF IInv, PruneInv
  <2> QED
    BY <2>1, <2>2
<1> QED
  BY <1>6, <1>9, <1>10 DEF IInv, GlobalInv


-----------------------------------------------------------------------------
LEMMA InitIInv == Init => IInv
<1> SUFFICES ASSUME Init PROVE IInv
  OBVIOUS
<1>1. /\ MaxPPS \in Int /\ MaxBytesPS \in Int /\ NameQuotaBytes \in Int
      /\ GlobalMaxPPS \in Int /\ GlobalMaxBytesPS \in Int
  BY CapsAssumption
<1>2. ASSUME NEW cap \in Int
      PROVE  None \in Counters(cap) /\ Counter(Second, 0) \in Counters(cap)
  <2>1. Second \in Ages /\ 0 \in 0 .. (IF cap > 0 THEN cap ELSE 0)
    BY OldFacts
  <2> QED
    BY <2>1, CounterCases
<1>3. None \in PinSet
  BY DEF PinSet
<1>4. TypeOK
  BY <1>1, <1>2, <1>3, OldFacts DEF Init, TypeOK, PinSet
<1> QED
  BY <1>4, EntryFacts, OldFacts DEF Init, IInv, PruneInv, GlobalInv

LEMMA SetAge ==
  /\ \A age, n, x : [Counter(age, n) EXCEPT !.age = x] = Counter(x, n)
  /\ \A a, age, x : [Pin(a, age) EXCEPT !.age = x] = Pin(a, x)
<1>1. ASSUME NEW age, NEW n, NEW x
      PROVE  [Counter(age, n) EXCEPT !.age = x] = Counter(x, n)
  <2> DEFINE R == [age : {age, x}, count : {n}, absent : {FALSE}]
  <2>1. Counter(age, n) \in R /\ Counter(x, n) \in R
    BY DEF Counter
  <2>2. [Counter(age, n) EXCEPT !.age = x] \in R
    BY <2>1
  <2>3. [Counter(age, n) EXCEPT !.age = x].age = x
    BY <2>1
  <2> QED
    BY <2>1, <2>2, <2>3, EntryFacts
<1>2. ASSUME NEW a, NEW age, NEW x
      PROVE  [Pin(a, age) EXCEPT !.age = x] = Pin(a, x)
  <2> DEFINE R == [addr : {a}, age : {age, x}, absent : {FALSE}]
  <2>1. Pin(a, age) \in R /\ Pin(a, x) \in R
    BY DEF Pin
  <2>2. [Pin(a, age) EXCEPT !.age = x] \in R
    BY <2>1
  <2>3. [Pin(a, age) EXCEPT !.age = x].age = x
    BY <2>1
  <2>4. Pin(a, x).age = x
    BY EntryFacts
  <2>5. ASSUME NEW r \in R, NEW s \in R, r.age = s.age PROVE r = s
    <3>1. r.addr = s.addr /\ r.absent = s.absent
      OBVIOUS
    <3>2. /\ r = [addr |-> r.addr, age |-> r.age, absent |-> r.absent]
          /\ s = [addr |-> s.addr, age |-> s.age, absent |-> s.absent]
      OBVIOUS
    <3> QED
      BY <2>5, <3>1, <3>2, Zenon
  <2> HIDE DEF R
  <2> QED
    BY <2>1, <2>2, <2>3, <2>4, <2>5
<1> QED
  BY <1>1, <1>2

(* Ageing a counter or a pin: nothing but its age changes, by a tick.       *)
LEMMA AgedCounter ==
  ASSUME NEW cap \in Int, NEW c \in Counters(cap)
  PROVE  /\ Aged(c, Old) \in Counters(cap)
         /\ Aged(c, Old).absent = c.absent
         /\ \A L \in Nat : c.absent \/ c.age <= L => Aged(c, Old).absent \/ Aged(c, Old).age <= L + 1
         /\ c.age <= Second => Aged(c, Second) \in Counters(cap) /\ Aged(c, Second).age <= Second
<1>0. Ages = 0 .. Old /\ Second \in Nat /\ Old \in Nat /\ Old > Second
  BY OldFacts
<1>1. CASE c = None
  <2>1. Aged(c, Old) = None
    BY <1>1 DEF Aged, Older, None
  <2>2. ~(c.age <= Second)
    BY <1>0, <1>1, EntryFacts
  <2> QED
    BY <1>1, <2>1, <2>2, EntryFacts
<1>2. CASE c # None
  <2>1. PICK age \in Ages, n \in 0 .. (IF cap > 0 THEN cap ELSE 0) : c = Counter(age, n)
    BY <1>2, CounterCases
  <2>2. \A limit : Aged(c, limit) = Counter(Older(age, limit), n)
    BY <2>1, SetAge, EntryFacts DEF Aged
  <2>3. Older(age, Old) \in Ages /\ Older(age, Old) <= age + 1
    BY <1>0, <2>1 DEF Older
  <2>4. age <= Second => Older(age, Second) \in Ages /\ Older(age, Second) <= Second
    BY <1>0, <2>1 DEF Older
  <2>5. age \in Int /\ Older(age, Old) \in Int
    BY <1>0, <2>1, <2>3
  <2>6. Aged(c, Old) \in Counters(cap) /\ (age <= Second => Aged(c, Second) \in Counters(cap))
    BY <2>2, <2>3, <2>4, CounterCases
  <2>7. /\ c.age = age /\ c.absent = FALSE
        /\ \A limit : Aged(c, limit).age = Older(age, limit) /\ Aged(c, limit).absent = FALSE
    BY <2>1, <2>2, EntryFacts
  <2>8. \A L \in Nat : c.age <= L => Aged(c, Old).age <= L + 1
    BY <2>3, <2>5, <2>7
  <2>9. c.age <= Second => Aged(c, Second).age <= Second
    BY <2>4, <2>7
  <2> QED
    BY <2>6, <2>7, <2>8, <2>9, Zenon
<1> QED
  BY <1>1, <1>2

LEMMA AgedPin ==
  ASSUME NEW p \in PinSet
  PROVE  /\ Aged(p, Old) \in PinSet
         /\ Aged(p, Old).absent = p.absent
         /\ ~p.absent => Aged(p, Old).addr = p.addr
         /\ \A L \in Nat : p.absent \/ p.age <= L => Aged(p, Old).absent \/ Aged(p, Old).age <= L + 1
<1>0. Ages = 0 .. Old /\ Old \in Nat
  BY OldFacts
<1>1. CASE p = None
  <2>1. Aged(p, Old) = None
    BY <1>1 DEF Aged, Older, None
  <2> QED
    BY <1>1, <2>1, EntryFacts
<1>2. CASE p # None
  <2>1. PICK a \in Addrs, age \in Ages : p = Pin(a, age)
    BY <1>2, PinCases
  <2>2. Aged(p, Old) = Pin(a, Older(age, Old))
    BY <2>1, SetAge, EntryFacts DEF Aged
  <2>3. Older(age, Old) \in Ages /\ Older(age, Old) <= age + 1
    BY <1>0, <2>1 DEF Older
  <2>4. age \in Int /\ Older(age, Old) \in Int
    BY <1>0, <2>1, <2>3
  <2>5. Aged(p, Old) \in PinSet
    BY <2>2, <2>3, PinCases
  <2>6. /\ p.age = age /\ p.absent = FALSE /\ p.addr = a
        /\ Aged(p, Old).age = Older(age, Old) /\ Aged(p, Old).absent = FALSE /\ Aged(p, Old).addr = a
    BY <2>1, <2>2, EntryFacts
  <2>7. \A L \in Nat : p.age <= L => Aged(p, Old).age <= L + 1
    BY <2>3, <2>4, <2>6
  <2> QED
    BY <2>5, <2>6, <2>7, Zenon
<1> QED
  BY <1>1, <1>2

LEMMA AgedCounterMap ==
  ASSUME NEW cap, cap \in Int, NEW S, NEW m \in [S -> Counters(cap)]
  PROVE  /\ AgedMap(m) \in [S -> Counters(cap)]
         /\ Present(AgedMap(m)) = Present(m)
         /\ \A L \in Nat : Young(m, L) => Young(AgedMap(m), L + 1)
<1> DEFINE r == AgedMap(m)
<1>1. DOMAIN r = S /\ \A k \in S : r[k] = Aged(m[k], Old)
  BY DEF AgedMap
<1>2. \A k \in S : /\ r[k] \in Counters(cap) /\ r[k].absent = m[k].absent
                   /\ \A L \in Nat : m[k].absent \/ m[k].age <= L => r[k].absent \/ r[k].age <= L + 1
  BY <1>1, AgedCounter
<1>3. r \in [S -> Counters(cap)]
  BY <1>2 DEF AgedMap
<1> HIDE DEF r
<1>4. Present(r) = Present(m)
  BY <1>2, <1>1 DEF Present
<1>5. \A L \in Nat : Young(m, L) => Young(r, L + 1)
  BY <1>2, <1>1 DEF Young
<1> QED
  BY <1>3, <1>4, <1>5 DEF r

LEMMA AgedPinMap ==
  ASSUME NEW m \in [Names -> PinSet]
  PROVE  /\ AgedMap(m) \in [Names -> PinSet]
         /\ Present(AgedMap(m)) = Present(m)
         /\ \A n \in Names : ~m[n].absent => ~AgedMap(m)[n].absent /\ AgedMap(m)[n].addr = m[n].addr
         /\ \A L \in Nat : Young(m, L) => Young(AgedMap(m), L + 1)
<1> DEFINE r == AgedMap(m)
<1>1. DOMAIN r = Names /\ \A k \in Names : r[k] = Aged(m[k], Old)
  BY DEF AgedMap
<1>2. \A k \in Names : /\ r[k] \in PinSet /\ r[k].absent = m[k].absent
                       /\ ~m[k].absent => r[k].addr = m[k].addr
                       /\ \A L \in Nat : m[k].absent \/ m[k].age <= L => r[k].absent \/ r[k].age <= L + 1
  BY <1>1, AgedPin
<1>3. r \in [Names -> PinSet]
  BY <1>2 DEF AgedMap
<1> HIDE DEF r
<1>4. Present(r) = Present(m)
  BY <1>2, <1>1 DEF Present
<1>5. \A L \in Nat : Young(m, L) => Young(r, L + 1)
  BY <1>2, <1>1 DEF Young
<1> QED
  BY <1>2, <1>3, <1>4, <1>5 DEF r


LEMMA TickIInv == ASSUME IInv, Tick PROVE IInv'
<1>1. /\ MaxPPS \in Int /\ MaxBytesPS \in Int /\ NameQuotaBytes \in Int
      /\ GlobalMaxPPS \in Int /\ GlobalMaxBytesPS \in Int
  BY CapsAssumption
<1>2. TypeOK /\ PruneInv /\ GlobalInv
  BY DEF IInv
<1>3. /\ srcRate' \in [Addrs -> Counters(MaxPPS)]
      /\ \A L \in Nat : Young(srcRate, L) => Young(srcRate', L + 1)
  <2>1. srcRate \in [Addrs -> Counters(MaxPPS)] /\ srcRate' = AgedMap(srcRate)
    BY <1>2 DEF Tick, TypeOK
  <2> QED
    BY <1>1, <2>1, AgedCounterMap
<1>4. /\ srcBytes' \in [Addrs -> Counters(MaxBytesPS)]
      /\ \A L \in Nat : Young(srcBytes, L) => Young(srcBytes', L + 1)
  <2>1. srcBytes \in [Addrs -> Counters(MaxBytesPS)] /\ srcBytes' = AgedMap(srcBytes)
    BY <1>2 DEF Tick, TypeOK
  <2> QED
    BY <1>1, <2>1, AgedCounterMap
<1>5. /\ nameBytes' \in [Names -> Counters(NameQuotaBytes)]
      /\ \A L \in Nat : Young(nameBytes, L) => Young(nameBytes', L + 1)
  <2>1. nameBytes \in [Names -> Counters(NameQuotaBytes)] /\ nameBytes' = AgedMap(nameBytes)
    BY <1>2 DEF Tick, TypeOK
  <2> QED
    BY <1>1, <2>1, AgedCounterMap
<1>6. pins' \in [Names -> PinSet] /\ \A L \in Nat : Young(pins, L) => Young(pins', L + 1)
  BY <1>2, AgedPinMap DEF Tick, TypeOK, PinSet
<1>7. /\ globalRate' \in Counters(GlobalMaxPPS) /\ globalRate'.age <= Second
      /\ globalBytes' \in Counters(GlobalMaxBytesPS) /\ globalBytes'.age <= Second
  <2>1. /\ globalRate \in Counters(GlobalMaxPPS) /\ globalRate.age <= Second
        /\ globalBytes \in Counters(GlobalMaxBytesPS) /\ globalBytes.age <= Second
    BY <1>2 DEF TypeOK, GlobalInv
  <2>2. globalRate' = Aged(globalRate, Second) /\ globalBytes' = Aged(globalBytes, Second)
    BY DEF Tick
  <2>3. globalRate' \in Counters(GlobalMaxPPS) /\ globalRate'.age <= Second
    BY <1>1, <2>1, <2>2, AgedCounter, Zenon
  <2>4. globalBytes' \in Counters(GlobalMaxBytesPS) /\ globalBytes'.age <= Second
    BY <1>1, <2>1, <2>2, AgedCounter, Zenon
  <2> QED
    BY <2>3, <2>4
<1>8. recent' \in [Names -> [Ticks -> Nat]]
  <2>1. \A n \in Names, t \in Ticks : t # 0 => recent[n][t - 1] \in Nat
    <3> SUFFICES ASSUME NEW n \in Names, NEW t \in Ticks, t # 0 PROVE recent[n][t - 1] \in Nat
      OBVIOUS
    <3>1. t - 1 \in Ticks
      BY OldFacts DEF Ticks
    <3>2. recent[n] \in [Ticks -> Nat]
      BY <1>2 DEF TypeOK
    <3> QED
      BY <3>1, <3>2
  <2> QED
    BY <2>1 DEF Tick
<1>9. lastSweep \in 0 .. Second /\ lastSweep' = Older(lastSweep, Second)
  BY <1>2 DEF Tick, TypeOK
<1>10. lastSweep' \in 0 .. Second /\ (lastSweep' < Second => lastSweep' = lastSweep + 1 /\ lastSweep < Second)
  BY <1>9, OldFacts DEF Older
<1>11. PruneInv'
  <2> SUFFICES ASSUME lastSweep' < Second PROVE PruneInv'
    BY DEF PruneInv
  <2>1. lastSweep' = lastSweep + 1 /\ lastSweep < Second
    BY <1>10
  <2> DEFINE s == 2 * Second + lastSweep
             p == 2 * PinGrace + lastSweep
  <2>2. /\ s \in Nat /\ p \in Nat
        /\ 2 * Second + lastSweep' = s + 1 /\ 2 * PinGrace + lastSweep' = p + 1
    BY <1>9, <2>1, OldFacts
  <2>3. Young(srcRate, s) /\ Young(srcBytes, s) /\ Young(nameBytes, s) /\ Young(pins, p)
    BY <1>2, <2>1 DEF PruneInv
  <2> HIDE DEF s, p
  <2>4. /\ Young(srcRate', s + 1) /\ Young(srcBytes', s + 1) /\ Young(nameBytes', s + 1)
        /\ Young(pins', p + 1)
    BY <1>3, <1>4, <1>5, <1>6, <2>2, <2>3
  <2> QED
    BY <2>2, <2>4 DEF PruneInv
<1> QED
  BY <1>3, <1>4, <1>5, <1>6, <1>7, <1>8, <1>10, <1>11 DEF IInv, TypeOK, GlobalInv, PinSet

LEMMA NextIInv == IInv /\ [Next]_vars => IInv'
<1> SUFFICES ASSUME IInv, [Next]_vars PROVE IInv'
  OBVIOUS
<1>1. CASE Tick
  BY <1>1, TickIInv
<1>2. CASE \E src, dst \in Names, frame \in FrameLens, a \in Addrs : handlePacket(src, dst, frame, a)
  BY <1>2, PacketIInv
<1>3. CASE UNCHANGED vars
  BY <1>3 DEF vars, IInv, TypeOK, PruneInv, GlobalInv, Young
<1> QED
  BY <1>1, <1>2, <1>3 DEF Next

(* The inductive invariant holds in every reachable state.                  *)
THEOREM Invariance == Spec => []IInv
  BY InitIInv, NextIInv, PTL DEF Spec

(* Every counter of take stays within its cap, whatever is sent and however *)
(* the windows and the sweeps fall.                                         *)
THEOREM TypeCorrect == Spec => []TypeOK
<1>1. IInv => TypeOK
  BY DEF IInv
<1> QED
  BY <1>1, Invariance, PTL

-----------------------------------------------------------------------------
LEMMA PinHeldStep ==
  ASSUME IInv, [Next]_vars, NEW n \in Names, ~pins[n].absent, pins[n].age <= PinGrace
  PROVE  ~pins'[n].absent /\ pins'[n].addr = pins[n].addr
<1>0. pins \in [Names -> PinSet] /\ None \in PinSet
  BY DEF IInv, TypeOK, PinSet
<1>1. CASE Tick
  BY <1>0, <1>1, AgedPinMap DEF Tick
<1>2. ASSUME NEW src \in Names, NEW dst \in Names, NEW frame \in FrameLens, NEW a \in Addrs,
             handlePacket(src, dst, frame, a)
      PROVE  ~pins'[n].absent /\ pins'[n].addr = pins[n].addr
  <2> DEFINE p == Pruned(pins, 2 * PinGrace)
  <2>1. p \in [Names -> PinSet] /\ p[n] = IF SweepDue /\ pins[n].age > 2 * PinGrace THEN None ELSE pins[n]
    BY <1>0, PrunedFacts
  <2>2. pins[n].age \in Int
    BY <1>0, PinCases, EntryFacts, OldFacts
  <2>3. ~(pins[n].age > 2 * PinGrace) /\ ~(pins[n].age > PinGrace)
    BY <2>2, OldFacts
  <2>4. p[n] = pins[n]
    BY <2>1, <2>3
  <2>5. \/ pins' = p
        \/ pins' = [p EXCEPT ![src] = Pin(a, 0)] /\ MayClaim(p[src], a)
    BY <1>2, PacketEffect
  <2> HIDE DEF p
  <2>6. CASE pins' = p
    BY <2>4, <2>6
  <2>7. CASE pins' = [p EXCEPT ![src] = Pin(a, 0)] /\ MayClaim(p[src], a) /\ src = n
    <3>1. pins'[n] = Pin(a, 0)
      BY <2>1, <2>7
    <3>2. pins[n].addr = a
      BY <2>3, <2>4, <2>7 DEF MayClaim
    <3> QED
      BY <3>1, <3>2, EntryFacts
  <2>8. CASE pins' = [p EXCEPT ![src] = Pin(a, 0)] /\ src # n
    <3>1. pins'[n] = pins[n]
      BY <2>1, <2>4, <2>8
    <3> QED
      BY <3>1
  <2> QED
    BY <2>5, <2>6, <2>7, <2>8
<1>3. CASE UNCHANGED vars
  BY <1>3 DEF vars
<1> QED
  BY <1>1, <1>2, <1>3 DEF Next

(* A fresh pin is neither lost to the sweep nor handed to another address   *)
(* by claimSrc.                                                             *)
THEOREM PinsHold == Spec => PinHeld
<1>1. IInv /\ [Next]_vars =>
        [\A n \in Names : ~pins[n].absent /\ pins[n].age <= PinGrace
           => ~pins'[n].absent /\ pins'[n].addr = pins[n].addr]_vars
  BY PinHeldStep
<1> QED
  BY <1>1, Invariance, PTL DEF Spec, PinHeld

(* A map without old entries has no idle ones.                              *)
LEMMA YoungNotIdle ==
  ASSUME NEW S, NEW T, \A t \in T : t.age \in Nat, NEW m \in [S -> T], NEW limit, limit \in Nat, Young(m, limit)
  PROVE  Idle(m, limit) = {}
<1> SUFFICES ASSUME NEW k \in Idle(m, limit) PROVE FALSE
  OBVIOUS
<1>1. k \in S /\ ~m[k].absent /\ m[k].age > limit
  BY DEF Idle, Present
<1>2. m[k].age \in Nat
  BY <1>1
<1> QED
  BY <1>1, <1>2 DEF Young

LEMMA SizeIsNat == IInv => Size \in Nat
<1> SUFFICES ASSUME IInv PROVE Size \in Nat
  OBVIOUS
<1>1. /\ Present(srcRate) \subseteq Addrs /\ Present(srcBytes) \subseteq Addrs
      /\ Present(nameBytes) \subseteq Names /\ Present(pins) \subseteq Names
  BY DEF IInv, TypeOK, Present
<1>2. /\ IsFiniteSet(Present(srcRate)) /\ IsFiniteSet(Present(srcBytes))
      /\ IsFiniteSet(Present(nameBytes)) /\ IsFiniteSet(Present(pins))
  BY <1>1, NamesAssumption, AddrsAssumption, FS_Subset
<1>3. /\ Cardinality(Present(srcRate)) \in Nat /\ Cardinality(Present(srcBytes)) \in Nat
      /\ Cardinality(Present(nameBytes)) \in Nat /\ Cardinality(Present(pins)) \in Nat
  BY <1>2, FS_CardinalityType
<1> QED
  BY <1>3 DEF Size

LEMMA GrowthStep ==
  ASSUME IInv, [Next]_vars, Size > SweepThreshold, Size' > Size
  PROVE  /\ lastSweep' < Second
         /\ Idle(srcRate', 2 * Second + lastSweep') = {}
         /\ Idle(srcBytes', 2 * Second + lastSweep') = {}
         /\ Idle(nameBytes', 2 * Second + lastSweep') = {}
         /\ Idle(pins', 2 * PinGrace + lastSweep') = {}
<1>0. /\ MaxPPS \in Int /\ MaxBytesPS \in Int /\ NameQuotaBytes \in Int
  BY CapsAssumption
<1>1. Size \in Nat
  BY SizeIsNat
<1>2. ~Tick
  <2> SUFFICES ASSUME Tick PROVE FALSE
    OBVIOUS
  <2>1. TypeOK
    BY DEF IInv
  <2>2. Present(srcRate') = Present(srcRate)
    <3>1. srcRate \in [Addrs -> Counters(MaxPPS)] /\ srcRate' = AgedMap(srcRate)
      BY <2>1 DEF Tick, TypeOK
    <3> QED
      BY <1>0, <3>1, AgedCounterMap
  <2>3. Present(srcBytes') = Present(srcBytes)
    <3>1. srcBytes \in [Addrs -> Counters(MaxBytesPS)] /\ srcBytes' = AgedMap(srcBytes)
      BY <2>1 DEF Tick, TypeOK
    <3> QED
      BY <1>0, <3>1, AgedCounterMap
  <2>4. Present(nameBytes') = Present(nameBytes)
    <3>1. nameBytes \in [Names -> Counters(NameQuotaBytes)] /\ nameBytes' = AgedMap(nameBytes)
      BY <2>1 DEF Tick, TypeOK
    <3> QED
      BY <1>0, <3>1, AgedCounterMap
  <2>5. Present(pins') = Present(pins)
    BY <2>1, AgedPinMap DEF Tick, TypeOK, PinSet
  <2>6. Size' = Size
    BY <2>2, <2>3, <2>4, <2>5 DEF Size
  <2> QED
    BY <1>1, <2>6
<1>3. ~UNCHANGED vars
  <2> SUFFICES ASSUME UNCHANGED vars PROVE FALSE
    OBVIOUS
  <2>1. Size' = Size
    BY DEF vars, Size, Present
  <2> QED
    BY <1>1, <2>1
<1>4. PICK src \in Names, dst \in Names, frame \in FrameLens, a \in Addrs : handlePacket(src, dst, frame, a)
  BY <1>2, <1>3 DEF Next
<1>5. TypeOK' /\ PruneInv'
  BY NextIInv DEF IInv
<1>6. lastSweep' < Second
  <2>1. lastSweep' = (IF SweepDue THEN 0 ELSE lastSweep) /\ lastSweep \in 0 .. Second
    BY <1>4, PacketEffect DEF IInv, TypeOK
  <2> QED
    BY <2>1, OldFacts DEF SweepDue
<1>7. lastSweep' \in Nat /\ 2 * Second + lastSweep' \in Nat /\ 2 * PinGrace + lastSweep' \in Nat
  <2>1. lastSweep' \in 0 .. Second
    BY <1>5 DEF TypeOK
  <2>2. Second \in Nat /\ PinGrace \in Nat
    BY OldFacts
  <2>3. lastSweep' \in Nat
    BY <2>1, <2>2
  <2>4. \A x, y \in Nat : 2 * x + y \in Nat
    OBVIOUS
  <2> QED
    BY <2>2, <2>3, <2>4, Zenon
<1>8. \A cap \in Int : \A t \in Counters(cap) : t.age \in Nat
  BY CounterCases, EntryFacts, OldFacts
<1>9. \A t \in PinSet : t.age \in Nat
  BY PinCases, EntryFacts, OldFacts
<1> DEFINE s == 2 * Second + lastSweep'
           p == 2 * PinGrace + lastSweep'
<1>10. Young(srcRate', s) /\ Young(srcBytes', s) /\ Young(nameBytes', s) /\ Young(pins', p)
  BY <1>5, <1>6 DEF PruneInv
<1>11. s \in Nat /\ p \in Nat
  BY <1>7
<1> HIDE DEF s, p
<1>12. Idle(srcRate', s) = {}
  <2>1. srcRate' \in [Addrs -> Counters(MaxPPS)]
    BY <1>5 DEF TypeOK
  <2>2. \A t \in Counters(MaxPPS) : t.age \in Nat
    BY <1>0, <1>8
  <2> QED
    BY <1>10, <1>11, <2>1, <2>2, YoungNotIdle
<1>13. Idle(srcBytes', s) = {}
  <2>1. srcBytes' \in [Addrs -> Counters(MaxBytesPS)]
    BY <1>5 DEF TypeOK
  <2>2. \A t \in Counters(MaxBytesPS) : t.age \in Nat
    BY <1>0, <1>8
  <2> QED
    BY <1>10, <1>11, <2>1, <2>2, YoungNotIdle
<1>14. Idle(nameBytes', s) = {}
  <2>1. nameBytes' \in [Names -> Counters(NameQuotaBytes)]
    BY <1>5 DEF TypeOK
  <2>2. \A t \in Counters(NameQuotaBytes) : t.age \in Nat
    BY <1>0, <1>8
  <2> QED
    BY <1>10, <1>11, <2>1, <2>2, YoungNotIdle
<1>15. Idle(pins', p) = {}
  <2>1. pins' \in [Names -> PinSet]
    BY <1>5 DEF TypeOK, PinSet
  <2> QED
    BY <1>9, <1>10, <1>11, <2>1, YoungNotIdle
<1> QED
  BY <1>6, <1>12, <1>13, <1>14, <1>15 DEF s, p

(* Beyond the threshold, maybeSweep keeps the maps bounded by the traffic   *)
(* of the last seconds: they grow only while nothing idle is left in them.  *)
THEOREM GrowthPruned == Spec => GrowthIsPruned
<1>1. IInv /\ [Next]_vars =>
        [Size > SweepThreshold /\ Size' > Size
           => /\ lastSweep' < Second
              /\ Idle(srcRate, 2 * Second + lastSweep)' = {}
              /\ Idle(srcBytes, 2 * Second + lastSweep)' = {}
              /\ Idle(nameBytes, 2 * Second + lastSweep)' = {}
              /\ Idle(pins, 2 * PinGrace + lastSweep)' = {}]_vars
  BY GrowthStep DEF Idle, Present
<1> QED
  BY <1>1, Invariance, PTL DEF Spec, GrowthIsPruned


-----------------------------------------------------------------------------
(* A name's counter c accounts for what was forwarded to it: all of it since *)
(* the window opened, which leaves at most one more quota from before, and   *)
(* nothing once the window was over.                                         *)
Charged(c, forwarded) ==
  \A t \in Ticks :
    /\ c.absent => forwarded[t] = 0
    /\ ~c.absent => /\ t <= c.age => forwarded[t] <= c.count
                    /\ forwarded[t] <= c.count + NameQuotaBytes
                    /\ t + Second <= c.age => forwarded[t] = 0

QuotaInv == NameQuotaBytes > 0 => \A n \in Names : Charged(nameBytes[n], recent[n])

(* Charged, for a counter that is there and for one that is not.            *)
LEMMA ChargedCases ==
  ASSUME NEW f
  PROVE  /\ Charged(None, f) <=> \A t \in Ticks : f[t] = 0
         /\ \A age, n : Charged(Counter(age, n), f) <=>
              \A t \in Ticks : /\ t <= age => f[t] <= n
                               /\ f[t] <= n + NameQuotaBytes
                               /\ t + Second <= age => f[t] = 0
<1>1. Charged(None, f) <=> \A t \in Ticks : f[t] = 0
  <2>1. None.absent
    BY EntryFacts
  <2> QED
    BY <2>1, Zenon DEF Charged
<1>2. ASSUME NEW age, NEW n
      PROVE  Charged(Counter(age, n), f) <=>
               \A t \in Ticks : /\ t <= age => f[t] <= n
                                /\ f[t] <= n + NameQuotaBytes
                                /\ t + Second <= age => f[t] = 0
  <2>1. ~Counter(age, n).absent /\ Counter(age, n).age = age /\ Counter(age, n).count = n
    BY EntryFacts
  <2> QED
    BY <2>1, Zenon DEF Charged
<1> QED
  BY <1>1, <1>2

LEMMA TicksFacts == \A t \in Ticks : t \in Nat /\ t < Second
  BY OldFacts DEF Ticks

(* take charges exactly what is forwarded, and opens a window only when no   *)
(* more than one quota was forwarded in the last second.                     *)
LEMMA TakeCharged ==
  ASSUME NEW c \in Counters(NameQuotaBytes), NEW amount \in Nat, NEW f \in [Ticks -> Nat],
         NameQuotaBytes \in Int, NameQuotaBytes > 0, Charged(c, f)
  PROVE  LET r == take(c, amount, NameQuotaBytes)
         IN  /\ r.ok => Charged(r.c, [t \in Ticks |-> f[t] + amount])
             /\ ~r.ok => Charged(r.c, f)
<1> DEFINE cap == NameQuotaBytes
           r == take(c, amount, cap)
           g == [t \in Ticks |-> f[t] + amount]
<1>0. /\ Ages = 0 .. Old /\ Second \in Nat /\ Second > 0 /\ Old \in Nat /\ Old > Second
      /\ \A t \in Ticks : f[t] \in Nat /\ g[t] = f[t] + amount /\ t \in Nat /\ t < Second
  BY OldFacts, TicksFacts
<1>1. CASE c.absent \/ c.age >= Second
  <2> DEFINE n == IF amount > cap THEN cap ELSE amount
  <2>1. r = [ok |-> amount <= cap, c |-> Counter(0, n)]
    BY <1>1 DEF take
  <2>2. \A t \in Ticks : f[t] <= cap /\ (t = 0 => f[t] = 0)
    <3>1. CASE c = None
      BY <1>0, <3>1, ChargedCases
    <3>2. CASE c # None
      <4>1. PICK age \in Ages, m \in 0 .. cap : c = Counter(age, m)
        BY <3>2, CounterCases
      <4>2. age >= Second
        BY <1>1, <4>1, EntryFacts
      <4>3. \A t \in Ticks : (t <= age => f[t] <= m) /\ (t + Second <= age => f[t] = 0)
        BY <4>1, ChargedCases
      <4> QED
        BY <1>0, <4>1, <4>2, <4>3
    <3> QED
      BY <3>1, <3>2
  <2>3. CASE amount <= cap
    <3>1. n = amount
      BY <2>3
    <3>2. r.ok /\ r.c = Counter(0, n)
      <4> HIDE DEF r, n
      <4> QED
        BY <2>1, <2>3, Zenon
    <3>3. \A t \in Ticks : (t <= 0 => g[t] <= n) /\ g[t] <= n + cap /\ (t + Second <= 0 => g[t] = 0)
      BY <1>0, <2>2, <3>1
    <3> HIDE DEF g, n
    <3>4. Charged(r.c, g)
      BY <3>3, <3>2, ChargedCases
    <3> QED
      BY <3>4, <3>2, Zenon DEF g
  <2>4. CASE ~(amount <= cap)
    <3>1. n = cap
      BY <2>4
    <3>2. ~r.ok /\ r.c = Counter(0, n)
      <4> HIDE DEF r, n
      <4> QED
        BY <2>1, <2>4, Zenon
    <3>3. \A t \in Ticks : (t <= 0 => f[t] <= n) /\ f[t] <= n + cap /\ (t + Second <= 0 => f[t] = 0)
      BY <1>0, <2>2, <3>1
    <3> HIDE DEF n
    <3>4. Charged(r.c, f)
      BY <3>3, <3>2, ChargedCases
    <3> QED
      BY <3>4, <3>2, Zenon
  <2> QED
    BY <2>3, <2>4
<1>2. CASE ~(c.absent \/ c.age >= Second)
  <2>1. PICK age \in Ages, m \in 0 .. cap : c = Counter(age, m)
    BY <1>2, CounterCases, EntryFacts
  <2>2. age < Second
    BY <1>0, <1>2, <2>1, EntryFacts
  <2>3. \A t \in Ticks : (t <= age => f[t] <= m) /\ f[t] <= m + cap
    BY <2>1, ChargedCases
  <2>4. CASE m + amount > cap
    BY <1>2, <2>1, <2>4, EntryFacts DEF take
  <2>5. CASE ~(m + amount > cap)
    <3>1. r.ok = TRUE /\ r.c = Counter(age, m + amount)
      BY <1>2, <2>1, <2>5, EntryFacts DEF take
    <3>2. \A t \in Ticks : /\ t <= age => g[t] <= m + amount
                           /\ g[t] <= (m + amount) + cap
                           /\ t + Second <= age => g[t] = 0
      BY <1>0, <2>1, <2>2, <2>3
    <3> HIDE DEF g
    <3> QED
      BY <3>1, <3>2, ChargedCases DEF g
  <2> QED
    BY <2>4, <2>5
<1> QED
  BY <1>1, <1>2

(* The sweep prunes no counter that still accounts for something.            *)
LEMMA PrunedCharged ==
  ASSUME NEW c \in Counters(NameQuotaBytes), NEW f, NameQuotaBytes \in Int, NameQuotaBytes > 0,
         Charged(c, f), c.age > 2 * Second
  PROVE  Charged(None, f)
<1>1. CASE c = None
  BY <1>1
<1>2. CASE c # None
  <2>1. PICK age \in Ages, m \in 0 .. NameQuotaBytes : c = Counter(age, m)
    BY <1>2, CounterCases
  <2>2. age > 2 * Second /\ age \in Nat /\ Second \in Nat
    BY <2>1, EntryFacts, OldFacts
  <2>3. \A t \in Ticks : t + Second <= age => f[t] = 0
    BY <2>1, ChargedCases
  <2>4. \A t \in Ticks : f[t] = 0
    BY <2>2, <2>3, TicksFacts
  <2> QED
    BY <2>4, ChargedCases
<1> QED
  BY <1>1, <1>2

(* A tick moves everything forwarded one tick back.                          *)
LEMMA AgedCharged ==
  ASSUME NEW c \in Counters(NameQuotaBytes), NEW f \in [Ticks -> Nat],
         NameQuotaBytes \in Int, NameQuotaBytes > 0, Charged(c, f)
  PROVE  Charged(Aged(c, Old), [t \in Ticks |-> IF t = 0 THEN 0 ELSE f[t - 1]])
<1> DEFINE g == [t \in Ticks |-> IF t = 0 THEN 0 ELSE f[t - 1]]
<1>0. /\ Second \in Nat /\ Second > 0 /\ Old \in Nat /\ Old > Second /\ Ages = 0 .. Old
      /\ Old >= 2 * Second + Second
  BY OldFacts
<1>1. \A t \in Ticks : /\ t \in Nat /\ t < Second
                       /\ t # 0 => t - 1 \in Ticks
  BY OldFacts DEF Ticks
<1>2. \A t \in Ticks : g[t] = IF t = 0 THEN 0 ELSE f[t - 1]
  OBVIOUS
<1>3. CASE c = None
  <2>1. Aged(c, Old) = None
    BY <1>3 DEF Aged, Older, None
  <2>2. \A t \in Ticks : g[t] = 0
    BY <1>1, <1>2, <1>3, ChargedCases
  <2> HIDE DEF g
  <2> QED
    BY <2>1, <2>2, ChargedCases DEF g
<1>4. CASE c # None
  <2>1. PICK age \in Ages, m \in 0 .. NameQuotaBytes : c = Counter(age, m)
    BY <1>4, CounterCases
  <2> DEFINE older == Older(age, Old)
  <2>2. Aged(c, Old) = Counter(older, m)
    BY <2>1, SetAge, EntryFacts DEF Aged
  <2>3. \A t \in Ticks : /\ t <= age => f[t] <= m
                         /\ f[t] <= m + NameQuotaBytes
                         /\ t + Second <= age => f[t] = 0
    BY <2>1, ChargedCases
  <2>4. older \in Nat /\ age \in Nat /\ age <= Old /\ (older = age + 1 \/ (older = age /\ age = Old))
    BY <1>0, <2>1 DEF Older
  <2> HIDE DEF older
  <2>5. ASSUME NEW t \in Ticks
        PROVE  /\ t <= older => g[t] <= m
               /\ g[t] <= m + NameQuotaBytes
               /\ t + Second <= older => g[t] = 0
    <3>1. CASE t = 0
      <4>1. g[t] = 0
        BY <3>1
      <4> QED
        BY <2>1, <4>1
    <3>2. CASE t # 0
      <4>1. g[t] = f[t - 1] /\ t - 1 \in Ticks /\ t \in Nat
        BY <1>1, <1>2, <3>2
      <4>2. /\ t - 1 <= age => f[t - 1] <= m
            /\ f[t - 1] <= m + NameQuotaBytes
            /\ (t - 1) + Second <= age => f[t - 1] = 0
        BY <2>3, <4>1
      <4>3. (t <= older => t - 1 <= age) /\ (t + Second <= older => (t - 1) + Second <= age)
        BY <1>0, <2>4, <4>1
      <4> QED
        BY <4>1, <4>2, <4>3
    <3> QED
      BY <3>1, <3>2
  <2> HIDE DEF g
  <2> QED
    BY <2>2, <2>5, ChargedCases DEF g
<1> QED
  BY <1>3, <1>4


LEMMA PacketQuota ==
  ASSUME IInv, QuotaInv, NameQuotaBytes > 0,
         NEW src \in Names, NEW dst \in Names, NEW frame \in FrameLens, NEW a \in Addrs,
         handlePacket(src, dst, frame, a), NEW n \in Names
  PROVE  Charged(nameBytes'[n], recent'[n])
<1>0. /\ NameQuotaBytes \in Int /\ frame \in Nat
      /\ None \in Counters(NameQuotaBytes)
      /\ nameBytes \in [Names -> Counters(NameQuotaBytes)]
      /\ recent \in [Names -> [Ticks -> Nat]]
      /\ \A k \in Names : Charged(nameBytes[k], recent[k])
  BY CapsAssumption, FrameLensAssumption DEF IInv, TypeOK, QuotaInv, Counters
<1> DEFINE p == Pruned(nameBytes, 2 * Second)
           nb == take(p[dst], frame, NameQuotaBytes)
           f == [t \in Ticks |-> recent[dst][t] + frame]
<1>1. p \in [Names -> Counters(NameQuotaBytes)]
  BY <1>0, PrunedFacts
<1>2. \A k \in Names : Charged(p[k], recent[k])
  <2> SUFFICES ASSUME NEW k \in Names PROVE Charged(p[k], recent[k])
    OBVIOUS
  <2>1. p[k] = IF SweepDue /\ nameBytes[k].age > 2 * Second THEN None ELSE nameBytes[k]
    BY <1>0 DEF Pruned
  <2> HIDE DEF p
  <2>2. nameBytes[k].age > 2 * Second => Charged(None, recent[k])
    BY <1>0, PrunedCharged
  <2> QED
    BY <1>0, <2>1, <2>2
<1>3. \/ nameBytes' = p /\ recent' = recent
      \/ /\ nameBytes' = [p EXCEPT ![dst] = nb.c]
         /\ recent' = IF nb.ok THEN [recent EXCEPT ![dst] = f] ELSE recent
  <2>1. [recent EXCEPT ![dst] = [t \in Ticks |-> @[t] + frame]] = [recent EXCEPT ![dst] = f]
    BY <1>0
  <2> HIDE DEF f
  <2> QED
    BY <2>1, PacketEffect
<1> HIDE DEF p
<1>4. (nb.ok => Charged(nb.c, f)) /\ (~nb.ok => Charged(nb.c, recent[dst]))
  <2>1. p[dst] \in Counters(NameQuotaBytes) /\ recent[dst] \in [Ticks -> Nat] /\ Charged(p[dst], recent[dst])
    BY <1>0, <1>1, <1>2
  <2> QED
    BY <1>0, <2>1, TakeCharged
<1> HIDE DEF nb, f
<1>5. CASE nameBytes' = p /\ recent' = recent
  BY <1>2, <1>5
<1>6. CASE nameBytes' = [p EXCEPT ![dst] = nb.c] /\ nb.ok /\ recent' = [recent EXCEPT ![dst] = f]
  BY <1>0, <1>1, <1>2, <1>4, <1>6
<1>7. CASE nameBytes' = [p EXCEPT ![dst] = nb.c] /\ ~nb.ok /\ recent' = recent
  BY <1>0, <1>1, <1>2, <1>4, <1>7
<1> QED
  BY <1>3, <1>5, <1>6, <1>7

LEMMA QuotaStep == IInv /\ QuotaInv /\ [Next]_vars => QuotaInv'
<1> SUFFICES ASSUME IInv, QuotaInv, [Next]_vars, NameQuotaBytes > 0, NEW n \in Names
             PROVE  Charged(nameBytes'[n], recent'[n])
  BY DEF QuotaInv, Charged
<1>0. /\ NameQuotaBytes \in Int
      /\ nameBytes \in [Names -> Counters(NameQuotaBytes)]
      /\ recent \in [Names -> [Ticks -> Nat]]
      /\ Charged(nameBytes[n], recent[n])
  BY CapsAssumption DEF IInv, TypeOK, QuotaInv
<1>1. CASE Tick
  <2>1. /\ nameBytes'[n] = Aged(nameBytes[n], Old)
        /\ recent'[n] = [t \in Ticks |-> IF t = 0 THEN 0 ELSE recent[n][t - 1]]
    BY <1>0, <1>1 DEF Tick, AgedMap
  <2>2. nameBytes[n] \in Counters(NameQuotaBytes) /\ recent[n] \in [Ticks -> Nat]
    BY <1>0
  <2> QED
    BY <1>0, <2>1, <2>2, AgedCharged
<1>2. CASE \E src, dst \in Names, frame \in FrameLens, a \in Addrs : handlePacket(src, dst, frame, a)
  BY <1>2, PacketQuota
<1>3. CASE UNCHANGED vars
  BY <1>0, <1>3 DEF vars
<1> QED
  BY <1>1, <1>2, <1>3 DEF Next

(* allowNameBytes: whatever is sent, refused or pruned, at most two quotas   *)
(* are forwarded to a name within any second.                                *)
THEOREM TwoQuotas == Spec => []AtMostTwoQuotas
<1>1. Init => QuotaInv
  <2> SUFFICES ASSUME Init, NEW n \in Names PROVE Charged(nameBytes[n], recent[n])
    BY DEF QuotaInv
  <2>1. nameBytes[n] = None /\ \A t \in Ticks : recent[n][t] = 0
    BY DEF Init
  <2> QED
    BY <2>1, ChargedCases
<1>2. IInv /\ QuotaInv => AtMostTwoQuotas
  <2> SUFFICES ASSUME IInv, QuotaInv, NameQuotaBytes > 0, NEW n \in Names
               PROVE  recent[n][Second - 1] <= 2 * NameQuotaBytes
    BY DEF AtMostTwoQuotas, InLastSecond
  <2>1. /\ NameQuotaBytes \in Int /\ Second - 1 \in Ticks
        /\ nameBytes[n] \in Counters(NameQuotaBytes) /\ Charged(nameBytes[n], recent[n])
        /\ recent[n] \in [Ticks -> Nat]
    BY CapsAssumption, OldFacts DEF IInv, TypeOK, QuotaInv, Ticks
  <2>2. recent[n][Second - 1] \in Nat
    BY <2>1
  <2>3. CASE nameBytes[n] = None
    <3>1. recent[n][Second - 1] = 0
      BY <2>1, <2>3, ChargedCases
    <3> QED
      BY <2>1, <3>1
  <2>4. CASE nameBytes[n] # None
    <3>1. PICK age \in Ages, m \in 0 .. NameQuotaBytes : nameBytes[n] = Counter(age, m)
      BY <2>1, <2>4, CounterCases
    <3>2. recent[n][Second - 1] <= m + NameQuotaBytes
      BY <2>1, <3>1, ChargedCases
    <3> QED
      BY <2>1, <2>2, <3>1, <3>2
  <2> QED
    BY <2>3, <2>4
<1> QED
  BY <1>1, <1>2, InitIInv, NextIInv, QuotaStep, PTL DEF Spec
=============================================================================
