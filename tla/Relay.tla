------------------------------- MODULE Relay -------------------------------
(***************************************************************************)
(* The relay server (src/internal/relay/relay.go): names pinned to the     *)
(* address that claimed them, windowed budgets per source, per destination *)
(* name and for the whole server, and the sweep that prunes idle entries.  *)
(* One goroutine handles one packet after the other.                       *)
(*                                                                         *)
(* Every timestamp is only ever compared with the current time, so it is   *)
(* kept as an age in ticks, which stops growing beyond every threshold it  *)
(* is compared with.  Packets that do not parse change nothing but a       *)
(* statistic and are left out.                                             *)
(***************************************************************************)
EXTENDS Integers, FiniteSets

CONSTANTS Names, Addrs,
          FrameLens,         \* lengths of the inner frames
          Header,            \* length the relay header adds
          Second,            \* ticks in one second
          PinGrace,          \* ticks
          MaxPPS, MaxBytesPS, NameQuotaBytes,  \* budgets; not positive: disabled
          GlobalMaxPPS, GlobalMaxBytesPS,
          SweepThreshold     \* map entries before the sweep starts: 4096 in the code

ASSUME NamesAssumption == IsFiniteSet(Names)
ASSUME AddrsAssumption == IsFiniteSet(Addrs)
ASSUME FrameLensAssumption == FrameLens \subseteq Nat
ASSUME HeaderAssumption == Header \in Nat
ASSUME SecondAssumption == Second \in Nat \ {0}
ASSUME PinGraceAssumption == PinGrace \in Nat \ {0}
ASSUME CapsAssumption ==
  {MaxPPS, MaxBytesPS, NameQuotaBytes, GlobalMaxPPS, GlobalMaxBytesPS} \subseteq Int
ASSUME SweepThresholdAssumption == SweepThreshold \in Nat

VARIABLES pins,         \* name -> pinned address and its idle time
          srcRate,      \* address -> counter
          srcBytes,     \* address -> counter
          nameBytes,    \* destination name -> counter
          globalRate, globalBytes,
          lastSweep,    \* age of the last sweep
          recent        \* history: bytes forwarded to a name in the last t + 1 ticks, for t < Second

vars == <<pins, srcRate, srcBytes, nameBytes, globalRate, globalBytes, lastSweep, recent>>

\* An age of a map entry that no threshold can tell from a greater one.  For
\* the other timestamps that age is Second.
Old == 2 * (IF PinGrace > Second THEN PinGrace ELSE Second) + Second
Ages == 0 .. Old

\* The ticks of the current second, counted back from now.
Ticks == 0 .. Second - 1

\* A map without an entry for the key.
None == [age |-> Old, absent |-> TRUE]
Pin(a, age) == [addr |-> a, age |-> age, absent |-> FALSE]
Counter(age, count) == [age |-> age, count |-> count, absent |-> FALSE]

Present(m) == {k \in DOMAIN m : ~m[k].absent}

Size == Cardinality(Present(srcRate)) + Cardinality(Present(srcBytes))
          + Cardinality(Present(nameBytes)) + Cardinality(Present(pins))

\* The zero value of a counter: its window has always been over.
Init ==
  /\ pins = [n \in Names |-> None]
  /\ srcRate = [a \in Addrs |-> None]
  /\ srcBytes = [a \in Addrs |-> None]
  /\ nameBytes = [n \in Names |-> None]
  /\ globalRate = Counter(Second, 0) /\ globalBytes = Counter(Second, 0)
  /\ lastSweep = Second
  /\ recent = [n \in Names |-> [t \in Ticks |-> 0]]

-----------------------------------------------------------------------------
\* Mutant: the clamp is missing, so an oversized packet overdraws its window.
takeUnclamped(c, amount, cap) ==
  IF cap <= 0 THEN [ok |-> TRUE, c |-> c]
  ELSE IF c.absent \/ c.age >= Second
    THEN [ok |-> amount <= cap, c |-> Counter(0, amount)]
  ELSE IF c.count + amount > cap THEN [ok |-> FALSE, c |-> c]
  ELSE [ok |-> TRUE, c |-> Counter(c.age, c.count + amount)]

\* Mutant: the packet that opens a window is not charged to it.
takeUncharged(c, amount, cap) ==
  IF cap <= 0 THEN [ok |-> TRUE, c |-> c]
  ELSE IF c.absent \/ c.age >= Second THEN [ok |-> amount <= cap, c |-> Counter(0, 0)]
  ELSE IF c.count + amount > cap THEN [ok |-> FALSE, c |-> c]
  ELSE [ok |-> TRUE, c |-> Counter(c.age, c.count + amount)]

\* take and takeGlobal: the verdict, and the counter afterwards.
take(c, amount, cap) ==
  IF cap <= 0 THEN [ok |-> TRUE, c |-> c]
  ELSE IF c.absent \/ c.age >= Second
    THEN [ok |-> amount <= cap, c |-> Counter(0, IF amount > cap THEN cap ELSE amount)]
  ELSE IF c.count + amount > cap THEN [ok |-> FALSE, c |-> c]
  ELSE [ok |-> TRUE, c |-> Counter(c.age, c.count + amount)]

\* Mutant: the pin lapses one tick too early.
MayClaimEarly(p, a) == p.absent \/ p.addr = a \/ p.age >= PinGrace

\* A packet from address a may carry the name that pin p belongs to.
MayClaim(p, a) == p.absent \/ p.addr = a \/ p.age > PinGrace

\* Mutant: the sweep waits one tick longer.
SweepDueLate == Size > SweepThreshold /\ lastSweep > Second

SweepDue == Size > SweepThreshold /\ lastSweep >= Second

\* maybeSweep on one map.
Pruned(m, limit) ==
  IF SweepDue THEN [k \in DOMAIN m |-> IF m[k].age > limit THEN None ELSE m[k]] ELSE m

handlePacket(src, dst, frame, a) ==
  LET len    == Header + frame
      rate   == Pruned(srcRate, 2 * Second)
      bytes  == Pruned(srcBytes, 2 * Second)
      quota  == Pruned(nameBytes, 2 * Second)
      pinned == Pruned(pins, 2 * PinGrace)
      gr == take(globalRate, 1, GlobalMaxPPS)
      gb == take(globalBytes, len, GlobalMaxBytesPS)
      sr == take(rate[a], 1, MaxPPS)
      sb == take(bytes[a], len, MaxBytesPS)
      nb == take(quota[dst], frame, NameQuotaBytes)
      claimed   == gr.ok /\ gb.ok /\ MayClaim(pinned[src], a)
      wrapped   == claimed /\ sr.ok /\ sb.ok
      known     == wrapped /\ (dst = src \/ ~pinned[dst].absent)
      forwarded == known /\ nb.ok
  IN  /\ globalRate' = gr.c
      /\ globalBytes' = IF gr.ok THEN gb.c ELSE globalBytes
      /\ pins' = IF claimed THEN [pinned EXCEPT ![src] = Pin(a, 0)] ELSE pinned
      /\ srcRate' = IF claimed THEN [rate EXCEPT ![a] = sr.c] ELSE rate
      /\ srcBytes' = IF claimed /\ sr.ok THEN [bytes EXCEPT ![a] = sb.c] ELSE bytes
      /\ nameBytes' = IF known THEN [quota EXCEPT ![dst] = nb.c] ELSE quota
      /\ recent' = IF forwarded THEN [recent EXCEPT ![dst] = [t \in Ticks |-> @[t] + frame]] ELSE recent
      /\ lastSweep' = IF SweepDue THEN 0 ELSE lastSweep

Older(age, limit) == IF age = limit THEN limit ELSE age + 1
Aged(c, limit) == [c EXCEPT !.age = Older(@, limit)]
AgedMap(m) == [k \in DOMAIN m |-> Aged(m[k], Old)]

\* Time passes.
Tick ==
  /\ pins' = AgedMap(pins)
  /\ srcRate' = AgedMap(srcRate) /\ srcBytes' = AgedMap(srcBytes)
  /\ nameBytes' = AgedMap(nameBytes)
  /\ globalRate' = Aged(globalRate, Second) /\ globalBytes' = Aged(globalBytes, Second)
  /\ lastSweep' = Older(lastSweep, Second)
  /\ recent' = [n \in Names |-> [t \in Ticks |-> IF t = 0 THEN 0 ELSE recent[n][t - 1]]]

Next ==
  \/ Tick
  \/ \E src, dst \in Names, frame \in FrameLens, a \in Addrs : handlePacket(src, dst, frame, a)

Spec == Init /\ [][Next]_vars

-----------------------------------------------------------------------------
Counters(cap) == {None} \cup {Counter(age, n) : age \in Ages, n \in 0 .. (IF cap > 0 THEN cap ELSE 0)}

\* In particular no counter ever exceeds its cap.
TypeOK ==
  /\ pins \in [Names -> {None} \cup {Pin(a, age) : a \in Addrs, age \in Ages}]
  /\ srcRate \in [Addrs -> Counters(MaxPPS)]
  /\ srcBytes \in [Addrs -> Counters(MaxBytesPS)]
  /\ nameBytes \in [Names -> Counters(NameQuotaBytes)]
  /\ globalRate \in Counters(GlobalMaxPPS) /\ globalBytes \in Counters(GlobalMaxBytesPS)
  /\ lastSweep \in 0 .. Second
  /\ recent \in [Names -> [Ticks -> Nat]]

\* While a pin is fresh, neither a packet from elsewhere nor the sweep takes
\* the name away from the address it is pinned to.
PinHeld ==
  [][\A n \in Names : ~pins[n].absent /\ pins[n].age <= PinGrace
       => ~pins'[n].absent /\ pins'[n].addr = pins[n].addr]_vars

Idle(m, limit) == {k \in Present(m) : m[k].age > limit}

\* Beyond the threshold the maps grow only when every idle entry was pruned
\* within the last second: their size is bounded by the senders of the last
\* seconds, not by all the addresses and names ever seen.
GrowthIsPruned ==
  [][Size > SweepThreshold /\ Size' > Size
       => /\ lastSweep' < Second
          /\ Idle(srcRate, 2 * Second + lastSweep)' = {}
          /\ Idle(srcBytes, 2 * Second + lastSweep)' = {}
          /\ Idle(nameBytes, 2 * Second + lastSweep)' = {}
          /\ Idle(pins, 2 * PinGrace + lastSweep)' = {}]_vars

InLastSecond(n) == recent[n][Second - 1]

\* A second that straddles two windows of a name's counter carries at most two
\* quotas, whatever is sent, pruned or refused in between.
AtMostTwoQuotas == NameQuotaBytes > 0 => \A n \in Names : InLastSecond(n) <= 2 * NameQuotaBytes
=============================================================================
