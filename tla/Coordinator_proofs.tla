------------------------ MODULE Coordinator_proofs ------------------------
(***************************************************************************)
(* Proofs about the coordinator's registry and its broadcasts, for any     *)
(* sets of connections and names, any keys, any registry cap and any       *)
(* number of register messages; and, at the end, about the goroutines that *)
(* write to one of its connections (ControlWrite).                         *)
(***************************************************************************)
EXTENDS Coordinator, ControlWrite, FiniteSetTheorems, TLAPS

Owns(c, i) == i \in Registered /\ registrations[i].owner = c

(* A handler that works on a register message has one.                      *)
MsgInv == \A c \in Conns : pc[c] = "register" => msg[c] \in MayRegister[c] /\ msg[c] \in IDs

(* Only a connection whose handshake is done owns a registration.           *)
OwnerInv == \A c \in Conns : pc[c] \in {"start", "handshake"} => \A i \in IDs : ~Owns(c, i)

(* e is about to write to c a list that has the name i.                     *)
OnItsWay(e, i, c) ==
  i \in list[e] /\ (pc[e] = "broadcast" \/ (pc[e] = "write" /\ c \in todo[e]))

(* Of any two live clients, each was told of the other or is about to be.   *)
ToldInv ==
  \A c, d \in Live : clients[d].id \in told[c] \/ \E e \in Conns : OnItsWay(e, clients[d].id, c)

IInv == TypeOK /\ IsFiniteSet(Registered) /\ MsgInv /\ OwnerInv /\ ToldInv

-----------------------------------------------------------------------------
LEMMA RegistrationFacts ==
  ASSUME NEW c
  PROVE  /\ Registration(c) # NoReg
         /\ Registration(c).owner = c /\ Registration(c).key = KeyOf[c]
  BY DEF Registration, NoReg

LEMMA ClientFacts ==
  ASSUME NEW i
  PROVE  /\ Client(i) # Untracked
         /\ Client(i).id = i
         /\ \A j : Client(i) = Client(j) => i = j
  BY DEF Client, Untracked

LEMMA InitIInv == Init => IInv
<1> SUFFICES ASSUME Init PROVE IInv
  OBVIOUS
<1>1. Registered = {}
  BY DEF Init, Registered
<1>2. Cardinality(Registered) = 0 /\ IsFiniteSet(Registered)
  BY <1>1, FS_EmptySet
<1>3. TypeOK
  BY <1>2, MaxRegistrationsAssumption, MaxMsgsAssumption DEF Init, TypeOK
<1> QED
  BY <1>1, <1>2, <1>3 DEF Init, IInv, MsgInv, OwnerInv, Owns, ToldInv, Live

(* What cleanupConn does to the registry: it only releases names, and only  *)
(* those of the connection; nobody becomes live.                            *)
LEMMA Cleanup ==
  ASSUME TypeOK, IsFiniteSet(Registered), NEW d \in Conns, cleanupConn(d)
  PROVE  /\ registrations' \in [IDs -> {NoReg} \cup {Registration(c) : c \in Conns}]
         /\ clients' \in [Conns -> {Untracked, Tracked} \cup {Client(i) : i \in IDs}]
         /\ ctrlConns' \subseteq Conns /\ open' \subseteq Conns
         /\ IsFiniteSet(Registered') /\ Cardinality(Registered') <= MaxRegistrations
         /\ \A i \in Registered' : i \in Registered /\ registrations'[i] = registrations[i]
         /\ \A c \in Live' : c \in Live /\ clients'[c] = clients[c]
<1>1. /\ registrations' \in [IDs -> {NoReg} \cup {Registration(c) : c \in Conns}]
      /\ \A i \in IDs : registrations'[i] # NoReg => registrations'[i] = registrations[i]
  BY DEF cleanupConn, TypeOK
<1>2. \A i \in Registered' : i \in Registered /\ registrations'[i] = registrations[i]
  BY <1>1 DEF Registered
<1>3. IsFiniteSet(Registered') /\ Cardinality(Registered') <= Cardinality(Registered)
  BY <1>2, FS_Subset
<1>4. /\ Cardinality(Registered') \in Nat /\ Cardinality(Registered) \in Nat
      /\ Cardinality(Registered) <= MaxRegistrations
  BY <1>3, FS_CardinalityType DEF TypeOK
<1>5. /\ clients' \in [Conns -> {Untracked, Tracked} \cup {Client(i) : i \in IDs}]
      /\ ctrlConns' = ctrlConns \ {d} /\ open' = open \ {d}
      /\ \A c \in Conns : c # d => clients'[c] = clients[c]
  BY DEF cleanupConn, TypeOK
<1>6. \A c \in Live' : c \in Live /\ clients'[c] = clients[c]
  BY <1>2, <1>5 DEF Live, TypeOK
<1> QED
  BY <1>1, <1>2, <1>3, <1>4, <1>5, <1>6, MaxRegistrationsAssumption DEF TypeOK

(* What a registration does to the registry.                                *)
LEMMA Registers ==
  ASSUME IInv, NEW c \in Conns, Register(c)
  PROVE  /\ msg[c] \in IDs /\ clients' = [clients EXCEPT ![c] = Client(msg[c])]
         /\ registrations' = [registrations EXCEPT ![msg[c]] = Registration(c)]
         /\ Registered' = Registered \cup {msg[c]}
         /\ IsFiniteSet(Registered') /\ Cardinality(Registered') <= MaxRegistrations
         /\ \A i \in Registered : registrations'[i].key = registrations[i].key
<1>1. /\ msg[c] \in IDs /\ clients' = [clients EXCEPT ![c] = Client(msg[c])]
      /\ registrations' = [registrations EXCEPT ![msg[c]] = Registration(c)]
      /\ registrations \in [IDs -> {NoReg} \cup {Registration(d) : d \in Conns}]
  BY DEF Register, IInv, MsgInv, TypeOK
<1>2. Registered' = Registered \cup {msg[c]}
  BY <1>1, RegistrationFacts DEF Registered
<1>3. IsFiniteSet(Registered) /\ Cardinality(Registered) \in Nat /\ Cardinality(Registered) <= MaxRegistrations
  BY FS_CardinalityType DEF IInv, TypeOK
<1>4. CASE registrations[msg[c]] = NoReg
  <2>1. msg[c] \notin Registered /\ Cardinality(Registered) < MaxRegistrations
    BY <1>1, <1>3, <1>4, MaxRegistrationsAssumption DEF Registered, Register, Refused
  <2>2. IsFiniteSet(Registered') /\ Cardinality(Registered') = Cardinality(Registered) + 1
    BY <1>2, <1>3, <2>1, FS_AddElement
  <2>3. \A i \in Registered : registrations'[i] = registrations[i]
    BY <1>1, <2>1 DEF Registered
  <2> QED
    BY <1>1, <1>2, <1>3, <2>1, <2>2, <2>3, MaxRegistrationsAssumption
<1>5. CASE registrations[msg[c]] # NoReg
  <2>1. Registered' = Registered
    BY <1>1, <1>2, <1>5 DEF Registered
  <2>2. registrations[msg[c]].key = KeyOf[c]
    BY <1>5 DEF Register, Refused
  <2>3. \A i \in Registered : registrations'[i].key = registrations[i].key
    BY <1>1, <2>2, RegistrationFacts DEF Registered
  <2> QED
    BY <1>1, <1>2, <1>3, <2>1, <2>3
<1> QED
  BY <1>4, <1>5

-----------------------------------------------------------------------------
(* A step that leaves the registry, the sessions and the broadcasts under   *)
(* way as they are tells nobody less.                                       *)
LEMMA ToldKept ==
  ASSUME ToldInv,
         \A c \in Live' : c \in Live /\ clients'[c].id = clients[c].id,
         \A c \in Conns : told[c] \subseteq told'[c],
         \A c \in Live', e \in Conns, i \in IDs :
           OnItsWay(e, i, c) => OnItsWay(e, i, c)' \/ i \in told'[c],
         TypeOK
  PROVE  ToldInv'
<1>1. SUFFICES ASSUME NEW c \in Live', NEW d \in Live'
               PROVE  \/ (clients[d].id \in told[c])'
                      \/ \E e \in Conns : OnItsWay(e, clients[d].id, c)'
  BY DEF ToldInv
<1>2. c \in Live /\ d \in Live /\ clients'[d].id = clients[d].id /\ c \in Conns
  BY <1>1 DEF Live, TypeOK
<1>3. PICK i \in IDs : i = clients[d].id /\ i = clients'[d].id
  BY <1>2, ClientFacts DEF Live, Registered
<1>4. CASE i \in told[c]
  BY <1>2, <1>3, <1>4
<1>5. CASE \E e \in Conns : OnItsWay(e, i, c)
  <2>1. PICK e \in Conns : OnItsWay(e, i, c)
    BY <1>5
  <2>2. OnItsWay(e, i, c)' \/ i \in told'[c]
    BY <1>1, <1>3, <2>1
  <2>3. OnItsWay(e, i, c)' => OnItsWay(e, clients[d].id, c)'
    BY <1>3 DEF OnItsWay
  <2> QED
    BY <1>3, <2>2, <2>3
<1> QED
  BY <1>2, <1>3, <1>4, <1>5 DEF ToldInv

LEMMA AcceptIInv == ASSUME IInv, NEW c \in Conns, Accept(c) PROVE IInv'
<1> USE DEF IInv
<1>1. TypeOK' /\ Registered' = Registered
  BY DEF TypeOK, Accept, Goto, Registered
<1>2. MsgInv' /\ OwnerInv'
  BY DEF TypeOK, MsgInv, OwnerInv, Owns, Accept, Goto, Registered
<1>3. ASSUME NEW d \in Live' PROVE d # c
  BY <1>3, <1>1 DEF Live, Accept, OwnerInv, Owns, TypeOK, Registered
<1>4. \A d \in Live' : d \in Live /\ clients'[d].id = clients[d].id
  BY <1>1, <1>3 DEF Live, Accept, TypeOK
<1>5. \A d \in Live', e \in Conns, i \in IDs : OnItsWay(e, i, d) => OnItsWay(e, i, d)'
  BY DEF OnItsWay, Accept, Goto, TypeOK
<1>6. ToldInv'
  BY <1>4, <1>5, ToldKept DEF Accept
<1> QED
  BY <1>1, <1>2, <1>6

LEMMA HandshakeIInv == ASSUME IInv, NEW c \in Conns, Handshake(c) PROVE IInv'
<1> USE DEF IInv
<1>1. TypeOK' /\ Registered' = Registered
  BY DEF TypeOK, Handshake, Goto, Registered
<1>2. MsgInv' /\ OwnerInv'
  BY DEF TypeOK, MsgInv, OwnerInv, Owns, Handshake, Goto, Registered
<1>3. ASSUME NEW d \in Live' PROVE d # c
  BY <1>3, <1>1 DEF Live, Handshake, OwnerInv, Owns, TypeOK, Registered
<1>4. \A d \in Live' : d \in Live /\ clients'[d].id = clients[d].id
  BY <1>1, <1>3 DEF Live, Handshake, TypeOK
<1>5. \A d \in Live', e \in Conns, i \in IDs : OnItsWay(e, i, d) => OnItsWay(e, i, d)'
  BY DEF OnItsWay, Handshake, Goto, TypeOK
<1>6. ToldInv'
  BY <1>4, <1>5, ToldKept DEF Handshake
<1> QED
  BY <1>1, <1>2, <1>6

LEMMA ReadRegisterIInv == ASSUME IInv, NEW c \in Conns, ReadRegister(c) PROVE IInv'
<1> USE DEF IInv
<1>1. PICK i \in MayRegister[c] : msg' = [msg EXCEPT ![c] = i]
  BY DEF ReadRegister
<1>2. i \in IDs
  BY MayRegisterAssumption
<1>3. msgs' \in [Conns -> 0 .. MaxMsgs]
  BY MaxMsgsAssumption DEF ReadRegister, TypeOK
<1>4. TypeOK' /\ Registered' = Registered
  BY <1>1, <1>2, <1>3 DEF TypeOK, ReadRegister, Goto, Registered
<1>5. MsgInv' /\ OwnerInv'
  BY <1>1, <1>2 DEF TypeOK, MsgInv, OwnerInv, Owns, ReadRegister, Goto, Registered
<1>6. Live' = Live
  BY <1>4 DEF Live, ReadRegister
<1>7. \A d \in Live', e \in Conns, j \in IDs : OnItsWay(e, j, d) => OnItsWay(e, j, d)'
  BY DEF OnItsWay, ReadRegister, Goto, TypeOK
<1>8. ToldInv'
  BY <1>6, <1>7, ToldKept DEF ReadRegister
<1> QED
  BY <1>4, <1>5, <1>8

LEMMA RefuseIInv == ASSUME IInv, NEW c \in Conns, Refuse(c) PROVE IInv'
<1> USE DEF IInv
<1>1. TypeOK' /\ Registered' = Registered
  BY DEF TypeOK, Refuse, Goto, Registered
<1>2. MsgInv' /\ OwnerInv'
  BY DEF TypeOK, MsgInv, OwnerInv, Owns, Refuse, Goto, Registered
<1>3. Live' = Live
  BY <1>1 DEF Live, Refuse
<1>4. \A d \in Live', e \in Conns, j \in IDs : OnItsWay(e, j, d) => OnItsWay(e, j, d)'
  BY DEF OnItsWay, Refuse, Goto, TypeOK
<1>5. ToldInv'
  BY <1>3, <1>4, ToldKept DEF Refuse
<1> QED
  BY <1>1, <1>2, <1>5

(* The list of a registration has every live client's name, so that its     *)
(* broadcast is on its way to tell everybody of everybody.                  *)
LEMMA RegisterIInv == ASSUME IInv, NEW c \in Conns, Register(c) PROVE IInv'
<1> USE DEF IInv
<1>1. /\ msg[c] \in IDs /\ clients' = [clients EXCEPT ![c] = Client(msg[c])]
      /\ registrations' = [registrations EXCEPT ![msg[c]] = Registration(c)]
      /\ Registered' = Registered \cup {msg[c]}
      /\ IsFiniteSet(Registered') /\ Cardinality(Registered') <= MaxRegistrations
  BY Registers
<1>2. TypeOK'
  BY <1>1 DEF TypeOK, Register, Goto, Registered
<1>3. MsgInv'
  BY DEF TypeOK, MsgInv, Register, Goto
<1>4. OwnerInv'
  BY <1>1, RegistrationFacts DEF TypeOK, OwnerInv, Owns, Register, Goto, Registered
<1>5. ASSUME NEW d \in Live', NEW e \in Live' PROVE OnItsWay(c, clients[d].id, e)'
  <2>1. clients'[d].id \in Registered'
    BY <1>5, ClientFacts DEF Live
  <2> QED
    BY <2>1 DEF OnItsWay, Register, Goto, TypeOK
<1>6. ToldInv'
  BY <1>5 DEF ToldInv
<1> QED
  BY <1>1, <1>2, <1>3, <1>4, <1>6

LEMMA BroadcastIInv == ASSUME IInv, NEW c \in Conns, Broadcast(c) PROVE IInv'
<1> USE DEF IInv
<1>1. TypeOK' /\ Registered' = Registered
  BY DEF TypeOK, Broadcast, Goto, Registered
<1>2. MsgInv' /\ OwnerInv'
  BY DEF TypeOK, MsgInv, OwnerInv, Owns, Broadcast, Goto, Registered
<1>3. Live' = Live /\ Live \subseteq ctrlConns
  BY <1>1 DEF Live, Broadcast
<1>4. \A d \in Live', e \in Conns, j \in IDs : OnItsWay(e, j, d) => OnItsWay(e, j, d)'
  BY <1>3 DEF OnItsWay, Broadcast, Goto, TypeOK
<1>5. ToldInv'
  BY <1>3, <1>4, ToldKept DEF Broadcast
<1> QED
  BY <1>1, <1>2, <1>5

LEMMA WriteIInv == ASSUME IInv, NEW c \in Conns, NEW d \in Conns, Write(c, d) PROVE IInv'
<1> USE DEF IInv
<1>1. TypeOK' /\ Registered' = Registered
  BY DEF TypeOK, Write, Registered
<1>2. MsgInv' /\ OwnerInv'
  BY DEF TypeOK, MsgInv, OwnerInv, Owns, Write, Registered
<1>3. Live' = Live
  BY <1>1 DEF Live, Write
<1>4. ASSUME NEW x \in Live', NEW e \in Conns, NEW j \in IDs, OnItsWay(e, j, x)
      PROVE  OnItsWay(e, j, x)' \/ j \in told'[x]
  BY <1>3, <1>4 DEF OnItsWay, Write, TypeOK, Live
<1>5. \A x \in Conns : told[x] \subseteq told'[x]
  BY DEF Write, TypeOK
<1>6. ToldInv'
  BY <1>3, <1>4, <1>5, ToldKept DEF Write
<1> QED
  BY <1>1, <1>2, <1>6

LEMMA WriteFailsIInv == ASSUME IInv, NEW c \in Conns, NEW d \in Conns, WriteFails(c, d) PROVE IInv'
<1> USE DEF IInv
<1>1. /\ registrations' \in [IDs -> {NoReg} \cup {Registration(x) : x \in Conns}]
      /\ clients' \in [Conns -> {Untracked, Tracked} \cup {Client(i) : i \in IDs}]
      /\ ctrlConns' \subseteq Conns /\ open' \subseteq Conns
      /\ IsFiniteSet(Registered') /\ Cardinality(Registered') <= MaxRegistrations
      /\ \A i \in Registered' : i \in Registered /\ registrations'[i] = registrations[i]
      /\ \A x \in Live' : x \in Live /\ clients'[x] = clients[x]
  BY Cleanup DEF WriteFails
<1>2. TypeOK'
  BY <1>1 DEF TypeOK, WriteFails
<1>3. MsgInv' /\ OwnerInv'
  BY <1>1 DEF MsgInv, OwnerInv, Owns, WriteFails
<1>4. ASSUME NEW x \in Live', NEW e \in Conns, NEW j \in IDs, OnItsWay(e, j, x)
      PROVE  OnItsWay(e, j, x)'
  <2>1. x # d
    BY <1>4 DEF Live, WriteFails, cleanupConn
  <2> QED
    BY <1>4, <2>1 DEF OnItsWay, WriteFails, TypeOK
<1>5. ToldInv'
  BY <1>1, <1>4, ToldKept DEF WriteFails
<1> QED
  BY <1>1, <1>2, <1>3, <1>5

LEMMA BroadcastDoneIInv == ASSUME IInv, NEW c \in Conns, BroadcastDone(c) PROVE IInv'
<1> USE DEF IInv
<1>1. TypeOK' /\ Registered' = Registered
  BY DEF TypeOK, BroadcastDone, Goto, Registered
<1>2. MsgInv' /\ OwnerInv'
  BY DEF TypeOK, MsgInv, OwnerInv, Owns, BroadcastDone, Goto, Registered
<1>3. Live' = Live
  BY <1>1 DEF Live, BroadcastDone
<1>4. \A d \in Live', e \in Conns, j \in IDs : OnItsWay(e, j, d) => OnItsWay(e, j, d)'
  BY DEF OnItsWay, BroadcastDone, Goto, TypeOK
<1>5. ToldInv'
  BY <1>3, <1>4, ToldKept DEF BroadcastDone
<1> QED
  BY <1>1, <1>2, <1>5

LEMMA LeaveIInv == ASSUME IInv, NEW c \in Conns, Leave(c) PROVE IInv'
<1> USE DEF IInv
<1>1. /\ registrations' \in [IDs -> {NoReg} \cup {Registration(x) : x \in Conns}]
      /\ clients' \in [Conns -> {Untracked, Tracked} \cup {Client(i) : i \in IDs}]
      /\ ctrlConns' \subseteq Conns /\ open' \subseteq Conns
      /\ IsFiniteSet(Registered') /\ Cardinality(Registered') <= MaxRegistrations
      /\ \A i \in Registered' : i \in Registered /\ registrations'[i] = registrations[i]
      /\ \A x \in Live' : x \in Live /\ clients'[x] = clients[x]
  BY Cleanup DEF Leave
<1>2. TypeOK'
  BY <1>1 DEF TypeOK, Leave, Goto
<1>3. MsgInv' /\ OwnerInv'
  BY <1>1 DEF TypeOK, MsgInv, OwnerInv, Owns, Leave, Goto
<1>4. \A x \in Live', e \in Conns, j \in IDs : OnItsWay(e, j, x) => OnItsWay(e, j, x)'
  BY DEF OnItsWay, Leave, Goto, TypeOK
<1>5. ToldInv'
  BY <1>1, <1>4, ToldKept DEF Leave
<1> QED
  BY <1>1, <1>2, <1>3, <1>5

LEMMA NextIInv == IInv /\ [Next]_vars => IInv'
<1> SUFFICES ASSUME IInv, [Next]_vars PROVE IInv'
  OBVIOUS
<1>1. CASE UNCHANGED vars
  BY <1>1 DEF vars, IInv, TypeOK, Registered, MsgInv, OwnerInv, Owns, ToldInv, Live, OnItsWay
<1> QED
  BY <1>1, AcceptIInv, HandshakeIInv, ReadRegisterIInv, RefuseIInv, RegisterIInv, BroadcastIInv,
     WriteIInv, WriteFailsIInv, BroadcastDoneIInv, LeaveIInv DEF Next

(* Registry, handlers and broadcasts stay in step in every state.           *)
THEOREM Invariance == Spec => []IInv
  BY InitIInv, NextIInv, PTL DEF Spec

(* Type correctness; in particular the registry never exceeds               *)
(* maxRegistrations.                                                        *)
THEOREM TypeCorrect == Spec => []TypeOK
<1>1. IInv => TypeOK
  BY DEF IInv
<1> QED
  BY <1>1, Invariance, PTL

(* Once the broadcasts are done, any two live clients have been told of     *)
(* each other: a list may be overtaken by another or fail to be written,    *)
(* but the later of two registrations lists both, and is written to both or *)
(* evicts the one it cannot be written to.                                  *)
THEOREM AllTold == Spec => []EveryoneTold
<1>1. ASSUME IInv, Settled PROVE \A c, d \in Live : clients[d].id \in told[c]
  <2>1. \A e \in Conns : \A i, c : ~OnItsWay(e, i, c)
    BY <1>1 DEF Settled, OnItsWay
  <2> QED
    BY <1>1, <2>1 DEF IInv, ToldInv
<1>2. IInv => EveryoneTold
  BY <1>1 DEF EveryoneTold
<1> QED
  BY <1>2, Invariance, PTL

(* A registered name keeps its key, and only the cleanup of the connection  *)
(* that owns it releases it.                                                *)
THEOREM NamesHeld == Spec => NameHeld
<1>1. ASSUME IInv, [Next]_vars
      PROVE  [\A i \in Registered :
                IF i \in Registered' THEN registrations'[i].key = registrations[i].key
                                     ELSE registrations[i].owner \notin open']_vars
  <2>1. ASSUME NEW d \in Conns, cleanupConn(d), NEW i \in Registered
        PROVE  IF i \in Registered' THEN registrations'[i].key = registrations[i].key
                                    ELSE registrations[i].owner \notin open'
    <3>1. CASE i \in Registered'
      BY <1>1, <2>1, <3>1, Cleanup DEF IInv
    <3>2. CASE i \notin Registered'
      BY <1>1, <2>1, <3>2 DEF cleanupConn, Registered, TypeOK, IInv
    <3> QED
      BY <3>1, <3>2
  <2>2. ASSUME NEW c \in Conns, Register(c), NEW i \in Registered
        PROVE  i \in Registered' /\ registrations'[i].key = registrations[i].key
    BY <1>1, <2>2, Registers
  <2>3. ASSUME UNCHANGED registrations, NEW i \in Registered
        PROVE  i \in Registered' /\ registrations'[i].key = registrations[i].key
    BY <2>3 DEF Registered
  <2>4. CASE UNCHANGED vars
    BY <2>4
  <2>5. ASSUME NEW c \in Conns, NEW i \in Registered,
               \/ Accept(c) \/ Handshake(c) \/ ReadRegister(c) \/ Refuse(c) \/ Register(c)
               \/ Broadcast(c) \/ BroadcastDone(c) \/ Leave(c)
               \/ \E d \in Conns : Write(c, d) \/ WriteFails(c, d)
        PROVE  IF i \in Registered' THEN registrations'[i].key = registrations[i].key
                                    ELSE registrations[i].owner \notin open'
    <3>1. CASE Register(c)
      BY <2>2, <3>1
    <3>2. CASE Leave(c)
      BY <2>1, <3>2 DEF Leave
    <3>3. CASE \E d \in Conns : WriteFails(c, d)
      BY <2>1, <3>3 DEF WriteFails
    <3>4. CASE UNCHANGED registrations
      BY <2>3, <3>4
    <3> QED
      BY <2>5, <3>1, <3>2, <3>3, <3>4
         DEF Accept, Handshake, ReadRegister, Refuse, Broadcast, BroadcastDone, Write
  <2> QED
    BY <1>1, <2>4, <2>5 DEF Next
<1> QED
  BY <1>1, Invariance, PTL DEF Spec, NameHeld

-----------------------------------------------------------------------------
(* The client of a connection registers one name only.  agent.register      *)
(* writes one register message, with its own ID, on every connection.       *)
OneName == MaxMsgs <= 1 \/ \A c \in Conns : \A i, j \in MayRegister[c] : i = j

(* Under OneName the connection that owns a name is tracked with that name, *)
(* and has used up one of its messages.                                     *)
TrackedInv ==
  \A c \in Conns, i \in IDs :
    Owns(c, i) => clients[c] = Client(i) /\ i \in MayRegister[c] /\ msgs[c] < MaxMsgs

(* What a connection owns while it registers is the name it registers.      *)
SameName ==
  \A c \in Conns : pc[c] = "register" =>
    /\ msgs[c] < MaxMsgs
    /\ \A i \in IDs : Owns(c, i) => i = msg[c]

LeftInv == TrackedInv /\ SameName /\ NothingLeftBehind

(* A cleanup leaves the connection with nothing, and takes nothing from the *)
(* others.                                                                  *)
LEMMA CleanupLeaves ==
  ASSUME IInv, LeftInv, NEW d \in Conns, cleanupConn(d), UNCHANGED <<msg, msgs>>,
         \A c \in Conns : pc'[c] \in {"register", "done"} => pc'[c] = pc[c] \/ c = d,
         pc'[d] = "register" => pc[d] = "register"
  PROVE  LeftInv'
<1>1. /\ \A c \in Conns, i \in IDs : Owns(c, i)' => Owns(c, i)
      /\ \A i \in IDs : ~Owns(d, i)'
  <2>1. \A i \in Registered' : i \in Registered /\ registrations'[i] = registrations[i]
    BY Cleanup DEF IInv
  <2>2. \A c \in Conns, i \in IDs : Owns(c, i)' => Owns(c, i)
    BY <2>1 DEF Owns
  <2>3. ASSUME NEW i \in IDs, Owns(d, i)' PROVE FALSE
    <3>1. Owns(d, i) /\ clients[d] = Client(i)
      BY <2>2, <2>3 DEF LeftInv, TrackedInv
    <3>2. registrations'[i] = NoReg
      BY <3>1 DEF cleanupConn, Owns, Registered
    <3> QED
      BY <2>3, <3>2 DEF Owns, Registered
  <2> QED
    BY <2>2, <2>3
<1>2. clients' = [clients EXCEPT ![d] = Untracked] /\ ctrlConns' = ctrlConns \ {d}
      /\ clients \in [Conns -> {Untracked, Tracked} \cup {Client(i) : i \in IDs}]
  BY DEF cleanupConn, IInv, TypeOK
<1>3. TrackedInv'
  BY <1>1, <1>2 DEF LeftInv, TrackedInv
<1>4. SameName'
  BY <1>1 DEF LeftInv, SameName
<1>5. ASSUME NEW c \in Conns, pc'[c] = "done"
      PROVE  clients'[c] = Untracked /\ c \notin ctrlConns' /\ \A i \in Registered' : registrations'[i].owner # c
  <2>1. CASE c = d
    BY <1>1, <1>2, <2>1 DEF Owns, Registered
  <2>2. CASE c # d
    <3>1. clients[c] = Untracked /\ c \notin ctrlConns /\ \A i \in Registered : registrations[i].owner # c
      BY <1>5, <2>2 DEF LeftInv, NothingLeftBehind
    <3>2. \A i \in IDs : ~Owns(c, i)'
      BY <1>1, <3>1 DEF Owns
    <3> QED
      BY <1>2, <2>2, <3>1, <3>2 DEF Owns, Registered
  <2> QED
    BY <2>1, <2>2
<1> QED
  BY <1>3, <1>4, <1>5 DEF LeftInv, NothingLeftBehind

LEMMA InitLeft == Init => LeftInv
  BY DEF Init, LeftInv, TrackedInv, SameName, NothingLeftBehind, Owns, Registered

(* A handler that goes on without touching the registry.                    *)
LEMMA QuietLeaves ==
  ASSUME LeftInv, UNCHANGED <<registrations, clients, ctrlConns, msgs>>,
         \A c \in Conns : pc'[c] \in {"register", "done"} => pc'[c] = pc[c] /\ msg'[c] = msg[c]
  PROVE  LeftInv'
<1>1. Registered' = Registered
  BY DEF Registered
<1>2. \A c \in Conns, i \in IDs : Owns(c, i)' <=> Owns(c, i)
  BY <1>1 DEF Owns
<1> QED
  BY <1>1, <1>2 DEF LeftInv, TrackedInv, SameName, NothingLeftBehind

LEMMA NextLeft ==
  ASSUME OneName, IInv, LeftInv, [Next]_vars
  PROVE  LeftInv'
<1>1. ASSUME NEW c \in Conns, Accept(c) PROVE LeftInv'
  <2>1. \A d \in Conns, i \in IDs : (Owns(d, i)' <=> Owns(d, i)) /\ ~Owns(c, i)
    BY <1>1 DEF Accept, IInv, OwnerInv, Owns, Registered
  <2> QED
    BY <1>1, <2>1 DEF Accept, Goto, LeftInv, TrackedInv, SameName, NothingLeftBehind, IInv, TypeOK,
                      Registered
<1>2. ASSUME NEW c \in Conns, Handshake(c) PROVE LeftInv'
  BY <1>2 DEF Handshake, Goto, LeftInv, TrackedInv, SameName, NothingLeftBehind, IInv, TypeOK,
              Registered, Owns
<1>3. ASSUME NEW c \in Conns, ReadRegister(c) PROVE LeftInv'
  <2>1. PICK i \in MayRegister[c] : msg' = [msg EXCEPT ![c] = i]
    BY <1>3 DEF ReadRegister
  <2>2. msgs[c] \in 0 .. MaxMsgs /\ msgs[c] > 0 /\ msgs' = [msgs EXCEPT ![c] = msgs[c] - 1]
    BY <1>3 DEF ReadRegister, IInv, TypeOK
  <2>3. \A d \in Conns, j \in IDs : Owns(d, j)' <=> Owns(d, j)
    BY <1>3 DEF ReadRegister, Owns, Registered
  <2>4. \A d \in Conns : msgs[d] < MaxMsgs => msgs'[d] < MaxMsgs
    BY <2>2, MaxMsgsAssumption DEF IInv, TypeOK
  <2>5. msgs'[c] < MaxMsgs
    BY <2>2, MaxMsgsAssumption DEF IInv, TypeOK
  <2>6. ASSUME NEW j \in IDs, Owns(c, j) PROVE j = i
    <3>1. j \in MayRegister[c] /\ msgs[c] < MaxMsgs
      BY <2>6 DEF LeftInv, TrackedInv
    <3>2. ~(MaxMsgs <= 1)
      BY <2>2, <3>1, MaxMsgsAssumption
    <3> QED
      BY <2>1, <3>1, <3>2 DEF OneName
  <2>7. TrackedInv'
    BY <1>3, <2>3, <2>4 DEF LeftInv, TrackedInv, ReadRegister
  <2>8. SameName'
    BY <1>3, <2>1, <2>3, <2>4, <2>5, <2>6 DEF LeftInv, SameName, ReadRegister, Goto, IInv, TypeOK
  <2>9. NothingLeftBehind'
    BY <1>3 DEF LeftInv, NothingLeftBehind, ReadRegister, Goto, IInv, TypeOK, Registered
  <2> QED
    BY <2>7, <2>8, <2>9 DEF LeftInv
<1>4. ASSUME NEW c \in Conns, Register(c) PROVE LeftInv'
  <2>1. /\ msg[c] \in IDs /\ clients' = [clients EXCEPT ![c] = Client(msg[c])]
        /\ registrations' = [registrations EXCEPT ![msg[c]] = Registration(c)]
        /\ Registered' = Registered \cup {msg[c]}
    BY <1>4, Registers
  <2>2. /\ pc[c] = "register" /\ pc' = [pc EXCEPT ![c] = "broadcast"]
        /\ msg' = [msg EXCEPT ![c] = NoMsg] /\ UNCHANGED <<msgs, ctrlConns>>
        /\ msgs[c] < MaxMsgs /\ msg[c] \in MayRegister[c]
        /\ \A i \in IDs : Owns(c, i) => i = msg[c]
    BY <1>4 DEF Register, Goto, LeftInv, SameName, IInv, MsgInv
  <2>3. \A i \in IDs : Owns(c, i)' => i = msg[c]
    BY <2>1, <2>2 DEF Owns, IInv, TypeOK
  <2>4. \A d \in Conns, i \in IDs : d # c /\ Owns(d, i)' => Owns(d, i)
    BY <2>1, RegistrationFacts DEF Owns, IInv, TypeOK
  <2>5. TrackedInv'
    BY <2>1, <2>2, <2>3, <2>4 DEF LeftInv, TrackedInv, IInv, TypeOK
  <2>6. SameName'
    BY <2>2, <2>4 DEF LeftInv, SameName, IInv, TypeOK
  <2>7. ASSUME NEW d \in Conns, pc'[d] = "done"
        PROVE  clients'[d] = Untracked /\ d \notin ctrlConns' /\ \A i \in Registered' : registrations'[i].owner # d
    <3>1. d # c /\ pc[d] = "done"
      BY <2>2, <2>7 DEF IInv, TypeOK
    <3>2. \A i \in IDs : ~Owns(d, i)
      BY <3>1 DEF LeftInv, NothingLeftBehind, Owns
    <3>3. \A i \in IDs : ~Owns(d, i)'
      BY <2>4, <3>1, <3>2
    <3> QED
      BY <2>1, <2>2, <3>1, <3>3 DEF LeftInv, NothingLeftBehind, Owns, Registered, IInv, TypeOK
  <2> QED
    BY <2>5, <2>6, <2>7 DEF LeftInv, NothingLeftBehind
<1>5. ASSUME NEW c \in Conns, Leave(c) PROVE LeftInv'
  BY <1>5, CleanupLeaves DEF Leave, Goto, IInv, TypeOK
<1>6. ASSUME NEW c \in Conns, NEW d \in Conns, WriteFails(c, d) PROVE LeftInv'
  BY <1>6, CleanupLeaves DEF WriteFails
<1>7. ASSUME NEW c \in Conns,
             \/ Refuse(c) \/ Broadcast(c) \/ BroadcastDone(c) \/ \E d \in Conns : Write(c, d)
      PROVE  LeftInv'
  BY <1>7, QuietLeaves DEF Refuse, Broadcast, BroadcastDone, Write, Goto, IInv, TypeOK
<1>8. CASE UNCHANGED vars
  BY <1>8, QuietLeaves DEF vars
<1> QED
  BY <1>1, <1>2, <1>3, <1>4, <1>5, <1>6, <1>7, <1>8 DEF Next

(* A connection whose client registers one name leaves nothing behind when  *)
(* its handler has ended, even if it was evicted while it was registering.  *)
THEOREM NothingLeft == ASSUME OneName PROVE Spec => []NothingLeftBehind
<1>1. IInv /\ LeftInv /\ [Next]_vars => LeftInv'
  BY NextLeft
<1>2. LeftInv => NothingLeftBehind
  BY DEF LeftInv
<1> QED
  BY <1>1, <1>2, InitLeft, Invariance, PTL DEF Spec


-----------------------------------------------------------------------------
(* The goroutines that write to one client's connection (ControlWrite): any *)
(* numbers of broadcasts and replies, any socket buffer.                    *)

(* Whoever holds the mutex is writing what was encrypted last.              *)
HolderInv ==
  holder # Nobody => writer[holder] = "write" /\ nonce > 0 /\ ct[holder] = nonce - 1

(* As long as the connection is open, everything encrypted is on the wire   *)
(* but for what the holder of the mutex is writing.                         *)
WireInv == connected => Len(wire) = IF holder = Nobody THEN nonce ELSE nonce - 1

ControlInv == ConnTypeOK /\ HolderInv /\ WireInv /\ InOrder

LEMMA ControlInit == ASSUME ConnInit PROVE ControlInv
<1>1. Room \in Nat /\ MaxWrites \in Nat
  BY RoomAssumption, MaxWritesAssumption
<1>2. wire = <<>> /\ Len(wire) = 0
  BY DEF ConnInit
<1>3. wire \in Seq([nonce : 0 .. MaxWrites, by : Writers, whole : BOOLEAN])
  BY <1>2
<1>4. /\ writer \in [Writers -> {"idle", "lock", "write", "clear", "clearEvict", "evict"}]
      /\ \A w \in Writers : writer[w] # "write"
      /\ ct \in [Writers -> 0 .. MaxWrites \cup {NoCt}]
  BY DEF ConnInit
<1>5. nonce \in 0 .. MaxWrites /\ buffered \in 0 .. Room /\ holder = Nobody
  BY <1>1 DEF ConnInit
<1>6. deadline \in BOOLEAN /\ connected \in BOOLEAN
  BY Zenon DEF ConnInit
<1>7. ConnTypeOK
  BY <1>3, <1>4, <1>5, <1>6, Zenon DEF ConnTypeOK
<1>8. InOrder
  BY <1>2 DEF InOrder
<1> QED
  BY <1>2, <1>7, <1>8 DEF ConnInit, ControlInv, HolderInv, WireInv

(* A write that appends its message to the wire.                            *)
LEMMA ControlAppend ==
  ASSUME ControlInv, NEW w \in Writers, writer[w] = "write", connected,
         NEW whole \in BOOLEAN, wire' = Append(wire, Message(w, whole)),
         NEW ok, Return(w, ok), UNCHANGED <<nonce, deadline, connected>>,
         buffered' \in 0 .. Room
  PROVE  ControlInv'
<1> DEFINE Msgs == [nonce : 0 .. MaxWrites, by : Writers, whole : BOOLEAN]
           m == Message(w, whole)
           l == CASE w \in Repliers -> "idle"
                  [] w \in Broadcasters /\ ok -> "clear"
                  [] OTHER -> "clearEvict"
<1>0. /\ Room \in Nat /\ MaxWrites \in Nat /\ Nobody \notin Writers
      /\ Broadcasters \cap Repliers = {}
  BY RoomAssumption, MaxWritesAssumption, NobodyAssumption, RolesAssumption
<1>1. /\ holder = w /\ nonce \in 0 .. MaxWrites /\ nonce > 0 /\ ct[w] = nonce - 1 /\ Len(wire) = nonce - 1
      /\ wire \in Seq(Msgs) /\ w # Nobody
  BY <1>0 DEF ControlInv, HolderInv, WireInv, ConnTypeOK
<1>2. m \in Msgs /\ m.nonce = nonce - 1
  BY <1>0, <1>1 DEF Message
<1>3. /\ holder' = Nobody /\ writer' = [writer EXCEPT ![w] = l]
      /\ ct' = [ct EXCEPT ![w] = NoCt]
      /\ l \in {"idle", "clear", "clearEvict"}
  BY DEF Return, Proceed
<1> HIDE DEF m, l
<1>4. wire' \in Seq(Msgs) /\ Len(wire') = nonce
  BY <1>1, <1>2 DEF m
<1>5. ConnTypeOK'
  BY <1>0, <1>1, <1>3, <1>4 DEF ControlInv, ConnTypeOK
<1>6. InOrder'
  <2> SUFFICES ASSUME NEW i \in 1 .. Len(wire') PROVE wire'[i].nonce = i - 1
    BY DEF InOrder
  <2>1. wire' = Append(wire, m)
    BY DEF m
  <2>2. CASE i = nonce
    BY <1>1, <1>2, <1>4, <2>1, <2>2
  <2>3. CASE i # nonce
    <3>1. i \in 1 .. Len(wire) /\ wire'[i] = wire[i]
      BY <1>1, <1>4, <2>1, <2>3
    <3> QED
      BY <3>1 DEF ControlInv, InOrder
  <2> QED
    BY <2>2, <2>3
<1> QED
  BY <1>1, <1>3, <1>4, <1>5, <1>6 DEF ControlInv, HolderInv, WireInv

LEMMA ControlStep ==
  ASSUME ControlInv, [ConnNext]_connVars
  PROVE  ControlInv'
<1>0. /\ Room \in Nat /\ MaxWrites \in Nat /\ Nobody \notin Writers
      /\ Writers = Broadcasters \cup Repliers
  BY RoomAssumption, MaxWritesAssumption, NobodyAssumption DEF Writers
<1>1. CASE ClientReads
  <2>1. buffered' = buffered - 1 /\ buffered > 0
        /\ UNCHANGED <<writer, holder, nonce, ct, deadline, connected, wire>>
    BY <1>1 DEF ClientReads
  <2>2. buffered' \in 0 .. Room
    BY <1>0, <2>1 DEF ControlInv, ConnTypeOK
  <2>3. ConnTypeOK'
    BY <2>1, <2>2 DEF ControlInv, ConnTypeOK
  <2> QED
    BY <2>1, <2>3 DEF ControlInv, HolderInv, WireInv, InOrder
<1>2. ASSUME NEW w \in Writers,
             SetDeadline(w) \/ Reply(w) \/ ClearDeadline(w) \/ evict(w)
      PROVE  ControlInv'
  <2>1. PICK l \in {"idle", "lock", "evict"} :
          /\ writer' = [writer EXCEPT ![w] = l] /\ writer[w] # "write"
          /\ connected' \in {connected, FALSE} /\ deadline' \in BOOLEAN
          /\ UNCHANGED <<holder, nonce, ct, buffered, wire>>
    BY <1>2 DEF SetDeadline, Reply, ClearDeadline, evict, Proceed,
                ControlInv, ConnTypeOK
  <2>2. ConnTypeOK'
    BY <2>1 DEF ControlInv, ConnTypeOK
  <2>3. HolderInv'
    BY <2>1 DEF ControlInv, HolderInv, ConnTypeOK
  <2>4. connected' => connected
    BY <2>1, Zenon
  <2>5. wire' = wire /\ holder' = holder /\ nonce' = nonce
    BY <2>1
  <2>6. WireInv' /\ InOrder'
    BY <2>4, <2>5, Zenon DEF ControlInv, WireInv, InOrder
  <2> QED
    BY <2>2, <2>3, <2>6 DEF ControlInv
<1>3. ASSUME NEW w \in Writers, Lock(w) PROVE ControlInv'
  <2>1. /\ holder = Nobody /\ nonce < MaxWrites /\ holder' = w
        /\ ct' = [ct EXCEPT ![w] = nonce] /\ nonce' = nonce + 1 /\ deadline' = TRUE
        /\ writer' = [writer EXCEPT ![w] = "write"]
        /\ UNCHANGED <<connected, buffered, wire>>
    BY <1>3 DEF Lock, Proceed
  <2>2. \A v \in Writers : writer[v] # "write"
    BY <1>0, <2>1 DEF ControlInv, ConnTypeOK
  <2>3. ConnTypeOK'
    BY <1>0, <2>1, <2>2 DEF ControlInv, ConnTypeOK
  <2>4. HolderInv'
    BY <1>0, <2>1 DEF ControlInv, HolderInv, ConnTypeOK
  <2>5. WireInv'
    BY <1>0, <2>1 DEF ControlInv, WireInv, ConnTypeOK
  <2> QED
    BY <2>1, <2>3, <2>4, <2>5 DEF ControlInv, InOrder
<1>4. ASSUME NEW w \in Writers, WriteDone(w) PROVE ControlInv'
  <2>1. buffered' \in 0 .. Room
    BY <1>0, <1>4 DEF WriteDone, ControlInv, ConnTypeOK
  <2> QED
    BY <1>4, <2>1, ControlAppend DEF WriteDone
<1>5. ASSUME NEW w \in Writers, WriteTimesOut(w) PROVE ControlInv'
  <2>1. buffered' \in 0 .. Room
    BY <1>0, <1>5 DEF WriteTimesOut, ControlInv, ConnTypeOK
  <2> QED
    BY <1>5, <2>1, ControlAppend DEF WriteTimesOut
<1>6. ASSUME NEW w \in Writers, WriteError(w) PROVE ControlInv'
  <2>1. PICK l \in {"idle", "clear", "clearEvict"} :
          /\ writer' = [writer EXCEPT ![w] = l] /\ writer[w] = "write"
          /\ holder' = Nobody /\ ct' = [ct EXCEPT ![w] = NoCt]
          /\ ~connected /\ UNCHANGED <<nonce, deadline, connected, buffered, wire>>
    BY <1>6 DEF WriteError, Return, Proceed
  <2>2. ConnTypeOK'
    BY <1>0, <2>1 DEF ControlInv, ConnTypeOK
  <2> QED
    BY <2>1, <2>2 DEF ControlInv, HolderInv, WireInv, InOrder
<1>7. CASE UNCHANGED connVars
  <2>1. ConnTypeOK'
    BY <1>7 DEF connVars, ControlInv, ConnTypeOK
  <2> QED
    BY <1>7, <2>1 DEF connVars, ControlInv, HolderInv, WireInv, InOrder
<1> QED
  BY <1>1, <1>2, <1>3, <1>4, <1>5, <1>6, <1>7 DEF ConnNext, WriterStep

LEMMA ControlInvariance == ConnSpec => []ControlInv
<1>1. ConnInit => ControlInv
  BY ControlInit
<1>2. ControlInv /\ [ConnNext]_connVars => ControlInv'
  BY ControlStep
<1> QED
  BY <1>1, <1>2, PTL DEF ConnSpec

(* Whoever is inside WriteMsg's Write holds wm: one writer at a time.       *)
THEOREM ControlTypes == ConnSpec => []ConnTypeOK
<1>1. ControlInv => ConnTypeOK
  BY DEF ControlInv
<1> QED
  BY <1>1, ControlInvariance, PTL

(* However broadcasts, replies, timeouts and evictions interleave, messages *)
(* reach the wire in the order WriteMsg encrypted them, none left out.      *)
THEOREM ControlInOrder == ConnSpec => []InOrder
<1>1. ControlInv => InOrder
  BY DEF ControlInv
<1> QED
  BY <1>1, ControlInvariance, PTL


(* A step of w that is not a write, or a write of a whole message: w was    *)
(* not on its way to evict, or goes on or closes the connection.            *)
LEMMA TornKept ==
  ASSUME ControlInv, TornIsEvicting, NEW w \in Writers, NEW l,
         writer' = [writer EXCEPT ![w] = l], connected' => connected,
         \/ writer[w] \notin {"clearEvict", "evict"}
         \/ l \in {"clearEvict", "evict"}
         \/ ~connected',
         \A i \in 1 .. Len(wire) : wire'[i] = wire[i]
  PROVE  \A i \in 1 .. Len(wire) :
           ~wire'[i].whole /\ wire'[i].by \in Broadcasters /\ connected'
             => writer'[wire'[i].by] \in {"clearEvict", "evict"}
<1> SUFFICES ASSUME NEW i \in 1 .. Len(wire), ~wire'[i].whole, wire'[i].by \in Broadcasters, connected'
             PROVE  writer'[wire'[i].by] \in {"clearEvict", "evict"}
  OBVIOUS
<1>1. wire'[i] = wire[i] /\ connected
  BY Zenon
<1>2. writer[wire[i].by] \in {"clearEvict", "evict"}
  BY <1>1, Zenon DEF TornIsEvicting
<1>3. writer \in [Writers -> {"idle", "lock", "write", "clear", "clearEvict", "evict"}]
  BY DEF ControlInv, ConnTypeOK
<1>4. wire[i].by \in Writers
  BY <1>1, Zenon DEF Writers
<1> QED
  BY <1>1, <1>2, <1>3, <1>4

LEMMA TornStep ==
  ASSUME ControlInv, TornIsEvicting, [ConnNext]_connVars
  PROVE  TornIsEvicting'
<1>0. wire \in Seq([nonce : 0 .. MaxWrites, by : Writers, whole : BOOLEAN]) /\ Len(wire) \in Nat
  BY DEF ControlInv, ConnTypeOK
<1>1. CASE ClientReads \/ UNCHANGED connVars
  BY <1>1 DEF ClientReads, connVars, TornIsEvicting
<1>2. ASSUME NEW w \in Writers,
             SetDeadline(w) \/ Reply(w) \/ Lock(w) \/ ClearDeadline(w) \/ evict(w) \/ WriteError(w)
      PROVE  TornIsEvicting'
  <2>1. PICK l : /\ writer' = [writer EXCEPT ![w] = l]
                 /\ wire' = wire
                 /\ \/ writer[w] \notin {"clearEvict", "evict"}
                    \/ l \in {"clearEvict", "evict"}
                    \/ ~connected'
    BY <1>2 DEF SetDeadline, Reply, Lock, ClearDeadline, evict, WriteError, Return, Proceed
  <2>2. connected' => connected
    BY <1>2, Zenon DEF SetDeadline, Reply, Lock, ClearDeadline, evict, WriteError
  <2>3. \A i \in 1 .. Len(wire) :
          ~wire'[i].whole /\ wire'[i].by \in Broadcasters /\ connected'
            => writer'[wire'[i].by] \in {"clearEvict", "evict"}
    <3>1. \A i \in 1 .. Len(wire) : wire'[i] = wire[i]
      BY <2>1
    <3> QED
      BY <2>1, <2>2, <3>1, TornKept
  <2> QED
    BY <2>1, <2>3 DEF TornIsEvicting
<1>3. ASSUME NEW w \in Writers, WriteDone(w) \/ WriteTimesOut(w)
      PROVE  TornIsEvicting'
  <2>1. PICK whole \in BOOLEAN :
          /\ wire' = Append(wire, Message(w, whole))
          /\ writer[w] = "write" /\ Return(w, whole)
          /\ connected' = connected
    BY <1>3, Zenon DEF WriteDone, WriteTimesOut
  <2>2. PICK l : /\ writer' = [writer EXCEPT ![w] = l]
                 /\ ~whole /\ w \in Broadcasters => l = "clearEvict"
    BY <2>1, RolesAssumption DEF Return, Proceed
  <2> DEFINE m == Message(w, whole)
  <2>3. m.by = w /\ m.whole = whole
    BY Zenon DEF Message
  <2>4. wire' = Append(wire, m)
    BY <2>1
  <2> HIDE DEF m
  <2>5. /\ Len(wire') = Len(wire) + 1 /\ wire'[Len(wire) + 1] = m
        /\ \A i \in 1 .. Len(wire) : wire'[i] = wire[i]
    BY <1>0, <2>4
  <2>6. \A i \in 1 .. Len(wire) :
          ~wire'[i].whole /\ wire'[i].by \in Broadcasters /\ connected'
            => writer'[wire'[i].by] \in {"clearEvict", "evict"}
    <3>1. connected' => connected
      BY <2>1
    <3>2. writer[w] \notin {"clearEvict", "evict"}
      BY <2>1
    <3>3. \A i \in 1 .. Len(wire) : wire'[i] = wire[i]
      BY <2>5
    <3> QED
      BY <2>2, <3>1, <3>2, <3>3, TornKept
  <2>7. ~m.whole /\ m.by \in Broadcasters => writer'[m.by] \in {"clearEvict", "evict"}
    <3>1. writer \in [Writers -> {"idle", "lock", "write", "clear", "clearEvict", "evict"}]
      BY DEF ControlInv, ConnTypeOK
    <3> QED
      BY <2>2, <2>3, <3>1
  <2> QED
    BY <1>0, <2>5, <2>6, <2>7 DEF TornIsEvicting
<1> QED
  BY <1>1, <1>2, <1>3 DEF ConnNext, WriterStep

(* The safety half of what TornIsClosed promises, for any number of         *)
(* broadcasts and replies: until the connection is closed, the broadcast    *)
(* that tore a message is still on its way to evict.                        *)
THEOREM ControlTorn == ConnSpec => []TornIsEvicting
<1>1. ConnInit => TornIsEvicting
  <2>1. ConnInit => wire = <<>> /\ Len(wire) = 0
    BY DEF ConnInit
  <2> QED
    BY <2>1 DEF TornIsEvicting
<1>2. ControlInv /\ TornIsEvicting /\ [ConnNext]_connVars => TornIsEvicting'
  BY TornStep
<1> QED
  BY <1>1, <1>2, ControlInvariance, PTL DEF ConnSpec
=============================================================================
