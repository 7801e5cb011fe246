--------------------------- MODULE Keyfile_proofs ---------------------------
(***************************************************************************)
(* One identity per key file, for every set of processes and every number  *)
(* of retries.                                                             *)
(***************************************************************************)
EXTENDS Keyfile, TLAPS

(* Only the process that created the file is between create and write, and   *)
(* it finds the file as it left it; nobody has a key while nothing usable is *)
(* on disk.                                                                  *)
IInv ==
  /\ TypeOK
  /\ OneIdentity
  /\ \A p \in Procs : pc[p] = "write" => file = MidWrite /\ kp[p] # NoKey
  /\ \A p, q \in Procs : pc[p] = "write" /\ pc[q] = "write" => p = q

(* The three kinds of file contents differ.                                  *)
LEMMA FileKinds ==
  /\ Absent # MidWrite
  /\ \A k : Holds(k) # Absent /\ Holds(k) # MidWrite /\ Holds(k).key = k
  /\ \A k : Has(k) # NoKey /\ Has(k).key = k
  BY DEF Absent, MidWrite, Holds, Has, NoKey

LEMMA InitIInv == Init => IInv
  BY MaxRetriesAssumption, FileKinds DEF Init, IInv, TypeOK, OneIdentity, Files, Locations

(* A load changes nothing but the reader's own location and key.             *)
LEMMA LoadStep ==
  ASSUME IInv, NEW p \in Procs, NEW l \in {"create", "retry"}, pc[p] \in {"load", "retry"},
         loadKeyfile(p, l), UNCHANGED file, tries' \in [Procs -> 0 .. MaxRetries]
  PROVE  IInv'
<1>1. CASE file \in {Absent, MidWrite}
  <2>1. kp' = kp /\ \E x \in {"create", "retry", "failed"} : pc' = [pc EXCEPT ![p] = x]
    BY <1>1, FileKinds DEF loadKeyfile, Goto, IInv, TypeOK
  <2> QED
    BY <1>1, <2>1 DEF IInv, TypeOK, OneIdentity, Locations
<1>2. CASE file \notin {Absent, MidWrite}
  <2>1. PICK k \in Keys : file = Holds(k)
    BY <1>2 DEF IInv, TypeOK, Files
  <2>2. pc' = [pc EXCEPT ![p] = "ok"] /\ kp' = [kp EXCEPT ![p] = Has(k)]
    BY <1>2, <2>1, FileKinds DEF loadKeyfile, Goto
  <2> QED
    BY <2>1, <2>2, FileKinds DEF IInv, TypeOK, OneIdentity, Locations
<1> QED
  BY <1>1, <1>2

LEMMA NextIInv == IInv /\ [Next]_vars => IInv'
<1> SUFFICES ASSUME IInv, [Next]_vars PROVE IInv'
  OBVIOUS
<1>1. ASSUME NEW p \in Procs, Start(p) PROVE IInv'
  BY <1>1, MaxRetriesAssumption DEF Start, Goto, IInv, TypeOK, OneIdentity, Locations
<1>2. ASSUME NEW p \in Procs, Load(p) PROVE IInv'
  <2>1. tries' \in [Procs -> 0 .. MaxRetries]
    BY <1>2 DEF Load, IInv, TypeOK
  <2> QED
    BY <1>2, <2>1, LoadStep DEF Load
<1>3. ASSUME NEW p \in Procs, Create(p) PROVE IInv'
  <2>1. CASE file = Absent
    BY <1>3, <2>1, FileKinds DEF Create, Goto, IInv, TypeOK, OneIdentity, Locations, Files, Keys
  <2>2. CASE file # Absent
    BY <1>3, <2>2 DEF Create, Goto, IInv, TypeOK, OneIdentity, Locations
  <2> QED
    BY <2>1, <2>2
<1>4. ASSUME NEW p \in Procs, Write(p) PROVE IInv'
  <2>1. PICK k \in Keys : kp[p] = Has(k) /\ kp[p].key = k /\ file = MidWrite
    BY <1>4, FileKinds DEF Write, IInv, TypeOK
  <2>2. CASE file' = Holds(k) /\ pc' = [pc EXCEPT ![p] = "ok"] /\ kp' = kp
    BY <1>4, <2>1, <2>2, FileKinds DEF Write, IInv, TypeOK, OneIdentity, Locations, Files
  <2>3. CASE pc' = [pc EXCEPT ![p] = "failed"] /\ kp' = [kp EXCEPT ![p] = NoKey] /\ file' = file
    BY <1>4, <2>1, <2>3, FileKinds DEF Write, IInv, TypeOK, OneIdentity, Locations
  <2> QED
    BY <1>4, <2>1, <2>2, <2>3 DEF Write, Goto
<1>5. ASSUME NEW p \in Procs, Retry(p) PROVE IInv'
  <2>1. CASE tries[p] < MaxRetries
    <3>1. tries' \in [Procs -> 0 .. MaxRetries]
      BY <1>5, <2>1, MaxRetriesAssumption DEF Retry, IInv, TypeOK
    <3> QED
      BY <1>5, <2>1, <3>1, LoadStep DEF Retry
  <2>2. CASE ~(tries[p] < MaxRetries)
    BY <1>5, <2>2 DEF Retry, Goto, IInv, TypeOK, OneIdentity, Locations
  <2> QED
    BY <2>1, <2>2
<1>6. ASSUME NEW p \in Procs, Crash(p) PROVE IInv'
  BY <1>6 DEF Crash, Goto, IInv, TypeOK, OneIdentity, Locations
<1>7. CASE UNCHANGED vars
  BY <1>7 DEF vars, IInv, TypeOK, OneIdentity
<1> QED
  BY <1>1, <1>2, <1>3, <1>4, <1>5, <1>6, <1>7 DEF Next

THEOREM Invariance == Spec => []IInv
  BY InitIInv, NextIInv, PTL DEF Spec

(* However many processes start, fail and crash around one key file, all     *)
(* that get an identity get the one on disk.                                 *)
THEOREM SharedIdentity == Spec => []OneIdentity
<1>1. IInv => OneIdentity
  BY DEF IInv
<1> QED
  BY <1>1, Invariance, PTL

(* A key on disk is final: no step of LoadOrCreateKeyfile overwrites it.      *)
THEOREM KeyIsFinal == Spec => IdentityKept
<1>1. IInv /\ [Next]_vars => [\A k \in Keys : file = Holds(k) => file' = Holds(k)]_vars
  <2> SUFFICES ASSUME IInv, Next, NEW k \in Keys, file = Holds(k) PROVE file' = Holds(k)
    BY DEF vars
  <2>1. file # Absent /\ file # MidWrite
    BY FileKinds
  <2>2. PICK p \in Procs : Start(p) \/ Load(p) \/ Create(p) \/ Write(p) \/ Retry(p) \/ Crash(p)
    BY DEF Next
  <2>3. ~Write(p)
    BY <2>1 DEF Write, IInv
  <2>4. file' = file
    BY <2>1, <2>2, <2>3 DEF Start, Load, Create, Retry, Crash
  <2> QED
    BY <2>4
<1> QED
  BY <1>1, Invariance, PTL DEF Spec, IdentityKept


(* A process in the retry loop knows that the file exists, so that the only  *)
(* error the loop tries again, ErrNotExist, cannot occur in it.              *)
RetryInv ==
  /\ \A p \in Procs : tries[p] <= 1
  /\ \A p \in Procs : pc[p] \in {"load", "create", "retry"} => tries[p] = 0
  /\ \A p \in Procs : pc[p] = "retry" => file # Absent

LEMMA RetryStep == ASSUME IInv, RetryInv, [Next]_vars PROVE RetryInv'
<1>1. ASSUME NEW p \in Procs, Start(p) PROVE RetryInv'
  BY <1>1 DEF Start, Goto, IInv, TypeOK, RetryInv
<1>2. ASSUME NEW p \in Procs, Load(p) PROVE RetryInv'
  BY <1>2 DEF Load, loadKeyfile, Goto, IInv, TypeOK, RetryInv
<1>3. ASSUME NEW p \in Procs, Create(p) PROVE RetryInv'
  <2>1. file' # Absent
    BY <1>3, FileKinds DEF Create
  <2> QED
    BY <1>3, <2>1 DEF Create, Goto, IInv, TypeOK, RetryInv
<1>4. ASSUME NEW p \in Procs, Write(p) PROVE RetryInv'
  <2>1. file' # Absent
    BY <1>4, FileKinds DEF Write, IInv
  <2> QED
    BY <1>4, <2>1 DEF Write, Goto, IInv, TypeOK, RetryInv
<1>5. ASSUME NEW p \in Procs, Retry(p) PROVE RetryInv'
  <2>1. file # Absent /\ file' = file /\ tries[p] = 0 /\ pc[p] = "retry"
    BY <1>5 DEF Retry, RetryInv
  <2>2. PICK l \in {"failed", "ok"} : pc' = [pc EXCEPT ![p] = l]
    BY <1>5, <2>1 DEF Retry, loadKeyfile, Goto
  <2>3. tries' = tries \/ tries' = [tries EXCEPT ![p] = 1]
    BY <1>5, <2>1 DEF Retry
  <2>4. \A q \in Procs : tries'[q] <= 1
    BY <2>1, <2>3 DEF IInv, TypeOK, RetryInv
  <2> QED
    BY <2>1, <2>2, <2>3, <2>4 DEF IInv, TypeOK, RetryInv
<1>6. ASSUME NEW p \in Procs, Crash(p) PROVE RetryInv'
  BY <1>6 DEF Crash, Goto, IInv, TypeOK, RetryInv
<1>7. CASE UNCHANGED vars
  BY <1>7 DEF vars, RetryInv
<1> QED
  BY <1>1, <1>2, <1>3, <1>4, <1>5, <1>6, <1>7 DEF Next

(* The retry loop of LoadOrCreateKeyfile reads the file once and never       *)
(* again, whatever the bound on its retries: the key is there, or the loop   *)
(* ends with an error although the creator may still be writing.             *)
THEOREM RetryReadsOnce == Spec => [](\A p \in Procs : tries[p] <= 1)
<1>1. Init => RetryInv
  BY DEF Init, RetryInv
<1>2. IInv /\ RetryInv /\ [Next]_vars => RetryInv'
  BY RetryStep
<1>3. RetryInv => \A p \in Procs : tries[p] <= 1
  BY DEF RetryInv
<1> QED
  BY <1>1, <1>2, <1>3, Invariance, PTL DEF Spec
=============================================================================
