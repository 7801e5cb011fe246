------------------------------ MODULE Keyfile ------------------------------
(***************************************************************************)
(* LoadOrCreateKeyfile (src/internal/noisework/noisework.go): several      *)
(* processes, started and restarted at any time, share one key file that   *)
(* holds a node's long-term identity.  Creating the file and writing the   *)
(* key are two steps of the file system, and a process may crash or fail   *)
(* between them.                                                           *)
(***************************************************************************)
EXTENDS Integers

CONSTANTS Procs,      \* the processes that use the key file
          MaxRetries  \* re-reads after a lost creation race: 20 in the code

ASSUME MaxRetriesAssumption == MaxRetries \in Nat

VARIABLES file,   \* Absent, MidWrite, or the key in it
          pc,     \* where each process is in LoadOrCreateKeyfile
          kp,     \* the key pair it holds: generated or loaded
          tries   \* how often the retry loop has read the file

vars == <<file, pc, kp, tries>>

(* A process that generates a key is the name of that key: the file is       *)
(* created only once, so only one generated key can ever reach it.           *)
Keys == Procs

Absent == [state |-> "absent"]
MidWrite == [state |-> "midwrite"]
Holds(k) == [state |-> "key", key |-> k]
Files == {Absent, MidWrite} \cup {Holds(k) : k \in Keys}

NoKey == [none |-> TRUE]
Has(k) == [none |-> FALSE, key |-> k]

Locations == {"load", "create", "write", "retry", "ok", "failed", "down"}

Goto(p, l) == pc' = [pc EXCEPT ![p] = l]

Init ==
  /\ file = Absent
  /\ pc = [p \in Procs |-> "down"]
  /\ kp = [p \in Procs |-> NoKey]
  /\ tries = [p \in Procs |-> 0]

\* A process calls LoadOrCreateKeyfile when it starts.
Start(p) ==
  /\ pc[p] \in {"down", "failed"}
  /\ Goto(p, "load")
  /\ kp' = [kp EXCEPT ![p] = NoKey]
  /\ tries' = [tries EXCEPT ![p] = 0]
  /\ UNCHANGED file

\* loadKeyfile by p: l is where ErrNotExist leads; a file that exists without a
\* usable key is "corrupt".
loadKeyfile(p, l) ==
  /\ Goto(p, CASE file = Absent -> l
               [] file = MidWrite -> "failed"
               [] OTHER -> "ok")
  /\ kp' = [kp EXCEPT ![p] = IF file \in {Absent, MidWrite} THEN @ ELSE Has(file.key)]

Load(p) ==
  /\ pc[p] = "load"
  /\ loadKeyfile(p, "create")
  /\ UNCHANGED <<file, tries>>

\* Mutant: the file is opened without O_EXCL, so a later creator truncates it.
CreateShared(p) ==
  /\ pc[p] = "create"
  /\ file' = MidWrite /\ Goto(p, "write")
  /\ kp' = [kp EXCEPT ![p] = Has(p)]
  /\ UNCHANGED tries

\* GenerateKeypair and the O_EXCL open of createKeyfile.
Create(p) ==
  /\ pc[p] = "create"
  /\ IF file = Absent
       THEN /\ file' = MidWrite /\ Goto(p, "write")
            /\ kp' = [kp EXCEPT ![p] = Has(p)]
       ELSE /\ Goto(p, "retry")
            /\ UNCHANGED <<file, kp>>
  /\ UNCHANGED tries

\* The write of createKeyfile; the file stays behind when it fails.
Write(p) ==
  /\ pc[p] = "write"
  /\ \/ file' = Holds(kp[p].key) /\ Goto(p, "ok") /\ UNCHANGED kp
     \/ Goto(p, "failed") /\ kp' = [kp EXCEPT ![p] = NoKey] /\ UNCHANGED file
  /\ UNCHANGED tries

\* The retry loop of LoadOrCreateKeyfile: only ErrNotExist is tried again.
Retry(p) ==
  /\ pc[p] = "retry"
  /\ IF tries[p] < MaxRetries
       THEN /\ tries' = [tries EXCEPT ![p] = @ + 1]
            /\ loadKeyfile(p, "retry")
       ELSE Goto(p, "failed") /\ UNCHANGED <<tries, kp>>
  /\ UNCHANGED file

\* The process dies, or exits: what it held in memory is gone.
Crash(p) ==
  /\ pc[p] # "down"
  /\ Goto(p, "down")
  /\ kp' = [kp EXCEPT ![p] = NoKey]
  /\ UNCHANGED <<file, tries>>

Next == \E p \in Procs : Start(p) \/ Load(p) \/ Create(p) \/ Write(p) \/ Retry(p) \/ Crash(p)

Spec == Init /\ [][Next]_vars

-----------------------------------------------------------------------------
TypeOK ==
  /\ file \in Files
  /\ pc \in [Procs -> Locations]
  /\ kp \in [Procs -> {NoKey} \cup {Has(k) : k \in Keys}]
  /\ tries \in [Procs -> 0 .. MaxRetries]

\* All processes that got an identity got the same one, and it is the one on
\* disk, so that the next start loads it again: concurrent first starts,
\* failed writes and crashes never leave a node with a key of its own.
OneIdentity == \A p \in Procs : pc[p] = "ok" => kp[p] # NoKey /\ file = Holds(kp[p].key)

\* A key that reached the file is never replaced or damaged by a later start.
IdentityKept == [][\A k \in Keys : file = Holds(k) => file' = Holds(k)]_vars
=============================================================================
