---------------------------- MODULE OnceChannel ----------------------------
(***************************************************************************)
(* What a session direction promises to its consumer, with no keys, nonces *)
(* or windows: whatever is handed over was sent, and is handed over once.  *)
(* A message that is lost is one that is never delivered.                  *)
(***************************************************************************)
EXTENDS Integers

CONSTANT Items   \* the messages that may ever be sent

VARIABLES sent,      \* the messages sent so far
          delivered  \* how often each message was handed over

vars == <<sent, delivered>>

Init == sent = {} /\ delivered = [x \in Items |-> 0]

Send(x) ==
  /\ x \notin sent
  /\ sent' = sent \cup {x}
  /\ UNCHANGED delivered

Deliver(x) ==
  /\ x \in sent /\ delivered[x] = 0
  /\ delivered' = [delivered EXCEPT ![x] = 1]
  /\ UNCHANGED sent

Next == \E x \in Items : Send(x) \/ Deliver(x)

Spec == Init /\ [][Next]_vars
=============================================================================
