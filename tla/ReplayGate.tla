----------------------------- MODULE ReplayGate -----------------------------
(***************************************************************************)
(* What the DATA replay gate promises, with no bitmap: the receiver        *)
(* remembers every nonce it accepted in the current session, accepts an    *)
(* authentic frame exactly when its nonce is new and less than a window    *)
(* behind the newest one, and never moves on a forged frame.               *)
(***************************************************************************)
EXTENDS Integers

CONSTANTS Size,    \* width of the window
          Nonces   \* the nonces frames carry

VARIABLES accepted,  \* nonces accepted in this session
          verdict    \* the gate's answer to the last frame

vars == <<accepted, verdict>>

NoVerdict == [nonce |-> 0, authentic |-> FALSE, ok |-> FALSE]

\* n lies Size or more behind a nonce that was already accepted.
Outside(n) == \E m \in accepted : m >= n + Size

\* Nonce 0 has a flag of its own and never ages out of the window.
Fresh(n) == n \notin accepted /\ (n = 0 \/ ~Outside(n))

Init == accepted = {} /\ verdict = NoVerdict

Deliver(n, authentic) ==
  LET ok == Fresh(n) /\ authentic
  IN  /\ verdict' = [nonce |-> n, authentic |-> authentic, ok |-> ok]
      /\ accepted' = IF ok THEN accepted \cup {n} ELSE accepted

NewSession == accepted' = {} /\ verdict' = NoVerdict

Next == NewSession \/ \E n \in Nonces, authentic \in BOOLEAN : Deliver(n, authentic)

Spec == Init /\ [][Next]_vars
=============================================================================
