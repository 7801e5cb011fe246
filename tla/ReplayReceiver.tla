--------------------------- MODULE ReplayReceiver ---------------------------
(***************************************************************************)
(* The receive side of one peer session as far as the replay gate goes:    *)
(* Peer.onData asks the window, opens the frame, and commits the nonce     *)
(* only when the frame authenticated; Peer.setSessionLocked starts a new   *)
(* window with every new session.  `accepted' and `verdict' are history    *)
(* variables: the code keeps only w.                                       *)
(***************************************************************************)
EXTENDS ReplayWindow

CONSTANT Nonces   \* the nonces that frames carry

ASSUME NoncesAssumption == Nonces \subseteq Nat

VARIABLES w,         \* p.replay
          accepted,  \* the nonces whose frames were delivered in this session
          verdict    \* what the gate answered to the last frame

vars == <<w, accepted, verdict>>

NoVerdict == [nonce |-> 0, authentic |-> FALSE, ok |-> FALSE]

Init == w = newReplayWindow /\ accepted = {} /\ verdict = NoVerdict

\* Mutant: the nonce is committed before the frame has been authenticated.
onDataCommitFirst(n, authentic) ==
  LET ok == Check(w, n) /\ authentic
  IN  /\ w' = IF Check(w, n) THEN Commit(w, n) ELSE w
      /\ verdict' = [nonce |-> n, authentic |-> authentic, ok |-> ok]
      /\ accepted' = IF ok THEN accepted \cup {n} ELSE accepted

onData(n, authentic) ==
  LET ok == Check(w, n) /\ authentic
  IN  /\ w' = IF ok THEN Commit(w, n) ELSE w
      /\ verdict' = [nonce |-> n, authentic |-> authentic, ok |-> ok]
      /\ accepted' = IF ok THEN accepted \cup {n} ELSE accepted

setSessionLocked ==
  /\ w' = newReplayWindow
  /\ accepted' = {}
  /\ verdict' = NoVerdict

Next == setSessionLocked \/ \E n \in Nonces, authentic \in BOOLEAN : onData(n, authentic)

Spec == Init /\ [][Next]_vars

-----------------------------------------------------------------------------
Verdict == [nonce : Nat, authentic : BOOLEAN, ok : BOOLEAN]

\* Check looks up the bit of this nonce: it is neither the zero nonce, nor
\* above max, nor below the window.
Reads(n) == n # 0 /\ w.max # 0 /\ w.start <= n /\ n <= w.max

\* Indexing w.bits (replay.go:126-132, idx/64) never panics: Commit's setBit
\* has stayed within the slice, and so would the getBit of Check for whatever
\* nonce comes next.  That rests on max - start staying below the width of the
\* window through every slide, jump and late frame.
NoPanic == w.bits # Panic /\ \A n \in Nonces : Reads(n) => InRange(n - w.start)

\* No DATA frame is delivered twice in a session, however the network
\* duplicates, delays or reorders frames and wherever the bitmap has slid to
\* in between.
NoReplay == [][verdict'.ok => verdict'.nonce \notin accepted]_vars

\* The bitmap decides like the set of all accepted nonces would: a frame that
\* is fresh and within the window is never refused because an earlier slide
\* misplaced, kept or lost a bit.
Gate == INSTANCE ReplayGate
GateSpec == Gate!Spec
=============================================================================
