---------------------------- MODULE SessionOrder ----------------------------
(***************************************************************************)
(* What the handshake promises to the transport above it, with no paths,   *)
(* frames or timers: each peer goes from one session to a later one, never *)
(* back, however long a handshake message was under way; and the peer that *)
(* initiates handshakes is the first to install each session.  A session   *)
(* may be given up at any time, and either peer may miss sessions that the *)
(* other one had.                                                          *)
(*                                                                         *)
(* A session is the pair of the contributions of the two sides, counted in *)
(* the order in which each side made them.                                 *)
(***************************************************************************)
EXTENDS Integers

CONSTANTS Peers,
          Initiator,
          Sessions,   \* the pairs of contributions
          NoSession

VARIABLES installed,  \* every <<p, s>> such that p installed s
          sess        \* per peer: the session it is in, or NoSession

vars == <<installed, sess>>

Later(s, t) == s[1] > t[1] /\ s[2] > t[2]

Init ==
  /\ installed = {}
  /\ sess = [p \in Peers |-> NoSession]

Install(p, s) ==
  /\ \A x \in installed : x[1] = p => Later(s, x[2])
  /\ p # Initiator => <<Initiator, s>> \in installed
  /\ installed' = installed \cup {<<p, s>>}
  /\ sess' = [sess EXCEPT ![p] = s]

GiveUp(p) ==
  /\ sess' = [sess EXCEPT ![p] = NoSession]
  /\ UNCHANGED installed

Next == \E p \in Peers : GiveUp(p) \/ \E s \in Sessions : Install(p, s)

Spec == Init /\ [][Next]_vars
=============================================================================
