-------------------------- MODULE MCHandshakeLive --------------------------
(* The networks of the two liveness runs.                                   *)
EXTENDS PeerHandshakeLive, TLC

BothEP == [p \in Peers |-> TRUE]

None == [k \in Kinds |-> 0]
Timeouts(i, r) == I :> [None EXCEPT !["timeout"] = i] @@ R :> [None EXCEPT !["timeout"] = r]

\* Both paths work, no timer runs out.
Open == [dead |-> {}, replays |-> TRUE, rearms |-> FALSE, timely |-> FALSE, fuel |-> Timeouts(0, 0)]

\* The direct path is dead: the initiator gives up three attempts (direct,
\* relay, direct), the responder any number of half-open handshakes.
DirectDead ==
  [dead |-> {"direct"}, replays |-> FALSE, rearms |-> TRUE, timely |-> TRUE, fuel |-> Timeouts(3, 1)]

\* Both paths work, but the responder gives up one half-open handshake.
Impatient ==
  [dead |-> {}, replays |-> FALSE, rearms |-> FALSE, timely |-> FALSE, fuel |-> Timeouts(0, 1)]

\* MeetOverRelay asks for the first agreement only: a behaviour that refutes it
\* has no state in which the peers agree.
UntilAgreed == network.dead = {} \/ ~Agreed

LiveNetworks == {Open, DirectDead}
HalfOpenNetworks == {Impatient}

LiveFuels == {n.fuel : n \in LiveNetworks \cup HalfOpenNetworks}
=============================================================================
