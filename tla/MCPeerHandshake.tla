-------------------------- MODULE MCPeerHandshake --------------------------
(* An instance of PeerHandshake: what the peers know of each other, and     *)
(* which rare events may happen.                                            *)
EXTENDS PeerHandshake, TLC

NoEP == [p \in Peers |-> FALSE]

Rare == I :> [timeout |-> 1, roam |-> 1, rotate |-> 1, restart |-> 0]
          @@ R :> [timeout |-> 1, roam |-> 0, rotate |-> 0, restart |-> 1]
RareEvents == {Rare}
=============================================================================
