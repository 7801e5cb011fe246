------------------------------ MODULE MCRelay ------------------------------
(* Two ticks to a second, so that a second can straddle two windows, and a  *)
(* pin grace of two ticks.                                                  *)
EXTENDS Relay, TLC

Disabled == -1
Symmetry == Permutations(Names) \cup Permutations(Addrs)
=============================================================================
