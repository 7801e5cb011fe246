------------------------------- MODULE MCNat -------------------------------
(* Two addresses that share an IP, and one that does not. *)
EXTENDS Nat

TwoIPs == {<<1, 1>>, <<1, 2>>, <<2, 1>>}
=============================================================================
