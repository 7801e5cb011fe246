----------------------------- MODULE MCKeyfile -----------------------------
(* Three processes on one key file: a creator, a loser of the race, and a   *)
(* process that finds the file in whatever state they left it.              *)
EXTENDS Keyfile, TLC

Symmetry == Permutations(Procs)
=============================================================================
