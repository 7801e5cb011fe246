----------------------------- MODULE MCDataPath -----------------------------
(* Epochs of two messages, jumps of one epoch and six nonces: the sender   *)
(* can run two epochs ahead, past what the receiver may follow, and use up  *)
(* its nonces.  One session is followed by another.                         *)
EXTENDS DataPath
=============================================================================
