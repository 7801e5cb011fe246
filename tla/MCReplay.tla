------------------------------ MODULE MCReplay ------------------------------
(* A window of 5 bits in words of 2, so that slides cross words and the     *)
(* last word is only partly used; nonces reach past two whole windows.      *)
EXTENDS ReplayReceiver

MCNonces == 0 .. 11
=============================================================================
