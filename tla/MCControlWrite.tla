--------------------------- MODULE MCControlWrite ---------------------------
(* Two broadcasts and a reply to one client whose socket buffer holds two   *)
(* messages.                                                                *)
EXTENDS ControlWrite
=============================================================================
