--------------------------- MODULE MCCoordinator ---------------------------
(* c1 and c2 are connections of one agent, before and after a reconnect; c3 *)
(* belongs to another agent, with a key of its own.                         *)
EXTENDS Coordinator, TLC

CONSTANTS c1, c2, c3, a, b, x

KeyA == "keyA"
KeyB == "keyB"
MCKeyOf == c1 :> KeyA @@ c2 :> KeyA @@ c3 :> KeyB

\* The reconnecting agent may come back under a new name, and the other agent
\* may ask for a name that is taken.
Names == c1 :> {a} @@ c2 :> {a, x} @@ c3 :> {a, b}
OwnName == c1 :> {a} @@ c2 :> {a} @@ c3 :> {b}
=============================================================================
