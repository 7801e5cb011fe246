------------------------------ MODULE MCAgent ------------------------------
(* One workload per group of questions: control connections, queries, the   *)
(* peer table with its routes (two peers listed and dropped, one peer       *)
(* listed, dropped and listed again), a mesh without a relay, and frames    *)
(* and pings.                                                               *)
EXTENDS Agent, TLC

CONSTANTS p, q

MCOverlay == p :> "10.0.0.1" @@ q :> "10.0.0.2"

Nothing == [daemon |-> TRUE, tun |-> FALSE, relay |-> TRUE, ids |-> {p}, listed |-> {"absent", "ep"},
            stops |-> 1, registers |-> 0, lists |-> 0, losses |-> 0, frames |-> 0, packets |-> 0,
            pings |-> 0, queries |-> 0]

Control == [Nothing EXCEPT !.registers = 1, !.lists = 2, !.losses = 1]
Query == [Nothing EXCEPT !.stops = 0, !.registers = 1, !.queries = 2]
Table == [Nothing EXCEPT !.tun = TRUE, !.ids = {p, q}, !.lists = 2]
Relist == [Nothing EXCEPT !.tun = TRUE, !.lists = 3, !.losses = 1, !.packets = 1]
NoRelay == [Nothing EXCEPT !.daemon = FALSE, !.relay = FALSE, !.listed = {"absent", "bare", "ep", "bad"},
                           !.lists = 3]
Data == [Nothing EXCEPT !.daemon = FALSE, !.stops = 0, !.lists = 2, !.frames = 3, !.pings = 2]

MCWorkloads == {Control, Query, Table, Relist, NoRelay, Data}
=============================================================================
