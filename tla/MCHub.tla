-------------------------------- MODULE MCHub --------------------------------
(***************************************************************************)
(* The hub with two browsers and two nodes, whose tables are two pages     *)
(* long.  A run uses one of its services at a time: live streams, tables,  *)
(* transport reports, the pilot's seat or the update page.  The browsers   *)
(* are alike.                                                              *)
(***************************************************************************)
EXTENDS Hub, TLC

CONSTANTS c1, c2, n1, n2

MCClients == {c1, c2}
MCNodes == {n1, n2}
Sym == Permutations(MCClients)

Use(commands, nodes, tables, messages, events) ==
    [commands |-> commands, nodes |-> nodes, tables |-> tables, sends |-> messages,
     events |-> events]

MCUses ==
    {Use({"follow", "unfollow"}, {n1}, {}, 3, 3),
     Use({"refresh"}, {n1}, {"modules"}, 1, 6),
     Use({}, {n1}, {"measures"}, 0, 5),
     Use({"watch", "unwatch"}, {n1}, {}, 3, 3),
     Use({"pilot"}, {n1}, {}, 3, 2),
     Use({"start", "status", "abort"}, {n1, n2}, {}, 2, 2)}
=============================================================================
