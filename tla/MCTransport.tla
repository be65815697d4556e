---------------------------- MODULE MCTransport ----------------------------
(* The drone on a serial link behind a bridge, the hub on the bridge's     *)
(* network.                                                                *)
EXTENDS Transport

MCPhases == <<"hub", "drone", "bridge">>
MCLinks == <<"lan", "uart">>
MCAttached == [l \in {"lan", "uart"} |-> IF l = "lan" THEN {"hub", "bridge"} ELSE {"bridge", "drone"}]
=============================================================================
