----------------------------- MODULE MCPlatform -----------------------------
(***************************************************************************)
(* The programs and drivers at the edges of the stack, on small instances: *)
(* the simulated drone with two plants, the second of which counts fewer   *)
(* ticks and starts in lockstep; the relay's own update; and on the flight *)
(* board the I2C master, the sensor source and the serial line.  They      *)
(* share no state, and an execution is of one of them.                     *)
(***************************************************************************)
EXTENDS SimDrone, BridgeStore, I2cBus, SensorSource, SerialLine

CONSTANTS p1, p2

MCPlants == {p1, p2}
MCMaxTick == [p \in MCPlants |-> IF p = p1 THEN 4 ELSE 1]

(* A sync byte, a whole sync pair in a payload too large for the receiver, *)
(* and a plain byte.                                                       *)
MCPayloads == << <<11>>, <<10, 11>>, <<1>> >>

VARIABLE program

vars == <<simVars, bridgeVars, i2cVars, sourceVars, lineVars, program>>

Init ==
    /\ program \in {"drone_sim", "relay", "i2c", "sensors", "line"}
    /\ SimInit /\ BridgeInit /\ I2cInit /\ SourceInit /\ LineInit
    /\ \A p \in Plants : plant[p].lockstep \/ (program = "drone_sim" /\ p = p1)

Next ==
    \/ /\ program = "drone_sim" /\ SimNext
       /\ UNCHANGED <<bridgeVars, i2cVars, sourceVars, lineVars, program>>
    \/ /\ program = "relay" /\ BridgeNext
       /\ UNCHANGED <<simVars, i2cVars, sourceVars, lineVars, program>>
    \/ /\ program = "i2c" /\ I2cNext
       /\ UNCHANGED <<simVars, bridgeVars, sourceVars, lineVars, program>>
    \/ /\ program = "sensors" /\ SourceNext
       /\ UNCHANGED <<simVars, bridgeVars, i2cVars, lineVars, program>>
    \/ /\ program = "line" /\ LineNext
       /\ UNCHANGED <<simVars, bridgeVars, i2cVars, sourceVars, program>>

Spec == Init /\ [][Next]_vars
=============================================================================
