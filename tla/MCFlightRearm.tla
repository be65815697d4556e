---------------------------- MODULE MCFlightRearm ----------------------------
(* FlightCore with a history of the arm switch since the last kill.        *)
EXTENDS MCFlightCore

VARIABLE owesRearm  \* a kill ended a mission, and no message since then had the
                    \* arm switch off

OwesRearm == IF loop = "frame" /\ Graft.kill THEN (owesRearm \/ Armed) /\ rc.arm
             ELSE owesRearm /\ rc'.arm

RearmInit == Init /\ owesRearm = FALSE
RearmNext == Next /\ owesRearm' = OwesRearm
RearmSpec == RearmInit /\ [][RearmNext]_<<vars, owesRearm>>

\* After a kill "flying again takes a deliberate rearm" (flight_core.cpp): the
\* arm switch was off in some message between the kill and the next mission.
RearmIsDeliberate ==
    [][phase = "IDLE" /\ phase' # "IDLE" => ~owesRearm']_<<vars, owesRearm>>
=============================================================================
