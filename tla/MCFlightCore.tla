---------------------------- MODULE MCFlightCore ----------------------------
(* FlightCore with every threshold a tick or two long.  A frame has at most *)
(* one thing out of the ordinary: a saturated gyro, an impact, a silent    *)
(* barometer, or an attitude other than leaning.                           *)
EXTENDS FlightCore

MCMeasurements ==
    {m \in MeasurementSpace :
        /\ m.gyro \/ m.accel = "impact" => m.up = "leaning" /\ m.baro
        /\ m.gyro => m.accel = "rest"
        /\ m.up # "leaning" => m.baro}
=============================================================================
