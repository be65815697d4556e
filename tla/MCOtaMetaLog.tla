---------------------------- MODULE MCOtaMetaLog ----------------------------
(* OtaMetaLog on two records per area and a handful of appends: enough for *)
(* a full area, the ping-pong both ways and torn cells everywhere.         *)
EXTENDS OtaMetaLog
=============================================================================
