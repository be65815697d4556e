---------------------------- MODULE MCOtaSession ----------------------------
(* One ground, one board: an update that works or dies, or a revert.       *)
EXTENDS OtaSession

(* The operator gives one order, an update to another build or a revert.    *)
OneOrder == starts' + reverts' <= 1 /\ (starts' = 1 => bundle' # Factory)

OneOrderSpec == SessionInit /\ [][SessionNext /\ OneOrder]_allVars /\ WF_allVars(HubTick)
=============================================================================
