----------------------------- MODULE MCServices -----------------------------
(* The services on small tables, with two ground nodes. *)
EXTENDS Services

MCConfigs == {[ids |-> <<>>, period |-> 1], [ids |-> <<1, 0>>, period |-> 3]}

MCSpent ==
    [s \in Running |->
        CASE s \in {"telemetry", "log", "tuning", "report"} -> [calls |-> 2, faults |-> 2]
          [] OTHER -> [calls |-> 0, faults |-> 0]]
=============================================================================
