------------------------------ MODULE MeterMC ------------------------------
(***************************************************************************)
(* Instances of Meter: a loop with a second model, triage's, and triage's   *)
(* beside a classifier's.                                                   *)
(***************************************************************************)
EXTENDS Meter, TLC

CONSTANTS classify, rescore, triage

Widths == (classify :> 2) @@ (rescore :> 2) @@ (triage :> 1)
Batches == (classify :> 5) @@ (rescore :> 4) @@ (triage :> 4)
Meetings == {{rescore}, {triage}, {classify, triage}}
Deaths == [loops \in Meetings |-> IF Cardinality(loops) = 1 THEN 1 ELSE 0]
=============================================================================
