---------------------------- MODULE MCTelemetry ----------------------------
(***************************************************************************)
(* Values of the constants of Telemetry for TLC: the reports of f1 keep to *)
(* one of two partitions, those of f2 do not.                              *)
(***************************************************************************)
EXTENDS Telemetry, TLC

CONSTANTS f1, f2, p1, p2

OneAndBoth == (f1 :> {p1}) @@ (f2 :> {p1, p2})
HalfDropped == {[rx |-> 2, tx |-> 1]}
=============================================================================
