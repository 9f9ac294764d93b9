----------------------------- MODULE MCBenchRun -----------------------------
(***************************************************************************)
(* Instances of BenchRun for TLC: two load goroutines, two channels to     *)
(* add, two checks in preTest and in a round of validation.                *)
(***************************************************************************)
EXTENDS BenchRun

CONSTANTS l1, l2
=============================================================================
