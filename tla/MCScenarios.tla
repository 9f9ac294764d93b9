---------------------------- MODULE MCScenarios ----------------------------
(***************************************************************************)
(* A small pool for TLC: the users of the pool are interchangeable.        *)
(***************************************************************************)
EXTENDS Scenarios, TLC

UserSymmetry == Permutations(InitialUsers)
=============================================================================
