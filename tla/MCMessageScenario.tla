------------------------- MODULE MCMessageScenario -------------------------
(***************************************************************************)
(* A small instance for TLC: the users are interchangeable.                *)
(***************************************************************************)
EXTENDS MessageScenario, TLC

UserSymmetry == Permutations(Users)
=============================================================================
