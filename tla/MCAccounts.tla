----------------------------- MODULE MCAccounts -----------------------------
(***************************************************************************)
(* A small instance for TLC: requests are interchangeable.                 *)
(***************************************************************************)
EXTENDS Accounts, TLC

Symmetry == Permutations(Slots)
=============================================================================
