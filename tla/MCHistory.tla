------------------------------ MODULE MCHistory ------------------------------
(***************************************************************************)
(* Instances of History for TLC: a channel with three messages on two      *)
(* pages and one without messages, or the first one alone.                 *)
(***************************************************************************)
EXTENDS History

CONSTANTS c1, c2

MCInitialLog == [c \in Channels |-> IF c = c1 THEN {1, 2, 3} ELSE {}]
=============================================================================
