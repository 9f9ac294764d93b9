-------------------------- MODULE MCMessageLedger ---------------------------
(***************************************************************************)
(* An instance of MessageLedger for TLC: two channels, one message of the  *)
(* data set, two texts that writers may both draw.                         *)
(***************************************************************************)
EXTENDS MessageLedger, TLC

CONSTANTS c1, c2, x1, x2, w1, w2, r1, r2

MCInitialMessages == {<<c1, x1>>}

MCSymmetry == Permutations(Writers) \cup Permutations(Readers)
=============================================================================
