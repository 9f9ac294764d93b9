------------------------------- MODULE MCChat -------------------------------
(***************************************************************************)
(* Instances of Chat for TLC: one message in the data set, two handlers,   *)
(* which are interchangeable.                                              *)
(***************************************************************************)
EXTENDS Chat, TLC

CONSTANTS u1, u2, c1, c2, h1, h2

MCInitialRows == {[id |-> 1, channel_id |-> c1, user_id |-> u1]}

MCSymmetry == Permutations(Handlers)
=============================================================================
