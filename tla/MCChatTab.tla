----------------------------- MODULE MCChatTab ------------------------------
(***************************************************************************)
(* Instances of ChatTab for TLC: two tabs, of one user or of two.          *)
(***************************************************************************)
EXTENDS ChatTab

CONSTANTS u1, u2, c1, t1, t2, h1, h2

MCInitialRows == {[id |-> 1, channel_id |-> c1, user_id |-> u1]}

SameOwner == t1 :> u1 @@ t2 :> u1
TwoOwners == t1 :> u1 @@ t2 :> u2
OnePage == t1 :> c1 @@ t2 :> c1

MCSymmetry == Permutations(Handlers)
=============================================================================
