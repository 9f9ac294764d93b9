---------------------------- MODULE MessageTable -----------------------------
(***************************************************************************)
(* What the table message promises to whoever reads it: per channel a set  *)
(* of ids that only grows, one id at a time and never one that is there    *)
(* already, until /initialize cuts every channel back to the data set.     *)
(* The ids may become visible in any order.  Chat implements this module;  *)
(* History reads such a table.                                             *)
(***************************************************************************)
EXTENDS Naturals, FiniteSets

CONSTANTS
    Channels,
    InitialMessages,  \* the number of messages of the data set, 10000
    InitialLog        \* their ids, per channel

ASSUME TableAssumption ==
    /\ InitialMessages \in Nat
    /\ InitialLog \in [Channels -> SUBSET (1 .. InitialMessages)]

VARIABLE log          \* log[c]: the ids of the visible messages of channel c

TableInit == log = InitialLog

Store(c, id) ==
    /\ \A d \in Channels : id \notin log[d]
    /\ log' = [log EXCEPT ![c] = @ \cup {id}]

Purge == log' = [c \in Channels |-> {id \in log[c] : id <= InitialMessages}]

TableNext == Purge \/ \E c \in Channels : \E id \in log'[c] : Store(c, id)

TableSpec == TableInit /\ [][TableNext]_log
=============================================================================
