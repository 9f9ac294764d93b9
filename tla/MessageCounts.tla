---------------------------- MODULE MessageCounts ----------------------------
(***************************************************************************)
(* What the benchmarker's ledger promises to a check that only counts: per *)
(* channel the messages announced, stored and known to be stored, and when *)
(* each number may grow.  MessageLedger implements this module; History    *)
(* takes its posts from it.                                                *)
(***************************************************************************)
EXTENDS Naturals

CONSTANTS
    Channels,
    InitialCount   \* the messages of the data set, per channel

VARIABLES
    sent,       \* sent[c]: messages of channel c in the ledger, msgCntMax
    stored,     \* stored[c]: external, rows of channel c
    complete,   \* complete[c]: messages with SendComplete, msgCntMin
    done        \* the context of the run is done

CountsInit ==
    /\ sent = InitialCount
    /\ stored = InitialCount
    /\ complete = InitialCount
    /\ done = FALSE

\* AddSendMessage.
Announce(c) ==
    /\ sent' = [sent EXCEPT ![c] = @ + 1]
    /\ UNCHANGED <<stored, complete, done>>

\* The application stores what was announced before.
Store(c) ==
    /\ stored[c] < sent[c]
    /\ stored' = [stored EXCEPT ![c] = @ + 1]
    /\ UNCHANGED <<sent, complete, done>>

\* The function AddSendMessage returned.  A post is answered when it is
\* stored; once the run is done it is completed without being sent.
Complete(c) ==
    /\ complete[c] < IF done THEN sent[c] ELSE stored[c]
    /\ complete' = [complete EXCEPT ![c] = @ + 1]
    /\ UNCHANGED <<sent, stored, done>>

Deadline ==
    /\ ~done
    /\ done' = TRUE
    /\ UNCHANGED <<sent, stored, complete>>

CountsNext ==
    \/ \E c \in Channels : Announce(c) \/ Store(c) \/ Complete(c)
    \/ Deadline

CountsSpec == CountsInit /\ [][CountsNext]_<<sent, stored, complete, done>>
=============================================================================
