---------------------------- MODULE ChatTimeline -----------------------------
(***************************************************************************)
(* What an open page of the chat promises to who looks at it, with no word *)
(* of requests, timers, cookies or last_message_id: it shows the newest    *)
(* messages of its channel in order, comes to know newer ones in batches,  *)
(* and skips none but those that the database made visible after a newer   *)
(* one.  ChatTab implements this module.                                   *)
(***************************************************************************)
EXTENDS MessageTable, Sequences

CONSTANTS
    Tabs,
    Page,    \* the channel a page shows
    Trim     \* how many messages a page has room for, 100

VARIABLES
    shown,   \* shown[t]: the ids on the page, from the top
    known,   \* known[t]: the newest message the page was told of, or 0
    late     \* ids that became visible after a newer one of their channel

TimelineInit ==
    /\ TableInit
    /\ shown = [t \in Tabs |-> <<>>]
    /\ known = [t \in Tabs |-> 0]
    /\ late = {}

\* A post becomes visible to the SELECTs of the application.
Appear(c, id) ==
    /\ Store(c, id)
    /\ late' = late \cup {i \in {id} : \E n \in log[c] : n > i}
    /\ UNCHANGED <<shown, known>>

\* The page is opened anew and is empty until its first answer.
Reload(t) ==
    /\ shown' = [shown EXCEPT ![t] = <<>>]
    /\ known' = [known EXCEPT ![t] = 0]
    /\ UNCHANGED <<log, late>>

Entries(page) == {page[i] : i \in DOMAIN page}

\* What a page that comes to know message n ought to show.
Due(t, n) == Entries(shown[t]) \cup {i \in log[Page[t]] : known[t] < i /\ i <= n}

\* id has no place among the Trim messages of the page.
Scrolled(page, id) == Len(page) = Trim /\ id < page[1]

\* Message n and others before it are appended, the oldest scroll away.
Learn(t, n, page) ==
    /\ known[t] < n
    /\ n \in Entries(page) /\ Entries(page) \subseteq Due(t, n)
    /\ \A i, j \in DOMAIN page : i < j => page[i] < page[j]
    /\ Len(page) <= Trim
    /\ \A id \in Due(t, n) \ Entries(page) :
          Scrolled(page, id) \/ (id \in late /\ id \notin Entries(shown[t]))
    /\ shown' = [shown EXCEPT ![t] = page]
    /\ known' = [known EXCEPT ![t] = n]
    /\ UNCHANGED <<log, late>>

TimelineNext ==
    \/ \E c \in Channels : \E id \in log'[c] : Appear(c, id)
    \/ \E t \in Tabs : \/ Reload(t)
                       \/ \E n \in log[Page[t]] : Learn(t, n, shown'[t])

TimelineSpec == TimelineInit /\ [][TimelineNext]_<<log, shown, known, late>>
=============================================================================
