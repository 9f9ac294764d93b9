------------------------------ MODULE ChatTab -------------------------------
(***************************************************************************)
(* Browser tabs running webapp/public/js/chat.js against the server of     *)
(* module Chat.  A tab loads the newest messages of its channel, and then  *)
(* a 10 ms timer asks /fetch for the unread counts and, when its own       *)
(* channel has some, /message for what follows last_message_id.  The flag  *)
(* loading keeps the timer from starting a second round.  No $.ajax call   *)
(* has an error callback.                                                  *)
(*                                                                         *)
(* chat.js never calls /register, /add_channel or /initialize, so the      *)
(* users and channels are those of the initial data set.                   *)
(***************************************************************************)
EXTENDS Chat, Sequences, SequencesExt

CONSTANTS
    Tabs,          \* browser tabs
    Owner,         \* the user whose session cookie a tab sends
    Page,          \* the channel a tab shows
    Trim,          \* how many messages append keeps on the page, 100
    MaxOpens,      \* bound: how often pages are opened or reloaded
    NetworkFaults  \* bound: may requests and responses be lost?

\* chat.js keeps 100 messages, and queryMessages selects as many at a time;
\* MaxMessage leaves room for the data set.
ASSUME TabsAssumption ==
    /\ Owner \in [Tabs -> InitialUsers]
    /\ Page \in [Tabs -> InitialChannels]
    /\ Trim \in 1 .. Limit
    /\ InitialMessages <= MaxMessage
    /\ MaxOpens \in Nat
    /\ NetworkFaults \in BOOLEAN

VARIABLES
    tab,     \* the state of chat.js in each tab
    opens,   \* pages opened so far
    failed,  \* history: tabs one of whose requests failed since they opened
    late,    \* history: messages that became visible after a newer one had
    lost     \* history: <<user, channel, id>> answered to, or shown by, a page
             \* that did not get the answer or no longer exists

tabVars == <<tab, opens, failed, late, lost>>
allVars == <<vars, tabVars>>

Closed == [phase |-> "closed", loading |-> FALSE, fetched |-> FALSE, last |-> 0,
           timeline |-> <<>>, requests |-> {}]

\* requests: the goroutines whose answer a callback of the tab waits for;
\* fetched: /fetch reported unread messages, get_message is about to be sent.
Tab == [phase : {"closed", "opening", "polling"},
        loading : BOOLEAN,
        fetched : BOOLEAN,
        last : 0 .. MaxMessage,
        timeline : Seq(1 .. MaxMessage),
        requests : SUBSET Handlers]

-----------------------------------------------------------------------------
Ids(rows) == {r.id : r \in rows}

\* The ids of an answer, oldest first.
Ascending(S) ==
    CHOOSE s \in [1 .. Cardinality(S) -> S] :
        \A i, j \in DOMAIN s : i < j => s[i] < s[j]

\* Mutant: append keeps one message more than the server returns.
AppendMutant(timeline, rows) ==
    LET all == timeline \o Ascending(Ids(rows))
    IN  IF Len(all) <= Trim + 1 THEN all
        ELSE SubSeq(all, Len(all) - Trim, Len(all))

\* append, for each message of an answer in ascending order
Append100(timeline, rows) ==
    LET all == timeline \o Ascending(Ids(rows))
    IN  IF Len(all) <= Trim THEN all
        ELSE SubSeq(all, Len(all) - Trim + 1, Len(all))

\* last_message_id = Math.max(last_message_id, msg.id)
LastId(last, rows) == Max({last} \cup Ids(rows))

\* The rows a tab is about to be told of, or has on its page.
Held(t) == {tab[t].last}
             \cup (UNION {Ids(handler[h].rows) : h \in tab[t].requests})

Note(t, ids) == {<<Owner[t], Page[t], id>> : id \in ids}

-----------------------------------------------------------------------------
TabInit ==
    /\ Init
    /\ tab = [t \in Tabs |-> Closed]
    /\ opens = 0
    /\ failed = {}
    /\ late = {}
    /\ lost = {}

\* $(document).ready on a fresh or reloaded page; the callbacks of the old
\* page are gone, the handlers that serve its requests run on.
Open(t, h) ==
    /\ opens < MaxOpens
    /\ GetMessage(h, Owner[t], Page[t], 0)
    /\ tab' = [tab EXCEPT ![t] = [Closed EXCEPT !.phase = "opening",
                                                !.requests = {h}]]
    /\ opens' = opens + 1
    /\ failed' = failed \ {t}
    /\ lost' = lost \cup Note(t, Held(t))
    /\ UNCHANGED late

\* post_message: no callback waits for the answer.
Send(t, h) ==
    /\ tab[t].phase # "closed"
    /\ PostMessage(h, Owner[t], Page[t])
    /\ UNCHANGED tabVars

\* A callback of tab t runs with the answer of h; only 200 reaches success.
Answered(t, h) ==
    /\ h \in tab[t].requests
    /\ handler[h].status = 200
    /\ Respond(h)

IsFetch(h) == handler[h].unread # {}

\* The callbacks of get_message, on the first load and in the timer.
ReceiveMessages(t, h) ==
    /\ Answered(t, h)
    /\ ~IsFetch(h)
    /\ LET T == tab[t]
           rows == handler[h].rows
       IN  tab' = [tab EXCEPT ![t] =
                     [T EXCEPT !.phase = "polling",
                               !.loading = FALSE,
                               !.last = LastId(T.last, rows),
                               !.timeline = Append100(T.timeline, rows),
                               !.requests = T.requests \ {h}]]
    /\ UNCHANGED <<opens, failed, late, lost>>

\* Mutant: the timer does not look at loading.
PollMutant(t, h) ==
    /\ tab[t].phase = "polling"
    /\ FetchUnread(h, Owner[t])
    /\ tab' = [tab EXCEPT ![t].loading = TRUE,
                          ![t].requests = @ \cup {h}]
    /\ UNCHANGED <<opens, failed, late, lost>>

\* The timer fires: fetch_unread.
Poll(t, h) ==
    /\ tab[t].phase = "polling"
    /\ ~tab[t].loading
    /\ FetchUnread(h, Owner[t])
    /\ tab' = [tab EXCEPT ![t].loading = TRUE,
                          ![t].requests = @ \cup {h}]
    /\ UNCHANGED <<opens, failed, late, lost>>

\* Mutant: loading is not reset when there is nothing to get.
ReceiveFetchMutant(t, h) ==
    /\ Answered(t, h)
    /\ IsFetch(h)
    /\ LET updated == \E p \in handler[h].unread : p[1] = Page[t] /\ 0 < p[2]
       IN  tab' = [tab EXCEPT ![t].fetched = updated,
                              ![t].requests = @ \ {h}]
    /\ UNCHANGED <<opens, failed, late, lost>>

\* The callback of fetch_unread; the badges of other channels are layout.
ReceiveFetch(t, h) ==
    /\ Answered(t, h)
    /\ IsFetch(h)
    /\ LET updated == \E p \in handler[h].unread : p[1] = Page[t] /\ 0 < p[2]
       IN  tab' = [tab EXCEPT ![t].fetched = updated,
                              ![t].loading = updated,
                              ![t].requests = @ \ {h}]
    /\ UNCHANGED <<opens, failed, late, lost>>

\* The get_message that callback sends reaches the server.
SendGet(t, h) ==
    /\ tab[t].fetched
    /\ GetMessage(h, Owner[t], Page[t], tab[t].last)
    /\ tab' = [tab EXCEPT ![t].fetched = FALSE,
                          ![t].requests = @ \cup {h}]
    /\ UNCHANGED <<opens, failed, late, lost>>

\* A request or its answer is lost: the callback that would clear loading,
\* or start the timer, never runs.  The handler may have run all the same.
RequestLost(t) ==
    /\ NetworkFaults
    /\ tab[t].fetched \/ tab[t].requests # {}
    /\ tab' = [tab EXCEPT ![t].fetched = FALSE, ![t].requests = {}]
    /\ failed' = failed \cup {t}
    /\ lost' = lost \cup Note(t, Held(t))
    /\ UNCHANGED <<vars, opens, late>>

\* An answer that is not 200 has no callback either.
Refused(t, h) ==
    /\ h \in tab[t].requests
    /\ handler[h].status \notin {0, 200}
    /\ Respond(h)
    /\ tab' = [tab EXCEPT ![t].requests = @ \ {h}]
    /\ failed' = failed \cup {t}
    /\ lost' = lost \cup Note(t, Held(t))
    /\ UNCHANGED <<opens, late>>

\* No page waits for the answer.
Unheard(h) ==
    /\ \A t \in Tabs : h \notin tab[t].requests
    /\ Respond(h)
    /\ UNCHANGED tabVars

\* The server runs the next statement of a request.
Serve(h) ==
    /\ Continue(h)
    /\ late' = late \cup {r.id : r \in {s \in message' \ message :
                  \E n \in InChannel(s.channel_id) : n.id > s.id}}
    /\ UNCHANGED <<tab, opens, failed, lost>>

TabStep(t) ==
    \/ \E h \in Handlers : \/ Open(t, h) \/ Send(t, h) \/ Poll(t, h)
                           \/ SendGet(t, h) \/ ReceiveMessages(t, h)
                           \/ ReceiveFetch(t, h) \/ Refused(t, h)
    \/ RequestLost(t)

TabNext ==
    \/ \E t \in Tabs : TabStep(t)
    \/ \E h \in Handlers : Serve(h) \/ Unheard(h)

TabSpec == TabInit /\ [][TabNext]_allVars

(***************************************************************************)
(* Fairness.  The server runs every statement and sends every answer, the  *)
(* timer of an open page keeps firing and callbacks run.  The get_message  *)
(* of a callback finds a goroutine in the end, even if others keep taking  *)
(* the free ones (SF): net/http starts one for each request, Handlers is   *)
(* only a bound.  Nothing is assumed of users, and a lost request stays    *)
(* lost.                                                                   *)
(***************************************************************************)
Fairness ==
    /\ \A h \in Handlers : WF_allVars(Serve(h) \/ Unheard(h))
    /\ \A t \in Tabs :
         /\ WF_allVars(\E h \in Handlers : \/ ReceiveMessages(t, h)
                                           \/ ReceiveFetch(t, h)
                                           \/ Refused(t, h))
         /\ WF_allVars(\E h \in Handlers : Poll(t, h))
         /\ SF_allVars(\E h \in Handlers : SendGet(t, h))

FairSpec == TabSpec /\ Fairness

-----------------------------------------------------------------------------
\* loading makes a page a single flight: it waits for one answer at most,
\* and for none between two rounds of the timer.
TabTypeOK ==
    /\ tab \in [Tabs -> Tab]
    /\ \A t \in Tabs :
         /\ Cardinality(tab[t].requests) <= 1
         /\ tab[t].fetched => tab[t].loading /\ tab[t].requests = {}
         /\ tab[t].phase # "opening" /\ ~tab[t].loading =>
               tab[t].requests = {}
    /\ opens \in 0 .. MaxOpens
    /\ failed \subseteq Tabs
    /\ late \subseteq 1 .. MaxMessage
    /\ lost \subseteq Users \X Channels \X (0 .. MaxMessage)

\* A page shows no message twice and shows them in the order of their ids.
InOrder ==
    \A t \in Tabs : \A i, j \in DOMAIN tab[t].timeline :
       i < j => tab[t].timeline[i] < tab[t].timeline[j]

(***************************************************************************)
(* A page has no hole: a visible message that is not newer than what the   *)
(* page knows is on it, unless it is older than all of the Trim messages   *)
(* the page has room for.  The one exception is a message that became      *)
(* visible after a newer one: chat.js never asks for it again.             *)
(***************************************************************************)
NoHole ==
    \A t \in Tabs : \A r \in InChannel(Page[t]) :
       r.id <= tab[t].last =>
          \/ r.id \in Range(tab[t].timeline)
          \/ r.id \in late
          \/ /\ Len(tab[t].timeline) >= Trim
             /\ r.id < Head(tab[t].timeline)

(***************************************************************************)
(* The read mark never runs ahead of the user: the message it names is on  *)
(* a page of the user, or in an answer on its way to one, or was until the *)
(* page was left or the answer lost.                                       *)
(***************************************************************************)
MarkDelivered ==
    \A u \in Users, c \in Channels :
       LET m == haveread[u][c]
       IN  \/ m = 0
           \/ \E t \in Tabs : /\ Owner[t] = u /\ Page[t] = c
                              /\ m <= tab[t].last \/ m \in Held(t)
           \/ <<u, c, m>> \in lost

(***************************************************************************)
(* A message posted to the channel of an open page comes to the page, if   *)
(* no request of the page fails and no other page reads the channel for    *)
(* the same user.                                                          *)
(***************************************************************************)
Sole(t) == \A s \in Tabs \ {t} : Owner[s] # Owner[t] \/ Page[s] # Page[t]

EventuallyKnown ==
    \A t \in Tabs : Sole(t) =>
       \A id \in 1 .. MaxMessage :
          (tab[t].phase # "closed" /\ \E r \in InChannel(Page[t]) : r.id = id)
             ~> (id <= tab[t].last \/ t \in failed)

(***************************************************************************)
(* Whatever requests overlap, fail or are lost, the timer and append of    *)
(* chat.js change a page as ChatTimeline allows: it is emptied by a reload *)
(* or learns of newer messages, in order, and skips none but late ones.    *)
(***************************************************************************)
Lines == INSTANCE ChatTimeline
           WITH log <- [c \in Channels |-> IdsIn(message, c)],
                InitialLog <- [c \in Channels |-> IdsIn(InitialRows, c)],
                shown <- [t \in Tabs |-> tab[t].timeline],
                known <- [t \in Tabs |-> tab[t].last]

ImplementsTimeline == Lines!TimelineSpec
=============================================================================
