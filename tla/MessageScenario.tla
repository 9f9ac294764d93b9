-------------------------- MODULE MessageScenario --------------------------
(***************************************************************************)
(* CheckMessageScenario of bench/src/bench/scenario.go: three users read   *)
(* and post in a channel no load goroutine uses, and every count, message  *)
(* and page must be exactly as expected, "on the premise that nothing runs *)
(* in parallel" (scenario.go:2098).  A wrong answer is a fatal error.      *)
(*                                                                         *)
(* The application is the reference implementation.  It still executes     *)
(* the requests the benchmarker has given up: those of earlier rounds, and *)
(* GET /message of a polling goroutine that outlived its scenario          *)
(* (Scenarios).  GET /message is two statements, as far as such a request  *)
(* is concerned; the interleavings of all statements are the subject of    *)
(* Chat.  After the deadline a Play does nothing, so it is left out.       *)
(***************************************************************************)
EXTENDS Naturals, Sequences, FiniteSets, FiniteSetsExt

CONSTANTS
    Users,      \* the users of the pool
    NoUser,
    MaxRounds,  \* bound: rounds of the scenario
    MaxRows,    \* bound: messages
    MaxLate     \* bound: requests given up and not yet executed

ASSUME MessageScenarioAssumption ==
    /\ IsFiniteSet(Users) /\ Cardinality(Users) >= 3
    /\ {MaxRounds, MaxRows, MaxLate} \subseteq Nat

VARIABLES
    rows,       \* table message: a row's id is its position
    mark,       \* table haveread: mark[u][ch], 0 without a row
    late,       \* requests given up
    round,      \* rounds begun
    phase,      \* where the scenario is
    user,       \* user[i]: user1, user2 and user3
    at,         \* at[i]: the goroutine of the i-th user
    last,       \* last1 and last2
    umap,       \* umap1, umap2 and umap3
    fatals,     \* the fatal errors recorded
    disturbed   \* history: what late requests did during this round

vars == <<rows, mark, late, round, phase, user, at, last, umap, fatals,
          disturbed>>

Channels == {"check", "other"}   \* GetMsgCheckChannelID; one of the load
Three == 1..3
Row == [ch : Channels, text : 0..MaxRounds]

InChannel(ch, after) == {i \in DOMAIN rows : rows[i].ch = ch /\ i > after}
Unread(u) == [ch \in Channels |-> Cardinality(InChannel(ch, mark[u][ch]))]

\* Requests the benchmarker no longer waits for.
LateRead(u, ch, after) ==
    [kind |-> "read", user |-> u, ch |-> ch, value |-> after]
LateMark(u, ch, id) == [kind |-> "mark", user |-> u, ch |-> ch, value |-> id]
LatePost(text) ==
    [kind |-> "post", user |-> NoUser, ch |-> "check", value |-> text]

Init ==
    /\ rows = <<>>
    /\ mark = [u \in Users |-> [ch \in Channels |-> 0]]
    /\ late \in {{LateRead(u, "other", 0) : u \in S} :
                    S \in {T \in SUBSET Users : Cardinality(T) <= MaxLate}}
    /\ round = 0
    /\ phase = "idle"
    /\ user = [i \in Three |-> NoUser]
    /\ at = [i \in Three |-> "get"]
    /\ last = [i \in Three |-> 0]
    /\ umap = [i \in Three |-> [ch \in Channels |-> 0]]
    /\ fatals = {}
    /\ disturbed = {}

-----------------------------------------------------------------------------
(***************************************************************************)
(* The application.                                                        *)
(***************************************************************************)
Post(ch, text) ==
    /\ Len(rows) < MaxRows
    /\ rows' = Append(rows, [ch |-> ch, text |-> text])

\* Mutant: the mark is the id after the newest message.
MarkNext(u, ch, after) ==
    mark' = IF InChannel(ch, after) = {} THEN mark
            ELSE [mark EXCEPT ![u][ch] = Max(InChannel(ch, after)) + 1]

\* GET /message moves the mark to the newest message it returns.
MarkRead(u, ch, after) ==
    mark' = IF InChannel(ch, after) = {} THEN mark
            ELSE [mark EXCEPT ![u][ch] = Max(InChannel(ch, after))]

LoadPost ==
    /\ Post("other", 0)
    /\ UNCHANGED <<mark, late, round, phase, user, at, last, umap, fatals,
                   disturbed>>

Disturb(q) == disturbed' = disturbed \cup {[kind |-> q.kind, user |-> q.user,
                                            ch |-> q.ch]}

LateStep ==
    \E q \in late :
        /\ \/ /\ q.kind = "post"
              /\ Post(q.ch, q.value)
              /\ late' = late \ {q}
              /\ Disturb(q)
              /\ UNCHANGED mark
           \/ /\ q.kind = "read"
              /\ LET ids == InChannel(q.ch, q.value)
                 IN  late' = (late \ {q}) \cup
                        (IF ids = {} THEN {}
                         ELSE {LateMark(q.user, q.ch, Max(ids))})
              /\ UNCHANGED <<rows, mark, disturbed>>
           \/ /\ q.kind = "mark"
              /\ mark' = [mark EXCEPT ![q.user][q.ch] = q.value]
              /\ late' = late \ {q}
              /\ Disturb(q)
              /\ UNCHANGED rows
        /\ UNCHANGED <<round, phase, user, at, last, umap, fatals>>

-----------------------------------------------------------------------------
(***************************************************************************)
(* A round.  First three goroutines read and fetch, the first two in the   *)
(* channel of the round.                                                   *)
(***************************************************************************)
Where(i) == IF i = 3 THEN "other" ELSE "check"

Begin ==
    /\ phase = "idle"
    /\ round < MaxRounds
    /\ round' = round + 1
    /\ phase' = "first"
    /\ user' \in {f \in [Three -> Users] : \A i, j \in Three :
                                              f[i] = f[j] => i = j}
    /\ at' = [i \in Three |-> "get"]
    /\ last' = [i \in Three |-> 0]
    /\ umap' = [i \in Three |-> [ch \in Channels |-> 0]]
    /\ disturbed' = {}
    /\ UNCHANGED <<rows, mark, late, fatals>>

Fatal(kind, i) ==
    fatals' = fatals \cup {[kind |-> kind, user |-> user[i], by |-> disturbed]}

\* getMessage with last_message_id 0.
FirstGet(i) ==
    /\ phase = "first"
    /\ at[i] = "get"
    /\ MarkRead(user[i], Where(i), 0)
    /\ last' = [last EXCEPT ![i] = Max(InChannel(Where(i), 0) \cup {0})]
    /\ at' = [at EXCEPT ![i] = "fetch"]
    /\ UNCHANGED <<rows, late, round, phase, user, umap, fatals, disturbed>>

\* getFetch; only user1 checks what it gets.
FirstFetch(i) ==
    /\ phase = "first"
    /\ at[i] = "fetch"
    /\ \/ /\ i = 1 /\ Unread(user[i])["check"] # 0
          /\ Fatal("A", i)
          /\ at' = [at EXCEPT ![i] = "fatal"]
          /\ UNCHANGED umap
       \/ /\ i = 1 => Unread(user[i])["check"] = 0
          /\ umap' = [umap EXCEPT ![i] = Unread(user[i])]
          /\ at' = [at EXCEPT ![i] = "end"]
          /\ UNCHANGED fatals
    /\ UNCHANGED <<rows, mark, late, round, phase, user, last, disturbed>>

\* A Play times out.  A login, the page of a channel and GET /fetch leave
\* nothing behind, GET /message does.
GivesUp(i) ==
    /\ phase \in {"first", "second"}
    /\ at[i] \in {"get", "fetch"}
    /\ at' = [at EXCEPT ![i] = "error"]
    /\ \/ UNCHANGED late
       \/ /\ at[i] = "get"
          /\ late' = late \cup {LateRead(user[i], Where(i), 0)}
          /\ Cardinality(late') <= MaxLate
    /\ UNCHANGED <<rows, mark, round, phase, user, last, umap, fatals,
                   disturbed>>

\* wg.Wait, and the first of err1, err2 and err3 is returned.  Only a fatal
\* one ends the validation.
JoinThen(next) ==
    /\ \A i \in Three : at[i] \in {"end", "error", "fatal"}
    /\ LET failed == {i \in Three : at[i] # "end"}
       IN  phase' = IF failed = {} THEN next
                    ELSE IF at[Min(failed)] = "fatal" THEN "stopped" ELSE "idle"
    /\ UNCHANGED <<rows, mark, late, round, user, at, last, umap, fatals,
                   disturbed>>

\* Mutant: the post does not wait for the fetches.
JoinEarly ==
    /\ phase \in {"first", "second"}
    /\ at[1] = "end"
    /\ phase' = IF phase = "first" THEN "post" ELSE "read1"
    /\ UNCHANGED <<rows, mark, late, round, user, at, last, umap, fatals,
                   disturbed>>

Join == \/ phase = "first" /\ JoinThen("post")
        \/ phase = "second" /\ JoinThen("read1")

\* postMessage of user1.  A post that times out ends the round.
PostMessage ==
    /\ phase = "post"
    /\ \/ /\ Post("check", round)
          /\ phase' = "second"
          /\ at' = [i \in Three |-> "fetch"]
          /\ UNCHANGED late
       \/ /\ late' = late \cup {LatePost(round)}
          /\ Cardinality(late') <= MaxLate
          /\ phase' = "idle"
          /\ UNCHANGED <<rows, at>>
    /\ UNCHANGED <<mark, round, user, last, umap, fatals, disturbed>>

\* checkPlusOne
PlusOneFails(i) ==
    LET now == Unread(user[i])
    IN  (IF umap[i]["check"] + 1 # now["check"] THEN {"B"} ELSE {})
        \cup (IF umap[i]["other"] > now["other"] THEN {"C"} ELSE {})

SecondFetch(i) ==
    /\ phase = "second"
    /\ at[i] = "fetch"
    /\ \/ /\ \E kind \in PlusOneFails(i) : Fatal(kind, i)
          /\ at' = [at EXCEPT ![i] = "fatal"]
          /\ UNCHANGED umap
       \/ /\ PlusOneFails(i) = {}
          /\ at' = [at EXCEPT ![i] = "end"]
          /\ umap' = [umap EXCEPT ![i] = Unread(user[i])]
          /\ UNCHANGED fatals
    /\ UNCHANGED <<rows, mark, late, round, phase, user, last, disturbed>>

-----------------------------------------------------------------------------
(***************************************************************************)
(* Then each user reads the message of the round, one after the other, and *)
(* user1 opens the history.                                                *)
(***************************************************************************)
Sent == round     \* sentText: the text of the post of this round

\* checkMsg, and the number of messages for user1 and user2.
MessagesFail(i, ids) ==
    IF i # 3 /\ Cardinality(ids) # 1 THEN "count"
    ELSE IF \A id \in ids : rows[id].text # Sent THEN "missing"
    ELSE IF rows[Max(ids)].text # Sent THEN "order"
    ELSE "none"

After == [read1 |-> "read2", read2 |-> "read3", read3 |-> "history",
          history |-> "idle"]
Reader == [read1 |-> 1, read2 |-> 2, read3 |-> 3]

ReadMessage ==
    /\ phase \in DOMAIN Reader
    /\ LET i == Reader[phase]
           ids == InChannel("check", IF i = 3 THEN 0 ELSE last[i])
           wrong == MessagesFail(i, ids)
       IN  /\ MarkRead(user[i], "check", IF i = 3 THEN 0 ELSE last[i])
           /\ \/ /\ wrong = "none"
                 /\ last' = [last EXCEPT ![i] = Max(ids)]
                 /\ phase' = After[phase]
                 /\ UNCHANGED fatals
              \/ /\ wrong # "none"
                 /\ Fatal(wrong, i)
                 /\ phase' = "stopped"
                 /\ UNCHANGED last
    /\ UNCHANGED <<rows, late, round, user, at, umap, disturbed>>

\* The last message on the newest page is the one of the round.
History ==
    /\ phase = "history"
    /\ \/ /\ rows[Max(InChannel("check", 0))].text = Sent
          /\ phase' = "idle"
          /\ UNCHANGED fatals
       \/ /\ rows[Max(InChannel("check", 0))].text # Sent
          /\ Fatal("order", 1)
          /\ phase' = "stopped"
    /\ UNCHANGED <<rows, mark, late, round, user, at, last, umap, disturbed>>

ReadGivesUp ==
    /\ phase \in DOMAIN After
    /\ phase' = "idle"
    /\ \/ UNCHANGED late
       \/ /\ phase \in DOMAIN Reader
          /\ LET i == Reader[phase]
             IN  late' = late \cup {LateRead(user[i], "check",
                                             IF i = 3 THEN 0 ELSE last[i])}
          /\ Cardinality(late') <= MaxLate
    /\ UNCHANGED <<rows, mark, round, user, at, last, umap, fatals, disturbed>>

Next ==
    \/ Begin
    \/ \E i \in Three : FirstGet(i) \/ FirstFetch(i) \/ GivesUp(i)
                        \/ SecondFetch(i)
    \/ Join
    \/ PostMessage
    \/ ReadMessage
    \/ History
    \/ ReadGivesUp
    \/ LoadPost
    \/ LateStep

Spec == Init /\ [][Next]_vars

-----------------------------------------------------------------------------
(***************************************************************************)
(* Properties.                                                             *)
(***************************************************************************)
Phases == {"idle", "first", "post", "second", "stopped"} \cup DOMAIN After

\* The variables keep their types (CheckMessageScenario and its tables).
MessageScenarioTypeOK ==
    /\ rows \in Seq(Row) /\ Len(rows) <= MaxRows
    /\ mark \in [Users -> [Channels -> 0..Len(rows)]]
    /\ \A q \in late : q.kind \in {"post", "read", "mark"} /\ q.ch \in Channels
    /\ Cardinality(late) <= MaxLate
    /\ round \in 0..MaxRounds
    /\ phase \in Phases
    /\ user \in [Three -> Users \cup {NoUser}]
    /\ at \in [Three -> {"get", "fetch", "end", "error", "fatal"}]
    /\ last \in [Three -> 0..Len(rows)]
    /\ umap \in [Three -> [Channels -> 0..Len(rows)]]
    /\ \A f \in fatals : f.kind \in {"A", "B", "C", "count", "missing", "order"}

\* What disturbed the round of a fatal error.
PostedLate(f) == \E d \in f.by : d.kind = "post"
MovedLate(f, ch) ==
    \E d \in f.by : d.kind = "mark" /\ d.user = f.user /\ d.ch = ch

\* CheckMessageScenario fails the reference implementation only when a request
\* given up earlier was executed during the round: a late post in the channel
\* of the round breaks the counts (A, B), the number of messages and their
\* order, a late GET /message of the same user breaks its counts, in the
\* channel of the round or in another one (C); nothing loses the message.
FatalExplained ==
    \A f \in fatals :
        CASE f.kind \in {"A", "B"} -> PostedLate(f) \/ MovedLate(f, "check")
          [] f.kind = "C" -> MovedLate(f, "other")
          [] f.kind \in {"count", "order"} -> PostedLate(f)
          [] OTHER -> FALSE
=============================================================================
