----------------------- MODULE MessageScenarioProofs ------------------------
(***************************************************************************)
(* CheckMessageScenario blames an application that is right only for what  *)
(* its own late requests did to it: for any users, rounds and messages.    *)
(***************************************************************************)
EXTENDS MessageScenario, FiniteSetTheorems, WellFoundedInduction, TLAPS

-----------------------------------------------------------------------------
(***************************************************************************)
(* Rows of a channel above a mark, as a function of the table.             *)
(***************************************************************************)
Newer(table, ch, n) == {i \in DOMAIN table : table[i].ch = ch /\ i > n}

\* The unread count of ch for a user with the marks m.
Count(table, m, ch) == Cardinality(Newer(table, ch, m[ch]))

LEMMA LessIs == \A a, b \in Nat : a < b => <<a, b>> \in OpToRel(<, Nat)
BY DEF OpToRel

\* Max is the largest of some ids, since distances from above have a least.
LEMMA MaxOf ==
  ASSUME NEW n \in Nat, NEW S \in SUBSET (0..n), S # {}
  PROVE  Max(S) \in S /\ \A j \in S : j <= Max(S)
<1> DEFINE T == {n - i : i \in S}
<1>1. T \subseteq Nat /\ T # {}
  <2>1. PICK i \in S : TRUE
    OBVIOUS
  <2>2. n - i \in T
    BY <2>1
  <2> QED
    BY <2>2
<1>2. PICK t \in T : \A u \in T : <<u, t>> \notin OpToRel(<, Nat)
  BY <1>1, NatLessThanWellFounded, WFMin
<1>3. PICK m \in S : t = n - m
  BY <1>2
<1>4. ASSUME NEW j \in S PROVE m >= j
  <2>1. n - j \in T
    OBVIOUS
  <2>2. ~(n - j < t)
    BY <1>1, <1>2, <2>1, LessIs
  <2> QED
    BY <1>3, <2>2
<1>5. PICK x : x = Max(S)
  OBVIOUS
<1>6. x \in S /\ \A j \in S : x >= j
  BY <1>3, <1>4, <1>5 DEF Max
<1> QED
  BY <1>5, <1>6

LEMMA NewerFacts ==
  ASSUME NEW table \in Seq(Row), NEW ch, NEW n
  PROVE  /\ Newer(table, ch, n) \subseteq 1..Len(table)
         /\ IsFiniteSet(Newer(table, ch, n))
         /\ Cardinality(Newer(table, ch, n)) \in 0..Len(table)
         /\ Cardinality(Newer(table, ch, n)) = 0 <=> Newer(table, ch, n) = {}
<1>1. Newer(table, ch, n) \subseteq 1..Len(table)
  BY DEF Newer
<1>2. IsFiniteSet(1..Len(table)) /\ Cardinality(1..Len(table)) = Len(table)
  <2>1. PICK n1 \in Nat : n1 = Len(table)
    OBVIOUS
  <2>2. IsFiniteSet(1..n1) /\ Cardinality(1..n1) = n1
    BY FS_Interval
  <2> QED
    BY <2>1, <2>2
<1>3. PICK S : S = Newer(table, ch, n)
  OBVIOUS
<1>4. IsFiniteSet(S) /\ Cardinality(S) <= Len(table)
  BY <1>1, <1>2, <1>3, FS_Subset
<1>5. Cardinality(S) \in Nat /\ (Cardinality(S) = 0 <=> S = {})
  BY <1>4, FS_CardinalityType, FS_EmptySet
<1> QED
  BY <1>1, <1>3, <1>4, <1>5

\* What a post adds.
LEMMA NewerAppended ==
  ASSUME NEW table \in Seq(Row), NEW row \in Row, NEW ch,
         NEW n \in 0..Len(table)
  PROVE  /\ row.ch # ch =>
              Newer(Append(table, row), ch, n) = Newer(table, ch, n)
         /\ row.ch = ch =>
              /\ Newer(Append(table, row), ch, n) =
                   Newer(table, ch, n) \cup {Len(table) + 1}
              /\ Cardinality(Newer(Append(table, row), ch, n)) =
                   Cardinality(Newer(table, ch, n)) + 1
         /\ Cardinality(Newer(table, ch, n)) <=
              Cardinality(Newer(Append(table, row), ch, n))
<1>1. /\ DOMAIN Append(table, row) = DOMAIN table \cup {Len(table) + 1}
      /\ Append(table, row)[Len(table) + 1] = row
      /\ \A i \in DOMAIN table : Append(table, row)[i] = table[i]
  OBVIOUS
<1>2. Len(table) + 1 > n /\ Len(table) + 1 \notin Newer(table, ch, n)
  BY DEF Newer
<1>3. row.ch # ch => Newer(Append(table, row), ch, n) = Newer(table, ch, n)
  BY <1>1 DEF Newer
<1>4. row.ch = ch => Newer(Append(table, row), ch, n) =
                       Newer(table, ch, n) \cup {Len(table) + 1}
  BY <1>1, <1>2 DEF Newer
<1>5. row.ch = ch => Cardinality(Newer(Append(table, row), ch, n)) =
                       Cardinality(Newer(table, ch, n)) + 1
  BY <1>2, <1>4, NewerFacts, FS_AddElement
<1>6. Cardinality(Newer(table, ch, n)) \in Nat
  BY NewerFacts
<1> QED
  BY <1>3, <1>4, <1>5, <1>6

-----------------------------------------------------------------------------
(***************************************************************************)
(* The inductive invariant.                                                *)
(***************************************************************************)
\* Requests given up: whom they are of and what they may still write.
LateRequest ==
    [kind : {"read"}, user : Users, ch : Channels, value : Nat]
      \cup [kind : {"mark"}, user : Users, ch : Channels,
            value : 0..Len(rows)]
      \cup [kind : {"post"}, user : {NoUser}, ch : {"check"},
            value : 0..MaxRounds]

Typed ==
    /\ MessageScenarioTypeOK
    /\ late \subseteq LateRequest /\ IsFiniteSet(late)

\* The users of a round are three.
ThreeUsers ==
    phase # "idle" => /\ user \in [Three -> Users]
                      /\ \A i, j \in Three : user[i] = user[j] => i = j

\* What late requests did not do in this round.
NoPost == \A d \in disturbed : d.kind # "post"
NoMark(u, ch) ==
    \A d \in disturbed : ~(d.kind = "mark" /\ d.user = u /\ d.ch = ch)

\* What user i knows before the post of the round, and while the second
\* fetch is out.
Knows(i) == phase = "post" \/ (phase = "first" /\ at[i] = "end")
Awaits(i) == phase = "second" /\ at[i] = "fetch"

\* Until a late request interferes, the unread count of the channel is what
\* the user was told, and one more after the post.
CheckCounts ==
    \A i \in Three :
      NoPost /\ NoMark(user[i], "check") =>
        /\ i = 1 /\ phase = "first" /\ at[i] = "fetch" =>
             Count(rows, mark[user[i]], "check") = 0
        /\ Knows(i) => umap[i]["check"] = Count(rows, mark[user[i]], "check")
        /\ Awaits(i) => umap[i]["check"] + 1 = Count(rows, mark[user[i]], "check")

\* Counts of other channels only grow.
OtherCounts ==
    \A i \in Three :
      NoMark(user[i], "other") /\ (Knows(i) \/ Awaits(i)) =>
        umap[i]["other"] <= Count(rows, mark[user[i]], "other")

\* The first two users have read all there is before the post of the round.
CaughtUp(i) == \/ phase = "post"
               \/ phase = "first" /\ at[i] \in {"fetch", "end"}

\* Those who have the message of the round still to read.
Behind(i) == phase \in {"second", "read1"} \/ (phase = "read2" /\ i = 2)

LastRead ==
    \A i \in {1, 2} :
      NoPost =>
        /\ CaughtUp(i) => Newer(rows, "check", last[i]) = {}
        /\ Behind(i) => Cardinality(Newer(rows, "check", last[i])) = 1

\* The message of the round is there, after what its readers have read, and
\* it is the newest unless a late one followed it.
Posted == phase = "second" \/ phase \in DOMAIN After

OwnMessage ==
    Posted =>
      \E k \in DOMAIN rows :
        /\ rows[k] = [ch |-> "check", text |-> round]
        /\ \A i \in {1, 2} : Behind(i) => last[i] < k
        /\ NoPost => \A j \in Newer(rows, "check", 0) : j <= k

RoundInv ==
    /\ Typed /\ ThreeUsers
    /\ CheckCounts /\ OtherCounts /\ LastRead /\ OwnMessage
    /\ FatalExplained

-----------------------------------------------------------------------------
(***************************************************************************)
(* What the invariant says of the state.                                   *)
(***************************************************************************)
LEMMA Parts ==
  ASSUME Typed
  PROVE  /\ rows \in Seq(Row) /\ Len(rows) \in Nat /\ Len(rows) <= MaxRows
         /\ DOMAIN rows = 1..Len(rows)
         /\ mark \in [Users -> [Channels -> 0..Len(rows)]]
         /\ late \subseteq LateRequest /\ IsFiniteSet(late)
         /\ Cardinality(late) \in Nat /\ Cardinality(late) <= MaxLate
         /\ round \in 0..MaxRounds /\ phase \in Phases
         /\ user \in [Three -> Users \cup {NoUser}]
         /\ at \in [Three -> {"get", "fetch", "end", "error", "fatal"}]
         /\ last \in [Three -> 0..Len(rows)]
         /\ umap \in [Three -> [Channels -> 0..Len(rows)]]
         /\ MaxRounds \in Nat /\ MaxRows \in Nat /\ MaxLate \in Nat
BY FS_CardinalityType, MessageScenarioAssumption
   DEF Typed, MessageScenarioTypeOK

LEMMA InChannelIs == \A ch, n : InChannel(ch, n) = Newer(rows, ch, n)
BY DEF InChannel, Newer

LEMMA UnreadIs ==
  ASSUME Typed, NEW u \in Users
  PROVE  /\ Unread(u) = [ch \in Channels |-> Count(rows, mark[u], ch)]
         /\ Unread(u) \in [Channels -> 0..Len(rows)]
<1>1. Unread(u) = [ch \in Channels |-> Count(rows, mark[u], ch)]
  BY InChannelIs DEF Unread, Count
<1>2. \A ch \in Channels : Count(rows, mark[u], ch) \in 0..Len(rows)
  BY Parts, NewerFacts DEF Count
<1> QED
  BY <1>1, <1>2

\* The newest message of a channel, as GET /message knows it.
LEMMA NewestIs ==
  ASSUME Typed, NEW ch, NEW n \in Nat, InChannel(ch, n) # {}
  PROVE  /\ Max(InChannel(ch, n)) \in 1..Len(rows)
         /\ Newer(rows, ch, Max(InChannel(ch, n))) = {}
         /\ rows[Max(InChannel(ch, n))].ch = ch
<1>1. PICK S : S = InChannel(ch, n)
  OBVIOUS
<1>2. PICK len \in Nat : len = Len(rows)
  BY Parts
<1>3. S \subseteq 1..len /\ S \in SUBSET (0..len) /\ S # {}
  BY <1>1, <1>2, Parts, NewerFacts, InChannelIs
<1>4. PICK m : m = Max(S)
  OBVIOUS
<1>5. m \in S /\ \A j \in S : j <= m
  BY <1>3, <1>4, MaxOf
<1>6. m \in 1..Len(rows) /\ m > n /\ rows[m].ch = ch
  BY <1>1, <1>2, <1>3, <1>5 DEF InChannel
<1>7. Newer(rows, ch, m) = {}
  BY <1>1, <1>5, <1>6, Parts DEF InChannel, Newer
<1> QED
  BY <1>1, <1>4, <1>6, <1>7

\* What a GET /message of u in ch does to the marks.
LEMMA MarkReadIs ==
  ASSUME Typed, NEW u \in Users, NEW ch \in Channels, NEW n \in Nat,
         MarkRead(u, ch, n)
  PROVE  /\ mark' \in [Users -> [Channels -> 0..Len(rows)]]
         /\ \A v \in Users, c \in Channels :
              v # u \/ c # ch => mark'[v][c] = mark[v][c]
         /\ n = 0 => Newer(rows, ch, mark'[u][ch]) = {}
<1>1. CASE InChannel(ch, n) = {}
  <2>1. mark' = mark
    BY <1>1 DEF MarkRead
  <2>2. n = 0 => Newer(rows, ch, mark[u][ch]) = {}
    BY <1>1, Parts DEF InChannel, Newer
  <2> QED
    BY <2>1, <2>2, Parts
<1>2. CASE InChannel(ch, n) # {}
  <2>1. PICK m : m = Max(InChannel(ch, n))
    OBVIOUS
  <2>2. m \in 1..Len(rows) /\ Newer(rows, ch, m) = {}
    BY <1>2, <2>1, NewestIs
  <2>3. mark' = [mark EXCEPT ![u][ch] = m]
    BY <1>2, <2>1 DEF MarkRead
  <2> QED
    BY <2>2, <2>3, Parts
<1> QED
  BY <1>1, <1>2

\* A fatal error is explained when its cause is noted in disturbed.
LEMMA FatalStep ==
  ASSUME FatalExplained, MessageScenarioTypeOK, NEW kind, NEW i \in Three,
         Fatal(kind, i),
         \/ kind \in {"A", "B"} /\ (~NoPost \/ ~NoMark(user[i], "check"))
         \/ kind = "C" /\ ~NoMark(user[i], "other")
         \/ kind \in {"count", "order"} /\ ~NoPost
  PROVE  /\ FatalExplained'
         /\ \A f \in fatals' :
              f.kind \in {"A", "B", "C", "count", "missing", "order"}
<1> DEFINE g == [kind |-> kind, user |-> user[i], by |-> disturbed]
<1>1. fatals' = fatals \cup {g}
  BY DEF Fatal
<1>2. /\ g.kind = kind /\ g.user = user[i] /\ g.by = disturbed
      /\ ~NoPost => PostedLate(g)
      /\ \A ch : ~NoMark(user[i], ch) => MovedLate(g, ch)
  BY DEF NoPost, NoMark, PostedLate, MovedLate
<1> DEFINE Explained(f) ==
      CASE f.kind \in {"A", "B"} -> PostedLate(f) \/ MovedLate(f, "check")
        [] f.kind = "C" -> MovedLate(f, "other")
        [] f.kind \in {"count", "order"} -> PostedLate(f)
        [] OTHER -> FALSE
<1>3. Explained(g)
  BY <1>2
<1>4. FatalExplained'
  <2>1. \A f \in fatals : Explained(f)
    BY DEF FatalExplained
  <2>2. \A f \in fatals' : Explained(f)
    BY <1>1, <1>3, <2>1
  <2> QED
    BY <2>2 DEF FatalExplained
<1>5. \A f \in fatals' :
        f.kind \in {"A", "B", "C", "count", "missing", "order"}
  BY <1>1, <1>2 DEF MessageScenarioTypeOK
<1> QED
  BY <1>4, <1>5

\* Nothing that the errors are about changes.
LEMMA SameFatals ==
  ASSUME FatalExplained, MessageScenarioTypeOK, fatals' = fatals
  PROVE  /\ FatalExplained'
         /\ \A f \in fatals' :
              f.kind \in {"A", "B", "C", "count", "missing", "order"}
BY DEF FatalExplained, MessageScenarioTypeOK

-----------------------------------------------------------------------------
(***************************************************************************)
(* Every step preserves the invariant.                                     *)
(***************************************************************************)
LEMMA BeginKeeps ==
  ASSUME RoundInv, Begin
  PROVE  RoundInv'
<1>1. /\ rows' = rows /\ mark' = mark /\ late' = late /\ fatals' = fatals
      /\ round' = round + 1 /\ round < MaxRounds /\ phase' = "first"
      /\ user' \in [Three -> Users]
      /\ \A i, j \in Three : user'[i] = user'[j] => i = j
      /\ at' = [i \in Three |-> "get"] /\ last' = [i \in Three |-> 0]
      /\ umap' = [i \in Three |-> [ch \in Channels |-> 0]]
  BY DEF Begin
<1>2. Typed'
  <2>1. Typed /\ FatalExplained
    BY DEF RoundInv
  <2>2. /\ round' \in 0..MaxRounds
        /\ last' \in [Three -> 0..Len(rows)]
        /\ umap' \in [Three -> [Channels -> 0..Len(rows)]]
    BY <1>1, <2>1, Parts
  <2> QED
    BY <1>1, <2>1, <2>2
       DEF Typed, MessageScenarioTypeOK, LateRequest, Phases
<1>3. ThreeUsers'
  BY <1>1 DEF ThreeUsers
<1>4. \A i \in Three : ~Knows(i)' /\ ~Awaits(i)' /\ at'[i] = "get"
  BY <1>1 DEF Knows, Awaits
<1>5. CheckCounts' /\ OtherCounts'
  BY <1>4 DEF CheckCounts, OtherCounts
<1>6. \A i \in {1, 2} : ~CaughtUp(i)' /\ ~Behind(i)'
  BY <1>1 DEF CaughtUp, Behind, Three
<1>7. LastRead'
  BY <1>6 DEF LastRead
<1>8. OwnMessage'
  BY <1>1 DEF OwnMessage, Posted, After
<1>9. FatalExplained'
  BY <1>1 DEF RoundInv, FatalExplained
<1> QED
  BY <1>2, <1>3, <1>5, <1>7, <1>8, <1>9 DEF RoundInv

LEMMA FirstGetKeeps ==
  ASSUME RoundInv, NEW i \in Three, FirstGet(i)
  PROVE  RoundInv'
<1>1. /\ rows' = rows /\ late' = late /\ fatals' = fatals
      /\ round' = round /\ phase = "first" /\ phase' = phase
      /\ user' = user /\ umap' = umap /\ disturbed' = disturbed
      /\ at[i] = "get" /\ at' = [at EXCEPT ![i] = "fetch"]
      /\ MarkRead(user[i], Where(i), 0)
      /\ last' = [last EXCEPT ![i] = Max(InChannel(Where(i), 0) \cup {0})]
  BY DEF FirstGet
<1>2. /\ Typed /\ ThreeUsers /\ FatalExplained
      /\ user[i] \in Users /\ Where(i) \in Channels
  BY <1>1 DEF RoundInv, ThreeUsers, Where, Channels
<1>3. /\ mark' \in [Users -> [Channels -> 0..Len(rows)]]
      /\ \A v \in Users, c \in Channels :
           v # user[i] \/ c # Where(i) => mark'[v][c] = mark[v][c]
      /\ Newer(rows, Where(i), mark'[user[i]][Where(i)]) = {}
  BY <1>1, <1>2, MarkReadIs
<1>4. PICK newest : newest = Max(InChannel(Where(i), 0) \cup {0})
  OBVIOUS
<1>5. newest \in 0..Len(rows) /\ Newer(rows, Where(i), newest) = {}
  <2>1. PICK S : S = InChannel(Where(i), 0) \cup {0}
    OBVIOUS
  <2>2. PICK len \in Nat : len = Len(rows)
    BY <1>2, Parts
  <2>3. S \in SUBSET (0..len) /\ S # {}
    BY <1>2, <2>1, <2>2, Parts, NewerFacts, InChannelIs
  <2>4. newest \in S /\ \A j \in S : j <= newest
    BY <1>4, <2>1, <2>3, MaxOf
  <2> QED
    BY <1>2, <2>1, <2>2, <2>3, <2>4, Parts DEF InChannel, Newer
<1>6. Typed'
  BY <1>1, <1>2, <1>3, <1>4, <1>5, Parts
     DEF Typed, MessageScenarioTypeOK, LateRequest
<1>7. ThreeUsers'
  BY <1>1, <1>2 DEF ThreeUsers
<1>8. \A j \in Three : user[j] \in Users /\ (j # i => user[j] # user[i])
  BY <1>1, <1>2 DEF ThreeUsers
<1>9. \A j \in Three : j # i => /\ at'[j] = at[j] /\ last'[j] = last[j]
                                /\ mark'[user[j]] = mark[user[j]]
  BY <1>1, <1>2, <1>3, <1>8, Parts
<1>10. at'[i] = "fetch" /\ last'[i] = newest
  BY <1>1, <1>2, <1>4, Parts
<1>11. CheckCounts'
  <2>1. i = 1 => Count(rows, mark'[user[i]], "check") = 0
    BY <1>2, <1>3, Parts, NewerFacts DEF Count, Where
  <2> QED
    BY <1>1, <1>9, <1>10, <2>1
       DEF RoundInv, CheckCounts, Knows, Awaits, NoPost, NoMark
<1>12. OtherCounts'
  BY <1>1, <1>9, <1>10 DEF RoundInv, OtherCounts, Knows, Awaits, NoMark
<1>13. LastRead'
  <2> SUFFICES ASSUME NEW j \in {1, 2}, NoPost'
               PROVE  /\ CaughtUp(j)' => Newer(rows, "check", last'[j]) = {}
                      /\ ~Behind(j)'
    BY <1>1 DEF LastRead
  <2>1. ~Behind(j)'
    BY <1>1 DEF Behind
  <2>2. CASE j = i
    BY <1>5, <1>10, <2>1, <2>2 DEF Where
  <2>3. CASE j # i
    BY <1>1, <1>9, <2>1, <2>3 DEF RoundInv, LastRead, CaughtUp, NoPost, Three
  <2> QED
    BY <2>2, <2>3
<1>14. OwnMessage'
  BY <1>1 DEF OwnMessage, Posted, After
<1>15. FatalExplained'
  BY <1>1, <1>2 DEF FatalExplained
<1> QED
  BY <1>6, <1>7, <1>11, <1>12, <1>13, <1>14, <1>15 DEF RoundInv

LEMMA FirstFetchKeeps ==
  ASSUME RoundInv, NEW i \in Three, FirstFetch(i)
  PROVE  RoundInv'
<1>1. /\ rows' = rows /\ mark' = mark /\ late' = late
      /\ round' = round /\ phase = "first" /\ phase' = phase
      /\ user' = user /\ last' = last /\ disturbed' = disturbed
      /\ at[i] = "fetch"
  BY DEF FirstFetch
<1>2. /\ Typed /\ ThreeUsers /\ FatalExplained /\ MessageScenarioTypeOK
      /\ user[i] \in Users
  BY <1>1 DEF RoundInv, ThreeUsers, Typed
<1>3. /\ Unread(user[i]) = [ch \in Channels |-> Count(rows, mark[user[i]], ch)]
      /\ Unread(user[i]) \in [Channels -> 0..Len(rows)]
  BY <1>2, UnreadIs
<1>4. \/ /\ i = 1 /\ Unread(user[i])["check"] # 0
         /\ Fatal("A", i) /\ at' = [at EXCEPT ![i] = "fatal"]
         /\ umap' = umap
      \/ /\ umap' = [umap EXCEPT ![i] = Unread(user[i])]
         /\ at' = [at EXCEPT ![i] = "end"]
         /\ fatals' = fatals
  BY DEF FirstFetch
<1>5. /\ FatalExplained'
      /\ \A f \in fatals' :
           f.kind \in {"A", "B", "C", "count", "missing", "order"}
  <2>1. CASE fatals' = fatals
    BY <1>2, <2>1, SameFatals
  <2>2. CASE i = 1 /\ Unread(user[i])["check"] # 0 /\ Fatal("A", i)
    <3>1. ~NoPost \/ ~NoMark(user[i], "check")
      BY <1>1, <1>3, <2>2 DEF RoundInv, CheckCounts, Channels
    <3> QED
      BY <1>2, <2>2, <3>1, FatalStep
  <2> QED
    BY <1>4, <2>1, <2>2
<1>6. /\ at' \in [Three -> {"get", "fetch", "end", "error", "fatal"}]
      /\ umap' \in [Three -> [Channels -> 0..Len(rows)]]
      /\ at'[i] \in {"end", "fatal"}
      /\ at'[i] = "end" => umap'[i] = Unread(user[i])
      /\ \A j \in Three : j # i => at'[j] = at[j] /\ umap'[j] = umap[j]
  BY <1>2, <1>3, <1>4, Parts
<1>7. Typed'
  BY <1>1, <1>2, <1>5, <1>6 DEF Typed, MessageScenarioTypeOK, LateRequest
<1>8. ThreeUsers'
  BY <1>1, <1>2 DEF ThreeUsers
<1>9. CheckCounts'
  <2> SUFFICES ASSUME NEW j \in Three, NoPost, NoMark(user[j], "check")
               PROVE  /\ ~(j = 1 /\ at'[j] = "fetch") \/
                           Count(rows, mark[user[j]], "check") = 0
                      /\ at'[j] = "end" => umap'[j]["check"] =
                                         Count(rows, mark[user[j]], "check")
    BY <1>1 DEF CheckCounts, Knows, Awaits, NoPost, NoMark
  <2>1. CASE j = i
    BY <1>3, <1>6, <2>1 DEF Channels
  <2>2. CASE j # i
    BY <1>1, <1>6, <2>2 DEF RoundInv, CheckCounts, Knows
  <2> QED
    BY <2>1, <2>2
<1>10. OtherCounts'
  <2> SUFFICES ASSUME NEW j \in Three, NoMark(user[j], "other"),
                      at'[j] = "end"
               PROVE  umap'[j]["other"] <= Count(rows, mark[user[j]], "other")
    BY <1>1 DEF OtherCounts, Knows, Awaits, NoMark
  <2>1. CASE j = i
    <3>1. umap'[j]["other"] = Count(rows, mark[user[j]], "other")
      BY <1>3, <1>6, <2>1 DEF Channels
    <3>2. umap'[j]["other"] \in Nat
      BY <1>6 DEF Channels
    <3> QED
      BY <3>1, <3>2
  <2>2. CASE j # i
    BY <1>1, <1>6, <2>2 DEF RoundInv, OtherCounts, Knows
  <2> QED
    BY <2>1, <2>2
<1>11. LastRead'
  <2>1. \A j \in {1, 2} : CaughtUp(j)' => CaughtUp(j)
    BY <1>1, <1>6 DEF CaughtUp, Three
  <2> QED
    BY <1>1, <2>1 DEF RoundInv, LastRead, Behind, NoPost
<1>12. OwnMessage'
  BY <1>1 DEF OwnMessage, Posted, After
<1> QED
  BY <1>5, <1>7, <1>8, <1>9, <1>10, <1>11, <1>12 DEF RoundInv

\* A request of the scenario that is given up.
LEMMA LateGrows ==
  ASSUME Typed, NEW q \in LateRequest, late' = late \cup {q}
  PROVE  /\ late' \subseteq LateRequest /\ IsFiniteSet(late')
         /\ \A r \in late' : r.kind \in {"post", "read", "mark"}
                             /\ r.ch \in Channels
<1>1. IsFiniteSet(late')
  BY FS_AddElement DEF Typed
<1>2. late' \subseteq LateRequest
  BY DEF Typed
<1> QED
  BY <1>1, <1>2 DEF LateRequest, Channels

LEMMA ReadIsLate ==
  ASSUME NEW u \in Users, NEW ch \in Channels, NEW n \in Nat
  PROVE  LateRead(u, ch, n) \in LateRequest
BY DEF LateRead, LateRequest

LEMMA GivesUpKeeps ==
  ASSUME RoundInv, NEW i \in Three, GivesUp(i)
  PROVE  RoundInv'
<1>1. /\ rows' = rows /\ mark' = mark /\ fatals' = fatals /\ umap' = umap
      /\ round' = round /\ phase \in {"first", "second"} /\ phase' = phase
      /\ user' = user /\ last' = last /\ disturbed' = disturbed
      /\ at' = [at EXCEPT ![i] = "error"]
  BY DEF GivesUp
<1>2. /\ Typed /\ ThreeUsers /\ FatalExplained /\ MessageScenarioTypeOK
      /\ user[i] \in Users /\ Where(i) \in Channels
  BY <1>1 DEF RoundInv, ThreeUsers, Typed, Where, Channels
<1>3. /\ at' \in [Three -> {"get", "fetch", "end", "error", "fatal"}]
      /\ at'[i] = "error"
      /\ \A j \in Three : j # i => at'[j] = at[j]
  BY <1>1, <1>2, Parts
<1>4. /\ late' \subseteq LateRequest /\ IsFiniteSet(late')
      /\ \A r \in late' : r.kind \in {"post", "read", "mark"}
                          /\ r.ch \in Channels
      /\ Cardinality(late') <= MaxLate
  <2>1. CASE late' = late
    BY <1>2, <2>1 DEF Typed, MessageScenarioTypeOK
  <2>2. CASE /\ late' = late \cup {LateRead(user[i], Where(i), 0)}
             /\ Cardinality(late') <= MaxLate
    BY <1>2, <2>2, ReadIsLate, LateGrows
  <2> QED
    BY <2>1, <2>2 DEF GivesUp
<1>5. Typed'
  BY <1>1, <1>2, <1>3, <1>4 DEF Typed, MessageScenarioTypeOK, LateRequest
<1>6. ThreeUsers'
  BY <1>1, <1>2 DEF ThreeUsers
<1>7. \A j \in Three : /\ Knows(j)' => Knows(j)
                       /\ Awaits(j)' => Awaits(j)
                       /\ at'[j] \in {"fetch", "end"} => at'[j] = at[j]
  BY <1>1, <1>3 DEF Knows, Awaits
<1>8. CheckCounts'
  BY <1>1, <1>7 DEF RoundInv, CheckCounts, NoPost, NoMark
<1>9. OtherCounts'
  BY <1>1, <1>7 DEF RoundInv, OtherCounts, NoMark
<1>10. LastRead'
  <2>1. \A j \in {1, 2} : CaughtUp(j)' => CaughtUp(j)
    BY <1>1, <1>7 DEF CaughtUp, Three
  <2> QED
    BY <1>1, <2>1 DEF RoundInv, LastRead, Behind, NoPost
<1>11. OwnMessage'
  BY <1>1 DEF RoundInv, OwnMessage, Posted, Behind, NoPost
<1>12. FatalExplained'
  BY <1>1, <1>2 DEF FatalExplained
<1> QED
  BY <1>5, <1>6, <1>8, <1>9, <1>10, <1>11, <1>12 DEF RoundInv

LEMMA JoinKeeps ==
  ASSUME RoundInv, Join
  PROVE  RoundInv'
<1>1. /\ rows' = rows /\ mark' = mark /\ fatals' = fatals /\ umap' = umap
      /\ round' = round /\ phase \in {"first", "second"}
      /\ user' = user /\ last' = last /\ disturbed' = disturbed
      /\ at' = at /\ late' = late
  BY DEF Join, JoinThen
<1>2. \/ phase' \in {"stopped", "idle"}
      \/ phase = "first" /\ phase' = "post" /\ \A j \in Three : at[j] = "end"
      \/ phase = "second" /\ phase' = "read1" /\ \A j \in Three : at[j] = "end"
  <2>1. ASSUME NEW next, JoinThen(next)
        PROVE  \/ phase' \in {"stopped", "idle"}
               \/ phase' = next /\ \A j \in Three : at[j] = "end"
    BY <2>1 DEF JoinThen
  <2> QED
    BY <2>1 DEF Join
<1>3. /\ Typed /\ ThreeUsers /\ FatalExplained /\ MessageScenarioTypeOK
  BY DEF RoundInv, Typed
<1>4. Typed'
  BY <1>1, <1>2, <1>3
     DEF Typed, MessageScenarioTypeOK, LateRequest, Phases, After
<1>5. ThreeUsers'
  BY <1>1, <1>3 DEF ThreeUsers
<1>6. \A j \in Three : /\ Knows(j)' => Knows(j)
                       /\ ~Awaits(j)' /\ phase' # "first"
  BY <1>1, <1>2 DEF Knows, Awaits
<1>7. CheckCounts'
  BY <1>1, <1>6 DEF RoundInv, CheckCounts, NoPost, NoMark
<1>8. OtherCounts'
  BY <1>1, <1>6 DEF RoundInv, OtherCounts, NoMark
<1>9. LastRead'
  <2>1. \A j \in {1, 2} : CaughtUp(j)' => CaughtUp(j)
    BY <1>1, <1>2 DEF CaughtUp, Three
  <2>2. \A j \in {1, 2} : Behind(j)' => Behind(j)
    BY <1>1, <1>2 DEF Behind
  <2> QED
    BY <1>1, <2>1, <2>2 DEF RoundInv, LastRead, NoPost
<1>10. OwnMessage'
  <2>1. Posted' => Posted
    BY <1>1, <1>2 DEF Posted, After
  <2>2. \A j \in {1, 2} : Behind(j)' => Behind(j)
    BY <1>1, <1>2 DEF Behind
  <2> QED
    BY <1>1, <2>1, <2>2 DEF RoundInv, OwnMessage, NoPost
<1>11. FatalExplained'
  BY <1>1, <1>3 DEF FatalExplained
<1> QED
  BY <1>4, <1>5, <1>7, <1>8, <1>9, <1>10, <1>11 DEF RoundInv

LEMMA SecondFetchKeeps ==
  ASSUME RoundInv, NEW i \in Three, SecondFetch(i)
  PROVE  RoundInv'
<1>1. /\ rows' = rows /\ mark' = mark /\ late' = late
      /\ round' = round /\ phase = "second" /\ phase' = phase
      /\ user' = user /\ last' = last /\ disturbed' = disturbed
      /\ at[i] = "fetch"
  BY DEF SecondFetch
<1>2. /\ Typed /\ ThreeUsers /\ FatalExplained /\ MessageScenarioTypeOK
      /\ user[i] \in Users /\ Awaits(i)
  BY <1>1 DEF RoundInv, ThreeUsers, Typed, Awaits
<1>3. /\ Unread(user[i]) = [ch \in Channels |-> Count(rows, mark[user[i]], ch)]
      /\ Unread(user[i]) \in [Channels -> 0..Len(rows)]
      /\ umap[i] \in [Channels -> 0..Len(rows)]
  BY <1>2, UnreadIs, Parts
<1>4. /\ at' \in [Three -> {"get", "fetch", "end", "error", "fatal"}]
      /\ umap' \in [Three -> [Channels -> 0..Len(rows)]]
      /\ at'[i] \in {"end", "fatal"}
      /\ \A j \in Three : j # i => at'[j] = at[j] /\ umap'[j] = umap[j]
  BY <1>2, <1>3, Parts DEF SecondFetch
<1>5. /\ FatalExplained'
      /\ \A f \in fatals' :
           f.kind \in {"A", "B", "C", "count", "missing", "order"}
  <2>1. CASE fatals' = fatals
    BY <1>2, <2>1, SameFatals
  <2>2. ASSUME NEW kind \in PlusOneFails(i), Fatal(kind, i)
        PROVE  /\ FatalExplained'
               /\ \A f \in fatals' :
                    f.kind \in {"A", "B", "C", "count", "missing", "order"}
    <3>1. CASE kind = "B" /\ umap[i]["check"] + 1 # Unread(user[i])["check"]
      <4>1. ~NoPost \/ ~NoMark(user[i], "check")
        BY <1>2, <1>3, <3>1 DEF RoundInv, CheckCounts, Channels
      <4> QED
        BY <1>2, <2>2, <3>1, <4>1, FatalStep
    <3>2. CASE kind = "C" /\ umap[i]["other"] > Unread(user[i])["other"]
      <4>1. ~NoMark(user[i], "other")
        <5>1. PICK a \in Nat : a = umap[i]["other"]
          BY <1>3 DEF Channels
        <5>2. PICK b \in Nat : b = Unread(user[i])["other"]
          BY <1>3 DEF Channels
        <5>3. b = Count(rows, mark[user[i]], "other")
          BY <1>3, <5>2 DEF Channels
        <5> QED
          BY <1>2, <3>2, <5>1, <5>2, <5>3 DEF RoundInv, OtherCounts
      <4> QED
        BY <1>2, <2>2, <3>2, <4>1, FatalStep
    <3> QED
      BY <2>2, <3>1, <3>2 DEF PlusOneFails
  <2> QED
    BY <2>1, <2>2 DEF SecondFetch
<1>6. Typed'
  BY <1>1, <1>2, <1>4, <1>5 DEF Typed, MessageScenarioTypeOK, LateRequest
<1>7. ThreeUsers'
  BY <1>1, <1>2 DEF ThreeUsers
<1>8. \A j \in Three : ~Knows(j)' /\ (Awaits(j)' => Awaits(j) /\ j # i)
  BY <1>1, <1>4 DEF Knows, Awaits
<1>9. CheckCounts'
  BY <1>1, <1>4, <1>8 DEF RoundInv, CheckCounts, NoPost, NoMark
<1>10. OtherCounts'
  BY <1>1, <1>4, <1>8 DEF RoundInv, OtherCounts, NoMark
<1>11. LastRead'
  BY <1>1 DEF RoundInv, LastRead, Behind, CaughtUp, NoPost
<1>12. OwnMessage'
  BY <1>1 DEF RoundInv, OwnMessage, Posted, Behind, NoPost
<1> QED
  BY <1>5, <1>6, <1>7, <1>9, <1>10, <1>11, <1>12 DEF RoundInv

\* A post leaves the variables their types.
LEMMA Grown ==
  ASSUME Typed, NEW r \in Row, rows' = Append(rows, r), Len(rows) < MaxRows
  PROVE  /\ rows' \in Seq(Row) /\ Len(rows') <= MaxRows
         /\ Len(rows') = Len(rows) + 1
         /\ mark \in [Users -> [Channels -> 0..Len(rows')]]
         /\ last \in [Three -> 0..Len(rows')]
         /\ umap \in [Three -> [Channels -> 0..Len(rows')]]
         /\ late \subseteq LateRequest'
<1>1. PICK n \in Nat : n = Len(rows)
  BY Parts
<1>2. rows' \in Seq(Row) /\ Len(rows') = n + 1 /\ n + 1 <= MaxRows
  BY <1>1, Parts
<1>3. \A x \in 0..n : x \in 0..(n + 1)
  OBVIOUS
<1>4. /\ mark \in [Users -> [Channels -> 0..n]] /\ last \in [Three -> 0..n]
      /\ umap \in [Three -> [Channels -> 0..n]]
  BY <1>1, Parts
<1>5. /\ mark \in [Users -> [Channels -> 0..(n + 1)]]
      /\ last \in [Three -> 0..(n + 1)]
      /\ umap \in [Three -> [Channels -> 0..(n + 1)]]
  BY <1>3, <1>4
<1>6. late \subseteq LateRequest'
  <2>1. late \subseteq LateRequest
    BY Parts
  <2> QED
    BY <1>1, <1>2, <1>3, <2>1 DEF LateRequest
<1> QED
  BY <1>1, <1>2, <1>5, <1>6

\* The count of a channel after a post.
LEMMA CountGrows ==
  ASSUME Typed, NEW r \in Row, rows' = Append(rows, r),
         NEW u \in Users, NEW ch \in Channels
  PROVE  /\ Count(rows, mark[u], ch) \in Nat
         /\ Count(rows', mark[u], ch) \in Nat
         /\ r.ch # ch => Count(rows', mark[u], ch) = Count(rows, mark[u], ch)
         /\ r.ch = ch =>
              Count(rows', mark[u], ch) = Count(rows, mark[u], ch) + 1
<1>1. PICK m : m = mark[u][ch]
  OBVIOUS
<1>2. rows \in Seq(Row) /\ m \in 0..Len(rows)
  BY <1>1, Parts
<1>3. Cardinality(Newer(rows, ch, m)) \in Nat
  BY <1>2, NewerFacts
<1>4. /\ r.ch # ch => Newer(rows', ch, m) = Newer(rows, ch, m)
      /\ r.ch = ch => Cardinality(Newer(rows', ch, m)) =
                        Cardinality(Newer(rows, ch, m)) + 1
  BY <1>2, NewerAppended
<1> QED
  BY <1>1, <1>3, <1>4 DEF Count

LEMMA PostMessageKeeps ==
  ASSUME RoundInv, PostMessage
  PROVE  RoundInv'
<1>1. /\ mark' = mark /\ fatals' = fatals /\ umap' = umap
      /\ round' = round /\ phase = "post"
      /\ user' = user /\ last' = last /\ disturbed' = disturbed
  BY DEF PostMessage
<1>2. /\ Typed /\ ThreeUsers /\ FatalExplained /\ MessageScenarioTypeOK
      /\ \A i \in Three : user[i] \in Users /\ Knows(i)
      /\ \A i \in {1, 2} : CaughtUp(i)
  BY <1>1 DEF RoundInv, ThreeUsers, Typed, Knows, CaughtUp
<1>3. ThreeUsers'
  BY <1>1, <1>2 DEF ThreeUsers
<1>4. FatalExplained'
  BY <1>1, <1>2 DEF FatalExplained
<1>5. CASE /\ Post("check", round) /\ phase' = "second"
           /\ at' = [i \in Three |-> "fetch"] /\ late' = late
  <2>1. PICK r \in Row : r = [ch |-> "check", text |-> round]
    BY <1>2, Parts DEF Row, Channels
  <2>2. /\ rows' = Append(rows, r) /\ Len(rows) < MaxRows
        /\ r.ch = "check" /\ r.text = round
    BY <1>5, <2>1 DEF Post
  <2>3. /\ rows' \in Seq(Row) /\ Len(rows') <= MaxRows
        /\ Len(rows') = Len(rows) + 1
        /\ mark \in [Users -> [Channels -> 0..Len(rows')]]
        /\ last \in [Three -> 0..Len(rows')]
        /\ umap \in [Three -> [Channels -> 0..Len(rows')]]
        /\ late \subseteq LateRequest'
    BY <1>2, <2>2, Grown
  <2>4. Typed'
    BY <1>1, <1>2, <1>5, <2>3 DEF Typed, MessageScenarioTypeOK, Phases
  <2>5. \A i \in Three :
          /\ Count(rows, mark[user[i]], "other") \in Nat
          /\ Count(rows', mark[user[i]], "other") =
               Count(rows, mark[user[i]], "other")
          /\ Count(rows', mark[user[i]], "check") =
               Count(rows, mark[user[i]], "check") + 1
    BY <1>2, <2>2, CountGrows DEF Channels
  <2>6. \A i \in Three : ~Knows(i)' /\ phase' # "first"
    BY <1>5 DEF Knows
  <2>7. CheckCounts'
    BY <1>1, <1>2, <2>5, <2>6 DEF RoundInv, CheckCounts, NoPost, NoMark
  <2>8. OtherCounts'
    BY <1>1, <1>2, <2>5, <2>6 DEF RoundInv, OtherCounts, NoMark
  <2>9. LastRead'
    <3> SUFFICES ASSUME NEW i \in {1, 2}, NoPost
                 PROVE  Cardinality(Newer(rows', "check", last[i])) = 1
      BY <1>1, <1>5 DEF LastRead, CaughtUp, NoPost
    <3>1. Newer(rows, "check", last[i]) = {}
      BY <1>2 DEF RoundInv, LastRead
    <3>2. last[i] \in 0..Len(rows) /\ rows \in Seq(Row)
      BY <1>2, Parts DEF Three
    <3>3. Cardinality(Newer(rows, "check", last[i])) = 0
      BY <3>1, FS_EmptySet
    <3> QED
      BY <2>2, <3>2, <3>3, NewerAppended
  <2>10. OwnMessage'
    <3>1. PICK k : k = Len(rows')
      OBVIOUS
    <3>2. PICK n \in Nat : n = Len(rows)
      BY <1>2, Parts
    <3>3. /\ k = n + 1 /\ k \in DOMAIN rows' /\ rows'[k] = r
          /\ DOMAIN rows' = 1..k
      BY <1>2, <2>2, <2>3, <3>1, <3>2, Parts
    <3>4. \A i \in {1, 2} : last[i] < k
      BY <1>2, <3>2, <3>3, Parts DEF Three
    <3>5. \A j \in Newer(rows', "check", 0) : j <= k
      BY <3>3 DEF Newer
    <3> QED
      BY <1>1, <2>1, <3>3, <3>4, <3>5 DEF OwnMessage
  <2> QED
    BY <1>3, <1>4, <2>4, <2>7, <2>8, <2>9, <2>10 DEF RoundInv
<1>6. CASE /\ late' = late \cup {LatePost(round)} /\ rows' = rows
           /\ Cardinality(late') <= MaxLate /\ phase' = "idle" /\ at' = at
  <2>1. LatePost(round) \in LateRequest
    BY <1>2, Parts DEF LatePost, LateRequest
  <2>2. /\ late' \subseteq LateRequest /\ IsFiniteSet(late')
        /\ \A q \in late' : q.kind \in {"post", "read", "mark"}
                            /\ q.ch \in Channels
    BY <1>2, <1>6, <2>1, LateGrows
  <2>3. Typed'
    BY <1>1, <1>2, <1>6, <2>2
       DEF Typed, MessageScenarioTypeOK, LateRequest, Phases
  <2>4. CheckCounts' /\ OtherCounts'
    BY <1>6 DEF CheckCounts, OtherCounts, Knows, Awaits
  <2>5. LastRead' /\ OwnMessage'
    BY <1>6 DEF LastRead, OwnMessage, CaughtUp, Behind, Posted, After
  <2> QED
    BY <1>3, <1>4, <2>3, <2>4, <2>5 DEF RoundInv
<1> QED
  BY <1>5, <1>6 DEF PostMessage

\* The message of the round is among those of the channel above a mark
\* before it, and the last of them unless a late one followed it.
LEMMA OwnAmong ==
  ASSUME RoundInv, Posted, NEW n \in Nat,
         \A k \in DOMAIN rows :
           (\A i \in {1, 2} : Behind(i) => last[i] < k) => n < k
  PROVE  /\ \E id \in InChannel("check", n) : rows[id].text = Sent
         /\ Max(InChannel("check", n)) \in 1..Len(rows)
         /\ NoPost => rows[Max(InChannel("check", n))].text = Sent
<1>1. PICK k \in DOMAIN rows :
        /\ rows[k] = [ch |-> "check", text |-> round]
        /\ \A i \in {1, 2} : Behind(i) => last[i] < k
        /\ NoPost => \A j \in Newer(rows, "check", 0) : j <= k
  BY DEF RoundInv, OwnMessage
<1>2. Typed /\ n < k
  BY <1>1 DEF RoundInv
<1>3. rows[k].text = Sent /\ rows[k].ch = "check"
  BY <1>1 DEF Sent
<1>4. PICK S : S = InChannel("check", n)
  OBVIOUS
<1>5. k \in S /\ S = Newer(rows, "check", n)
  BY <1>2, <1>3, <1>4 DEF InChannel, Newer
<1>6. PICK len \in Nat : len = Len(rows)
  BY <1>2, Parts
<1>7. S \in SUBSET (0..len) /\ S # {}
  BY <1>2, <1>5, <1>6, Parts, NewerFacts
<1>8. PICK m : m = Max(S)
  OBVIOUS
<1>9. m \in S /\ \A j \in S : j <= m
  BY <1>7, <1>8, MaxOf
<1>10. m \in 1..Len(rows)
  BY <1>2, <1>5, <1>9, Parts, NewerFacts
<1>11. NoPost => m = k
  <2>1. m \in Newer(rows, "check", 0)
    BY <1>5, <1>9, <1>10 DEF Newer
  <2>2. k \in 1..Len(rows) /\ k <= m
    BY <1>2, <1>5, <1>9, Parts
  <2> QED
    BY <1>1, <1>2, <1>10, <2>1, <2>2, Parts
<1> QED
  BY <1>3, <1>4, <1>5, <1>8, <1>10, <1>11

LEMMA ReadMessageKeeps ==
  ASSUME RoundInv, ReadMessage
  PROVE  RoundInv'
<1>1. PICK i \in Three : i = Reader[phase]
  BY DEF ReadMessage, Reader, Three
<1>2. PICK n : n = IF i = 3 THEN 0 ELSE last[i]
  OBVIOUS
<1>3. PICK wrong : wrong = MessagesFail(i, InChannel("check", n))
  OBVIOUS
<1>4. /\ rows' = rows /\ late' = late /\ round' = round /\ user' = user
      /\ at' = at /\ umap' = umap /\ disturbed' = disturbed
      /\ phase \in {"read1", "read2", "read3"}
      /\ MarkRead(user[i], "check", n)
      /\ \/ /\ wrong = "none" /\ fatals' = fatals
            /\ last' = [last EXCEPT ![i] = Max(InChannel("check", n))]
            /\ phase' = After[phase]
         \/ /\ wrong # "none" /\ Fatal(wrong, i)
            /\ phase' = "stopped" /\ last' = last
  BY <1>1, <1>2, <1>3 DEF ReadMessage, Reader
<1>5. /\ \/ phase = "read1" /\ i = 1
         \/ phase = "read2" /\ i = 2
         \/ phase = "read3" /\ i = 3
      /\ i # 3 => i \in {1, 2} /\ Behind(i) /\ n = last[i]
      /\ i = 3 => n = 0
      /\ Posted
  <2>1. \/ phase = "read1" /\ i = 1
        \/ phase = "read2" /\ i = 2
        \/ phase = "read3" /\ i = 3
    BY <1>1, <1>4 DEF Reader
  <2> QED
    BY <1>2, <2>1 DEF Behind, Posted, After
<1>6. /\ Typed /\ ThreeUsers /\ FatalExplained /\ MessageScenarioTypeOK
      /\ user[i] \in Users /\ "check" \in Channels /\ n \in 0..Len(rows)
  BY <1>2, <1>4, Parts DEF RoundInv, ThreeUsers, Typed, Channels
<1>7. /\ \E id \in InChannel("check", n) : rows[id].text = Sent
      /\ Max(InChannel("check", n)) \in 1..Len(rows)
      /\ NoPost => rows[Max(InChannel("check", n))].text = Sent
  <2>1. \A k \in DOMAIN rows :
          (\A j \in {1, 2} : Behind(j) => last[j] < k) => n < k
    BY <1>5, <1>6, Parts
  <2>2. n \in Nat
    BY <1>6, Parts
  <2> QED
    BY <1>5, <2>1, <2>2, OwnAmong
<1>8. mark' \in [Users -> [Channels -> 0..Len(rows)]]
  BY <1>4, <1>6, Parts, MarkReadIs
<1>9. wrong # "none" =>
        wrong \in {"count", "order"} /\ ~NoPost
  <2>1. CASE i # 3 /\ Cardinality(InChannel("check", n)) # 1
    <3>1. wrong = "count"
      BY <1>3, <2>1 DEF MessagesFail
    <3>2. ~NoPost
      BY <1>5, <2>1, InChannelIs DEF RoundInv, LastRead
    <3> QED
      BY <3>1, <3>2
  <2>2. CASE ~(i # 3 /\ Cardinality(InChannel("check", n)) # 1)
    BY <1>3, <1>7, <2>2 DEF MessagesFail
  <2> QED
    BY <2>1, <2>2
<1>10. /\ FatalExplained'
       /\ \A f \in fatals' :
            f.kind \in {"A", "B", "C", "count", "missing", "order"}
  <2>1. CASE fatals' = fatals
    BY <1>6, <2>1, SameFatals
  <2>2. CASE wrong # "none" /\ Fatal(wrong, i)
    BY <1>6, <1>9, <2>2, FatalStep
  <2> QED
    BY <1>4, <2>1, <2>2
<1>11. /\ last' \in [Three -> 0..Len(rows)]
       /\ \A j \in Three : j # i => last'[j] = last[j]
  <2>1. Max(InChannel("check", n)) \in 0..Len(rows)
    BY <1>6, <1>7, Parts
  <2> QED
    BY <1>4, <1>6, <2>1, Parts
<1>12. /\ phase' \in Phases /\ phase' \notin {"first", "post", "second", "read1"}
       /\ phase' = "read2" => i = 1
  BY <1>4, <1>5 DEF After, Phases
<1>13. Typed'
  BY <1>4, <1>6, <1>8, <1>10, <1>11, <1>12
     DEF Typed, MessageScenarioTypeOK, LateRequest
<1>14. ThreeUsers'
  BY <1>4, <1>5, <1>6 DEF ThreeUsers
<1>15. CheckCounts' /\ OtherCounts'
  BY <1>12 DEF CheckCounts, OtherCounts, Knows, Awaits
<1>16. \A j \in {1, 2} : ~CaughtUp(j)' /\ (Behind(j)' => Behind(j) /\ j # i)
  BY <1>5, <1>12 DEF CaughtUp, Behind
<1>17. \A j \in {1, 2} : j # i => last'[j] = last[j]
  BY <1>11 DEF Three
<1>18. LastRead'
  BY <1>4, <1>16, <1>17 DEF RoundInv, LastRead, NoPost
<1>19. OwnMessage'
  BY <1>4, <1>5, <1>16, <1>17 DEF RoundInv, OwnMessage, NoPost
<1> QED
  BY <1>10, <1>13, <1>14, <1>15, <1>18, <1>19 DEF RoundInv

LEMMA HistoryKeeps ==
  ASSUME RoundInv, History
  PROVE  RoundInv'
<1>1. /\ rows' = rows /\ mark' = mark /\ late' = late /\ round' = round
      /\ user' = user /\ at' = at /\ last' = last /\ umap' = umap
      /\ disturbed' = disturbed
      /\ phase = "history" /\ phase' \in {"idle", "stopped"}
  BY DEF History
<1>2. /\ Typed /\ ThreeUsers /\ FatalExplained /\ MessageScenarioTypeOK
      /\ Posted /\ \A j \in {1, 2} : ~Behind(j)
  BY <1>1 DEF RoundInv, Typed, Posted, Behind, After
<1>3. NoPost => rows[Max(InChannel("check", 0))].text = Sent
  <2>1. \A k \in DOMAIN rows : 0 < k
    BY <1>2, Parts
  <2> QED
    BY <1>2, <2>1, OwnAmong
<1>4. /\ FatalExplained'
      /\ \A f \in fatals' :
           f.kind \in {"A", "B", "C", "count", "missing", "order"}
  <2>1. CASE fatals' = fatals
    BY <1>2, <2>1, SameFatals
  <2>2. CASE Fatal("order", 1) /\ rows[Max(InChannel("check", 0))].text # Sent
    <3>1. 1 \in Three /\ ~NoPost
      BY <1>3, <2>2 DEF Three
    <3> QED
      BY <1>2, <2>2, <3>1, FatalStep
  <2> QED
    BY <2>1, <2>2 DEF History
<1>5. Typed'
  BY <1>1, <1>2, <1>4
     DEF Typed, MessageScenarioTypeOK, LateRequest, Phases
<1>6. ThreeUsers'
  BY <1>1, <1>2 DEF ThreeUsers
<1>7. CheckCounts' /\ OtherCounts'
  BY <1>1 DEF CheckCounts, OtherCounts, Knows, Awaits
<1>8. LastRead' /\ OwnMessage'
  BY <1>1 DEF LastRead, OwnMessage, CaughtUp, Behind, Posted, After
<1> QED
  BY <1>4, <1>5, <1>6, <1>7, <1>8 DEF RoundInv

LEMMA ReadGivesUpKeeps ==
  ASSUME RoundInv, ReadGivesUp
  PROVE  RoundInv'
<1>1. /\ rows' = rows /\ mark' = mark /\ round' = round
      /\ user' = user /\ at' = at /\ last' = last /\ umap' = umap
      /\ fatals' = fatals /\ disturbed' = disturbed
      /\ phase \in DOMAIN After /\ phase' = "idle"
  BY DEF ReadGivesUp
<1>2. Typed /\ ThreeUsers /\ FatalExplained /\ MessageScenarioTypeOK
  BY DEF RoundInv, Typed
<1>3. /\ late' \subseteq LateRequest /\ IsFiniteSet(late')
      /\ \A r \in late' : r.kind \in {"post", "read", "mark"}
                          /\ r.ch \in Channels
      /\ Cardinality(late') <= MaxLate
  <2>1. CASE late' = late
    BY <1>2, <2>1 DEF Typed, MessageScenarioTypeOK
  <2>2. CASE phase \in DOMAIN Reader /\ late' # late
    <3>1. PICK i \in Three : i = Reader[phase]
      BY <2>2 DEF Reader, Three
    <3>2. PICK n : n = IF i = 3 THEN 0 ELSE last[i]
      OBVIOUS
    <3>3. /\ late' = late \cup {LateRead(user[i], "check", n)}
          /\ Cardinality(late') <= MaxLate
      BY <2>2, <3>1, <3>2 DEF ReadGivesUp
    <3>4. user[i] \in Users /\ n \in Nat /\ "check" \in Channels
      BY <1>1, <1>2, <3>2, Parts DEF ThreeUsers, After, Channels
    <3> QED
      BY <1>2, <3>3, <3>4, ReadIsLate, LateGrows
  <2> QED
    BY <2>1, <2>2 DEF ReadGivesUp
<1>4. Typed'
  BY <1>1, <1>2, <1>3 DEF Typed, MessageScenarioTypeOK, LateRequest, Phases
<1>5. ThreeUsers'
  BY <1>1 DEF ThreeUsers
<1>6. CheckCounts' /\ OtherCounts'
  BY <1>1 DEF CheckCounts, OtherCounts, Knows, Awaits
<1>7. LastRead' /\ OwnMessage'
  BY <1>1 DEF LastRead, OwnMessage, CaughtUp, Behind, Posted, After
<1>8. FatalExplained'
  BY <1>1, <1>2 DEF FatalExplained
<1> QED
  BY <1>4, <1>5, <1>6, <1>7, <1>8 DEF RoundInv

LEMMA LoadPostKeeps ==
  ASSUME RoundInv, LoadPost
  PROVE  RoundInv'
<1>1. PICK r \in Row : r = [ch |-> "other", text |-> 0]
  <2>1. 0 \in 0..MaxRounds
    BY MessageScenarioAssumption
  <2>2. [ch |-> "other", text |-> 0] \in Row
    BY <2>1 DEF Row, Channels
  <2> QED
    BY <2>2
<1>2. /\ rows' = Append(rows, r) /\ Len(rows) < MaxRows
      /\ r.ch = "other"
      /\ mark' = mark /\ late' = late /\ round' = round /\ phase' = phase
      /\ user' = user /\ at' = at /\ last' = last /\ umap' = umap
      /\ fatals' = fatals /\ disturbed' = disturbed
  BY <1>1 DEF LoadPost, Post
<1>3. Typed /\ ThreeUsers /\ FatalExplained /\ MessageScenarioTypeOK
  BY DEF RoundInv, Typed
<1>4. /\ rows' \in Seq(Row) /\ Len(rows') <= MaxRows
      /\ mark \in [Users -> [Channels -> 0..Len(rows')]]
      /\ last \in [Three -> 0..Len(rows')]
      /\ umap \in [Three -> [Channels -> 0..Len(rows')]]
      /\ late \subseteq LateRequest'
  BY <1>2, <1>3, Grown
<1>5. Typed'
  BY <1>2, <1>3, <1>4 DEF Typed, MessageScenarioTypeOK
<1>6. ThreeUsers'
  BY <1>2, <1>3 DEF ThreeUsers
<1>7. FatalExplained'
  BY <1>2, <1>3 DEF FatalExplained
<1>8. \A i \in Three : /\ Knows(i)' = Knows(i) /\ Awaits(i)' = Awaits(i)
                       /\ Knows(i) \/ Awaits(i) \/ phase = "first" =>
                            user[i] \in Users
  BY <1>2, <1>3 DEF Knows, Awaits, ThreeUsers
<1>9. \A u \in Users :
        /\ Count(rows, mark[u], "other") \in Nat
        /\ Count(rows', mark[u], "check") = Count(rows, mark[u], "check")
        /\ Count(rows', mark[u], "other") = Count(rows, mark[u], "other") + 1
  BY <1>2, <1>3, CountGrows DEF Channels
<1>10. CheckCounts'
  BY <1>2, <1>8, <1>9 DEF RoundInv, CheckCounts, NoPost, NoMark
<1>11. OtherCounts'
  <2> SUFFICES ASSUME NEW i \in Three, NoMark(user[i], "other"),
                      Knows(i) \/ Awaits(i)
               PROVE  umap[i]["other"] <= Count(rows', mark[user[i]], "other")
    BY <1>2, <1>8 DEF OtherCounts, NoMark
  <2>1. umap[i]["other"] <= Count(rows, mark[user[i]], "other")
    BY DEF RoundInv, OtherCounts
  <2>2. umap[i]["other"] \in Nat
    BY <1>3, Parts DEF Channels
  <2>3. user[i] \in Users
    BY <1>8
  <2> QED
    BY <1>9, <2>1, <2>2, <2>3
<1>12. \A i \in {1, 2} :
         Newer(rows', "check", last[i]) = Newer(rows, "check", last[i])
  BY <1>2, <1>3, Parts, NewerAppended DEF Three
<1>13. LastRead'
  BY <1>2, <1>12 DEF RoundInv, LastRead, NoPost, CaughtUp, Behind
<1>14. OwnMessage'
  <2>1. Newer(rows', "check", 0) = Newer(rows, "check", 0)
    BY <1>2, <1>3, Parts, NewerAppended
  <2>2. \A k \in DOMAIN rows : k \in DOMAIN rows' /\ rows'[k] = rows[k]
    BY <1>2, <1>3, Parts
  <2> QED
    BY <1>2, <2>1, <2>2 DEF RoundInv, OwnMessage, Posted, Behind, NoPost
<1> QED
  BY <1>5, <1>6, <1>7, <1>10, <1>11, <1>13, <1>14 DEF RoundInv

\* One late request is done, and may leave another.
LEMMA LateDone ==
  ASSUME Typed, NEW q \in late, NEW m
  PROVE  /\ IsFiniteSet(late \ {q})
         /\ Cardinality(late \ {q}) <= MaxLate
         /\ IsFiniteSet((late \ {q}) \cup {m})
         /\ Cardinality((late \ {q}) \cup {m}) <= MaxLate
<1>1. PICK S : S = late \ {q}
  OBVIOUS
<1>2. /\ IsFiniteSet(late) /\ Cardinality(late) \in Nat
      /\ Cardinality(late) <= MaxLate /\ MaxLate \in Nat
  BY Parts
<1>3. /\ IsFiniteSet(S) /\ Cardinality(S) = Cardinality(late) - 1
  BY <1>1, <1>2, FS_RemoveElement
<1>4. /\ IsFiniteSet(S \cup {m})
      /\ Cardinality(S \cup {m}) \in {Cardinality(S), Cardinality(S) + 1}
  BY <1>3, FS_AddElement
<1> QED
  BY <1>1, <1>2, <1>3, <1>4

LEMMA LatePostKeeps ==
  ASSUME RoundInv, NEW q \in late, q.kind = "post", Post(q.ch, q.value),
         late' = late \ {q}, Disturb(q), mark' = mark,
         UNCHANGED <<round, phase, user, at, last, umap, fatals>>
  PROVE  RoundInv'
<1>1. Typed /\ ThreeUsers /\ FatalExplained /\ MessageScenarioTypeOK
  BY DEF RoundInv, Typed
<1>2. q.ch = "check" /\ q.value \in 0..MaxRounds
  BY <1>1 DEF Typed, LateRequest
<1>3. PICK r \in Row : r = [ch |-> q.ch, text |-> q.value]
  BY <1>2 DEF Row, Channels
<1>4. rows' = Append(rows, r) /\ Len(rows) < MaxRows /\ r.ch = "check"
  BY <1>2, <1>3 DEF Post
<1>5. /\ rows' \in Seq(Row) /\ Len(rows') <= MaxRows
      /\ mark \in [Users -> [Channels -> 0..Len(rows')]]
      /\ last \in [Three -> 0..Len(rows')]
      /\ umap \in [Three -> [Channels -> 0..Len(rows')]]
      /\ late \subseteq LateRequest'
  BY <1>1, <1>4, Grown
<1>6. IsFiniteSet(late') /\ Cardinality(late') <= MaxLate
  BY <1>1, LateDone
<1>7. Typed'
  BY <1>1, <1>5, <1>6 DEF Typed, MessageScenarioTypeOK
<1>8. ThreeUsers'
  BY <1>1 DEF ThreeUsers
<1>9. FatalExplained'
  BY <1>1 DEF FatalExplained
<1>10. ~NoPost' /\ \A u, ch : NoMark(u, ch)' => NoMark(u, ch)
  <2>1. PICK g : g = [kind |-> "post", user |-> q.user, ch |-> q.ch]
    OBVIOUS
  <2>2. disturbed' = disturbed \cup {g} /\ g.kind = "post"
    BY <2>1 DEF Disturb
  <2> QED
    BY <2>2 DEF NoPost, NoMark
<1>11. CheckCounts' /\ LastRead'
  BY <1>10 DEF CheckCounts, LastRead
<1>12. OtherCounts'
  <2>1. \A i \in Three : Knows(i) \/ Awaits(i) => user[i] \in Users
    BY <1>1 DEF Knows, Awaits, ThreeUsers
  <2>2. \A u \in Users :
          Count(rows', mark[u], "other") = Count(rows, mark[u], "other")
    BY <1>1, <1>4, CountGrows DEF Channels
  <2>3. \A i \in Three : /\ Knows(i)' = Knows(i) /\ Awaits(i)' = Awaits(i)
                         /\ NoMark(user[i], "other")' => NoMark(user[i], "other")
    BY <1>10 DEF Knows, Awaits
  <2> QED
    BY <2>1, <2>2, <2>3 DEF RoundInv, OtherCounts
<1>13. OwnMessage'
  <2>1. \A k \in DOMAIN rows : k \in DOMAIN rows' /\ rows'[k] = rows[k]
    BY <1>1, <1>4, Parts
  <2> QED
    BY <1>10, <2>1 DEF RoundInv, OwnMessage, Posted, Behind
<1> QED
  BY <1>7, <1>8, <1>9, <1>11, <1>12, <1>13 DEF RoundInv

LEMMA LateReadKeeps ==
  ASSUME RoundInv, NEW q \in late, q.kind = "read",
         late' = (late \ {q}) \cup
                    (IF InChannel(q.ch, q.value) = {} THEN {}
                     ELSE {LateMark(q.user, q.ch,
                                    Max(InChannel(q.ch, q.value)))}),
         UNCHANGED <<rows, mark, disturbed>>,
         UNCHANGED <<round, phase, user, at, last, umap, fatals>>
  PROVE  RoundInv'
<1>1. Typed /\ ThreeUsers /\ FatalExplained /\ MessageScenarioTypeOK
  BY DEF RoundInv, Typed
<1>2. q.user \in Users /\ q.ch \in Channels /\ q.value \in Nat
  BY <1>1 DEF Typed, LateRequest
<1>3. /\ late' \subseteq LateRequest /\ IsFiniteSet(late')
      /\ Cardinality(late') <= MaxLate
  <2>1. CASE InChannel(q.ch, q.value) = {}
    <3>1. late' = late \ {q}
      BY <2>1
    <3> QED
      BY <1>1, <3>1, LateDone DEF Typed
  <2>2. CASE InChannel(q.ch, q.value) # {}
    <3>1. PICK m : m = Max(InChannel(q.ch, q.value))
      OBVIOUS
    <3>2. m \in 0..Len(rows)
      BY <1>1, <1>2, <2>2, <3>1, NewestIs, Parts
    <3>3. LateMark(q.user, q.ch, m) \in LateRequest
      BY <1>2, <3>2 DEF LateMark, LateRequest
    <3>4. late' = (late \ {q}) \cup {LateMark(q.user, q.ch, m)}
      BY <2>2, <3>1
    <3> QED
      BY <1>1, <3>3, <3>4, LateDone DEF Typed
  <2> QED
    BY <2>1, <2>2
<1>4. \A r \in late' : r.kind \in {"post", "read", "mark"} /\ r.ch \in Channels
  BY <1>3 DEF LateRequest, Channels
<1>5. Typed'
  BY <1>1, <1>3, <1>4 DEF Typed, MessageScenarioTypeOK, LateRequest
<1>6. ThreeUsers' /\ FatalExplained'
  BY <1>1 DEF ThreeUsers, FatalExplained
<1>7. CheckCounts' /\ OtherCounts'
  BY DEF RoundInv, CheckCounts, OtherCounts, Knows, Awaits, NoPost, NoMark
<1>8. LastRead' /\ OwnMessage'
  BY DEF RoundInv, LastRead, OwnMessage, CaughtUp, Behind, Posted, NoPost
<1> QED
  BY <1>5, <1>6, <1>7, <1>8 DEF RoundInv

LEMMA LateMarkKeeps ==
  ASSUME RoundInv, NEW q \in late, q.kind = "mark",
         mark' = [mark EXCEPT ![q.user][q.ch] = q.value],
         late' = late \ {q}, Disturb(q), rows' = rows,
         UNCHANGED <<round, phase, user, at, last, umap, fatals>>
  PROVE  RoundInv'
<1>1. Typed /\ ThreeUsers /\ FatalExplained /\ MessageScenarioTypeOK
  BY DEF RoundInv, Typed
<1>2. q.user \in Users /\ q.ch \in Channels /\ q.value \in 0..Len(rows)
  BY <1>1 DEF Typed, LateRequest
<1>3. IsFiniteSet(late') /\ Cardinality(late') <= MaxLate
  BY <1>1, LateDone
<1>4. /\ mark' \in [Users -> [Channels -> 0..Len(rows)]]
      /\ \A u \in Users, ch \in Channels :
           u # q.user \/ ch # q.ch => mark'[u][ch] = mark[u][ch]
  BY <1>1, <1>2, Parts
<1>5. Typed'
  BY <1>1, <1>3, <1>4 DEF Typed, MessageScenarioTypeOK, LateRequest
<1>6. ThreeUsers' /\ FatalExplained'
  BY <1>1 DEF ThreeUsers, FatalExplained
<1>7. PICK g : g = [kind |-> "mark", user |-> q.user, ch |-> q.ch]
  OBVIOUS
<1>8. /\ disturbed' = disturbed \cup {g}
      /\ g.kind = "mark" /\ g.user = q.user /\ g.ch = q.ch
  BY <1>7 DEF Disturb
<1>9. /\ NoPost' => NoPost
      /\ \A u, ch : NoMark(u, ch)' =>
            NoMark(u, ch) /\ (u # q.user \/ ch # q.ch)
  BY <1>8 DEF NoPost, NoMark
<1>10. \A i \in Three, ch \in Channels :
         NoMark(user[i], ch)' /\ user[i] \in Users =>
           /\ NoMark(user[i], ch)
           /\ Count(rows', mark'[user[i]], ch) = Count(rows, mark[user[i]], ch)
  BY <1>4, <1>9 DEF Count
<1>11. \A i \in Three : phase # "idle" => user[i] \in Users
  BY <1>1 DEF ThreeUsers
<1>12. CheckCounts'
  BY <1>9, <1>10, <1>11
     DEF RoundInv, CheckCounts, Knows, Awaits, Channels
<1>13. OtherCounts'
  BY <1>10, <1>11 DEF RoundInv, OtherCounts, Knows, Awaits, Channels
<1>14. LastRead' /\ OwnMessage'
  BY <1>9 DEF RoundInv, LastRead, OwnMessage, CaughtUp, Behind, Posted
<1> QED
  BY <1>5, <1>6, <1>12, <1>13, <1>14 DEF RoundInv

LEMMA LateStepKeeps ==
  ASSUME RoundInv, LateStep
  PROVE  RoundInv'
<1>1. PICK q \in late :
        /\ \/ /\ q.kind = "post"
              /\ Post(q.ch, q.value)
              /\ late' = late \ {q}
              /\ Disturb(q)
              /\ UNCHANGED mark
           \/ /\ q.kind = "read"
              /\ LET ids == InChannel(q.ch, q.value)
                 IN  late' = (late \ {q}) \cup
                        (IF ids = {} THEN {}
                         ELSE {LateMark(q.user, q.ch, Max(ids))})
              /\ UNCHANGED <<rows, mark, disturbed>>
           \/ /\ q.kind = "mark"
              /\ mark' = [mark EXCEPT ![q.user][q.ch] = q.value]
              /\ late' = late \ {q}
              /\ Disturb(q)
              /\ UNCHANGED rows
        /\ UNCHANGED <<round, phase, user, at, last, umap, fatals>>
  BY DEF LateStep
<1>2. CASE q.kind = "post"
  BY <1>1, <1>2, LatePostKeeps
<1>3. CASE q.kind = "read"
  BY <1>1, <1>3, LateReadKeeps
<1>4. CASE q.kind = "mark"
  BY <1>1, <1>4, LateMarkKeeps
<1> QED
  BY <1>1, <1>2, <1>3, <1>4

LEMMA SameRound ==
  ASSUME RoundInv, UNCHANGED vars
  PROVE  RoundInv'
<1>1. Typed' /\ ThreeUsers' /\ FatalExplained'
  BY DEF RoundInv, Typed, MessageScenarioTypeOK, LateRequest, ThreeUsers,
         FatalExplained, vars
<1>2. CheckCounts' /\ OtherCounts'
  BY DEF RoundInv, CheckCounts, OtherCounts, Knows, Awaits, NoPost, NoMark, vars
<1>3. LastRead' /\ OwnMessage'
  BY DEF RoundInv, LastRead, OwnMessage, CaughtUp, Behind, Posted, NoPost, vars
<1> QED
  BY <1>1, <1>2, <1>3 DEF RoundInv

LEMMA NextRoundInv == RoundInv /\ [Next]_vars => RoundInv'
<1> SUFFICES ASSUME RoundInv, [Next]_vars
             PROVE  RoundInv'
  OBVIOUS
<1>1. CASE Begin
  BY <1>1, BeginKeeps
<1>2. ASSUME NEW i \in Three, FirstGet(i)
      PROVE  RoundInv'
  BY <1>2, FirstGetKeeps
<1>3. ASSUME NEW i \in Three, FirstFetch(i)
      PROVE  RoundInv'
  BY <1>3, FirstFetchKeeps
<1>4. ASSUME NEW i \in Three, GivesUp(i)
      PROVE  RoundInv'
  BY <1>4, GivesUpKeeps
<1>5. ASSUME NEW i \in Three, SecondFetch(i)
      PROVE  RoundInv'
  BY <1>5, SecondFetchKeeps
<1>6. CASE Join
  BY <1>6, JoinKeeps
<1>7. CASE PostMessage
  BY <1>7, PostMessageKeeps
<1>8. CASE ReadMessage
  BY <1>8, ReadMessageKeeps
<1>9. CASE History
  BY <1>9, HistoryKeeps
<1>10. CASE ReadGivesUp
  BY <1>10, ReadGivesUpKeeps
<1>11. CASE LoadPost
  BY <1>11, LoadPostKeeps
<1>12. CASE LateStep
  BY <1>12, LateStepKeeps
<1>13. CASE UNCHANGED vars
  BY <1>13, SameRound
<1> QED
  BY <1>1, <1>2, <1>3, <1>4, <1>5, <1>6, <1>7, <1>8, <1>9, <1>10, <1>11, <1>12,
     <1>13 DEF Next

-----------------------------------------------------------------------------
(***************************************************************************)
(* The initial states.                                                     *)
(***************************************************************************)
LEMMA InitRoundInv == Init => RoundInv
<1> SUFFICES ASSUME Init
             PROVE  RoundInv
  OBVIOUS
<1>1. /\ rows = <<>> /\ mark = [u \in Users |-> [ch \in Channels |-> 0]]
      /\ round = 0 /\ phase = "idle"
      /\ user = [i \in Three |-> NoUser] /\ at = [i \in Three |-> "get"]
      /\ last = [i \in Three |-> 0]
      /\ umap = [i \in Three |-> [ch \in Channels |-> 0]]
      /\ fatals = {}
  BY DEF Init
<1>2. PICK S \in SUBSET Users : /\ Cardinality(S) <= MaxLate
                                /\ late = {LateRead(u, "other", 0) : u \in S}
  BY DEF Init
<1>3. IsFiniteSet(S) /\ Cardinality(S) \in Nat
  BY FS_Subset, FS_CardinalityType, MessageScenarioAssumption
<1>4. IsFiniteSet(late) /\ Cardinality(late) <= Cardinality(S)
  <2>1. PICK f : f = [u \in S |-> LateRead(u, "other", 0)]
    OBVIOUS
  <2>2. f \in Surjection(S, late)
    BY <1>2, <2>1 DEF Surjection
  <2> QED
    BY <1>3, <2>2, FS_Surjection
<1>5. late \subseteq LateRequest
  BY <1>2, ReadIsLate DEF Channels
<1>6. Cardinality(late) <= MaxLate
  BY <1>2, <1>3, <1>4, FS_CardinalityType, MessageScenarioAssumption
<1>7. \A q \in late : q.kind \in {"post", "read", "mark"} /\ q.ch \in Channels
  BY <1>5 DEF LateRequest, Channels
<1>8. MessageScenarioTypeOK
  <2>1. rows \in Seq(Row) /\ Len(rows) = 0
    BY <1>1
  <2>2. 0 \in 0..MaxRounds /\ Len(rows) <= MaxRows
    BY <2>1, MessageScenarioAssumption
  <2> QED
    BY <1>1, <1>6, <1>7, <2>1, <2>2 DEF MessageScenarioTypeOK, Phases
<1>9. Typed /\ ThreeUsers /\ FatalExplained
  BY <1>1, <1>4, <1>5, <1>8 DEF Typed, ThreeUsers, FatalExplained
<1>10. CheckCounts /\ OtherCounts
  BY <1>1 DEF CheckCounts, OtherCounts, Knows, Awaits
<1>11. LastRead /\ OwnMessage
  BY <1>1 DEF LastRead, OwnMessage, CaughtUp, Behind, Posted, After
<1> QED
  BY <1>9, <1>10, <1>11 DEF RoundInv

-----------------------------------------------------------------------------
(***************************************************************************)
(* The results.                                                            *)
(***************************************************************************)
\* The inductive invariant holds throughout.
THEOREM RoundInvariant == Spec => []RoundInv
BY InitRoundInv, NextRoundInv, PTL DEF Spec

\* The variables of CheckMessageScenario and the tables it works on keep their
\* types, for any number of users, rounds, messages and late requests.
THEOREM ScenarioTypeCorrect == Spec => []MessageScenarioTypeOK
<1>1. RoundInv => MessageScenarioTypeOK
  BY DEF RoundInv, Typed
<1> QED
  BY <1>1, RoundInvariant, PTL

\* CheckMessageScenario records a fatal error against the reference application
\* only in a round that a late request disturbed, and each kind of error only
\* for a late request of the kind that explains it (FatalExplained).
THEOREM FatalsExplained == Spec => []FatalExplained
<1>1. RoundInv => FatalExplained
  BY DEF RoundInv
<1> QED
  BY <1>1, RoundInvariant, PTL
=============================================================================
