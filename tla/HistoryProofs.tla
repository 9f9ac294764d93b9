--------------------------- MODULE HistoryProofs ---------------------------
(***************************************************************************)
(* The history pages show every message, their links work, and the checks  *)
(* of the benchmarker do not blame them: for any channels, data set, page  *)
(* size and number of posts.                                               *)
(***************************************************************************)
EXTENDS History, FiniteSetTheorems, TLAPS

-----------------------------------------------------------------------------
(***************************************************************************)
(* Numbers of pages.                                                       *)
(***************************************************************************)
LEMMA Division ==
  ASSUME NEW a \in Nat, NEW b \in Nat \ {0}
  PROVE  /\ a \div b \in Nat
         /\ b * (a \div b) <= a
         /\ a < b * (a \div b) + b
BY SMT

LEMMA TimesMonotone ==
  ASSUME NEW a \in Int, NEW b \in Int, NEW n \in Nat, a <= b
  PROVE  a * n <= b * n
BY SMT

LEMMA PagesType ==
  ASSUME NEW n \in Nat
  PROVE  /\ Pages(n) \in Nat
         /\ n <= Pages(n) * N
         /\ n > 0 => Pages(n) >= 1 /\ (Pages(n) - 1) * N < n
<1>1. N \in Nat /\ N > 0
  BY HistoryAssumption
<1>2. PICK q : q = Pages(n)
  OBVIOUS
<1>3. q \in Nat /\ N * q <= n + N - 1 /\ n + N - 1 < N * q + N
  BY <1>1, <1>2, Division DEF Pages
<1>4. N * q = q * N /\ (q - 1) * N = q * N - N
  BY <1>1, <1>3
<1>5. PICK m \in Nat : m = q * N
  BY <1>1, <1>3
<1>6. q = 0 => m = 0
  BY <1>5, <1>1
<1> QED
  BY <1>1, <1>2, <1>3, <1>4, <1>5, <1>6

\* Cut off at a number of whole pages: n messages need more than k pages.
LEMMA PagesBound ==
  ASSUME NEW n \in Nat, NEW k \in Nat
  PROVE  Pages(n) <= k <=> n <= k * N
<1>1. N \in Nat /\ N > 0
  BY HistoryAssumption
<1>2. PICK q : q = Pages(n)
  OBVIOUS
<1>3. q \in Nat /\ n <= q * N /\ (n > 0 => q >= 1 /\ (q - 1) * N < n)
  BY <1>2, PagesType
<1>4. ASSUME q <= k PROVE n <= k * N
  <2>1. q * N <= k * N
    BY <1>1, <1>3, <1>4, TimesMonotone
  <2> QED
    BY <1>1, <1>3, <2>1
<1>5. ASSUME n <= k * N, ~(q <= k) PROVE FALSE
  <2>1. k * N <= (q - 1) * N
    BY <1>1, <1>3, <1>5, TimesMonotone
  <2>2. n > 0
    <3>1. CASE n = 0
      <4>1. n + N - 1 < N
        BY <1>1, <3>1
      <4>2. q = 0
        <5>1. N * q <= n + N - 1
          BY <1>1, <1>2, Division DEF Pages
        <5>2. q >= 1 => N * 1 <= N * q
          BY <1>1, <1>3
        <5> QED
          BY <1>1, <1>3, <4>1, <5>1, <5>2
      <4> QED
        BY <1>3, <1>5, <4>2
    <3> QED
      BY <3>1
  <2> QED
    BY <1>1, <1>3, <1>5, <2>1, <2>2
<1> QED
  BY <1>2, <1>4, <1>5

LEMMA MaxPageType ==
  ASSUME NEW n \in Nat
  PROVE  /\ MaxPage(n) \in Nat /\ MaxPage(n) >= 1
         /\ MaxPage(n) = Pages(AtLeastOne(n))
         /\ n <= MaxPage(n) * N
         /\ n > 0 => (MaxPage(n) - 1) * N < n
<1>1. N \in Nat /\ N > 0 /\ 1 * N = N
  BY HistoryAssumption
<1>2. Pages(1) = 1
  <2>1. Pages(1) \in Nat /\ Pages(1) >= 1
    BY PagesType
  <2>2. Pages(1) <= 1
    BY <1>1, PagesBound
  <2> QED
    BY <2>1, <2>2
<1>3. CASE n = 0
  BY <1>1, <1>2, <1>3 DEF MaxPage, AtLeastOne
<1>4. CASE n > 0
  <2>1. MaxPage(n) = Pages(n) /\ AtLeastOne(n) = n
    BY <1>4 DEF MaxPage, AtLeastOne
  <2> QED
    BY <1>4, <2>1, PagesType
<1> QED
  BY <1>3, <1>4

LEMMA PagesMonotone ==
  ASSUME NEW m \in Nat, NEW n \in Nat, m <= n
  PROVE  /\ Pages(m) <= Pages(n) /\ MaxPage(m) <= MaxPage(n)
         /\ Pages(AtLeastOne(m)) <= Pages(AtLeastOne(n))
<1>1. ASSUME NEW a \in Nat, NEW b \in Nat, a <= b
      PROVE  Pages(a) <= Pages(b)
  <2>1. PICK k \in Nat : k = Pages(b) /\ b <= k * N
    BY PagesType
  <2>2. a <= k * N
    <3>1. N \in Nat /\ k * N \in Nat
      BY HistoryAssumption
    <3> QED
      BY <1>1, <2>1, <3>1
  <2> QED
    BY <2>1, <2>2, PagesBound
<1>2. /\ AtLeastOne(m) \in Nat /\ AtLeastOne(n) \in Nat
      /\ AtLeastOne(m) <= AtLeastOne(n)
  BY DEF AtLeastOne
<1>3. Pages(AtLeastOne(m)) <= Pages(AtLeastOne(n))
  BY <1>1, <1>2
<1>4. /\ MaxPage(m) = Pages(AtLeastOne(m))
      /\ MaxPage(n) = Pages(AtLeastOne(n))
  BY MaxPageType
<1> QED
  BY <1>1, <1>3, <1>4

-----------------------------------------------------------------------------
(***************************************************************************)
(* The place of a message among the newest of its channel.                 *)
(***************************************************************************)
Rank(S, id) == Cardinality({j \in S : j > id})

LEMMA RankType ==
  ASSUME NEW S \in SUBSET Nat, IsFiniteSet(S), NEW id \in Nat
  PROVE  Rank(S, id) \in Nat /\ (id \in S => Rank(S, id) < Cardinality(S))
<1> DEFINE R == {j \in S : j > id}
<1>1. R \in SUBSET S
  OBVIOUS
<1>2. /\ IsFiniteSet(R) /\ Cardinality(R) <= Cardinality(S)
      /\ Cardinality(S) = Cardinality(R) => S = R
  BY <1>1, FS_Subset
<1>3. Cardinality(R) \in Nat /\ Cardinality(S) \in Nat
  BY <1>2, FS_CardinalityType
<1>4. id \notin R
  OBVIOUS
<1> QED
  BY <1>2, <1>3, <1>4 DEF Rank

\* More messages push a message down.
LEMMA RankGrows ==
  ASSUME NEW S, NEW T \in SUBSET Nat, IsFiniteSet(T), S \subseteq T,
         NEW id \in Nat
  PROVE  Rank(S, id) <= Rank(T, id)
<1> DEFINE R == {j \in S : j > id}
           Q == {j \in T : j > id}
<1>1. R \in SUBSET Q /\ Q \in SUBSET T
  OBVIOUS
<1>2. IsFiniteSet(Q)
  BY <1>1, FS_Subset
<1>3. Cardinality(R) <= Cardinality(Q)
  BY <1>1, <1>2, FS_Subset
<1> QED
  BY <1>3 DEF Rank

LEMMA RankFalls ==
  ASSUME NEW S \in SUBSET Nat, IsFiniteSet(S), NEW i \in S, NEW j \in S, i < j
  PROVE  Rank(S, j) < Rank(S, i)
<1> DEFINE R == {k \in S : k > j}
           Q == {k \in S : k > i}
<1>0. i \in Nat /\ j \in Nat /\ \A k \in S : k \in Nat
  OBVIOUS
<1>1. R \in SUBSET Q /\ Q \in SUBSET S
  <2>1. \A k \in Nat : k > j => k > i
    BY <1>0
  <2> QED
    BY <1>0, <2>1
<1>2. IsFiniteSet(Q)
  BY <1>1, FS_Subset
<1>3. /\ Cardinality(R) <= Cardinality(Q) /\ IsFiniteSet(R)
      /\ Cardinality(Q) = Cardinality(R) => Q = R
  BY <1>1, <1>2, FS_Subset
<1>4. Cardinality(R) \in Nat /\ Cardinality(Q) \in Nat
  BY <1>2, <1>3, FS_CardinalityType
<1>5. j \in Q /\ j \notin R
  OBVIOUS
<1> QED
  BY <1>3, <1>4, <1>5 DEF Rank

\* Every place is taken: n messages have the ranks 0 to n - 1.
LEMMA RankOnto ==
  ASSUME NEW S \in SUBSET Nat, IsFiniteSet(S)
  PROVE  [id \in S |-> Rank(S, id)] \in Bijection(S, 0 .. Cardinality(S) - 1)
<1> DEFINE f == [id \in S |-> Rank(S, id)]
           T == 0 .. Cardinality(S) - 1
<1>1. Cardinality(S) \in Nat
  BY FS_CardinalityType
<1>2. IsFiniteSet(T) /\ Cardinality(T) = Cardinality(S)
  <2>1. PICK n \in Nat : n = Cardinality(S)
    BY <1>1
  <2>2. /\ IsFiniteSet(0 .. n - 1)
        /\ Cardinality(0 .. n - 1) = IF 0 > n - 1 THEN 0 ELSE (n - 1) - 0 + 1
    BY FS_Interval
  <2> QED
    BY <2>1, <2>2
<1>3. f \in [S -> T]
  BY <1>1, RankType
<1>4. ASSUME NEW i \in S, NEW j \in S, f[i] = f[j]
      PROVE  i = j
  <2>1. Rank(S, i) = Rank(S, j) /\ Rank(S, i) \in Nat
    BY <1>4, RankType
  <2>2. i \in Nat /\ j \in Nat
    OBVIOUS
  <2>3. CASE i < j
    BY <2>1, <2>3, RankFalls
  <2>4. CASE j < i
    BY <2>1, <2>4, RankFalls
  <2> QED
    BY <2>2, <2>3, <2>4
<1>5. f \in Injection(S, T)
  BY <1>3, <1>4 DEF Injection, IsInjective
<1>6. f \in Surjection(S, T)
  BY <1>2, <1>5, FS_Injection
<1> QED
  BY <1>5, <1>6 DEF Bijection

\* A page shows N messages, or what is left of them.
LEMMA PageSize ==
  ASSUME NEW S \in SUBSET Nat, IsFiniteSet(S), NEW p \in Nat, p >= 1,
         (p - 1) * N < Cardinality(S)
  PROVE  /\ Cardinality(Page(S, p)) \in 1 .. N
         /\ p * N <= Cardinality(S) => Cardinality(Page(S, p)) = N
<1>1. PICK n \in Nat : n = Cardinality(S)
  BY FS_CardinalityType
<1>2. PICK f : f = [id \in S |-> Rank(S, id)]
  OBVIOUS
<1>3. PICK P : P = Page(S, p)
  OBVIOUS
<1>4. N \in Nat /\ N > 0
  BY HistoryAssumption
<1>5. PICK a \in Nat : a = (p - 1) * N
  BY <1>4
<1>6. a < n
  BY <1>1, <1>5
<1>7. p * N = a + N
  BY <1>4, <1>5
<1>8. /\ f \in [S -> 0 .. n - 1]
      /\ \A i, j \in S : f[i] = f[j] => i = j
      /\ \A k \in 0 .. n - 1 : \E i \in S : f[i] = k
  <2>1. f \in Bijection(S, 0 .. n - 1)
    BY <1>1, <1>2, RankOnto
  <2> QED
    BY <2>1 DEF Bijection, Injection, IsInjective, Surjection
<1>9. PICK b \in Nat : IF a + N <= n THEN b = a + N - 1 ELSE b = n - 1
  <2>1. CASE a + N <= n
    <3>1. a + N - 1 \in Nat
      BY <1>4
    <3> QED
      BY <2>1, <3>1
  <2>2. CASE ~(a + N <= n)
    <3>1. n - 1 \in Nat
      BY <1>6
    <3> QED
      BY <2>2, <3>1
  <2> QED
    BY <2>1, <2>2
<1>10. /\ a <= b /\ b <= n - 1 /\ b - a + 1 \in 1 .. N
       /\ a + N <= n => b - a + 1 = N
       /\ \A k \in 0 .. n - 1 : k \in a .. a + N - 1 <=> k \in a .. b
       /\ \A k \in a .. b : k \in 0 .. n - 1
  BY <1>4, <1>6, <1>9
<1>11. P \subseteq S /\ \A i \in S : i \in P <=> f[i] \in a .. b
  <2>1. P \subseteq S
    BY <1>3 DEF Page
  <2>2. ASSUME NEW i \in S
        PROVE  i \in P <=> f[i] \in a .. b
    <3>1. i \in P <=> Rank(S, i) \in (p - 1) * N .. p * N - 1
      BY <1>3 DEF Page, Rank
    <3>2. i \in P <=> Rank(S, i) \in a .. a + N - 1
      <4>1. p * N - 1 = a + N - 1
        BY <1>4, <1>7
      <4>2. PICK c : c = p * N - 1
        OBVIOUS
      <4>3. i \in P <=> Rank(S, i) \in a .. c
        BY <1>5, <3>1, <4>2
      <4> QED
        BY <4>1, <4>2, <4>3
    <3>3. f[i] = Rank(S, i) /\ f[i] \in 0 .. n - 1
      BY <1>2, <1>8
    <3> QED
      BY <1>10, <3>2, <3>3
  <2> QED
    BY <2>1, <2>2
<1>12. PICK g : g = [i \in P |-> f[i]]
  OBVIOUS
<1>13. g \in Bijection(P, a .. b)
  <2>1. g \in [P -> a .. b]
    BY <1>11, <1>12
  <2>2. \A i, j \in P : g[i] = g[j] => i = j
    BY <1>8, <1>11, <1>12
  <2>3. \A k \in a .. b : \E i \in P : g[i] = k
    BY <1>8, <1>10, <1>11, <1>12
  <2> QED
    BY <2>1, <2>2, <2>3 DEF Bijection, Injection, IsInjective, Surjection
<1>14. IsFiniteSet(P)
  BY <1>11, FS_Subset
<1>15. Cardinality(a .. b) = Cardinality(P)
  BY <1>13, <1>14, FS_Bijection DEF ExistsBijection
<1>16. Cardinality(a .. b) = b - a + 1
  <2>1. Cardinality(a .. b) = IF a > b THEN 0 ELSE b - a + 1
    BY FS_Interval
  <2> QED
    BY <1>10, <2>1
<1>17. p * N <= n <=> a + N <= n
  BY <1>7
<1> QED
  BY <1>1, <1>3, <1>10, <1>15, <1>16, <1>17

-----------------------------------------------------------------------------
(***************************************************************************)
(* The inductive invariant.                                                *)
(***************************************************************************)
\* A channel has the data set and what was posted since.
Logs ==
    \A c \in Channels :
        /\ IsFiniteSet(log[c])
        /\ InitialLog[c] \subseteq log[c]
        /\ \A id \in log[c] \ InitialLog[c] : id > InitialMessages

\* The counters bracket what is stored.
Ledgers ==
    \A c \in Channels :
        /\ Cardinality(log[c]) <= sent[c] /\ complete[c] <= sent[c]
        /\ done \/ complete[c] <= Cardinality(log[c])

\* The locals of getHistory: a page that is shown exists by the count.
Counted(G) == G.pc = "select" \/ G.status = 200

GetOK(G) ==
    /\ G.pc # "idle" => G.channel \in Channels
    /\ G.pc = "answer" => G.status \in {200, 400}
    /\ G.pc # "answer" => G.status = 0
    /\ G.pc = "count" => G.page >= 1
    /\ Counted(G) => G.maxPage = MaxPage(G.cnt) /\ G.page \in 1 .. G.maxPage

\* What a walker has not seen is not newer than the pages it was shown: the
\* messages posted meanwhile have only pushed it down.
WalkOK(W, G, logs) ==
    LET L == logs[G.channel]
        unseen == W.start \ W.seen
    IN  /\ W.pc = "walking" /\ ~W.purged =>
             /\ G.status # 400
             /\ W.start \subseteq L
             /\ G.pc = "count" => G.page <= MaxPage(Cardinality(L))
             /\ Counted(G) => G.cnt <= Cardinality(L)
             /\ G.pc \in {"count", "select"} =>
                  \A id \in unseen : (G.page - 1) * N <= Rank(L, id)
             /\ G.pc = "answer" =>
                  \A id \in unseen \ G.rows : G.page * N <= Rank(L, id)
             /\ G.pc = "answer" /\ G.page = G.maxPage /\ ~W.raced =>
                  unseen \subseteq G.rows
        /\ W.pc = "end" /\ ~W.purged /\ ~W.raced => W.start \subseteq W.seen

\* The pages a check has chosen exist, and all but the last are full.
Solid(C, L) ==
    /\ C.pages \subseteq 1 .. C.maxPage
    /\ C.maxPage >= 1 /\ C.maxPage <= MaxPage(Cardinality(L))
    /\ C.mode # "load" => (C.maxPage - 1) * N < Cardinality(L)

\* A check that read its bound or chose its pages after the end of the run
\* sends no request.
CheckOK(C, G, logs, over) ==
    LET L == logs[C.channel]
    IN  /\ C.pc # "fatal" /\ G.status # 400
        /\ C.pc # "ready" =>
             /\ C.channel \in Channels
             /\ C.mode = "load" => C.minCnt = 0
             /\ C.mode = "tail" =>
                  \/ C.minCnt = 0
                  \/ Pages(Cardinality(InitialLog[C.channel])) >= MaxFollow
        /\ C.pc = "play" => over \/ C.minCnt <= Cardinality(L)
        /\ C.pc \in {"first", "page"} => G.channel = C.channel
        /\ C.pc = "first" =>
             /\ C.minCnt <= Cardinality(L)
             /\ G.page = 1
             /\ Counted(G) => /\ C.minCnt <= G.cnt
                              /\ Cardinality(InitialLog[C.channel]) <= G.cnt
                              /\ G.cnt <= Cardinality(L)
        /\ C.pc = "follow" => over \/ Solid(C, L)
        /\ C.pc = "page" =>
             /\ Solid(C, L)
             /\ G.page \in 1 .. C.maxPage
             /\ G.status = 200 /\ C.mode # "load" =>
                  /\ Cardinality(G.rows) \in 1 .. N
                  /\ G.page # C.maxPage => Cardinality(G.rows) = N

Gets == \A b \in Clients : GetOK(get[b])
Walks == \A w \in Walkers : WalkOK(walk[w], get[w], log)
Checks == \A k \in Checkers : CheckOK(check[k], get[k], log, done)

HistoryInv == HistoryTypeOK /\ Logs /\ Ledgers /\ Gets /\ Walks /\ Checks

\* The messages of a page that are not on it come later.
LEMMA PageRank ==
  ASSUME NEW S \in SUBSET Nat, IsFiniteSet(S), NEW p \in Nat, p >= 1,
         NEW id \in S, (p - 1) * N <= Rank(S, id), id \notin Page(S, p)
  PROVE  p * N <= Rank(S, id)
<1>1. PICK r \in Nat : r = Rank(S, id)
  BY RankType
<1>2. N \in Nat
  BY HistoryAssumption
<1>3. PICK a \in Nat : a = (p - 1) * N
  BY <1>2
<1>4. PICK b \in Nat : b = p * N
  BY <1>2
<1>5. r \notin a .. b - 1
  BY <1>1, <1>3, <1>4 DEF Page, Rank
<1> QED
  BY <1>1, <1>3, <1>4, <1>5

LEMMA LogType ==
  ASSUME HistoryInv, NEW c \in Channels
  PROVE  /\ log[c] \in SUBSET Nat /\ IsFiniteSet(log[c])
         /\ Cardinality(log[c]) \in Nat
         /\ IsFiniteSet(InitialLog[c]) /\ Cardinality(InitialLog[c]) \in Nat
         /\ Cardinality(InitialLog[c]) <= Cardinality(log[c])
<1>1. /\ log[c] \in SUBSET Nat /\ IsFiniteSet(log[c])
      /\ InitialLog[c] \subseteq log[c]
  BY DEF HistoryInv, HistoryTypeOK, Logs
<1>2. /\ IsFiniteSet(InitialLog[c])
      /\ Cardinality(InitialLog[c]) <= Cardinality(log[c])
  BY <1>1, FS_Subset
<1> QED
  BY <1>1, <1>2, FS_CardinalityType

-----------------------------------------------------------------------------
(***************************************************************************)
(* A step of one client.                                                   *)
(***************************************************************************)
LEMMA WalkerStep ==
  ASSUME HistoryInv, NEW w \in Walkers, NEW W \in Walk, NEW G \in Get,
         walk' = [walk EXCEPT ![w] = W], get' = [get EXCEPT ![w] = G],
         UNCHANGED <<log, check, sent, complete, done>>,
         GetOK(G), WalkOK(W, G, log), G.pc # "idle" <=> W.pc = "walking"
  PROVE  HistoryInv'
<1>0. /\ HistoryTypeOK /\ Logs /\ Ledgers /\ Gets /\ Walks /\ Checks
      /\ w \in Clients /\ w \notin Checkers
  BY HistoryAssumption DEF HistoryInv, Clients
<1>1. /\ get'[w] = G /\ walk'[w] = W
      /\ \A b \in Clients \ {w} : get'[b] = get[b]
      /\ \A v \in Walkers \ {w} : walk'[v] = walk[v]
  BY <1>0 DEF HistoryTypeOK
<1>2. HistoryTypeOK'
  <2>1. get' \in [Clients -> Get] /\ walk' \in [Walkers -> Walk]
    BY <1>0 DEF HistoryTypeOK
  <2>2. \A b \in Clients : get'[b].pc = "select" =>
                              get'[b].page \in 1 .. get'[b].maxPage
    BY <1>0, <1>1 DEF HistoryTypeOK, GetOK, Counted
  <2>3. \A v \in Walkers : get'[v].pc # "idle" <=> walk'[v].pc = "walking"
    BY <1>0, <1>1 DEF HistoryTypeOK, Clients
  <2>4. \A k \in Checkers :
          get'[k].pc # "idle" <=> check[k].pc \in {"first", "page"}
    BY <1>0, <1>1 DEF HistoryTypeOK, Clients
  <2> QED
    BY <1>0, <2>1, <2>2, <2>3, <2>4 DEF HistoryTypeOK
<1>3. Gets'
  BY <1>0, <1>1 DEF Gets
<1>4. Walks'
  <2> SUFFICES ASSUME NEW v \in Walkers PROVE WalkOK(walk'[v], get'[v], log)
    BY DEF Walks
  <2>1. CASE v = w
    BY <1>1, <2>1
  <2>2. CASE v # w
    BY <1>0, <1>1, <2>2 DEF Walks, Clients
  <2> QED
    BY <2>1, <2>2
<1>5. Checks'
  <2> SUFFICES ASSUME NEW k \in Checkers
               PROVE  CheckOK(check[k], get'[k], log, done)
    BY DEF Checks
  <2>1. get'[k] = get[k]
    BY <1>0, <1>1 DEF Clients
  <2> QED
    BY <1>0, <2>1 DEF Checks
<1> QED
  BY <1>0, <1>2, <1>3, <1>4, <1>5 DEF HistoryInv, Logs, Ledgers

LEMMA CheckerStep ==
  ASSUME HistoryInv, NEW k \in Checkers, NEW C \in Check, NEW G \in Get,
         check' = [check EXCEPT ![k] = C], get' = [get EXCEPT ![k] = G],
         UNCHANGED <<log, walk, sent, complete, done>>,
         GetOK(G), CheckOK(C, G, log, done),
         G.pc # "idle" <=> C.pc \in {"first", "page"}
  PROVE  HistoryInv'
<1>0. /\ HistoryTypeOK /\ Logs /\ Ledgers /\ Gets /\ Walks /\ Checks
      /\ k \in Clients /\ k \notin Walkers
  BY HistoryAssumption DEF HistoryInv, Clients
<1>1. /\ get'[k] = G /\ check'[k] = C
      /\ \A b \in Clients \ {k} : get'[b] = get[b]
      /\ \A j \in Checkers \ {k} : check'[j] = check[j]
  BY <1>0 DEF HistoryTypeOK
<1>2. HistoryTypeOK'
  <2>1. get' \in [Clients -> Get] /\ check' \in [Checkers -> Check]
    BY <1>0 DEF HistoryTypeOK
  <2>2. \A b \in Clients : get'[b].pc = "select" =>
                              get'[b].page \in 1 .. get'[b].maxPage
    BY <1>0, <1>1 DEF HistoryTypeOK, GetOK, Counted
  <2>3. \A v \in Walkers : get'[v].pc # "idle" <=> walk[v].pc = "walking"
    BY <1>0, <1>1 DEF HistoryTypeOK, Clients
  <2>4. \A j \in Checkers :
          get'[j].pc # "idle" <=> check'[j].pc \in {"first", "page"}
    BY <1>0, <1>1 DEF HistoryTypeOK, Clients
  <2> QED
    BY <1>0, <2>1, <2>2, <2>3, <2>4 DEF HistoryTypeOK
<1>3. Gets'
  BY <1>0, <1>1 DEF Gets
<1>4. Walks'
  <2> SUFFICES ASSUME NEW v \in Walkers PROVE WalkOK(walk[v], get'[v], log)
    BY DEF Walks
  <2>1. get'[v] = get[v]
    BY <1>0, <1>1 DEF Clients
  <2> QED
    BY <1>0, <2>1 DEF Walks
<1>5. Checks'
  <2> SUFFICES ASSUME NEW j \in Checkers
               PROVE  CheckOK(check'[j], get'[j], log, done)
    BY DEF Checks
  <2>1. CASE j = k
    BY <1>1, <2>1
  <2>2. CASE j # k
    BY <1>0, <1>1, <2>2 DEF Checks, Clients
  <2> QED
    BY <2>1, <2>2
<1> QED
  BY <1>0, <1>2, <1>3, <1>4, <1>5 DEF HistoryInv, Logs, Ledgers

LEMMA NoGetOK == NoGet \in Get /\ GetOK(NoGet) /\ NoGet.pc = "idle"
                 /\ NoGet.status = 0
BY DEF NoGet, Get, GetOK, Counted

\* A request for a page that may exist.
LEMMA GetHistoryOK ==
  ASSUME NEW c \in Channels, NEW p \in Nat, p >= 1,
         NEW G, G = GetHistory(c, p)
  PROVE  /\ G \in Get /\ GetOK(G) /\ G.pc = "count" /\ G.status = 0
         /\ G.channel = c /\ G.page = p
<1>1. G = [pc |-> "count", channel |-> c, page |-> p, cnt |-> 0, maxPage |-> 0,
           rows |-> {}, status |-> 0]
  BY DEF GetHistory, NoGet
<1>2. G \in Get
  BY <1>1 DEF Get
<1> QED
  BY <1>1, <1>2 DEF GetOK, Counted

LEMMA CountRowsKeeps ==
  ASSUME HistoryInv, NEW b \in Clients, CountRows(b)
  PROVE  HistoryInv'
<1>g. PICK G : G = get[b]
  OBVIOUS
<1>0. /\ HistoryTypeOK /\ Logs /\ Gets /\ Walks /\ Checks
      /\ G \in Get /\ GetOK(G)
  BY <1>g DEF HistoryInv, HistoryTypeOK, Gets
<1>1. /\ G.pc = "count" /\ G.channel \in Channels /\ G.page \in Nat
      /\ G.page >= 1 /\ G.status = 0
  BY <1>0, <1>g DEF CountRows, GetOK, Get
<1>2. PICK n \in Nat : n = Cardinality(log[G.channel])
  BY <1>1, LogType
<1>m. PICK m \in Nat : m = MaxPage(n) /\ m >= 1
  BY MaxPageType
<1>3. PICK H : H = IF G.page > m THEN [G EXCEPT !.pc = "answer", !.status = 400]
                   ELSE [G EXCEPT !.pc = "select", !.cnt = n, !.maxPage = m]
  OBVIOUS
<1>4. /\ get' = [get EXCEPT ![b] = H]
      /\ UNCHANGED <<log, walk, check, sent, complete, done>>
  BY <1>g, <1>2, <1>m, <1>3 DEF CountRows, ledger
<1>5. /\ H \in Get /\ H.channel = G.channel /\ H.page = G.page
      /\ H.pc \in {"answer", "select"}
      /\ G.page > m => H.pc = "answer" /\ H.status = 400
      /\ G.page <= m => /\ H.pc = "select" /\ H.cnt = n /\ H.maxPage = m
                        /\ H.status = 0
  <2>1. CASE G.page > m
    <3>1. H = [G EXCEPT !.pc = "answer", !.status = 400]
      BY <1>3, <2>1
    <3>2. H \in Get
      <4>1. H = [pc |-> "answer", channel |-> G.channel, page |-> G.page,
                 cnt |-> G.cnt, maxPage |-> G.maxPage, rows |-> G.rows,
                 status |-> 400]
        BY <1>0, <3>1 DEF Get
      <4>2. /\ G.channel \in Channels /\ G.page \in Nat /\ G.cnt \in Nat
            /\ G.maxPage \in Nat /\ G.rows \in SUBSET Nat
        BY <1>0, <1>1 DEF Get
      <4> QED
        BY <4>1, <4>2 DEF Get
    <3>3. /\ H.channel = G.channel /\ H.page = G.page
          /\ H.pc = "answer" /\ H.status = 400
      BY <1>0, <3>1 DEF Get
    <3>4. ~(G.page <= m)
      BY <1>1, <2>1
    <3> QED
      BY <3>2, <3>3, <3>4
  <2>2. CASE ~(G.page > m)
    <3>1. H = [G EXCEPT !.pc = "select", !.cnt = n, !.maxPage = m]
      BY <1>3, <2>2
    <3>2. H \in Get
      <4>1. H = [pc |-> "select", channel |-> G.channel, page |-> G.page,
                 cnt |-> n, maxPage |-> m, rows |-> G.rows,
                 status |-> G.status]
        BY <1>0, <3>1 DEF Get
      <4>2. /\ G.channel \in Channels /\ G.page \in Nat
            /\ G.rows \in SUBSET Nat /\ G.status = 0
        BY <1>0, <1>1 DEF Get
      <4> QED
        BY <4>1, <4>2 DEF Get
    <3>3. /\ H.channel = G.channel /\ H.page = G.page
          /\ H.pc = "select" /\ H.cnt = n /\ H.maxPage = m
          /\ H.status = G.status
      BY <1>0, <3>1 DEF Get
    <3> QED
      BY <1>1, <2>2, <3>2, <3>3
  <2> QED
    BY <2>1, <2>2
<1>6. GetOK(H)
  BY <1>1, <1>m, <1>5 DEF GetOK, Counted
<1>7. CASE b \in Walkers
  <2>1. PICK W \in Walk : W = walk[b]
    BY <1>0, <1>7 DEF HistoryTypeOK
  <2>2. W.pc = "walking" /\ walk' = [walk EXCEPT ![b] = W]
    BY <1>0, <1>1, <1>4, <1>7, <1>g, <2>1 DEF HistoryTypeOK
  <2>3. WalkOK(W, G, log)
    BY <1>0, <1>7, <1>g, <2>1 DEF Walks
  <2>4. ASSUME ~W.purged
        PROVE  /\ H.pc = "select" /\ H.status = 0 /\ H.cnt = n
               /\ W.start \subseteq log[G.channel]
               /\ \A id \in W.start \ W.seen :
                    (G.page - 1) * N <= Rank(log[G.channel], id)
    BY <1>1, <1>2, <1>m, <1>5, <2>2, <2>3, <2>4 DEF WalkOK
  <2>5. WalkOK(W, H, log)
    <3>1. ASSUME ~W.purged
          PROVE  /\ H.status # 400
                 /\ W.start \subseteq log[H.channel]
                 /\ H.pc = "count" =>
                      H.page <= MaxPage(Cardinality(log[H.channel]))
                 /\ Counted(H) => H.cnt <= Cardinality(log[H.channel])
                 /\ \A id \in W.start \ W.seen :
                      (H.page - 1) * N <= Rank(log[H.channel], id)
                 /\ H.pc # "answer"
      BY <1>2, <1>5, <2>4, <3>1
    <3> QED
      BY <2>2, <3>1 DEF WalkOK
  <2> QED
    BY <1>4, <1>5, <1>6, <1>7, <2>2, <2>5, WalkerStep
<1>8. CASE b \in Checkers
  <2>1. PICK C \in Check : C = check[b]
    BY <1>0, <1>8 DEF HistoryTypeOK
  <2>2. /\ C.pc \in {"first", "page"} /\ check' = [check EXCEPT ![b] = C]
        /\ CheckOK(C, G, log, done)
    BY <1>0, <1>1, <1>4, <1>8, <1>g, <2>1 DEF HistoryTypeOK, Checks
  <2>3. C.channel = G.channel /\ C.channel \in Channels
    BY <2>2 DEF CheckOK
  <2>4. G.page <= m
    <3>1. CASE C.pc = "first"
      BY <1>m, <2>2, <3>1 DEF CheckOK
    <3>2. CASE C.pc = "page"
      <4>1. G.page <= C.maxPage /\ C.maxPage <= m /\ C.maxPage \in Nat
        BY <1>2, <1>m, <2>2, <2>3, <3>2 DEF CheckOK, Solid, Check
      <4> QED
        BY <1>1, <1>m, <4>1
    <3> QED
      BY <2>2, <3>1, <3>2
  <2>5. CheckOK(C, H, log, done)
    <3>1. /\ H.status = 0 /\ H.cnt = n /\ H.channel = C.channel
          /\ H.page = G.page
      BY <1>5, <2>3, <2>4
    <3>2. Cardinality(InitialLog[C.channel]) <= n
      BY <1>2, <2>3, LogType
    <3>3. n <= n
      OBVIOUS
    <3>4. C.pc = "first" => /\ C.minCnt <= Cardinality(log[C.channel])
                            /\ H.page = 1
      BY <2>2, <3>1 DEF CheckOK
    <3>5. C.pc = "first" => C.minCnt <= n /\ n <= Cardinality(log[C.channel])
      BY <1>2, <2>3, <3>3, <3>4
    <3>6. C.pc = "page" => Solid(C, log[C.channel]) /\ H.page \in 1 .. C.maxPage
      BY <2>2, <3>1 DEF CheckOK
    <3> QED
      BY <2>2, <3>1, <3>2, <3>4, <3>5, <3>6 DEF CheckOK
  <2> QED
    BY <1>4, <1>5, <1>6, <1>8, <2>2, <2>5, CheckerStep
<1> QED
  BY <1>7, <1>8 DEF Clients

LEMMA SelectPageKeeps ==
  ASSUME HistoryInv, NEW b \in Clients, SelectPage(b)
  PROVE  HistoryInv'
<1>g. PICK G : G = get[b]
  OBVIOUS
<1>0. /\ HistoryTypeOK /\ Logs /\ Gets /\ Walks /\ Checks
      /\ G \in Get /\ GetOK(G)
  BY <1>g DEF HistoryInv, HistoryTypeOK, Gets
<1>1. /\ G.pc = "select" /\ G.channel \in Channels /\ G.page \in Nat
      /\ G.page >= 1 /\ G.status = 0 /\ Counted(G)
  BY <1>0, <1>g DEF SelectPage, GetOK, Get, Counted
<1>L. PICK L \in SUBSET Nat : L = log[G.channel]
  BY <1>1, LogType
<1>2. IsFiniteSet(L) /\ Cardinality(L) \in Nat
  BY <1>1, <1>L, LogType
<1>3. PICK H : H = [G EXCEPT !.pc = "answer", !.status = 200,
                             !.rows = Page(L, G.page)]
  OBVIOUS
<1>4. /\ get' = [get EXCEPT ![b] = H]
      /\ UNCHANGED <<log, check, sent, complete, done>>
  BY <1>g, <1>L, <1>3 DEF SelectPage, ledger
<1>5. /\ H \in Get /\ H.channel = G.channel /\ H.page = G.page
      /\ H.pc = "answer" /\ H.status = 200 /\ H.rows = Page(L, G.page)
      /\ H.cnt = G.cnt /\ H.maxPage = G.maxPage
  <2>1. Page(L, G.page) \in SUBSET Nat
    BY DEF Page
  <2> QED
    BY <1>0, <1>3, <2>1 DEF Get
<1>6. GetOK(H)
  BY <1>0, <1>1, <1>5 DEF GetOK, Counted
<1>7. CASE b \in Walkers
  <2>1. PICK V \in Walk : V = walk[b]
    BY <1>0, <1>7 DEF HistoryTypeOK
  <2>r. PICK raced \in BOOLEAN : raced = (Cardinality(L) # G.cnt)
    OBVIOUS
  <2>w. PICK W : W = [V EXCEPT !.raced = raced]
    OBVIOUS
  <2>2. walk' = [walk EXCEPT ![b] = W] /\ V.pc = "walking"
    BY <1>0, <1>1, <1>7, <1>g, <1>L, <2>1, <2>r, <2>w
       DEF HistoryTypeOK, SelectPage
  <2>3. /\ W \in Walk /\ W.pc = "walking" /\ W.purged = V.purged
        /\ W.start = V.start /\ W.seen = V.seen /\ W.raced = raced
    BY <2>1, <2>2, <2>w DEF Walk
  <2>4. WalkOK(V, G, log)
    BY <1>0, <1>7, <1>g, <2>1 DEF Walks
  <2>5. ASSUME ~V.purged
        PROVE  /\ V.start \subseteq L /\ G.cnt <= Cardinality(L)
               /\ \A id \in V.start \ V.seen : (G.page - 1) * N <= Rank(L, id)
    BY <1>1, <1>L, <2>2, <2>4, <2>5 DEF WalkOK
  <2>6. ASSUME ~V.purged, NEW id \in (V.start \ V.seen) \ H.rows
        PROVE  G.page * N <= Rank(L, id)
    BY <1>1, <1>2, <1>5, <2>5, <2>6, PageRank
  <2>7. ASSUME ~V.purged, G.page = G.maxPage, Cardinality(L) = G.cnt,
               NEW id \in V.start \ V.seen
        PROVE  id \in H.rows
    <3>1. id \in L /\ id \in Nat
      BY <2>5, <2>7
    <3>2. Rank(L, id) \in Nat /\ Rank(L, id) < Cardinality(L)
      BY <1>2, <3>1, RankType
    <3>3. Cardinality(L) <= G.page * N /\ G.page * N \in Nat
      <4>1. G.page = MaxPage(Cardinality(L))
        BY <1>0, <1>1, <2>7 DEF GetOK
      <4> QED
        BY <1>1, <1>2, <4>1, MaxPageType, HistoryAssumption
    <3>4. ~(G.page * N <= Rank(L, id))
      BY <1>2, <3>2, <3>3
    <3> QED
      BY <2>6, <2>7, <3>4
  <2>8. WalkOK(W, H, log)
    <3>1. ASSUME ~W.purged
          PROVE  /\ H.status # 400 /\ H.pc = "answer"
                 /\ W.start \subseteq log[H.channel]
                 /\ H.cnt <= Cardinality(log[H.channel])
                 /\ \A id \in (W.start \ W.seen) \ H.rows :
                      H.page * N <= Rank(log[H.channel], id)
                 /\ H.page = H.maxPage /\ ~W.raced =>
                      W.start \ W.seen \subseteq H.rows
      <4>1. ~V.purged
        BY <2>3, <3>1
      <4>2. /\ H.status # 400 /\ H.pc = "answer" /\ H.channel = G.channel
            /\ log[H.channel] = L /\ H.page = G.page
            /\ W.start = V.start /\ W.seen = V.seen
        BY <1>5, <1>L, <2>3
      <4>3. W.start \subseteq L /\ H.cnt <= Cardinality(L)
        BY <1>5, <2>5, <4>1, <4>2
      <4>4. \A id \in (W.start \ W.seen) \ H.rows : G.page * N <= Rank(L, id)
        BY <2>6, <4>1, <4>2
      <4>5. ASSUME H.page = H.maxPage, ~W.raced
            PROVE  W.start \ W.seen \subseteq H.rows
        <5>1. Cardinality(L) = G.cnt
          BY <2>3, <2>r, <4>5
        <5>2. G.page = G.maxPage
          BY <1>5, <4>5
        <5> QED
          BY <2>7, <4>1, <4>2, <5>1, <5>2
      <4> QED
        BY <4>2, <4>3, <4>4, <4>5
    <3> QED
      BY <2>3, <3>1 DEF WalkOK
  <2> QED
    BY <1>4, <1>5, <1>6, <1>7, <2>2, <2>3, <2>8, WalkerStep
<1>8. CASE b \in Checkers
  <2>1. PICK C \in Check : C = check[b]
    BY <1>0, <1>8 DEF HistoryTypeOK
  <2>2. walk' = walk
    BY <1>8, HistoryAssumption DEF SelectPage
  <2>3. /\ C.pc \in {"first", "page"} /\ check' = [check EXCEPT ![b] = C]
        /\ CheckOK(C, G, log, done)
    BY <1>0, <1>1, <1>4, <1>8, <1>g, <2>1 DEF HistoryTypeOK, Checks
  <2>4. C.channel = G.channel /\ log[C.channel] = L
    BY <1>L, <2>3 DEF CheckOK
  <2>5. ASSUME C.pc = "page", C.mode # "load"
        PROVE  /\ Cardinality(H.rows) \in 1 .. N
               /\ G.page # C.maxPage => Cardinality(H.rows) = N
    <3>1. /\ C.maxPage \in Nat /\ G.page <= C.maxPage
          /\ (C.maxPage - 1) * N < Cardinality(L)
      BY <2>3, <2>4, <2>5 DEF CheckOK, Solid, Check
    <3>2. N \in Nat
      BY HistoryAssumption
    <3>3. (G.page - 1) * N <= (C.maxPage - 1) * N
      BY <1>1, <3>1, <3>2, TimesMonotone
    <3>4. (G.page - 1) * N < Cardinality(L)
      <4>1. PICK x \in Int : x = (G.page - 1) * N
        BY <1>1, <3>2
      <4>2. PICK y \in Int : y = (C.maxPage - 1) * N
        BY <3>1, <3>2
      <4> QED
        BY <1>2, <3>1, <3>3, <4>1, <4>2
    <3>5. ASSUME G.page # C.maxPage
          PROVE  G.page * N <= Cardinality(L)
      <4>1. G.page * N <= (C.maxPage - 1) * N
        BY <1>1, <3>1, <3>2, <3>5, TimesMonotone
      <4>2. PICK x \in Int : x = G.page * N
        BY <1>1, <3>2
      <4>3. PICK y \in Int : y = (C.maxPage - 1) * N
        BY <3>1, <3>2
      <4> QED
        BY <1>2, <3>1, <4>1, <4>2, <4>3
    <3>6. PICK p \in Nat : p = G.page /\ p >= 1
      BY <1>1
    <3>7. (p - 1) * N < Cardinality(L)
      BY <3>4, <3>6
    <3>8. /\ Cardinality(Page(L, p)) \in 1 .. N
          /\ p * N <= Cardinality(L) => Cardinality(Page(L, p)) = N
      BY <1>2, <3>6, <3>7, PageSize
    <3> QED
      BY <1>5, <3>5, <3>6, <3>8
  <2>6. CheckOK(C, H, log, done)
    <3>1. C.pc = "first" =>
             /\ C.minCnt <= Cardinality(L) /\ H.page = 1
             /\ C.minCnt <= H.cnt
             /\ Cardinality(InitialLog[C.channel]) <= H.cnt
             /\ H.cnt <= Cardinality(L)
      BY <1>1, <1>5, <2>3, <2>4 DEF CheckOK
    <3>2. C.pc = "page" => Solid(C, L) /\ H.page \in 1 .. C.maxPage
      BY <1>5, <2>3, <2>4 DEF CheckOK
    <3> QED
      BY <1>5, <2>3, <2>4, <2>5, <3>1, <3>2 DEF CheckOK
  <2> QED
    BY <1>4, <1>5, <1>6, <1>8, <2>2, <2>3, <2>6, CheckerStep
<1> QED
  BY <1>7, <1>8 DEF Clients

-----------------------------------------------------------------------------
(***************************************************************************)
(* The walkers.                                                            *)
(***************************************************************************)
LEMMA NoWalkOK == /\ NoWalk \in Walk /\ NoWalk.pc = "ready"
                  /\ WalkOK(NoWalk, NoGet, log)
<1>1. NoWalk \in Walk /\ NoWalk.pc = "ready"
  BY DEF NoWalk, Walk
<1> QED
  BY <1>1 DEF WalkOK

LEMMA StartWalkKeeps ==
  ASSUME HistoryInv, NEW w \in Walkers, NEW c \in Channels, StartWalk(w, c)
  PROVE  HistoryInv'
<1>L. PICK L \in SUBSET Nat : L = log[c] /\ IsFiniteSet(L)
  BY LogType
<1>1. PICK n \in Nat : n = Cardinality(L)
  BY <1>L, FS_CardinalityType
<1>2. PICK W : W = [NoWalk EXCEPT !.pc = "walking", !.start = L]
  OBVIOUS
<1>3. PICK G : G = GetHistory(c, 1)
  OBVIOUS
<1>4. /\ walk' = [walk EXCEPT ![w] = W] /\ get' = [get EXCEPT ![w] = G]
      /\ UNCHANGED <<log, check, sent, complete, done>>
  BY <1>L, <1>2, <1>3 DEF StartWalk, ledger
<1>5. /\ W \in Walk /\ W.pc = "walking" /\ W.start = L
  BY <1>2 DEF NoWalk, Walk
<1>6. /\ G \in Get /\ GetOK(G) /\ G.pc = "count" /\ G.status = 0
      /\ G.channel = c /\ G.page = 1
  BY <1>3, GetHistoryOK
<1>7. \A id \in W.start \ W.seen : (G.page - 1) * N <= Rank(L, id)
  <2> TAKE id \in W.start \ W.seen
  <2>1. Rank(L, id) \in Nat
    BY <1>L, <1>5, RankType
  <2>2. N \in Nat /\ (1 - 1) * N = 0
    BY HistoryAssumption
  <2> QED
    BY <1>6, <2>1, <2>2
<1>8. G.page <= MaxPage(Cardinality(L))
  <2>1. MaxPage(n) \in Nat /\ MaxPage(n) >= 1
    BY MaxPageType
  <2> QED
    BY <1>1, <1>6, <2>1
<1>9. WalkOK(W, G, log)
  <2>1. log[G.channel] = L
    BY <1>L, <1>6
  <2> QED
    BY <1>5, <1>6, <1>7, <1>8, <2>1 DEF WalkOK, Counted
<1> QED
  BY <1>4, <1>5, <1>6, <1>9, WalkerStep

LEMMA FollowKeeps ==
  ASSUME HistoryInv, NEW w \in Walkers, Follow(w)
  PROVE  HistoryInv'
<1>g. PICK G : G = get[w]
  OBVIOUS
<1>v. PICK V : V = walk[w]
  OBVIOUS
<1>0. /\ HistoryTypeOK /\ G \in Get /\ GetOK(G) /\ V \in Walk
      /\ WalkOK(V, G, log)
  BY <1>g, <1>v DEF HistoryInv, HistoryTypeOK, Gets, Walks, Clients
<1>1. /\ G.pc = "answer" /\ G.status = 200 /\ V.pc = "walking"
      /\ UNCHANGED <<log, check, sent, complete, done>>
  BY <1>0, <1>g, <1>v DEF HistoryTypeOK, Follow, ledger
<1>2. /\ G.channel \in Channels /\ Counted(G) /\ G.cnt \in Nat
      /\ G.maxPage = MaxPage(G.cnt) /\ G.page \in 1 .. G.maxPage
      /\ G.page \in Nat /\ G.maxPage \in Nat /\ G.rows \in SUBSET Nat
  BY <1>0, <1>1 DEF GetOK, Counted, Get
<1>L. PICK L \in SUBSET Nat : L = log[G.channel] /\ IsFiniteSet(L)
  BY <1>2, LogType
<1>n. PICK n \in Nat : n = Cardinality(L)
  BY <1>L, FS_CardinalityType
<1>3. ASSUME ~V.purged
      PROVE  /\ V.start \subseteq L /\ G.cnt <= n
             /\ \A id \in (V.start \ V.seen) \ G.rows :
                  G.page * N <= Rank(L, id)
             /\ G.page = G.maxPage /\ ~V.raced =>
                  V.start \ V.seen \subseteq G.rows
  BY <1>0, <1>1, <1>2, <1>3, <1>L, <1>n DEF WalkOK
<1>4. CASE G.page # G.maxPage
  <2>w. PICK W : W = [V EXCEPT !.seen = V.seen \cup G.rows]
    OBVIOUS
  <2>h. PICK H : H = GetHistory(G.channel, G.page + 1)
    OBVIOUS
  <2>1. walk' = [walk EXCEPT ![w] = W] /\ get' = [get EXCEPT ![w] = H]
    BY <1>0, <1>4, <1>g, <1>v, <2>w, <2>h DEF Follow, HistoryTypeOK
  <2>2. /\ W \in Walk /\ W.pc = "walking" /\ W.start = V.start
        /\ W.seen = V.seen \cup G.rows /\ W.purged = V.purged
    BY <1>0, <1>1, <1>2, <2>w DEF Walk
  <2>p. PICK p \in Nat : p = G.page + 1 /\ p >= 1 /\ p - 1 = G.page
    BY <1>2
  <2>3. /\ H \in Get /\ GetOK(H) /\ H.pc = "count" /\ H.status = 0
        /\ H.channel = G.channel /\ H.page = p
    BY <1>2, <2>h, <2>p, GetHistoryOK
  <2>4. ASSUME ~V.purged PROVE H.page <= MaxPage(Cardinality(log[H.channel]))
    <3>1. MaxPage(G.cnt) <= MaxPage(n) /\ MaxPage(n) \in Nat
      BY <1>2, <1>3, <2>4, PagesMonotone, MaxPageType
    <3>2. p <= G.maxPage
      BY <1>2, <1>4, <2>p
    <3>3. p <= MaxPage(n)
      BY <1>2, <3>1, <3>2
    <3> QED
      BY <1>L, <1>n, <2>3, <3>3
  <2>5. ASSUME ~V.purged, NEW id \in W.start \ W.seen
        PROVE  (H.page - 1) * N <= Rank(log[H.channel], id)
    <3>1. id \in (V.start \ V.seen) \ G.rows
      BY <2>2, <2>5
    <3>2. G.page * N <= Rank(L, id)
      BY <1>3, <2>5, <3>1
    <3> QED
      BY <1>L, <2>3, <2>p, <3>2
  <2>6. ASSUME ~V.purged PROVE W.start \subseteq log[H.channel]
    BY <1>3, <1>L, <2>2, <2>3, <2>6
  <2>7. WalkOK(W, H, log)
    BY <2>2, <2>3, <2>4, <2>5, <2>6 DEF WalkOK, Counted
  <2> QED
    BY <1>1, <2>1, <2>2, <2>3, <2>7, WalkerStep
<1>5. CASE G.page = G.maxPage
  <2>w. PICK W : W = [V EXCEPT !.seen = V.seen \cup G.rows, !.pc = "end"]
    OBVIOUS
  <2>1. walk' = [walk EXCEPT ![w] = W] /\ get' = [get EXCEPT ![w] = NoGet]
    <3>1. /\ walk' = [walk EXCEPT ![w].seen = @ \cup get[w].rows,
                                  ![w].pc = "end"]
          /\ get' = [get EXCEPT ![w] = NoGet]
      BY <1>5, <1>g DEF Follow
    <3> QED
      BY <1>0, <1>g, <1>v, <2>w, <3>1 DEF HistoryTypeOK, Walk
  <2>2. /\ W \in Walk /\ W.pc = "end" /\ W.start = V.start
        /\ W.seen = V.seen \cup G.rows /\ W.purged = V.purged
        /\ W.raced = V.raced
    BY <1>0, <1>1, <1>2, <2>w DEF Walk
  <2>3. ~W.purged /\ ~W.raced => W.start \subseteq W.seen
    BY <1>3, <1>5, <2>2
  <2>4. WalkOK(W, NoGet, log)
    BY <2>2, <2>3 DEF WalkOK
  <2> QED
    BY <1>1, <2>1, <2>2, <2>4, NoGetOK, WalkerStep
<1> QED
  BY <1>4, <1>5

LEMMA LeaveKeeps ==
  ASSUME HistoryInv, NEW w \in Walkers, Leave(w)
  PROVE  HistoryInv'
<1>1. /\ walk' = [walk EXCEPT ![w] = NoWalk]
      /\ get' = [get EXCEPT ![w] = NoGet]
      /\ UNCHANGED <<log, check, sent, complete, done>>
  BY DEF Leave, ledger
<1> QED
  BY <1>1, NoWalkOK, NoGetOK, WalkerStep

-----------------------------------------------------------------------------
(***************************************************************************)
(* The checks.                                                             *)
(***************************************************************************)
\* What a check keeps from its first step to its last.
Begun(C) ==
    /\ C.channel \in Channels
    /\ C.mode = "load" => C.minCnt = 0
    /\ C.mode = "tail" =>
         \/ C.minCnt = 0
         \/ Pages(Cardinality(InitialLog[C.channel])) >= MaxFollow

LEMMA CheckerFacts ==
  ASSUME HistoryInv, NEW k \in Checkers
  PROVE  /\ check[k] \in Check /\ get[k] \in Get /\ GetOK(get[k])
         /\ CheckOK(check[k], get[k], log, done)
         /\ get[k].pc # "idle" <=> check[k].pc \in {"first", "page"}
         /\ check[k].pc # "ready" => Begun(check[k])
<1>1. /\ check[k] \in Check /\ get[k] \in Get /\ GetOK(get[k])
      /\ CheckOK(check[k], get[k], log, done)
      /\ get[k].pc # "idle" <=> check[k].pc \in {"first", "page"}
  BY DEF HistoryInv, HistoryTypeOK, Gets, Checks, Clients
<1>2. check[k].pc # "ready" => Begun(check[k])
  BY <1>1 DEF CheckOK, Begun
<1> QED
  BY <1>1, <1>2

LEMMA NoCheckOK ==
  ASSUME NEW G, G.status # 400
  PROVE  /\ NoCheck \in Check /\ NoCheck.pc = "ready"
         /\ CheckOK(NoCheck, G, log, done)
<1>1. NoCheck \in Check /\ NoCheck.pc = "ready"
  BY DEF NoCheck, Check, Modes
<1> QED
  BY <1>1 DEF CheckOK

\* The pages a check chooses are among those it was told of.
LEMMA FollowedExist ==
  ASSUME NEW mode \in Modes, NEW M \in Nat, NEW S \in Followed(mode, M)
  PROVE  /\ S \in SUBSET Nat
         /\ mode # "tail" \/ M >= MaxFollow => S \subseteq 1 .. M
<1>1. CASE mode = "random"
  <2>1. S \in RandomPages(M)
    BY <1>1 DEF Followed
  <2>2. S \in SUBSET (1 .. M)
    BY <2>1 DEF RandomPages, SomeOf
  <2> QED
    BY <2>2
<1>2. CASE mode = "load"
  <2>1. S \in LoadPages(M)
    BY <1>2 DEF Followed
  <2>2. PICK j \in 1 .. LoadFollow : S \in SomeOf(M, j)
    BY <2>1 DEF LoadPages
  <2>3. S \in SUBSET (1 .. M)
    BY <2>2 DEF SomeOf
  <2> QED
    BY <2>3
<1>3. CASE mode = "tail"
  <2>1. S \in TailPages(M)
    BY <1>3 DEF Followed
  <2>2. S = {i \in 0 .. M : i + MaxFollow > M}
    BY <2>1 DEF TailPages
  <2>3. ASSUME M >= MaxFollow, NEW i \in S PROVE i \in 1 .. M
    BY <2>2, <2>3, HistoryAssumption
  <2> QED
    BY <1>3, <2>2, <2>3
<1> QED
  BY <1>1, <1>2, <1>3 DEF Modes

\* A check that goes on with M pages, which exist unless the run is over.
LEMMA GoesOK ==
  ASSUME HistoryInv, NEW C \in Check, Begun(C), NEW M \in Nat, M >= 1,
         NEW D \in Goes(C, M), NEW G, G.status # 400,
         \/ done
         \/ /\ M <= MaxPage(Cardinality(log[C.channel]))
            /\ C.mode = "tail" /\ C.minCnt # 0 => M >= MaxFollow
            /\ C.mode # "load" /\ C.minCnt # 0 =>
                 (M - 1) * N < Cardinality(log[C.channel])
  PROVE  D \in Check /\ D.pc \in {"ready", "follow"} /\ CheckOK(D, G, log, done)
<1>1. CASE C.minCnt = 0 /\ C.mode # "load"
  <2>1. D = NoCheck
    BY <1>1 DEF Goes
  <2> QED
    BY <2>1, NoCheckOK
<1>2. CASE ~(C.minCnt = 0 /\ C.mode # "load")
  <2>1. PICK S \in Followed(C.mode, M) :
          D = [C EXCEPT !.pc = "follow", !.maxPage = M, !.pages = S]
    BY <1>2 DEF Goes
  <2>2. C.mode \in Modes
    BY DEF Check
  <2>3. /\ S \in SUBSET Nat
        /\ C.mode # "tail" \/ M >= MaxFollow => S \subseteq 1 .. M
    BY <2>2, FollowedExist
  <2>4. /\ D.pc = "follow" /\ D.maxPage = M /\ D.pages = S
        /\ D.channel = C.channel /\ D.mode = C.mode /\ D.minCnt = C.minCnt
    BY <2>1 DEF Check
  <2>5. D \in Check
    <3>1. D = [pc |-> "follow", mode |-> C.mode, channel |-> C.channel,
               minCnt |-> C.minCnt, maxPage |-> M, pages |-> S]
      BY <2>1 DEF Check
    <3>2. /\ C.channel \in Channels \cup {0} /\ C.minCnt \in Nat
      BY DEF Check
    <3> QED
      BY <2>2, <2>3, <3>1, <3>2 DEF Check
  <2>6. done \/ Solid(D, log[D.channel])
    <3>1. ASSUME ~done PROVE Solid(D, log[D.channel])
      <4>1. S \subseteq 1 .. M
        BY <1>2, <2>3, <3>1
      <4>2. C.mode # "load" => (M - 1) * N < Cardinality(log[C.channel])
        BY <1>2, <3>1
      <4> QED
        BY <2>4, <3>1, <4>1, <4>2 DEF Solid
    <3> QED
      BY <3>1
  <2>7. Begun(D)
    BY <2>4 DEF Begun
  <2> QED
    BY <2>4, <2>5, <2>6, <2>7 DEF CheckOK, Begun
<1> QED
  BY <1>1, <1>2

LEMMA StartCheckKeeps ==
  ASSUME HistoryInv, NEW k \in Checkers, NEW c \in Channels, NEW mode \in Modes,
         StartCheck(k, c, mode)
  PROVE  HistoryInv'
<1>g. PICK G : G = get[k]
  OBVIOUS
<1>m. PICK m : m = IF mode = "load" THEN 0 ELSE complete[c]
  OBVIOUS
<1>c. PICK C : C = [NoCheck EXCEPT !.pc = "play", !.mode = mode,
                                   !.channel = c, !.minCnt = m]
  OBVIOUS
<1>1. /\ check[k].pc = "ready" /\ check' = [check EXCEPT ![k] = C]
      /\ UNCHANGED <<log, get, walk, sent, complete, done>>
      /\ mode = "tail" => /\ c \in TailChannels
                          /\ sent[c] = Cardinality(InitialLog[c])
  BY <1>c, <1>m DEF StartCheck, ledger
<1>2. /\ G \in Get /\ GetOK(G) /\ G.pc = "idle" /\ G.status # 400
      /\ get' = [get EXCEPT ![k] = G]
  <2>1. get \in [Clients -> Get] /\ k \in Clients
    BY DEF HistoryInv, HistoryTypeOK, Clients
  <2>2. get[k].status # 400
    BY CheckerFacts DEF CheckOK
  <2> QED
    BY <1>1, <1>g, <2>1, <2>2, CheckerFacts
<1>3. PICK n \in Nat : n = Cardinality(log[c])
  BY LogType
<1>4. /\ complete[c] \in Nat /\ sent[c] \in Nat /\ complete[c] <= sent[c]
      /\ done \/ complete[c] <= n
  BY <1>3 DEF HistoryInv, HistoryTypeOK, Ledgers
<1>5. m \in Nat /\ (done \/ m <= n) /\ (mode = "load" => m = 0)
  BY <1>3, <1>4, <1>m
<1>6. /\ C \in Check /\ C.pc = "play" /\ C.mode = mode /\ C.channel = c
      /\ C.minCnt = m
  BY <1>c, <1>5 DEF NoCheck, Check
<1>7. mode = "tail" => \/ m = 0
                       \/ Pages(Cardinality(InitialLog[c])) >= MaxFollow
  <2> SUFFICES ASSUME mode = "tail", InitialLog[c] = {} PROVE m = 0
    BY <1>1, HistoryAssumption
  <2>1. sent[c] = 0
    BY <1>1, FS_EmptySet
  <2> QED
    BY <1>4, <1>m, <2>1
<1>8. CheckOK(C, G, log, done)
  BY <1>2, <1>3, <1>5, <1>6, <1>7 DEF CheckOK
<1> QED
  BY <1>1, <1>2, <1>6, <1>8, CheckerStep

LEMMA PlayFirstKeeps ==
  ASSUME HistoryInv, NEW k \in Checkers, PlayFirst(k)
  PROVE  HistoryInv'
<1>g. PICK G : G = get[k]
  OBVIOUS
<1>c. PICK C \in Check : C = check[k]
  BY CheckerFacts
<1>1. /\ C.pc = "play" /\ Begun(C) /\ CheckOK(C, G, log, done)
      /\ G \in Get /\ GetOK(G) /\ G.pc = "idle"
      /\ UNCHANGED <<log, walk, sent, complete, done>>
  <2>1. C.pc = "play" /\ UNCHANGED <<log, walk, sent, complete, done>>
    BY <1>c DEF PlayFirst, ledger
  <2> QED
    BY <1>c, <1>g, <2>1, CheckerFacts
<1>2. G.status # 400
  BY <1>1 DEF CheckOK
<1>3. CASE done
  <2>1. PICK D \in Goes(C, 1) : check' = [check EXCEPT ![k] = D]
    BY <1>3, <1>c DEF PlayFirst
  <2>2. get' = [get EXCEPT ![k] = G]
    BY <1>3, <1>g DEF PlayFirst, HistoryInv, HistoryTypeOK, Clients
  <2>3. /\ D \in Check /\ D.pc \in {"ready", "follow"}
        /\ CheckOK(D, G, log, done)
    <3>1. PICK M \in Nat : M = 1 /\ M >= 1
      OBVIOUS
    <3>2. D \in Goes(C, M)
      BY <2>1, <3>1
    <3>3. Begun(C) /\ G.status # 400 /\ M >= 1 /\ done
      BY <1>1, <1>2, <1>3, <3>1
    <3> QED
      BY <3>2, <3>3, GoesOK
  <2> QED
    BY <1>1, <2>1, <2>2, <2>3, CheckerStep
<1>4. CASE ~done
  <2>d. PICK D : D = [C EXCEPT !.pc = "first"]
    OBVIOUS
  <2>h. PICK H : H = GetHistory(C.channel, 1)
    OBVIOUS
  <2>1. check' = [check EXCEPT ![k] = D] /\ get' = [get EXCEPT ![k] = H]
    <3>1. check \in [Checkers -> Check]
      BY DEF HistoryInv, HistoryTypeOK
    <3>2. check' = [check EXCEPT ![k].pc = "first"]
      BY <1>4, <1>c DEF PlayFirst
    <3>3. get' = [get EXCEPT ![k] = H]
      BY <1>4, <1>c, <2>h DEF PlayFirst
    <3> QED
      BY <1>c, <2>d, <3>1, <3>2, <3>3
  <2>2. /\ D \in Check /\ D.pc = "first" /\ D.channel = C.channel
        /\ D.mode = C.mode /\ D.minCnt = C.minCnt
    BY <2>d DEF Check
  <2>3. /\ H \in Get /\ GetOK(H) /\ H.pc = "count" /\ H.status = 0
        /\ H.channel = C.channel /\ H.page = 1
    BY <1>1, <2>h, GetHistoryOK DEF Begun
  <2>4. C.minCnt <= Cardinality(log[C.channel])
    BY <1>1, <1>4 DEF CheckOK
  <2>5. Begun(D)
    BY <1>1, <2>2 DEF Begun
  <2>6. CheckOK(D, H, log, done)
    BY <2>2, <2>3, <2>4, <2>5 DEF CheckOK, Begun, Counted
  <2> QED
    BY <1>1, <2>1, <2>2, <2>3, <2>6, CheckerStep
<1> QED
  BY <1>3, <1>4

\* What the first page told a check about the channel.
LEMMA FirstFacts ==
  ASSUME HistoryInv, NEW k \in Checkers, NEW C, C = check[k], NEW G, G = get[k],
         C.pc = "first", G.pc = "answer", G.status = 200
  PROVE  /\ G.page = 1 /\ G.maxPage \in Nat /\ G.maxPage >= 1
         /\ PaginationValid(G)
         /\ Pages(AtLeastOne(C.minCnt)) <= G.maxPage
         /\ G.maxPage <= Pages(AtLeastOne(sent[C.channel]))
         /\ G.maxPage <= MaxPage(Cardinality(log[C.channel]))
         /\ C.mode = "tail" /\ C.minCnt # 0 => G.maxPage >= MaxFollow
         /\ C.mode # "load" /\ C.minCnt # 0 =>
              (G.maxPage - 1) * N < Cardinality(log[C.channel])
<1>1. /\ C \in Check /\ G \in Get /\ GetOK(G) /\ CheckOK(C, G, log, done)
      /\ Begun(C)
  BY CheckerFacts
<1>2. PICK n \in Nat : n = Cardinality(log[C.channel])
  BY <1>1, LogType DEF Begun
<1>3. PICK i \in Nat : i = Cardinality(InitialLog[C.channel])
  BY <1>1, LogType DEF Begun
<1>4. PICK cnt \in Nat : cnt = G.cnt
  BY <1>1 DEF Get
<1>5. PICK m \in Nat : m = C.minCnt
  BY <1>1 DEF Check
<1>6. PICK s \in Nat : s = sent[C.channel] /\ n <= s
  <2>1. n <= sent[C.channel] /\ sent[C.channel] \in Nat
    BY <1>1, <1>2 DEF Begun, HistoryInv, HistoryTypeOK, Ledgers
  <2> QED
    BY <2>1
<1>7. Counted(G) /\ G.maxPage = MaxPage(cnt) /\ G.page = 1
  BY <1>1, <1>4 DEF GetOK, Counted, CheckOK
<1>8. m <= cnt /\ i <= cnt /\ cnt <= n
  BY <1>1, <1>2, <1>3, <1>4, <1>5, <1>7 DEF CheckOK
<1>9. PICK M \in Nat : M = G.maxPage /\ M >= 1 /\ M = MaxPage(cnt)
                       /\ M = Pages(AtLeastOne(cnt))
                       /\ (cnt > 0 => (M - 1) * N < cnt)
  BY <1>7, MaxPageType
<1>10. Pages(AtLeastOne(m)) <= M
  BY <1>8, <1>9, PagesMonotone
<1>11. M <= Pages(AtLeastOne(s))
  <2>1. cnt <= s
    BY <1>6, <1>8
  <2> QED
    BY <1>9, <2>1, PagesMonotone
<1>12. M <= MaxPage(n)
  <2>1. MaxPage(cnt) <= MaxPage(n)
    BY <1>8, PagesMonotone
  <2> QED
    BY <1>9, <2>1
<1>13. ASSUME C.mode = "tail", m # 0 PROVE M >= MaxFollow
  <2>1. Pages(i) >= MaxFollow
    BY <1>1, <1>3, <1>5, <1>13 DEF Begun
  <2>2. PICK a \in Nat : a = AtLeastOne(cnt) /\ i <= a
    <3>1. AtLeastOne(cnt) \in Nat /\ i <= AtLeastOne(cnt)
      BY <1>8 DEF AtLeastOne
    <3> QED
      BY <3>1
  <2>3. Pages(i) <= Pages(a) /\ Pages(a) = M
    BY <1>9, <2>2, PagesMonotone
  <2>4. Pages(i) \in Nat
    BY PagesType
  <2> QED
    BY <2>1, <2>3, <2>4, HistoryAssumption
<1>14. ASSUME m # 0 PROVE (M - 1) * N < n
  <2>1. PICK x \in Int : x = (M - 1) * N
    BY HistoryAssumption
  <2>2. cnt > 0
    BY <1>8, <1>14
  <2> QED
    BY <1>8, <1>9, <2>1, <2>2
<1>15. PaginationValid(G)
  BY <1>7 DEF PaginationValid, Arrows
<1> QED
  BY <1>2, <1>5, <1>6, <1>7, <1>9, <1>10, <1>11, <1>12, <1>13, <1>14, <1>15

LEMMA FirstAnsweredKeeps ==
  ASSUME HistoryInv, NEW k \in Checkers,
         FirstAnswered(k) \/ LoadFirstAnswered(k)
  PROVE  HistoryInv'
<1>g. PICK G : G = get[k]
  OBVIOUS
<1>c. PICK C \in Check : C = check[k]
  BY CheckerFacts
<1>1. /\ C.pc = "first" /\ G.pc = "answer" /\ G.status = 200
      /\ get' = [get EXCEPT ![k] = NoGet]
      /\ UNCHANGED <<log, walk, sent, complete, done>>
  BY <1>c, <1>g DEF FirstAnswered, LoadFirstAnswered, ledger
<1>2. Begun(C)
  BY <1>c, <1>1, CheckerFacts
<1>m. PICK M : M = G.maxPage
  OBVIOUS
<1>3. /\ M \in Nat /\ M >= 1
      /\ PaginationValid(G)
      /\ Pages(AtLeastOne(C.minCnt)) <= M
      /\ M <= Pages(AtLeastOne(sent[C.channel]))
      /\ M <= MaxPage(Cardinality(log[C.channel]))
      /\ C.mode = "tail" /\ C.minCnt # 0 => M >= MaxFollow
      /\ C.mode # "load" /\ C.minCnt # 0 =>
           (M - 1) * N < Cardinality(log[C.channel])
  BY <1>c, <1>g, <1>m, <1>1, FirstFacts
<1>4. PICK D \in Goes(C, M) : check' = [check EXCEPT ![k] = D]
  <2>1. CASE FirstAnswered(k)
    <3>1. \E D \in Goes(C, M) : check' = [check EXCEPT ![k] = D]
      BY <1>c, <1>g, <1>m, <1>3, <2>1 DEF FirstAnswered
    <3> QED
      BY <3>1
  <2>2. CASE LoadFirstAnswered(k)
    BY <1>c, <1>g, <1>m, <2>2 DEF LoadFirstAnswered
  <2> QED
    BY <2>1, <2>2
<1>5. PICK Z : Z = NoGet
  OBVIOUS
<1>6. Z.status # 400
  BY <1>5, NoGetOK
<1>7. D \in Check /\ D.pc \in {"ready", "follow"} /\ CheckOK(D, Z, log, done)
  BY <1>2, <1>3, <1>6, GoesOK
<1> QED
  BY <1>1, <1>4, <1>5, <1>7, NoGetOK, CheckerStep

LEMMA PlayPageKeeps ==
  ASSUME HistoryInv, NEW k \in Checkers, NEW page, PlayPage(k, page)
  PROVE  HistoryInv'
<1>g. PICK G : G = get[k]
  OBVIOUS
<1>c. PICK C \in Check : C = check[k]
  BY CheckerFacts
<1>1. /\ C.pc = "follow" /\ page \in C.pages /\ Begun(C)
      /\ CheckOK(C, G, log, done)
      /\ G \in Get /\ GetOK(G) /\ G.pc = "idle"
      /\ UNCHANGED <<log, walk, sent, complete, done>>
  <2>1. /\ C.pc = "follow" /\ page \in C.pages
        /\ UNCHANGED <<log, walk, sent, complete, done>>
    BY <1>c DEF PlayPage, ledger
  <2> QED
    BY <1>c, <1>g, <2>1, CheckerFacts
<1>2. G.status # 400 /\ (done \/ Solid(C, log[C.channel]))
  BY <1>1 DEF CheckOK
<1>t. check \in [Checkers -> Check] /\ get \in [Clients -> Get] /\ k \in Clients
  BY DEF HistoryInv, HistoryTypeOK, Clients
<1>3. CASE done
  <2>d. PICK D : D = [C EXCEPT !.pages = C.pages \ {page}]
    OBVIOUS
  <2>1. check' = [check EXCEPT ![k] = D] /\ get' = [get EXCEPT ![k] = G]
    <3>1. check' = [check EXCEPT ![k].pages = @ \ {page}] /\ get' = get
      BY <1>3 DEF PlayPage
    <3> QED
      BY <1>c, <1>g, <1>t, <2>d, <3>1
  <2>2. /\ D \in Check /\ D.pc = "follow" /\ D.channel = C.channel
        /\ D.mode = C.mode /\ D.minCnt = C.minCnt
    BY <1>1, <2>d DEF Check
  <2>3. CheckOK(D, G, log, done)
    BY <1>1, <1>2, <1>3, <2>2 DEF CheckOK, Begun
  <2> QED
    BY <1>1, <2>1, <2>2, <2>3, CheckerStep
<1>4. CASE ~done
  <2>d. PICK D : D = [C EXCEPT !.pages = C.pages \ {page}, !.pc = "page"]
    OBVIOUS
  <2>h. PICK H : H = GetHistory(C.channel, page)
    OBVIOUS
  <2>1. check' = [check EXCEPT ![k] = D] /\ get' = [get EXCEPT ![k] = H]
    <3>1. /\ check' = [check EXCEPT ![k].pages = @ \ {page}, ![k].pc = "page"]
          /\ get' = [get EXCEPT ![k] = H]
      BY <1>4, <1>c, <2>h DEF PlayPage
    <3> QED
      BY <1>c, <1>t, <2>d, <3>1 DEF Check
  <2>2. /\ D \in Check /\ D.pc = "page" /\ D.channel = C.channel
        /\ D.mode = C.mode /\ D.minCnt = C.minCnt
        /\ D.maxPage = C.maxPage /\ D.pages = C.pages \ {page}
    BY <1>1, <2>d DEF Check
  <2>3. Solid(C, log[C.channel]) /\ page \in 1 .. C.maxPage
    BY <1>1, <1>2, <1>4 DEF Solid
  <2>4. page \in Nat /\ page >= 1
    BY <2>3 DEF Check
  <2>5. /\ H \in Get /\ GetOK(H) /\ H.pc = "count" /\ H.status = 0
        /\ H.channel = C.channel /\ H.page = page
    BY <1>1, <2>4, <2>h, GetHistoryOK DEF Begun
  <2>6. Solid(D, log[D.channel]) /\ Begun(D)
    BY <1>1, <2>2, <2>3 DEF Solid, Begun
  <2>7. CheckOK(D, H, log, done)
    BY <2>2, <2>3, <2>5, <2>6 DEF CheckOK, Begun
  <2> QED
    BY <1>1, <2>1, <2>2, <2>5, <2>7, CheckerStep
<1> QED
  BY <1>3, <1>4

LEMMA PageAnsweredKeeps ==
  ASSUME HistoryInv, NEW k \in Checkers, PageAnswered(k) \/ LoadPageAnswered(k)
  PROVE  HistoryInv'
<1>g. PICK G \in Get : G = get[k]
  BY CheckerFacts
<1>c. PICK C \in Check : C = check[k]
  BY CheckerFacts
<1>1. /\ C.pc = "page" /\ G.pc = "answer" /\ G.status = 200
      /\ get' = [get EXCEPT ![k] = NoGet]
      /\ UNCHANGED <<log, walk, sent, complete, done>>
  BY <1>c, <1>g DEF PageAnswered, LoadPageAnswered, ledger
<1>2. Begun(C) /\ GetOK(G) /\ CheckOK(C, G, log, done)
  BY <1>c, <1>g, <1>1, CheckerFacts
<1>d. PICK D : D = [C EXCEPT !.pc = "follow"]
  OBVIOUS
<1>3. check' = [check EXCEPT ![k] = D]
  <2>0. check \in [Checkers -> Check]
    BY DEF HistoryInv, HistoryTypeOK
  <2>1. CASE PageAnswered(k)
    <3>1. PaginationValid(G)
      <4>1. G.page \in 1 .. G.maxPage
        BY <1>1, <1>2 DEF GetOK, Counted
      <4> QED
        BY <4>1 DEF PaginationValid, Arrows
    <3>2. C.mode # "load"
      BY <1>c, <2>1 DEF PageAnswered
    <3>3. /\ Cardinality(G.rows) \in 1 .. N
          /\ G.page # C.maxPage => Cardinality(G.rows) = N
      BY <1>1, <1>2, <3>2 DEF CheckOK
    <3>4. check' = [check EXCEPT ![k].pc = "follow"]
      BY <1>c, <1>g, <2>1, <3>1, <3>3 DEF PageAnswered
    <3> QED
      BY <1>c, <1>d, <2>0, <3>4
  <2>2. CASE LoadPageAnswered(k)
    BY <1>c, <1>d, <2>0, <2>2 DEF LoadPageAnswered
  <2> QED
    BY <2>1, <2>2
<1>4. /\ D \in Check /\ D.pc = "follow" /\ D.channel = C.channel
      /\ D.mode = C.mode /\ D.minCnt = C.minCnt
      /\ D.maxPage = C.maxPage /\ D.pages = C.pages
  BY <1>1, <1>d DEF Check
<1>5. Solid(D, log[D.channel]) /\ Begun(D)
  <2>1. Solid(C, log[C.channel])
    BY <1>1, <1>2 DEF CheckOK
  <2> QED
    BY <1>2, <1>4, <2>1 DEF Solid, Begun
<1>6. CheckOK(D, NoGet, log, done)
  BY <1>4, <1>5, NoGetOK DEF CheckOK, Begun
<1> QED
  BY <1>1, <1>3, <1>4, <1>6, NoGetOK, CheckerStep

LEMMA EndCheckKeeps ==
  ASSUME HistoryInv, NEW k \in Checkers, EndCheck(k)
  PROVE  HistoryInv'
<1>1. /\ check' = [check EXCEPT ![k] = NoCheck]
      /\ get' = [get EXCEPT ![k] = NoGet]
      /\ UNCHANGED <<log, walk, sent, complete, done>>
  BY DEF EndCheck, ledger
<1>2. PICK Z : Z = NoGet
  OBVIOUS
<1>3. Z.status # 400 /\ Z \in Get /\ GetOK(Z) /\ Z.pc = "idle"
  BY <1>2, NoGetOK
<1>4. /\ NoCheck \in Check /\ NoCheck.pc = "ready"
      /\ CheckOK(NoCheck, Z, log, done)
  BY <1>3, NoCheckOK
<1> QED
  BY <1>1, <1>2, <1>3, <1>4, CheckerStep

-----------------------------------------------------------------------------
(***************************************************************************)
(* Posts and the counters of the benchmarker.                              *)
(***************************************************************************)
LEMMA AnnounceKeeps ==
  ASSUME HistoryInv, NEW c \in Channels, Announce(c)
  PROVE  HistoryInv'
<1>0. /\ HistoryTypeOK /\ Logs /\ Ledgers /\ Gets /\ Walks /\ Checks
      /\ sent' = [sent EXCEPT ![c] = @ + 1]
      /\ UNCHANGED <<log, get, walk, check, complete, done>>
  BY DEF HistoryInv, Announce, Counts!Announce
<1>1. sent \in [Channels -> Nat] /\ complete \in [Channels -> Nat]
  BY <1>0 DEF HistoryTypeOK
<1>2. sent' \in [Channels -> Nat]
  BY <1>0, <1>1
<1>3. ASSUME NEW d \in Channels
      PROVE  /\ Cardinality(log[d]) <= sent'[d] /\ complete[d] <= sent'[d]
             /\ done \/ complete[d] <= Cardinality(log[d])
  <2>1. /\ Cardinality(log[d]) <= sent[d] /\ complete[d] <= sent[d]
        /\ done \/ complete[d] <= Cardinality(log[d])
    BY <1>0 DEF Ledgers
  <2>2. PICK n \in Nat : n = Cardinality(log[d])
    BY LogType
  <2>3. sent[d] \in Nat /\ complete[d] \in Nat
    BY <1>1
  <2>4. sent'[d] = sent[d] \/ sent'[d] = sent[d] + 1
    BY <1>0, <1>1
  <2> QED
    BY <2>1, <2>2, <2>3, <2>4
<1>4. Ledgers'
  BY <1>0, <1>3 DEF Ledgers
<1>5. HistoryTypeOK'
  BY <1>0, <1>2 DEF HistoryTypeOK
<1>6. Logs' /\ Gets' /\ Walks' /\ Checks'
  BY <1>0 DEF Logs, Gets, Walks, Checks
<1> QED
  BY <1>4, <1>5, <1>6 DEF HistoryInv

LEMMA CompleteKeeps ==
  ASSUME HistoryInv, NEW c \in Channels, Complete(c)
  PROVE  HistoryInv'
<1>0. /\ HistoryTypeOK /\ Logs /\ Ledgers /\ Gets /\ Walks /\ Checks
      /\ complete[c] < IF done THEN sent[c] ELSE Cardinality(log[c])
      /\ complete' = [complete EXCEPT ![c] = @ + 1]
      /\ UNCHANGED <<log, get, walk, check, sent, done>>
  BY DEF HistoryInv, Complete, Counts!Complete
<1>1. sent \in [Channels -> Nat] /\ complete \in [Channels -> Nat]
  BY <1>0 DEF HistoryTypeOK
<1>2. complete' \in [Channels -> Nat]
  BY <1>0, <1>1
<1>3. ASSUME NEW d \in Channels
      PROVE  /\ Cardinality(log[d]) <= sent[d] /\ complete'[d] <= sent[d]
             /\ done \/ complete'[d] <= Cardinality(log[d])
  <2>1. /\ Cardinality(log[d]) <= sent[d] /\ complete[d] <= sent[d]
        /\ done \/ complete[d] <= Cardinality(log[d])
    BY <1>0 DEF Ledgers
  <2>2. PICK n \in Nat : n = Cardinality(log[d])
    BY LogType
  <2>3. sent[d] \in Nat /\ complete[d] \in Nat
    BY <1>1
  <2>4. CASE d = c
    <3>1. complete'[d] = complete[d] + 1
      BY <1>0, <1>1, <2>4
    <3>2. CASE done
      BY <1>0, <2>1, <2>2, <2>3, <2>4, <3>1, <3>2
    <3>3. CASE ~done
      BY <1>0, <2>1, <2>2, <2>3, <2>4, <3>1, <3>3
    <3> QED
      BY <3>2, <3>3
  <2>5. CASE d # c
    <3>1. complete'[d] = complete[d]
      BY <1>0, <1>1, <2>5
    <3> QED
      BY <2>1, <3>1
  <2> QED
    BY <2>4, <2>5
<1>4. Ledgers'
  BY <1>0, <1>3 DEF Ledgers
<1>5. HistoryTypeOK'
  BY <1>0, <1>2 DEF HistoryTypeOK
<1>6. Logs' /\ Gets' /\ Walks' /\ Checks'
  BY <1>0 DEF Logs, Gets, Walks, Checks
<1> QED
  BY <1>4, <1>5, <1>6 DEF HistoryInv

LEMMA DeadlineKeeps ==
  ASSUME HistoryInv, Deadline
  PROVE  HistoryInv'
<1>0. /\ HistoryTypeOK /\ Logs /\ Ledgers /\ Gets /\ Walks /\ Checks
      /\ done' = TRUE
      /\ UNCHANGED <<log, get, walk, check, sent, complete>>
  BY DEF HistoryInv, Deadline, Counts!Deadline
<1>1. HistoryTypeOK'
  BY <1>0 DEF HistoryTypeOK
<1>2. Logs' /\ Ledgers' /\ Gets' /\ Walks'
  BY <1>0 DEF Logs, Ledgers, Gets, Walks
<1>3. Checks'
  <2> SUFFICES ASSUME NEW k \in Checkers
               PROVE  CheckOK(check[k], get[k], log, TRUE)
    BY <1>0 DEF Checks
  <2>1. CheckOK(check[k], get[k], log, done)
    BY <1>0 DEF Checks
  <2> QED
    BY <2>1 DEF CheckOK
<1> QED
  BY <1>1, <1>2, <1>3 DEF HistoryInv

\* What holds of a walk holds when its channel has more messages.
LEMMA WalkGrows ==
  ASSUME NEW W, NEW G \in Get, NEW logs, NEW more, WalkOK(W, G, logs),
         W.pc = "walking" =>
            /\ logs[G.channel] \subseteq more[G.channel]
            /\ more[G.channel] \in SUBSET Nat
            /\ IsFiniteSet(more[G.channel])
  PROVE  WalkOK(W, G, more)
<1>1. CASE W.pc = "walking" /\ ~W.purged
  <2>1. PICK S : S = logs[G.channel]
    OBVIOUS
  <2>2. PICK T \in SUBSET Nat :
          T = more[G.channel] /\ IsFiniteSet(T) /\ S \subseteq T
    BY <1>1, <2>1
  <2>3. PICK n \in Nat : n = Cardinality(T)
    BY <2>2, FS_CardinalityType
  <2>4. IsFiniteSet(S) /\ Cardinality(S) <= Cardinality(T)
    BY <2>2, FS_Subset
  <2>5. PICK m \in Nat : m = Cardinality(S) /\ m <= n
    BY <2>3, <2>4, FS_CardinalityType
  <2>6. /\ MaxPage(m) \in Nat /\ MaxPage(n) \in Nat
        /\ MaxPage(m) <= MaxPage(n)
    BY <2>5, MaxPageType, PagesMonotone
  <2>7. G.page \in Nat /\ G.cnt \in Nat
    BY DEF Get
  <2>8. /\ G.status # 400 /\ W.start \subseteq S
        /\ G.pc = "count" => G.page <= MaxPage(m)
        /\ Counted(G) => G.cnt <= m
        /\ G.pc \in {"count", "select"} =>
             \A id \in W.start \ W.seen : (G.page - 1) * N <= Rank(S, id)
        /\ G.pc = "answer" =>
             \A id \in (W.start \ W.seen) \ G.rows : G.page * N <= Rank(S, id)
        /\ G.pc = "answer" /\ G.page = G.maxPage /\ ~W.raced =>
             W.start \ W.seen \subseteq G.rows
    BY <1>1, <2>1, <2>5 DEF WalkOK
  <2>9. ASSUME NEW id \in W.start, NEW x \in Int, x <= Rank(S, id)
        PROVE  x <= Rank(T, id)
    <3>1. id \in Nat /\ S \in SUBSET Nat
      BY <2>2, <2>8
    <3>2. Rank(S, id) <= Rank(T, id)
      BY <2>2, <3>1, RankGrows
    <3>3. Rank(S, id) \in Nat /\ Rank(T, id) \in Nat
      BY <2>2, <2>4, <3>1, RankType
    <3> QED
      BY <2>9, <3>2, <3>3
  <2>10. (G.page - 1) * N \in Int /\ G.page * N \in Int
    BY <2>7, HistoryAssumption
  <2>11. W.start \subseteq T
    BY <2>2, <2>8
  <2>12. G.pc = "count" => G.page <= MaxPage(n)
    BY <2>6, <2>7, <2>8
  <2>13. Counted(G) => G.cnt <= n
    BY <2>5, <2>7, <2>8
  <2>14. G.pc \in {"count", "select"} =>
           \A id \in W.start \ W.seen : (G.page - 1) * N <= Rank(T, id)
    BY <2>8, <2>9, <2>10
  <2>15. G.pc = "answer" =>
           \A id \in (W.start \ W.seen) \ G.rows : G.page * N <= Rank(T, id)
    BY <2>8, <2>9, <2>10
  <2> QED
    BY <1>1, <2>2, <2>3, <2>8, <2>11, <2>12, <2>13, <2>14, <2>15 DEF WalkOK
<1>2. CASE ~(W.pc = "walking" /\ ~W.purged)
  BY <1>2 DEF WalkOK
<1> QED
  BY <1>1, <1>2

\* So does what holds of a check.
LEMMA CheckGrows ==
  ASSUME NEW C \in Check, NEW G \in Get, NEW logs, NEW more, NEW over,
         CheckOK(C, G, logs, over),
         C.pc # "ready" =>
            /\ logs[C.channel] \subseteq more[C.channel]
            /\ IsFiniteSet(more[C.channel])
  PROVE  CheckOK(C, G, more, over)
<1>1. CASE C.pc # "ready"
  <2>1. PICK S : S = logs[C.channel]
    OBVIOUS
  <2>2. PICK T : T = more[C.channel] /\ IsFiniteSet(T) /\ S \subseteq T
    BY <1>1, <2>1
  <2>3. PICK n \in Nat : n = Cardinality(T)
    BY <2>2, FS_CardinalityType
  <2>4. IsFiniteSet(S) /\ Cardinality(S) <= Cardinality(T)
    BY <2>2, FS_Subset
  <2>5. PICK m \in Nat : m = Cardinality(S) /\ m <= n
    BY <2>3, <2>4, FS_CardinalityType
  <2>6. /\ MaxPage(m) \in Nat /\ MaxPage(n) \in Nat
        /\ MaxPage(m) <= MaxPage(n)
    BY <2>5, MaxPageType, PagesMonotone
  <2>7. C.minCnt \in Nat /\ C.maxPage \in Nat /\ G.cnt \in Nat
    BY DEF Get, Check
  <2>8. (C.maxPage - 1) * N \in Int
    BY <2>7, HistoryAssumption
  <2>9. Solid(C, S) => Solid(C, T)
    <3> SUFFICES ASSUME Solid(C, S) PROVE Solid(C, T)
      OBVIOUS
    <3>1. C.maxPage <= MaxPage(n)
      BY <2>5, <2>6, <2>7 DEF Solid
    <3>2. C.mode # "load" => (C.maxPage - 1) * N < n
      <4>1. PICK x \in Int : x = (C.maxPage - 1) * N
        BY <2>8
      <4>2. C.mode # "load" => x < m
        BY <2>5, <4>1 DEF Solid
      <4> QED
        BY <2>5, <4>1, <4>2
    <3> QED
      BY <2>3, <3>1, <3>2 DEF Solid
  <2>10. C.minCnt <= m => C.minCnt <= n
    BY <2>5, <2>7
  <2>11. G.cnt <= m => G.cnt <= n
    BY <2>5, <2>7
  <2> QED
    BY <2>1, <2>2, <2>3, <2>5, <2>9, <2>10, <2>11 DEF CheckOK
<1>2. CASE C.pc = "ready"
  BY <1>2 DEF CheckOK
<1> QED
  BY <1>1, <1>2

LEMMA PostStoredKeeps ==
  ASSUME HistoryInv, NEW c \in Channels, NEW id \in InitialMessages + 1 .. MaxId,
         PostStored(c, id)
  PROVE  HistoryInv'
<1>0. /\ HistoryTypeOK /\ Logs /\ Ledgers /\ Gets /\ Walks /\ Checks
      /\ Cardinality(log[c]) < sent[c] /\ id \notin log[c]
      /\ log' = [log EXCEPT ![c] = log[c] \cup {id}]
      /\ UNCHANGED <<get, walk, check, sent, complete, done>>
  BY DEF HistoryInv, PostStored, Store, Counts!Store
<1>1. id \in Nat /\ id > InitialMessages /\ id # 0
  BY TableAssumption, HistoryAssumption
<1>2. log \in [Channels -> SUBSET (Nat \ {0})]
  BY <1>0 DEF HistoryTypeOK
<1>3. /\ log' \in [Channels -> SUBSET (Nat \ {0})]
      /\ log'[c] = log[c] \cup {id}
      /\ \A d \in Channels \ {c} : log'[d] = log[d]
  BY <1>0, <1>1, <1>2
<1>4. /\ IsFiniteSet(log'[c])
      /\ Cardinality(log'[c]) = Cardinality(log[c]) + 1
  <2>1. IsFiniteSet(log[c])
    BY LogType
  <2> QED
    BY <1>0, <1>3, <2>1, FS_AddElement
<1>5. ASSUME NEW d \in Channels
      PROVE  /\ log[d] \subseteq log'[d] /\ log'[d] \in SUBSET Nat
             /\ IsFiniteSet(log'[d])
  <2>1. CASE d = c
    BY <1>3, <1>4, <2>1
  <2>2. CASE d # c
    BY <1>3, <2>2, LogType
  <2> QED
    BY <2>1, <2>2
<1>6. HistoryTypeOK'
  BY <1>0, <1>3 DEF HistoryTypeOK
<1>7. Logs'
  <2> SUFFICES ASSUME NEW d \in Channels
               PROVE  /\ InitialLog[d] \subseteq log'[d]
                      /\ \A i \in log'[d] \ InitialLog[d] : i > InitialMessages
    BY <1>5 DEF Logs
  <2>1. /\ InitialLog[d] \subseteq log[d]
        /\ \A i \in log[d] \ InitialLog[d] : i > InitialMessages
    BY <1>0 DEF Logs
  <2>2. log'[d] \subseteq log[d] \cup {id}
    BY <1>3
  <2> QED
    BY <1>1, <1>5, <2>1, <2>2
<1>8. Ledgers'
  <2> SUFFICES ASSUME NEW d \in Channels
               PROVE  /\ Cardinality(log'[d]) <= sent[d]
                      /\ complete[d] <= sent[d]
                      /\ done \/ complete[d] <= Cardinality(log'[d])
    BY <1>0 DEF Ledgers
  <2>1. /\ Cardinality(log[d]) <= sent[d] /\ complete[d] <= sent[d]
        /\ done \/ complete[d] <= Cardinality(log[d])
    BY <1>0 DEF Ledgers
  <2>2. PICK n \in Nat : n = Cardinality(log[d])
    BY LogType
  <2>3. sent[d] \in Nat /\ complete[d] \in Nat
    BY <1>0 DEF HistoryTypeOK
  <2>4. CASE d = c
    BY <1>0, <1>4, <2>1, <2>2, <2>3, <2>4
  <2>5. CASE d # c
    BY <1>3, <2>1, <2>5
  <2> QED
    BY <2>4, <2>5
<1>9. Gets'
  BY <1>0 DEF Gets
<1>10. PICK more : more = log'
  OBVIOUS
<1>11. Walks'
  <2> SUFFICES ASSUME NEW w \in Walkers PROVE WalkOK(walk[w], get[w], more)
    BY <1>0, <1>10 DEF Walks
  <2>1. WalkOK(walk[w], get[w], log) /\ get[w] \in Get /\ GetOK(get[w])
    BY <1>0 DEF Walks, Gets, HistoryTypeOK, Clients
  <2>2. walk[w].pc = "walking" => get[w].channel \in Channels
    BY <1>0, <2>1 DEF GetOK, HistoryTypeOK
  <2>3. PICK old : old = log
    OBVIOUS
  <2>4. walk[w].pc = "walking" =>
           /\ old[get[w].channel] \subseteq more[get[w].channel]
           /\ more[get[w].channel] \in SUBSET Nat
           /\ IsFiniteSet(more[get[w].channel])
    BY <1>5, <1>10, <2>2, <2>3
  <2>5. PICK W : W = walk[w]
    OBVIOUS
  <2>6. PICK G \in Get : G = get[w]
    BY <2>1
  <2>7. WalkOK(W, G, old)
    BY <2>1, <2>3, <2>5, <2>6
  <2>8. W.pc = "walking" =>
           /\ old[G.channel] \subseteq more[G.channel]
           /\ more[G.channel] \in SUBSET Nat
           /\ IsFiniteSet(more[G.channel])
    BY <2>4, <2>5, <2>6
  <2>9. WalkOK(W, G, more)
    BY <2>7, <2>8, WalkGrows
  <2> QED
    BY <2>5, <2>6, <2>9
<1>12. Checks'
  <2> SUFFICES ASSUME NEW k \in Checkers
               PROVE  CheckOK(check[k], get[k], more, done)
    BY <1>0, <1>10 DEF Checks
  <2>1. PICK C \in Check : C = check[k]
    BY CheckerFacts
  <2>2. PICK G \in Get : G = get[k]
    BY CheckerFacts
  <2>3. PICK old : old = log
    OBVIOUS
  <2>4. CheckOK(C, G, old, done) /\ (C.pc # "ready" => C.channel \in Channels)
    BY <2>1, <2>2, <2>3, CheckerFacts DEF Begun
  <2>5. C.pc # "ready" =>
           /\ old[C.channel] \subseteq more[C.channel]
           /\ IsFiniteSet(more[C.channel])
    BY <1>5, <1>10, <2>3, <2>4
  <2>6. CheckOK(C, G, more, done)
    BY <2>4, <2>5, CheckGrows
  <2> QED
    BY <2>1, <2>2, <2>6
<1> QED
  BY <1>6, <1>7, <1>8, <1>9, <1>11, <1>12 DEF HistoryInv

-----------------------------------------------------------------------------
(***************************************************************************)
(* /initialize, the initial state, and the theorems.                       *)
(***************************************************************************)
LEMMA InitialFinite ==
  ASSUME NEW c \in Channels
  PROVE  /\ InitialLog[c] \in SUBSET (Nat \ {0}) /\ IsFiniteSet(InitialLog[c])
         /\ Cardinality(InitialLog[c]) \in Nat
         /\ \A i \in InitialLog[c] : i <= InitialMessages
<1>1. InitialLog[c] \in SUBSET (1 .. InitialMessages) /\ InitialMessages \in Nat
  BY TableAssumption
<1>2. IsFiniteSet(1 .. InitialMessages)
  BY <1>1, FS_Interval
<1>3. IsFiniteSet(InitialLog[c])
  BY <1>1, <1>2, FS_Subset
<1> QED
  BY <1>1, <1>3, FS_CardinalityType

LEMMA InitializeKeeps ==
  ASSUME HistoryInv, Initialize
  PROVE  HistoryInv'
<1>0. /\ HistoryTypeOK /\ Logs /\ Ledgers /\ Gets /\ Walks /\ Checks
      /\ \A k \in Checkers : check[k].pc = "ready"
      /\ log' = [c \in Channels |-> {id \in log[c] : id <= InitialMessages}]
      /\ walk' = [w \in Walkers |->
                    IF walk[w].pc = "walking"
                    THEN [walk[w] EXCEPT !.purged = TRUE] ELSE walk[w]]
      /\ sent' = [c \in Channels |-> Cardinality(InitialLog[c])]
      /\ complete' = sent' /\ done' = FALSE
      /\ UNCHANGED <<get, check>>
  BY DEF HistoryInv, Initialize, Purge
<1>1. ASSUME NEW c \in Channels
      PROVE  log'[c] = InitialLog[c]
  <2>1. /\ InitialLog[c] \subseteq log[c]
        /\ \A i \in log[c] \ InitialLog[c] : i > InitialMessages
        /\ log[c] \in SUBSET Nat
    BY <1>0, LogType DEF Logs
  <2>2. \A i \in log[c] \ InitialLog[c] : ~(i <= InitialMessages)
    BY <2>1, TableAssumption
  <2>3. log'[c] = {id \in log[c] : id <= InitialMessages}
    BY <1>0
  <2> QED
    BY <2>1, <2>2, <2>3, InitialFinite
<1>2. ASSUME NEW w \in Walkers
      PROVE  /\ walk'[w] \in Walk /\ walk'[w].pc = walk[w].pc
             /\ walk[w].pc = "walking" => walk'[w].purged
             /\ walk[w].pc # "walking" => walk'[w] = walk[w]
  <2>1. walk[w] \in Walk
    BY <1>0 DEF HistoryTypeOK
  <2>2. CASE walk[w].pc = "walking"
    <3>1. walk'[w] = [walk[w] EXCEPT !.purged = TRUE]
      BY <1>0, <2>2
    <3> QED
      BY <2>1, <2>2, <3>1 DEF Walk
  <2>3. CASE walk[w].pc # "walking"
    BY <1>0, <2>1, <2>3
  <2> QED
    BY <2>2, <2>3
<1>3. ASSUME NEW c \in Channels
      PROVE  sent'[c] = Cardinality(InitialLog[c]) /\ complete'[c] = sent'[c]
  BY <1>0
<1>4. HistoryTypeOK'
  <2>1. log' \in [Channels -> SUBSET (Nat \ {0})]
    <3>1. log' = [c \in Channels |-> log'[c]]
      BY <1>0
    <3> QED
      BY <1>1, <3>1, InitialFinite
  <2>2. walk' \in [Walkers -> Walk]
    <3>1. walk' = [w \in Walkers |-> walk'[w]]
      BY <1>0
    <3> QED
      BY <1>2, <3>1
  <2>3. sent' \in [Channels -> Nat] /\ complete' \in [Channels -> Nat]
    BY <1>0, InitialFinite
  <2>4. \A w \in Walkers : get[w].pc # "idle" <=> walk'[w].pc = "walking"
    BY <1>0, <1>2 DEF HistoryTypeOK
  <2> QED
    BY <1>0, <2>1, <2>2, <2>3, <2>4 DEF HistoryTypeOK
<1>5. Logs'
  BY <1>1, InitialFinite DEF Logs
<1>6. Ledgers'
  <2> SUFFICES ASSUME NEW c \in Channels
               PROVE  /\ Cardinality(log'[c]) <= sent'[c]
                      /\ complete'[c] <= sent'[c]
                      /\ done' \/ complete'[c] <= Cardinality(log'[c])
    BY DEF Ledgers
  <2>1. PICK n \in Nat : n = Cardinality(InitialLog[c])
    BY InitialFinite
  <2>2. Cardinality(log'[c]) = n /\ sent'[c] = n /\ complete'[c] = n
    BY <1>1, <1>3, <2>1
  <2> QED
    BY <2>1, <2>2
<1>7. Gets'
  BY <1>0 DEF Gets
<1>8. Walks'
  <2> SUFFICES ASSUME NEW w \in Walkers
               PROVE  WalkOK(walk'[w], get[w], log')
    BY <1>0 DEF Walks
  <2>1. WalkOK(walk[w], get[w], log)
    BY <1>0 DEF Walks
  <2>2. CASE walk[w].pc = "walking"
    BY <1>2, <2>2 DEF WalkOK
  <2>3. CASE walk[w].pc # "walking"
    <3>1. walk'[w] = walk[w]
      BY <1>2, <2>3
    <3> QED
      BY <2>1, <2>3, <3>1 DEF WalkOK
  <2> QED
    BY <2>2, <2>3
<1>9. Checks'
  <2> SUFFICES ASSUME NEW k \in Checkers
               PROVE  CheckOK(check[k], get[k], log', done')
    BY <1>0 DEF Checks
  <2>1. CheckOK(check[k], get[k], log, done) /\ check[k].pc = "ready"
    BY <1>0 DEF Checks
  <2> QED
    BY <2>1 DEF CheckOK
<1> QED
  BY <1>4, <1>5, <1>6, <1>7, <1>8, <1>9 DEF HistoryInv

LEMMA HistoryInit == Init => HistoryInv
<1> SUFFICES ASSUME Init PROVE HistoryInv
  OBVIOUS
<1>0. /\ log = InitialLog /\ get = [b \in Clients |-> NoGet]
      /\ walk = [w \in Walkers |-> NoWalk]
      /\ check = [k \in Checkers |-> NoCheck]
      /\ sent = [c \in Channels |-> Cardinality(InitialLog[c])]
      /\ complete = sent /\ done = FALSE
  BY DEF Init, TableInit, Counts!CountsInit
<1>1. HistoryTypeOK
  <2>1. log \in [Channels -> SUBSET (Nat \ {0})]
    <3>1. log = [c \in Channels |-> log[c]]
      BY <1>0, TableAssumption
    <3> QED
      BY <1>0, <3>1, InitialFinite
  <2>2. sent \in [Channels -> Nat] /\ complete \in [Channels -> Nat]
    BY <1>0, InitialFinite
  <2>3. /\ NoGet \in Get /\ NoGet.pc = "idle"
        /\ NoWalk \in Walk /\ NoWalk.pc = "ready"
        /\ NoCheck \in Check /\ NoCheck.pc = "ready"
    BY NoGetOK, NoWalkOK DEF NoCheck, Check, Modes
  <2>4. /\ get \in [Clients -> Get] /\ walk \in [Walkers -> Walk]
        /\ check \in [Checkers -> Check]
        /\ \A b \in Clients : get[b].pc = "idle"
        /\ \A w \in Walkers : walk[w].pc = "ready"
        /\ \A k \in Checkers : check[k].pc = "ready"
    BY <1>0, <2>3
  <2> QED
    BY <1>0, <2>1, <2>2, <2>4 DEF HistoryTypeOK, Clients
<1>2. Logs
  BY <1>0, InitialFinite DEF Logs
<1>3. Ledgers
  <2> SUFFICES ASSUME NEW c \in Channels
               PROVE  /\ Cardinality(log[c]) <= sent[c]
                      /\ complete[c] <= sent[c]
                      /\ complete[c] <= Cardinality(log[c])
    BY DEF Ledgers
  <2>1. PICK n \in Nat : n = Cardinality(InitialLog[c])
    BY InitialFinite
  <2> QED
    BY <1>0, <2>1
<1>4. Gets
  BY <1>0, NoGetOK DEF Gets
<1>5. Walks
  BY <1>0, NoWalkOK DEF Walks, Clients
<1>6. Checks
  <2> SUFFICES ASSUME NEW k \in Checkers
               PROVE  CheckOK(NoCheck, NoGet, log, done)
    BY <1>0 DEF Checks, Clients
  <2>1. PICK Z : Z = NoGet
    OBVIOUS
  <2>2. Z.status # 400
    BY <2>1, NoGetOK
  <2> QED
    BY <2>1, <2>2, NoCheckOK
<1> QED
  BY <1>1, <1>2, <1>3, <1>4, <1>5, <1>6 DEF HistoryInv

LEMMA HistoryNext == HistoryInv /\ [Next]_vars => HistoryInv'
<1> SUFFICES ASSUME HistoryInv, [Next]_vars PROVE HistoryInv'
  OBVIOUS
<1>1. ASSUME NEW b \in Clients, CountRows(b) \/ SelectPage(b)
      PROVE  HistoryInv'
  BY <1>1, CountRowsKeeps, SelectPageKeeps
<1>2. ASSUME NEW w \in Walkers,
             (\E c \in Channels : StartWalk(w, c)) \/ Follow(w) \/ Leave(w)
      PROVE  HistoryInv'
  BY <1>2, StartWalkKeeps, FollowKeeps, LeaveKeeps
<1>3. ASSUME NEW k \in Checkers, NEW c \in Channels, NEW mode \in Modes,
             StartCheck(k, c, mode)
      PROVE  HistoryInv'
  BY <1>3, StartCheckKeeps
<1>4. ASSUME NEW k \in Checkers,
             \/ PlayFirst(k) \/ FirstAnswered(k) \/ LoadFirstAnswered(k)
             \/ \E page \in check[k].pages : PlayPage(k, page)
             \/ PageAnswered(k) \/ LoadPageAnswered(k) \/ EndCheck(k)
      PROVE  HistoryInv'
  BY <1>4, PlayFirstKeeps, FirstAnsweredKeeps, PlayPageKeeps,
     PageAnsweredKeeps, EndCheckKeeps
<1>5. ASSUME NEW c \in Channels,
             \/ Announce(c) \/ Complete(c)
             \/ \E id \in InitialMessages + 1 .. MaxId : PostStored(c, id)
      PROVE  HistoryInv'
  BY <1>5, AnnounceKeeps, CompleteKeeps, PostStoredKeeps
<1>6. CASE UNCHANGED vars
  <2>1. UNCHANGED <<log, get, walk, check, sent, complete, done>>
    BY <1>6 DEF vars, ledger
  <2> QED
    BY <2>1 DEF HistoryInv, HistoryTypeOK, Logs, Ledgers, Gets, Walks, Checks
<1> QED
  BY <1>1, <1>2, <1>3, <1>4, <1>5, <1>6, DeadlineKeeps, InitializeKeeps DEF Next

LEMMA HistoryInvAlways == Spec => []HistoryInv
BY HistoryInit, HistoryNext, PTL DEF Spec

\* The requests, walks and checks keep their types; a page that getHistory
\* selects exists by its own count of the messages (app.go getHistory).
THEOREM HistoryTypeCorrect == Spec => []HistoryTypeOK
<1>1. HistoryInv => HistoryTypeOK
  BY DEF HistoryInv
<1> QED
  BY <1>1, HistoryInvAlways, PTL

\* Who follows the links from the first page to the last has seen every message
\* that was visible at the start, unless a post became visible between the two
\* statements of the last page (app.go getHistory, history.html).
THEOREM WalksAreComplete == Spec => []WalkExplained
<1>1. HistoryInv => WalkExplained
  BY DEF HistoryInv, Walks, WalkOK, WalkExplained
<1> QED
  BY <1>1, HistoryInvAlways, PTL

\* The link to the next page is never answered by 400 unless /initialize came
\* in between, though each request counts the pages again (app.go getHistory).
THEOREM LinksAlwaysWork == Spec => []LinksWork
<1>1. HistoryInv => LinksWork
  <2> SUFFICES ASSUME HistoryInv, NEW w \in Walkers, get[w].status = 400
               PROVE  walk[w].purged
    BY DEF LinksWork
  <2>1. WalkOK(walk[w], get[w], log) /\ GetOK(get[w])
    BY DEF HistoryInv, Walks, Gets, Clients
  <2>2. get[w].pc = "answer"
    BY <2>1 DEF GetOK
  <2>3. walk[w].pc = "walking"
    BY <2>2 DEF HistoryInv, HistoryTypeOK
  <2> QED
    BY <2>1, <2>3 DEF WalkOK
<1> QED
  BY <1>1, HistoryInvAlways, PTL

\* CheckGetHistory blames no application that stores what it acknowledges, and
\* neither check asks for a page that does not exist (scenario.go
\* CheckGetHistory and LoadGetHistory).
THEOREM ChecksBlameNobody == Spec => []NoBlame
<1>1. HistoryInv => NoBlame
  BY DEF HistoryInv, Checks, CheckOK, NoBlame
<1> QED
  BY <1>1, HistoryInvAlways, PTL
=============================================================================
