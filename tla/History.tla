------------------------------- MODULE History -------------------------------
(***************************************************************************)
(* The history pages of a channel: getHistory of webapp/go/.../app.go, the *)
(* people who follow the links of a page, and the checks of the            *)
(* benchmarker, CheckGetHistory and LoadGetHistory of bench/scenario.go.   *)
(*                                                                         *)
(* getHistory counts the messages of the channel in one statement and      *)
(* selects a page of them in another, newest first, while posts become     *)
(* visible.  What the page shows (authors, texts, dates) is left out; so   *)
(* is the order of the messages on it.                                     *)
(***************************************************************************)
EXTENDS MessageTable

CONSTANTS
    N,             \* messages on a page, 20
    MaxFollow,     \* pages that CheckGetHistory opens, 5
    LoadFollow,    \* pages that LoadGetHistory opens at most, 3
    Walkers,       \* people who follow the link to the next older page
    Checkers,      \* goroutines that run CheckGetHistory or LoadGetHistory
    TailChannels,  \* channels that preTest follows from the last page
    MaxId,         \* bound: no post gets a larger id
    MaxPosts,      \* bound: posts to a channel
    MaxBusy        \* bound: clients that read at the same time

Pages(n) == (n + N - 1) \div N

\* preTest uses the last pages of channel 1 and of a channel without messages.
ASSUME HistoryAssumption ==
    /\ N \in Nat \ {0}
    /\ MaxFollow \in Nat \ {0}
    /\ LoadFollow \in Nat \ {0}
    /\ MaxId \in Nat
    /\ MaxPosts \in Nat
    /\ MaxBusy \in Nat
    /\ Walkers \cap Checkers = {}
    /\ TailChannels \subseteq Channels
    /\ \A c \in TailChannels :
         InitialLog[c] = {} \/ Pages(Cardinality(InitialLog[c])) >= MaxFollow

VARIABLES
    get,       \* get[b]: the request for a page of client b
    walk,      \* walk[w]: where a walk started and what it has seen
    check,     \* check[k]: what a check knows
    sent,      \* msgCntMax of the benchmarker's ledger, see MessageLedger
    complete,  \* msgCntMin
    done       \* the context of the run is done

ledger == <<sent, complete, done>>
vars == <<log, get, walk, check, ledger>>

Clients == Walkers \cup Checkers

-----------------------------------------------------------------------------
\* Mutant: a full last page is followed by an empty one.
EmptyPageMutant(n) == n \div N + 1

MaxPage(n) == IF n = 0 THEN 1 ELSE Pages(n)

\* Mutant: OFFSET page * N.
OffsetMutant(S, page) ==
    {id \in S : Cardinality({j \in S : j > id})
                   \in page * N .. (page + 1) * N - 1}

\* ORDER BY id DESC LIMIT N OFFSET (page - 1) * N
Page(S, page) ==
    {id \in S : Cardinality({j \in S : j > id})
                   \in (page - 1) * N .. page * N - 1}

\* The request of a client: "count" and "select" name the next statement.
\* cnt and maxPage are the locals of getHistory, rows and status its answer.
Get == [pc : {"idle", "count", "select", "answer"},
        channel : Channels \cup {0}, page : Nat, cnt : Nat, maxPage : Nat,
        rows : SUBSET Nat, status : {0, 200, 400}]

NoGet == [pc |-> "idle", channel |-> 0, page |-> 0, cnt |-> 0, maxPage |-> 0,
          rows |-> {}, status |-> 0]

\* page < 1 is refused before anything is counted.
GetHistory(c, page) ==
    IF page >= 1
    THEN [NoGet EXCEPT !.pc = "count", !.channel = c, !.page = page]
    ELSE [NoGet EXCEPT !.pc = "answer", !.channel = c, !.status = 400]

CountRows(b) ==
    LET G == get[b]
        cnt == Cardinality(log[G.channel])
    IN  /\ G.pc = "count"
        /\ get' = [get EXCEPT ![b] =
                     IF G.page > MaxPage(cnt)
                     THEN [G EXCEPT !.pc = "answer", !.status = 400]
                     ELSE [G EXCEPT !.pc = "select", !.cnt = cnt,
                                    !.maxPage = MaxPage(cnt)]]
        /\ UNCHANGED <<log, walk, check, ledger>>

SelectPage(b) ==
    LET G == get[b]
    IN  /\ G.pc = "select"
        /\ get' = [get EXCEPT ![b] =
                     [G EXCEPT !.pc = "answer", !.status = 200,
                               !.rows = Page(log[G.channel], G.page)]]
        /\ walk' = IF b \in Walkers
                   THEN [walk EXCEPT ![b].raced =
                           Cardinality(log[G.channel]) # G.cnt]
                   ELSE walk
        /\ UNCHANGED <<log, check, ledger>>

-----------------------------------------------------------------------------
(***************************************************************************)
(* A walk from the newest page to the oldest, one link at a time.  start   *)
(* are the messages visible when it began, raced says that messages became *)
(* visible between the two statements of the page last shown, purged that  *)
(* /initialize came in between; all three are history.                     *)
(***************************************************************************)
Walk == [pc : {"ready", "walking", "end"}, start : SUBSET Nat,
         seen : SUBSET Nat, raced : BOOLEAN, purged : BOOLEAN]

NoWalk == [pc |-> "ready", start |-> {}, seen |-> {}, raced |-> FALSE,
           purged |-> FALSE]

\* Clients read and leave each other alone: how many do so is only a bound.
Busy == {w \in Walkers : walk[w].pc # "ready"}
          \cup {k \in Checkers : check[k].pc # "ready"}

StartWalk(w, c) ==
    /\ walk[w].pc = "ready"
    /\ Cardinality(Busy) < MaxBusy
    /\ walk' = [walk EXCEPT ![w] = [NoWalk EXCEPT !.pc = "walking",
                                                  !.start = log[c]]]
    /\ get' = [get EXCEPT ![w] = GetHistory(c, 1)]
    /\ UNCHANGED <<log, check, ledger>>

\* Mutant: the last page has a link to the next one, too.
AlwaysLinkMutant(w) ==
    LET G == get[w]
    IN  /\ G.pc = "answer" /\ G.status = 200
        /\ walk' = [walk EXCEPT ![w].seen = @ \cup G.rows]
        /\ get' = [get EXCEPT ![w] = GetHistory(G.channel, G.page + 1)]
        /\ UNCHANGED <<log, check, ledger>>

\* The page has the link to the next one unless it is the last.
Follow(w) ==
    LET G == get[w]
    IN  /\ G.pc = "answer" /\ G.status = 200
        /\ IF G.page # G.maxPage
           THEN /\ walk' = [walk EXCEPT ![w].seen = @ \cup G.rows]
                /\ get' = [get EXCEPT ![w] = GetHistory(G.channel, G.page + 1)]
           ELSE /\ walk' = [walk EXCEPT ![w].seen = @ \cup G.rows,
                                        ![w].pc = "end"]
                /\ get' = [get EXCEPT ![w] = NoGet]
        /\ UNCHANGED <<log, check, ledger>>

\* The walker has read enough, or was shown an error.
Leave(w) ==
    /\ walk[w].pc # "ready"
    /\ walk' = [walk EXCEPT ![w] = NoWalk]
    /\ get' = [get EXCEPT ![w] = NoGet]
    /\ UNCHANGED <<log, check, ledger>>

-----------------------------------------------------------------------------
(***************************************************************************)
(* CheckGetHistory follows pages at random or from the last one on,        *)
(* LoadGetHistory some pages at random.  FollowModeHead has no caller.     *)
(* The pages are opened one after the other; the order does not matter to  *)
(* the checks and is left open.                                            *)
(***************************************************************************)
Modes == {"random", "tail", "load"}

SomeOf(M, k) ==
    {S \in SUBSET (1 .. M) : Cardinality(S) = IF M < k THEN M ELSE k}

RandomPages(M) == SomeOf(M, MaxFollow)

\* From the last page down; the loop ends below page 0, not below page 1.
TailPages(M) == {{i \in 0 .. M : i + MaxFollow > M}}

LoadPages(M) == UNION {SomeOf(M, k) : k \in 1 .. LoadFollow}

Followed(mode, M) == CASE mode = "random" -> RandomPages(M)
                       [] mode = "tail" -> TailPages(M)
                       [] mode = "load" -> LoadPages(M)

\* "play": the bound is read, Play not yet entered; "first" and "page" wait
\* for an answer; "fatal": the page is blamed.
Check == [pc : {"ready", "play", "first", "follow", "page", "fatal"},
          mode : Modes, channel : Channels \cup {0}, minCnt : Nat,
          maxPage : Nat, pages : SUBSET Nat]

NoCheck == [pc |-> "ready", mode |-> "random", channel |-> 0, minCnt |-> 0,
            maxPage |-> 1, pages |-> {}]

\* preTest runs before anything is posted.  LoadGetHistory reads no bound.
StartCheck(k, c, mode) ==
    /\ check[k].pc = "ready"
    /\ Cardinality(Busy) < MaxBusy
    /\ mode = "tail" => /\ c \in TailChannels
                        /\ sent[c] = Cardinality(InitialLog[c])
    /\ check' = [check EXCEPT ![k] =
                   [NoCheck EXCEPT !.pc = "play", !.mode = mode, !.channel = c,
                                   !.minCnt = IF mode = "load" THEN 0
                                              ELSE complete[c]]]
    /\ UNCHANGED <<log, get, walk, ledger>>

\* The check goes on to the pages; it returns when no message was complete.
Goes(C, M) ==
    IF C.minCnt = 0 /\ C.mode # "load" THEN {NoCheck}
    ELSE {[C EXCEPT !.pc = "follow", !.maxPage = M, !.pages = S] :
          S \in Followed(C.mode, M)}

\* Play sends nothing once the context is done, and maxPage stays 1.
PlayFirst(k) ==
    LET C == check[k]
    IN  /\ C.pc = "play"
        /\ IF done
           THEN /\ \E D \in Goes(C, 1) : check' = [check EXCEPT ![k] = D]
                /\ UNCHANGED get
           ELSE /\ check' = [check EXCEPT ![k].pc = "first"]
                /\ get' = [get EXCEPT ![k] = GetHistory(C.channel, 1)]
        /\ UNCHANGED <<log, walk, ledger>>

\* validateHistoryPagination: the last number is the number of pages, and a
\* single page has no arrows.
Arrows(G) == G.page # 1 \/ G.page # G.maxPage
PaginationValid(G) == G.maxPage = 1 => ~Arrows(G)

AtLeastOne(n) == IF n = 0 THEN 1 ELSE n

\* The CheckFunc of the first page; it reads msgCntMax after the answer.
FirstAnswered(k) ==
    LET C == check[k]
        G == get[k]
        valid == /\ PaginationValid(G)
                 /\ Pages(AtLeastOne(C.minCnt)) <= G.maxPage
                 /\ G.maxPage <= Pages(AtLeastOne(sent[C.channel]))
    IN  /\ C.pc = "first" /\ C.mode # "load"
        /\ G.pc = "answer" /\ G.status = 200
        /\ get' = [get EXCEPT ![k] = NoGet]
        /\ IF valid
           THEN \E D \in Goes(C, G.maxPage) : check' = [check EXCEPT ![k] = D]
           ELSE check' = [check EXCEPT ![k].pc = "fatal"]
        /\ UNCHANGED <<log, walk, ledger>>

\* LoadGetHistory takes the number of pages as it is.
LoadFirstAnswered(k) ==
    LET C == check[k]
        G == get[k]
    IN  /\ C.pc = "first" /\ C.mode = "load"
        /\ G.pc = "answer" /\ G.status = 200
        /\ get' = [get EXCEPT ![k] = NoGet]
        /\ \E D \in Goes(C, G.maxPage) : check' = [check EXCEPT ![k] = D]
        /\ UNCHANGED <<log, walk, ledger>>

PlayPage(k, page) ==
    LET C == check[k]
    IN  /\ C.pc = "follow" /\ page \in C.pages
        /\ IF done
           THEN /\ check' = [check EXCEPT ![k].pages = @ \ {page}]
                /\ UNCHANGED get
           ELSE /\ check' = [check EXCEPT ![k].pages = @ \ {page},
                                          ![k].pc = "page"]
                /\ get' = [get EXCEPT ![k] = GetHistory(C.channel, page)]
        /\ UNCHANGED <<log, walk, ledger>>

\* The CheckFunc of a followed page.  Only the page that was the last when
\* the check began may show fewer than N messages.
PageAnswered(k) ==
    LET C == check[k]
        G == get[k]
        shown == Cardinality(G.rows)
        valid == /\ PaginationValid(G)
                 /\ IF G.page = C.maxPage THEN shown \in 1 .. N ELSE shown = N
    IN  /\ C.pc = "page" /\ C.mode # "load"
        /\ G.pc = "answer" /\ G.status = 200
        /\ get' = [get EXCEPT ![k] = NoGet]
        /\ check' = [check EXCEPT ![k].pc = IF valid THEN "follow" ELSE "fatal"]
        /\ UNCHANGED <<log, walk, ledger>>

LoadPageAnswered(k) ==
    /\ check[k].pc = "page" /\ check[k].mode = "load"
    /\ get[k].pc = "answer" /\ get[k].status = 200
    /\ get' = [get EXCEPT ![k] = NoGet]
    /\ check' = [check EXCEPT ![k].pc = "follow"]
    /\ UNCHANGED <<log, walk, ledger>>

\* Mutant: the check gives up and its request goes on.
RequestKeptMutant(k) ==
    /\ check[k].pc \in {"first", "page"}
    /\ check' = [check EXCEPT ![k] = NoCheck]
    /\ UNCHANGED <<log, get, walk, ledger>>

\* Every page was followed, or a request failed, or was answered with another
\* status than 200: Play returns an error then and no CheckFunc runs.
EndCheck(k) ==
    LET C == check[k]
    IN  /\ \/ C.pc = "follow" /\ C.pages = {}
           \/ C.pc \in {"first", "page"}
        /\ check' = [check EXCEPT ![k] = NoCheck]
        /\ get' = [get EXCEPT ![k] = NoGet]
        /\ UNCHANGED <<log, walk, ledger>>

-----------------------------------------------------------------------------
(***************************************************************************)
(* Posts, as the ledger of the benchmarker counts them: announced, perhaps *)
(* stored, complete; after the end of the run complete though never sent.  *)
(* The ids of a channel stand for its stored messages.                     *)
(***************************************************************************)
Counts == INSTANCE MessageCounts
            WITH InitialCount <- [c \in Channels |-> Cardinality(InitialLog[c])],
                 stored <- [c \in Channels |-> Cardinality(log[c])]

Announce(c) ==
    /\ sent[c] < Cardinality(InitialLog[c]) + MaxPosts
    /\ UNCHANGED <<log, get, walk, check>>
    /\ Counts!Announce(c)

PostStored(c, id) ==
    /\ Store(c, id)
    /\ UNCHANGED <<get, walk, check>>
    /\ Counts!Store(c)

Complete(c) ==
    /\ UNCHANGED <<log, get, walk, check>>
    /\ Counts!Complete(c)

Deadline ==
    /\ UNCHANGED <<log, get, walk, check>>
    /\ Counts!Deadline

\* requestInitialize of the next run, with a new ledger.
Initialize ==
    /\ \A k \in Checkers : check[k].pc = "ready"
    /\ Purge
    /\ walk' = [w \in Walkers |->
                  IF walk[w].pc = "walking"
                  THEN [walk[w] EXCEPT !.purged = TRUE] ELSE walk[w]]
    /\ sent' = [c \in Channels |-> Cardinality(InitialLog[c])]
    /\ complete' = sent'
    /\ done' = FALSE
    /\ UNCHANGED <<get, check>>

Init ==
    /\ TableInit
    /\ get = [b \in Clients |-> NoGet]
    /\ walk = [w \in Walkers |-> NoWalk]
    /\ check = [k \in Checkers |-> NoCheck]
    /\ Counts!CountsInit

Next ==
    \/ \E b \in Clients : CountRows(b) \/ SelectPage(b)
    \/ \E w \in Walkers : \/ \E c \in Channels : StartWalk(w, c)
                          \/ Follow(w) \/ Leave(w)
    \/ \E k \in Checkers :
         \/ \E c \in Channels, mode \in Modes : StartCheck(k, c, mode)
         \/ PlayFirst(k) \/ FirstAnswered(k) \/ LoadFirstAnswered(k)
         \/ \E page \in check[k].pages : PlayPage(k, page)
         \/ PageAnswered(k) \/ LoadPageAnswered(k)
         \/ EndCheck(k)
    \/ \E c \in Channels : \/ Announce(c) \/ Complete(c)
                           \/ \E id \in InitialMessages + 1 .. MaxId :
                                PostStored(c, id)
    \/ Deadline \/ Initialize

Spec == Init /\ [][Next]_vars

-----------------------------------------------------------------------------
HistoryTypeOK ==
    /\ log \in [Channels -> SUBSET (Nat \ {0})]
    /\ get \in [Clients -> Get]
    /\ \A b \in Clients : get[b].pc = "select" =>
                             get[b].page \in 1 .. get[b].maxPage
    /\ walk \in [Walkers -> Walk]
    /\ check \in [Checkers -> Check]
    /\ \A w \in Walkers : get[w].pc # "idle" <=> walk[w].pc = "walking"
    /\ \A k \in Checkers :
         get[k].pc # "idle" <=> check[k].pc \in {"first", "page"}
    /\ sent \in [Channels -> Nat]
    /\ complete \in [Channels -> Nat]
    /\ done \in BOOLEAN

(***************************************************************************)
(* Posts push messages from one page to the next while somebody reads      *)
(* (getHistory, history.html).  Who follows the links from the first page  *)
(* to the last is shown every message that was visible at the start,       *)
(* except when a post becomes visible between COUNT and SELECT of the last *)
(* page: then that page does not know that another one follows.            *)
(***************************************************************************)
WalkExplained ==
    \A w \in Walkers :
       walk[w].pc = "end" /\ ~walk[w].raced /\ ~walk[w].purged
          => walk[w].start \subseteq walk[w].seen

(***************************************************************************)
(* The link to the next page is never answered by 400, though the pages    *)
(* are counted again by each request, unless /initialize came in between   *)
(* (getHistory, history.html).                                             *)
(***************************************************************************)
LinksWork ==
    \A w \in Walkers :
       get[w].status = 400 => walk[w].purged

(***************************************************************************)
(* CheckGetHistory blames no application that stores what it acknowledges, *)
(* for too many or too few pages or for the number of messages on a page,  *)
(* and neither it nor LoadGetHistory asks for a page that does not exist,  *)
(* whatever is posted between its requests.                                *)
(***************************************************************************)
NoBlame == \A k \in Checkers : check[k].pc # "fatal" /\ get[k].status # 400
=============================================================================
