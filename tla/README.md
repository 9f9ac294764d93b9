# Verification of Isubata (isucon7-qualify)

The repository holds a chat application, Isubata, and the benchmarker that
drives and judges it. This directory holds TLA+ modules of the Go reference
implementation (`webapp/go/src/isubata/app.go`), of the page script
(`webapp/public/js/chat.js`) and of the benchmarker (`bench/src`), TLC
configurations, and TLAPS proofs. `PROJECT.json` lists for every definition the
lines it models, for every property the run that checks it and the mutation of
the code it catches, and the hazards the properties are aimed at.

## Inventory

| component | code | state | operations |
|---|---|---|---|
| Message service | `app.go`, `db/isubata.sql` | tables `user`, `channel`, `message`, `haveread`; a goroutine per request | `POST /register`, `/add_channel`, `/message`; `GET /message`, `/fetch`, `/history/:id`, `/initialize` |
| Accounts, profiles, icons | `app.go` | tables `user`, `image`; the session cookie | `register`, `login`, `logout`, `profile`, `icons` |
| Chat page | `chat.js` | `last_message_id`, `loading`, the timeline | first load, 10 ms timer, `/fetch` and `/message` callbacks, send |
| Message ledger | `bench/structure.go` | `msgMap`, `msgCntMin`, `msgCntMax` | `AddSendMessage` and the function it returns, `SnapshotMessageCount`, `ValidateJsonMessage`, `ValidateHistoryMessage` |
| User and channel pool | `bench/structure.go` | `users`, `newUsers`, `checkerMap`, channel id lists | pop, push, distribute |
| Checker | `bench/checker.go`, `urlcache` | request tokens, cookie jar, caches, the shared error list and host counts | `Play`, `OnError`, `getFreeHostId` |
| Scenarios | `bench/scenario.go` | local | load functions and checks |
| Benchmark run | `cmd/bench/bench.go` | context, result, load level | `requestInitialize`, `preTest`, `validationMain`, `benchmarkMain`, `startBenchmark` |
| Worker mode | `cmd/bench/workermode.go` | the job in hand, a child process | get a job, run it, post the result |
| Data set tools | `dataset.go`, `gen-initial-dataset`, `update` | files | offline |
| Ports | Python, Node, Ruby, Perl, PHP | as `app.go` | as `app.go` |

Interactions. The page and the benchmarker call the web application over HTTP.
The handlers of the application share nothing but the database; none opens a
transaction. The goroutines of the benchmarker share the ledger, the pools and
the error list, each under a mutex, and the context of the run.

What is hard here, and what correctness means:

* *Message service.* Autocommitted statements of different requests interleave.
  `GET /message` selects, then reads the authors, then upserts `haveread`:
  ids must stay unique, a mark must name a message that was visible, a mark may
  move back only for a reason that can be named, and every visible message must
  keep an author, or its whole channel answers 500.
* *Chat page.* Callbacks, lost answers, reloads, two tabs of one user. A page
  shows each message once, in order, without a hole, and comes to know every
  message; the read mark does not run ahead of what the user was sent.
* *Ledger.* A check must never blame the application for what it cannot know:
  the bounds have to be right while posts are out, time out, are stored late, and
  while the run ends.
* *History pages.* A page is counted and selected by two statements, links and
  checks rely on a count that is already old: what may somebody who follows the
  links miss, and can a check blame a correct page?
* *Benchmark run.* Deadline, errors and phases race: when may a run pass, when
  does load start, does it end?
* *Accounts.* A session is a cookie with an id, a profile is two UPDATEs and an
  image: whom may a session name after `/initialize`, what may an icon name, is a
  profile that of one post?
* *Pool and checkers.* Scenarios borrow users, their goroutines outlive them,
  requests are given up and executed later, tokens are held by nested requests:
  is a user in two hands, do users drain, does anybody wait for ever, whom does a
  wrong status blame?
* *Message scenario.* Every count must be exact, on the premise that nothing runs
  in parallel: does that hold against an application that is right?
* *Worker.* A job, a child process, a watchdog, a result: is what it reports true,
  what loses a job, does a run end?

## Modules

### `Chat` - the message service

One step is one SQL statement. `handler[h]` is a goroutine: `pc` names its next
statement, the other fields are the local variables that later statements use
(`rows` the messages selected or inserted, `last` the mark read by `queryHaveRead`,
`todo` and `unread` the channels of `fetchUnread` still to count and counted).
`INSERT INTO message` is two steps, `InsertMessage` (InnoDB hands out the
AUTO_INCREMENT value) and `CommitMessage` (the row becomes visible), so that ids
may become visible out of order. Reading the authors of an answer is one step:
users only disappear, so the last read decides. `StatementFails` ends a handler
with what it has done so far.

| definition | code |
|---|---|
| `PostMessage`, `InsertMessage`, `CommitMessage` | `postMessage`, `ensureLogin`, `addMessage` |
| `GetMessage`, `JsonifyMessage`, `UpsertHaveread` | `getMessage`, `queryMessages`, `jsonifyMessage` |
| `FetchUnread`, `QueryHaveRead`, `CountUnread` | `fetchUnread`, `queryChannels`, `queryHaveRead` |
| `GetInitialize`, `DeleteUser` .. `DeleteHaveread` | `getInitialize` |
| `PostRegister`, `PostAddChannel` | the one statement of `postRegister`, `postAddChannel` that matters here |

`base` and `raced` are history variables: the mark as it was when a reader selected
its messages, and the users whom `/initialize` deleted while a post of theirs was
accepted and not yet stored.

Abstracted: message texts, names, dates, the one-second sleep of `/fetch`, parse
errors of form values (they return before any statement). A channel id in a
request is any id of `Channels`, whether or not the channel has a row: the code
does not look. Users are named by the session cookie, so any id ever issued.

### `ChatTab` - the chat page on top of `Chat`

`ChatTab` extends `Chat` and runs `chat.js` in several tabs against its handlers.
`requests` are the handlers a callback of the page waits for; `fetched` says that
the callback of `/fetch` saw unread messages and `get_message` is about to be sent.
`Open` is a first load or a reload, which forgets the callbacks of the old page
while its handlers run on. `RequestLost` and `Refused` are requests whose
`success` callback never runs. `late`, `lost` and `failed` are history variables
for the exceptions the properties name. `TabsAssumption` names what the code's
constants are and the proofs need: a page keeps no more messages than `LIMIT`.

### `ChatTimeline` - what a page promises

Over `MessageTable`, with no word of requests and timers: a page shows up to `Trim`
messages of its channel in order and knows of messages up to a newest one. It is emptied
by a reload (`Reload`) or learns of a newer message (`Learn`): it then shows that one and
all others of the channel that it did not know, but for those that have no place on a
full page and those that became visible after a newer message (`late`). `ChatTab`
implements it (`ImplementsTimeline`: an instance of `ChatTimeline` whose `shown` and
`known` are `timeline` and `last_message_id` of the tabs).

### `MessageLedger` - the benchmarker's ledger

`AddSendMessage`, `PlayPost`, `PostAnswered` or `PostFails`, and `Complete` are the
steps of one post; `SnapshotMin`, `PlayFetch`, `CountUnread`, `FetchAnswered`,
`CheckUnread` those of `CheckFecthUnreadCount`; `PlayMessage`, `MessageAnswered`,
`ValidateJsonMessage` those of a reading load user. `Play` returns `nil` without a
request once the context is done. The application is external: it stores a post at
most once, before it answers, and perhaps after the client gave up.

### `MessageCounts` - what the ledger promises

Per channel three counters that only grow: messages announced (`msgCntMax`), rows
stored, messages completed (`msgCntMin`). A row is stored after it was announced, and
its message completed after it was stored or when the run is done. `MessageLedger`
implements it (`ImplementsCounts`: an instance of `MessageCounts` whose `stored` is the
number of stored messages per channel); `History` takes its posts from it.

### `MessageTable` - what the table `message` promises

Per channel a set of ids: `Store` adds one that is not there, `Purge` is the
`DELETE` of `/initialize`. `Chat` implements it (`ImplementsTable`: an instance of
`MessageTable` in which `log[c]` is the set of ids of the visible rows of `c`); the
modules that only read messages build on it instead of on `Chat`.

### `History` - the history pages and who reads them

`History` extends `MessageTable`. `get[b]` is a request of client `b` inside
`getHistory`, with `CountRows` and `SelectPage` for its two statements. `Walkers`
follow the link to the next older page (`history.html`) from the first page to the
last; `Checkers` run `CheckGetHistory`, at random or from the last page on, or
`LoadGetHistory`. `sent` and `complete` are the counters of the ledger; posts are the
steps of `MessageCounts`, joined with `Store` of `MessageTable`. `Initialize` begins the next run, with a new ledger, once
the checks have returned; posts of the last run that are stored after it are left
out. `raced` and `purged` are history variables for the exceptions
of `WalkExplained`. Abstracted: authors, texts, avatars and dates on a page
(`ValidateHistoryMessage` asks of them what `ValidateJsonMessage` does), the order
in which a check opens its pages. A message without author answers 500; when that
can be is `OrphanExplained` of `Chat`.

The tail mode of `CheckGetHistory` counts down to page 0, which `getHistory`
answers with 400. It does no harm because `preTest` uses it on channel 1, which has
some 50 pages, and on a channel without messages; `HistoryAssumption` states that,
and without it `NoBlame` fails.

### `BenchRun` - a run of the benchmarker

`pc` is the phase of `startBenchmark`. A check is one `Play` with three outcomes
(nil, error, fatal error); `Skip` is the `Play` that finds the context done.
`CheckMessageScenario`, the last check of `preTest` and of `validationMain`
(`InScenario`), is the only one with goroutines of its own: each of its three may fail
(`Meets`; `met` holds the kinds of `err1`, `err2` and `err3`), and after `wg.Wait` the
check returns one of these errors (`Finish`). `masked` is a history variable: it returned
a plain error in place of a fatal one.

`bench` and `load` are the goroutines of `benchmarkMain`. `errors` holds every error
that `Play` recorded, with its kind, who recorded it, whether the context was done
(`late`) and whether it is in `checkerErrors` (`listed`); `guard` is the flag that shuts
that list, `result.errors` what the result lists of it. `Deadline` may happen at any
moment after `requestInitialize`. Left out: the score formula, `preTestOnly`, the rule
that a level up needs five seconds without an error (any tick may or may not raise the
level). In `validationMain`, `for r := range rand.Perm(8)` ranges over the indices, so
the checks always run in the order 0 to 7; the model depends only on
`CheckMessageScenario` being the last one.

### `Accounts` - users, sessions, profiles

One step is one SQL statement of `postRegister`, `postLogin`, `ensureLogin`,
`postProfile` or `getInitialize`; `req[r]` is a request with its form, the session it was
sent with (`sess`) and the session its answer sets (`set`, `Keep` for none). The
session lives in the cookie alone, so it changes when an answer reaches the browser
(`Receive`), in any order, or not at all. `None` as a client is a browser that is
not followed.

| definition | code |
|---|---|
| `InsertUser`, `SelectUser`, `Grant` | `register` and `postRegister`, `postLogin`, `sessSetUserID` |
| `EnsureLogin`, `AfterLogin` | `ensureLogin`, `getUser`, the checks of the file in `postProfile` |
| `InsertImage`, `UpdateIcon`, `UpdateDisplay` | the three statements of `postProfile` |
| `DeleteUser`, `DeleteImage` | the first two statements of `getInitialize` (the others are in `Chat`) |
| `Entry`, `IconFound` | the routes of `main`, `getIcon` |

`granted` (accounts a browser logged in to), `raced` and `torn` are history
variables. Icon and display name of one post are the same value, so "of one post" is
an equality. Abstracted: password hashes (right or wrong), the hash that names a
picture (a member of `Pictures`), content types, the pages that only read. MySQL is
taken not to restart: InnoDB before version 8 forgets AUTO_INCREMENT then, and
`SessionOwn` needs that ids are not used again.

### `Scenarios` - users, checkers and the scenarios that borrow them

A scenario is a sequence of `Play`s (`Script`), each with its user, its request and the
answers it accepts; runs of `Play`s that differ in nothing that is modelled are one.
`run[r]` is the scenario of a goroutine: `Main` runs the checks of `preTest` and
`validationMain` one after the other, `Loaders` are the goroutines of `choiceLoadFunc`,
`Writers` and `Readers` those of `LoadReadWriteUser` and `LoadReadOnlyUser`; `poll[w]`
is the polling goroutine of a writer and `asset` a `loadStaticFile`.

| definition | code |
|---|---|
| `PopRandomUser`, `PopNewUser`, `Pushed` | the functions of `State`; the deferred or final `push()` of each scenario |
| `Enter`, `Answered`, `Judged`, `GivesUp`, `SkipPlays`, `Return` | `Checker.Play`, its callers' `if err != nil` |
| `InnerEnter`, `InnerEnds` | the `Play` inside the `CheckFunc` of `checkSelfProfile` and `checkOtherProfile` |
| `PollStart` .. `PollFailed` | the select loop and the goroutine of `LoadReadWriteUser` |
| `LoggedIn`, `Answer`, `JarAfter`, `Execute`, `LateExecute` | the application as `Accounts` has it; it may execute a request that was given up |

The model runs the checks in any order (in `validationMain`, `for r := range
rand.Perm(8)` ranges over the indices, so the program's order is fixed). Left out: the
channel id lists, the caches, the choice of a host, what HTML pages contain beside
the profile, and `CheckFecthRegisterAndLogin`, which runs once before the load on a
user that it never pushes. A request that is given up leaves the cookie jar alone.

### `MessageScenario` - the counts that must be exact

`CheckMessageScenario`, round after round, with three users of the pool: `FirstGet`,
`FirstFetch` and `Join` are its three goroutines and their `wg.Wait`, then
`PostMessage`, `SecondFetch` (`checkPlusOne`), `ReadMessage` (`checkMsg`) and `History`.
`late` are requests the benchmarker gave up and the application still executes;
`GET /message` among them in two statements, `SELECT` and upsert. Initially it may hold
the `GET /message` of a polling goroutine that outlived its scenario. `disturbed`
records what late requests did in this round. After the deadline a `Play` does
nothing, so the deadline is left out.

### `Worker` - worker mode

`pc` is the place in the loop of `runWorkerMode`. `readers`, `waiting` and `watch[j]` are
the goroutines of a run and its timer function, which may go on after the run; `child`
and `file` are the child process and its output. `GetError` is an answer of the
portal that is not a job and decodes to the zero `Job`. `broken` and `trouble` are
history variables. The pauses between requests are left out, and the watchdog may
fire at any time of a run. Each run has a context of its own (`workermode.go:171`), so the
`Cancel` of a timer function that goes on after its run kills nothing; what it may still
do is to write its dump into `logbuf` while the loop copies `logbuf` to the log file
(`LogbufRace`).

## Runs

| run | instance | what it shows |
|---|---|---|
| `chat` | 2 users (1 of the data set), 1 channel, 2 handlers, ids up to 3, `LIMIT` 2 | `TypeOK`, `MarksInv`, `OrphanExplained`, `RegressExplained`, `ImplementsTable` |
| `chat_faults` | 1 user, 2 channels, failing statements | `RegressExplained` |
| `tab_safety` | 2 tabs of one user on one channel, 2 openings, ids up to 4, `LIMIT` = `Trim` = 2, lost requests, failing statements | `TabTypeOK`, `NoHole`, `MarkDelivered`, `ImplementsTimeline` |
| `tab_live` | 2 tabs of two users, ids up to 3, lost requests | `EventuallyKnown` |
| `ledger` | 2 channels, 2 texts, 1 message in the data set, 2 writers, 2 readers | `LedgerTypeOK`, `LedgerInv` (with `Bracket`), `NoFalseAlarm` |
| `history` | a channel with 3 messages and an empty one, 2 messages on a page, 2 posts to each channel, ids up to 6, a walker or a check in any mode at a time | `HistoryTypeOK`, `WalkExplained`, `LinksWork`, `NoBlame` |
| `bench_run` | 2 load goroutines, 2 channels to add, 2 checks per phase, fair | `RunTypeOK`, `NoLoadAfterPreTestError`, `OnlyLastFatal`, `ResultListsErrors`, `EndsOrStuckAddingChannels` |
| `bench_endless` | the same | `Terminates` is violated, see Findings |
| `worker` | 1 job, error answers, fair | `WorkerTypeOK`, `ResultsTrue`, `LossExplained`, `EndsOrMute` |
| `scenarios` | 3 users and a new one, checks, a writer, a load goroutine, 2 tokens, 2 scenarios begun by checks and load goroutines | `ScenariosTypeOK`, `OneOwner`, `PooledReady`, `BlameExplained`, `CrashExplained`, `SomeoneAnswers` |
| `message_scenario` | 3 users, 2 rounds, 3 messages, 1 late request at a time | `MessageScenarioTypeOK`, `FatalExplained` |
| `accounts` | a followed browser and others, 2 requests at a time, 2 names (1 of the data set), 1 picture, ids up to 3 | `AccountsTypeOK`, `SessionOwn`, `DanglingExplained`, `ProfileTogether`, `SessionKept` |

Bounds. Two handlers are enough for every race of two statements sequences (a
reader and a reader, a reader and a post, a post and `/initialize`); three ids with
one in the data set give two concurrent posts. Four ids and `LIMIT` 2 let two
posts fall between two answers of a page with one message, the case in which a
page of more than `LIMIT` messages would have a hole. Two texts in two channels
let writers draw the same text in the same channel, in different channels, or not.
In `history` two posts take a channel from two pages to three and can push a
message off a last page between `COUNT` and `SELECT`; one client reads at a time
(`MaxBusy`), for readers change nothing that another one reads.
In `scenarios` three users are what `CheckMessageScenario` pops, so one that a load
goroutine holds empties the pool; two tokens are what a nested `Play` needs, so a
poll or an asset can make it wait; two scenarios begun beside the writer's let a user
be logged out by one owner while a poll of the last one is out. Users of the pool are
interchangeable (symmetry). No `LoadReadOnlyUser` runs in the instance: it is
`LoadReadWriteUser` without its posts and polls. In `message_scenario` two rounds let
a request of the first disturb the second; a mark that moves back in the channel of
the round takes a third round, so of the two reasons for A and B only the late post
occurs. In `accounts` ids up to 3 let two users register with an `/initialize`
between them, and an image be stored before it and after it. In `bench_run` two checks
per phase are one that returns its own error and `CheckMessageScenario`. In `worker` one job and a
run of job 0 (a second one only once the timer of the first was stopped) are the two
runs whose timer functions can overlap.
`MaxMessage`, `MaxId`, `MaxPosts`, `MaxOpens`, `MaxChannels`, `MaxDraws`, `MaxRounds`,
`MaxRows`, `MaxLate`, `MaxUser`, `MaxImage`, `Handlers`, `Slots` and `Loads` bound what
the code leaves unbounded; `DBFaults` and `NetworkFaults` switch failures.

Deadlock is checked in `chat`, `chat_faults`, `ledger` and `history`. Elsewhere the system
may stop: a page whose request failed never acts again, a run and its scenarios end
with the deadline, the benchmarker or the worker may crash, and the bounds on
scenarios, rounds and ids end the rest.

Fairness. `ChatTab.Fairness`: the server runs every statement and answers, the
timer keeps firing, callbacks run (weak fairness of each), and a request of a page
finds a goroutine in the end (strong fairness of `SendGet`, since other requests
may occupy the few handlers of the model again and again; `net/http` starts a
goroutine for each). `BenchRun.FairSpec`: the main goroutine runs (each `Play`
ends, all requests have timeouts) and the deadline passes (`context.WithTimeout`).
`Worker.FairSpec`: the worker's goroutines and its timer run. Nothing is asked of the
portal or of the child, which need not answer, send all of its dump, or end; when it has
ended, a request to its port fails and a dump from it is at its end.
No user, fault or load goroutine is assumed to do anything.

## Findings

* `Terminates`: when the context ends while `preTest` adds channels, its loop spins
  for ever. `EndsOrStuckAddingChannels` shows that this is the only such place.

Behaviour worth knowing, which the passing properties name as an exception:

* `BenchRun`: three kinds of fatal errors cost nothing, listed or not: those of
  load goroutines, that of the last validation check of the run, since
  `startBenchmark` asks `ctx.Err()` first, and one that a goroutine of
  `CheckMessageScenario` met while another met a plain error, since only the first of
  `err1`, `err2` and `err3` is returned and `validationMain` overlooks a plain one;
  `OnlyLastFatal` shows that no other fatal error is lost. When the context ends inside
  `preTest`, its remaining checks return nil without a request and the run passes,
  though no load follows either.
* `Scenarios`: the poll of a writer whose post failed goes on with a user that belongs
  to somebody else, and gets a 403 when that one logs it out (`BlameExplained`); with
  fewer than three users in the pool `CheckMessageScenario` may crash the process
  (`CrashExplained`).
* `MessageScenario`: a request that timed out and is executed in a later round makes a
  correct application fail with a fatal error (`FatalExplained`).
* `Accounts`: after `/initialize` the icon of an initial user may name no image; two
  posts of a profile may mix (`ProfileTogether`).
* `Worker`: a result that the portal does not receive is lost with its job
  (`LossExplained`), and a child that ignores the request for its dump, or stalls while
  it sends the dump, is never killed: neither `http.Get` nor `io.Copy` has a timeout
  (`EndsOrMute`).

And in `Chat` and `ChatTab` each of
`RegressExplained`, `OrphanExplained`, `NoHole` and `MarkDelivered` names an
exception, and the exceptions do happen. Two overlapping reads can move a mark
back; a post that overlaps `/initialize` can leave a message without an author,
after which its channel answers 500; a message that becomes visible after a newer
one is never shown to a page that knows the newer one. And `EventuallyKnown` needs
`Sole`: of two tabs of one user on one channel, one may never learn of a message.

## Proofs

`ChatProofs`, theorem `TypeCorrect`: `Spec => []TypeOK` for every set of users,
channels and handlers, any data set and any bound, from `SetsAssumption`,
`NumbersAssumption` and `RowsAssumption`. `TypeOK` is inductive because it carries,
beside the types, that `message` is finite and that a handler knows its user, its
channel and its row wherever the next statement needs them (`Addressed`). Every
step replaces one handler record; `HandlerStep` reduces each action to showing
the new record well formed, and `AddressedWellFormed`, `QuietWellFormed` and
`ReplyWellFormed` do that for the three kinds of record.

`ChatProofs`, theorem `MarksCorrect`: `Spec => []MarksInv`. `MarksInv` is inductive
together with `TypeOK`; each of its parts needs the one before. `FreshIds` (an id
that AUTO_INCREMENT gave away is given to no other row, visible or pending) makes
the step of `CommitMessage` safe for `SeenOnly` (nobody holds the id of a row that
is not yet visible), and both give `BaseDeleted`: a reader that starts from a mark
and gets only older messages can only have found the row of that mark deleted,
because `LIMIT` keeps the newest rows (lemma `NewestUpward`). The steps fall into
six kinds, each with a lemma: `QuietStep` (the handler of the step holds no row
afterwards), `InsertStep`, `CommitStep`, `ReadStep` (the `SELECT`), `ReadOnStep`
(the next statement of a reader) and `ReplyStep`.

`ChatProofs`, theorem `RegressCorrect`: `Spec => RegressExplained`. Only two
statements write `haveread` (lemma `WhoWritesMarks`): `DELETE FROM haveread` is the
first exception of `RegressOnlyIf`; the upsert writes the newest id it selected,
which by `BaseDeleted` is below the mark only in the second or the third.

`ChatProofs`, theorem `OrphanCorrect`: `Spec => []OrphanExplained`, from
`AuthorsInv`: `/initialize` deletes no user and no message of the data set, and a
post that `ensureLogin` accepted has an author or its author is in `raced`.

`ChatProofs`, theorem `TableCorrect`: `Spec => ImplementsTable`. A commit stores one
row whose id no visible row has (`CommitStores`, from `FreshIds`), `DELETE FROM
message` is `Purge`, every other statement stutters.

`MessageLedgerProofs`, theorems `LedgerTypeCorrect`, `LedgerInvCorrect`,
`BracketCorrect` and `NoFalseAlarmCorrect`: from `MessagesAssumption` alone, for any
channels, texts, writers and readers. The invariant `LedgerInv` has four parts.
`CountsExact` needs that one message more is one more in its channel and none in
another (`CountedAdd`); `Bracket` needs `WriterInv` (a post is in the ledger before
it is sent, and stored before it is completed unless the run is done); `ReaderInv`
says for each point of a check which bounds it can rely on. `stored`, `msgMap`,
`msgCntMax` and `done` only grow (`Grows`), so nobody but the reader itself can
disturb what it holds (`ReaderKept`); for its own steps, `CompleteBound` gives the
lower bound it snapshots and `StoredBound` the upper bound it compares with. The
lower bound is lost once the run is done, and the proof shows why that is harmless:
a check that snapshots or sends its request later ends in `Play` without comparing
anything, and one that sent it earlier took its bound earlier.

`MessageLedgerProofs`, theorem `LedgerImplementsCounts`: `Spec => ImplementsCounts`. It
needs two parts of `LedgerInv`. The counters are the sizes of the sets they count
(`CountsExact`), so a step that adds one message to a set adds one to the counter of
its channel and none to another (`CountedOne`); and the guards of `Store` and `Complete`
in `MessageCounts` are the strict inclusions that `WriterInv` gives, stored in ledger
and completed in stored, taken channel by channel (`CountedLess`). Refused posts and
all steps of readers stutter. No run lists this one: without symmetry the instance of
`ledger` satisfies it too, and the proof covers every instance.

`WorkerProofs`, theorems `WorkerTypeCorrect`, `WorkerTellsTruth` and
`WorkerLosesNoJob`, from `JobsAssumption`, for any finite set of jobs. The
invariant `WorkerInv` adds to the properties that the goroutines of a run outlive
its child (`RunJoined`: when `wg.Wait` returns, the child is gone), that the output
file holds what the state of the child says (`FileTold`), and that a job is in one
place (`OnePlace`).

`BenchRunProofs`, theorems `RunTypeCorrect`, `PreTestStopsLoad`,
`PassOnlyOnLastFatal` and `ResultsAreComplete`, from `RunAssumption`, for any number of
checks, channels and load goroutines. In `RunInv`, `LoadFollows` says that
`benchmarkMain` begins with the validation and the load with `benchmarkMain`.
`LastError` says where an error can be: one of a check without goroutines is the one
last returned until `startBenchmark` has looked at it, one of `CheckMessageScenario` is
that, or still among the errors met, or was masked. `ErrorsTold` says that the list is
shut only after the deadline, so that an error which is missing from it is late, and
that until the run fails the list holds the error for which it may.

`AccountsProofs`, theorems `AccountsTypeCorrect`, `SessionsAreOwn`,
`IconsCanBeLoaded`, `ProfilesStayTogether` and `SessionsAreKept`, from
`AccountsAssumption`, for any browsers, names, pictures and requests. Each step
changes one request; `Held` says what a request holds where it is. `SessionOwn`
needs that an answer on its way names an account that its browser was granted, or
one that is gone (`Sessions`), and that no request holds an id AUTO_INCREMENT has not
given away (`Held`). `DanglingExplained` needs that the image a post stored is still there when
`UPDATE` names it, unless `/initialize` met the account (`Icons`); `ProfileTogether`
that two posts that share a user are noted in `torn` from the moment they do
(`SharedTorn`), so that a post that has its user to itself finds the icon it stored
(`IconStored`).

`ScenariosProofs`, for any users, goroutines and number of tokens above 1 (the code
has `MaxCheckerRequest` = 6; with one, a `CheckFunc` that plays would wait for
itself), from `ScenariosAssumption`. In a first invariant, `PoolInv`, every user of the
pool is in one hand or in the pool (`Hands`, `Pools`), and the free tokens of a
`Checker` and the requests that hold one of it are `Tokens` together (`TokensKept`).
It gives `UsersHaveOneOwner`, `CrashOnlyWhenDrained` and `TokensComeBack`. The second,
`ReadyInv`, says how far a user is at each step of each script: which users in a hand
have a session, a row and a profile (`Fits`), and why nobody but the owner can change
that. A request that was given up is one for a user that nobody meets again, or one
that changes nothing (`LateHarmless`: a new user whose scenario fails is not pushed),
and a poll is for the user of its writer until the writer returns (`PollsOwn`). It
gives `ScenariosTypeCorrect`, `PoolIsReady` and `OwnersMeetNoError`.

`HistoryProofs`, theorems `HistoryTypeCorrect`, `WalksAreComplete`, `LinksAlwaysWork`
and `ChecksBlameNobody`, from `HistoryAssumption`, for any page size, data set and
number of clients. A message has a rank, the number of newer ones in its channel, and
page `p` shows the ranks from `(p - 1) * N` to `p * N - 1`. A message that a walker
has not seen yet has a rank beyond the pages it was shown (`WalkOK`), and posts only
raise ranks (`RankGrows`). For the checks, `CheckOK` says which bounds a check can rely
on at each of its points, and the number of pages grows with the number of messages
(`PagesMonotone`), so a page that was chosen exists and is full but for the last.

`ChatProofs`, theorems `TabTypesCorrect`, `PagesInOrder`, `PagesWithoutHoles` and
`MarksDelivered`, for any users, channels, handlers and tabs, any `LIMIT` and any
number of messages. Steps of tabs are steps of `Chat` (`StepsAreChat`), so `TypeOK`
and `MarksInv` come from `ChatProofs`. What `TabInv` adds: no post that was
accepted needs an id above `MaxMessage` (`Room`), a handler holds what its request
asks for (`ByRequest`); a page has one request out at a time, and what that one holds
follows `last_message_id` without a hole, but for messages that became visible after a
newer one or that `LIMIT` cut off (`Flights`); the timeline shows all up to
`last_message_id` with the same exceptions (`Timelines`). Two lemmas about ranks
carry this: `LIMIT` leaves out only older rows (`CutOff`), and appending an answer
keeps the order and drops only the oldest entries (`Appended`). `MarkDelivered`
needs that a mark is the newest id of an answer on its way to a page, or the last one
of that page, or noted as lost (`Marks`), and that a reader whose answer no page
awaits has left such a note (`Abandoned`). The theorems use two assumptions on the
bounds: `Trim` <= `Limit` (both are 100 in the code; a page that kept more than `LIMIT`
messages could show older ones before an answer that was cut off) and
`InitialMessages` <= `MaxMessage`, which leaves room for the data set below the bound.

`MessageScenarioProofs`, theorems `ScenarioTypeCorrect` and `FatalsExplained`, for any
finite set of three or more users (the `Three` goroutines each need one) and any number of
rounds, rows and late requests. The program compares what a user was told in one request with
what it is told in a later one, so the invariant `RoundInv` ties what a round
remembers (`umap`, `last`) to the tables, for as long as no late request interfered:
the unread count of the channel is what the user was told, and one more after the
post (`CheckCounts`); counts of other channels only grow (`OtherCounts`, where a late post
does no harm); the first two users have read all there is before the post and lack
one message after it (`LastRead`); the message of the round is there, behind what its
readers have read, and the newest unless a post followed it (`OwnMessage`, without
its last part also after a late post, so `missing` is never fatal). The interference is
what `disturbed` notes: a late `SELECT` holds a position that may be old, and only its
upsert counts (`NoMark`). `CheckCounts` needs that the three users differ
(`ThreeUsers`): of two equal ones the second would find its count reset by the first.

`ChatProofs`, theorem `PagesImplementTimeline`: `TabSpec => ImplementsTimeline`. The
commit of a post is `Appear`, also when its statement reports a failure
(`CommitAppears`); other statements change no page (`ServeAppears`). `Open` is `Reload`,
and the answer of `GET /message` is `Learn` or, without messages, a stutter
(`ReceiveLearns`). That nothing was skipped is known when the `SELECT` runs and needed
when `append` runs: `Flights` keeps it in between, while other posts commit, and
`PageLearns` carries it over `append`. A page that had two requests out would learn the
same messages twice; `TabTypeOK` excludes that.

Every invariant above was checked by TLC on the instance of its component's run
before it was proved. Each proof has one lemma per action of `Next`.

Only model-checked: the liveness properties `EventuallyKnown`, `EndsOrStuckAddingChannels`, `EndsOrMute`
and (violated) `Terminates`: liveness under fairness is beyond the prover. The
bounds of the model (`MaxMessage`, `MaxUser`, `MaxPosts` and the like) are constants
of the theorems as well: they hold for every value of them.

## Not modelled

The ports of the web application (the Go program is the reference), templates and
provisioning, the data set tools and the counters (no concurrent state that decides
anything), vendored code. Of the benchmarker: the score formula, the caches and the choice of a
host in `Checker`, the channel id lists of `State` (they are read at random and only
grow in `preTest`), what HTML pages contain beside what a check decides on. Of the
application: password hashes, the log, the templates but for the links of the history
page.

## Plan

The modules of the plan are written and their safety properties proved. What could
follow, in this order:

1. The caches of `Checker` (`urlcache`) in front of `History` and the icons of
   `Accounts`: may a check compare a cached answer with a newer state?
2. The channel id lists of `State`, with `AddChannel` and the load level, as part of
   `BenchRun`.
3. `History` over `Chat` itself instead of `MessageTable`, for pages whose authors
   `/initialize` deletes (today only `OrphanExplained` says when that can be).
