----------------------------- MODULE Scenarios -----------------------------
(***************************************************************************)
(* The users of the benchmarker and the scenarios that borrow them:        *)
(* bench/src/bench/structure.go (the pools), checker.go (a Checker for     *)
(* each user: cookie jar and request tokens) and scenario.go (the load     *)
(* functions and the checks).  Checks run one after the other in the main  *)
(* goroutine, load functions in goroutines of their own.                   *)
(*                                                                         *)
(* A scenario is a sequence of Plays, each a request with the answers it   *)
(* accepts.  Runs of Plays that differ in nothing that is modelled stand   *)
(* as one.  The application is the reference implementation (Accounts): it *)
(* answers correctly, but perhaps after the client gave up.  What a page   *)
(* shows is reduced to whether the profile on it is the expected one.      *)
(***************************************************************************)
EXTENDS Naturals, Sequences, FiniteSets, Functions

CONSTANTS
    InitialUsers,   \* DataSet.Users
    NewUsers,       \* DataSet.NewUsers, not registered
    Main,           \* the goroutine that runs the checks
    Writers,        \* goroutines of LoadReadWriteUser
    Readers,        \* goroutines of LoadReadOnlyUser
    Loaders,        \* goroutines that draw a load function again and again
    Tokens,         \* MaxCheckerRequest
    MaxDraws,       \* bound: how many scenarios Main and Loaders begin
    NoUser

\* A Play inside a CheckFunc needs a second token.
ASSUME ScenariosAssumption ==
    /\ Tokens \in Nat /\ Tokens > 1
    /\ MaxDraws \in Nat
    /\ InitialUsers \cap NewUsers = {}
    /\ NoUser \notin InitialUsers \cup NewUsers
    /\ Main \notin Writers \cup Readers \cup Loaders
    /\ Writers \cap Readers = {} /\ (Writers \cup Readers) \cap Loaders = {}

Users == InitialUsers \cup NewUsers
Runners == {Main} \cup Writers \cup Readers \cup Loaders

VARIABLES
    users,       \* State.users
    newUsers,    \* State.newUsers
    tokens,      \* tokens[u]: the free tokens of the Checker of u
    jar,         \* the users whose Checker holds a session
    draws,       \* scenarios begun
    run,         \* run[r]: the scenario of a goroutine
    poll,        \* poll[w]: the polling goroutine of a writer
    asset,       \* the goroutine of a loadStaticFile
    registered,  \* the application: users with a row
    posted,      \* the application: users whose profile was changed
    late,        \* requests given up that the application may still execute
    blames,      \* checkerErrors without timeouts, as <<kind, by whom>>
    done,        \* ctx.Err() # nil
    crashed      \* a nil pointer was dereferenced

app == <<registered, posted>>
pool == <<users, newUsers>>
vars == <<users, newUsers, tokens, jar, draws, run, poll, asset, registered,
          posted, late, blames, done, crashed>>

-----------------------------------------------------------------------------
(***************************************************************************)
(* The answers of the application.  "toLogin" is the redirect of           *)
(* ensureLogin, "redirect" any other.                                      *)
(***************************************************************************)
Api == {"message", "fetch"}   \* GET; they do not call ensureLogin

\* ensureLogin finds the user of the session.
LoggedIn(u, cookie) == cookie /\ u \in registered

Answer(req, u, cookie) ==
    CASE req = "login" -> IF u \in registered THEN "redirect" ELSE "403"
      [] req = "loginStranger" -> "403"
      [] req = "register" -> IF u \in registered THEN "409" ELSE "redirect"
      [] req = "logout" -> "redirect"
      [] req = "open" -> "200"
      [] OTHER ->
           IF ~LoggedIn(u, cookie)
           THEN IF req \in Api THEN "403" ELSE "toLogin"
           ELSE CASE req = "post" -> "204"
                  [] req \in {"profile", "addChannel"} -> "redirect"
                  [] req \in {"badProfile", "badChannel"} -> "400"
                  [] req = "profileStranger" -> "404"
                  [] OTHER -> "200"

\* What the answer leaves in the cookie jar.
JarAfter(req, u, answer) ==
    CASE answer = "redirect" /\ req \in {"login", "register"} -> jar \cup {u}
      [] req = "logout" -> jar \ {u}
      [] OTHER -> jar

\* What the request does to the tables.
Execute(req, u, cookie) ==
    /\ registered' = IF req = "register" THEN registered \cup {u}
                     ELSE registered
    /\ posted' = IF req = "profile" /\ LoggedIn(u, cookie)
                 THEN posted \cup {u} ELSE posted

\* Is what the page shows what the CheckFunc expects?
Shows(req, u) ==
    CASE req = "profileNew" -> u \notin posted
      [] req = "profileSet" -> u \in posted
      [] req = "names" -> u \in InitialUsers \cup posted
      [] OTHER -> TRUE

-----------------------------------------------------------------------------
(***************************************************************************)
(* The scenarios.  Play(i, req, want): the Checker of the i-th user of the *)
(* scenario plays req and accepts the answers want.                        *)
(***************************************************************************)
Play(i, req, want) == [who |-> i, req |-> req, want |-> want]

Redirect == {"redirect", "toLogin"}       \* checkRedirectStatusCode
Login(i) == Play(i, "login", Redirect)
Page == Play(1, "page", {"200"})
Message == Play(1, "message", {"200"})

\* Steps that are no Plays.
ResetCookie == Play(1, "ResetCookie", {})
GoLoadAsset == Play(1, "goLoadAsset", {})

LoadRegister ==
    <<Play(1, "register", Redirect), Login(1), Play(1, "profile", Redirect)>>

LoadProfile == <<Login(1), Page, Play(1, "logout", Redirect)>>

LoadGetChannel == <<Login(1), Page, GoLoadAsset, Message, GoLoadAsset>>

LoadReadWriteUser ==
    <<Login(1), Page, GoLoadAsset, Message, Play(1, "post", {"204"})>>

LoadReadOnlyUser == <<Login(1), Page, GoLoadAsset, Message>>

CheckNotLoggedInUser ==
    <<ResetCookie, Play(1, "open", {"200"}), Play(1, "page", {"toLogin"}),
      Play(1, "message", {"403"}), Play(1, "profile", {"toLogin"}),
      Play(1, "addChannel", {"toLogin"})>>

CheckStaticFiles == <<Play(1, "open", {"200"})>>

CheckLogin ==
    <<Login(1), Play(1, "logout", Redirect), Play(1, "loginStranger", {"403"})>>

CheckGetProfileFail == <<Login(1), Play(1, "profileStranger", {"404"})>>

\* checkSelfProfile and checkOtherProfile, before and after the change.
SelfProfile(state) == Play(1, state, {"200"})
OtherProfile(state) == Play(2, state, {"200"})

CheckRegisterProfile ==
    <<Play(1, "login", {"403"}), Play(1, "register", Redirect),
      Play(1, "register", {"409"}), Login(1), Login(2),
      SelfProfile("profileNew"), OtherProfile("profileNew"),
      Play(1, "badProfile", {"400"}), Play(1, "profile", Redirect),
      SelfProfile("profileSet"), OtherProfile("profileSet")>>

CheckGetChannel == <<Login(1), Play(1, "names", {"200"})>>

CheckPostAddChannel == <<Login(1), Play(1, "addChannel", Redirect)>>

CheckPostAddChannelFail == <<Login(1), Play(1, "badChannel", {"400"})>>

CheckGetAddChannel == <<Login(1), Page>>

\* Only what matters to its users and their sessions; its messages are the
\* subject of MessageScenario.
CheckMessageScenario ==
    <<Login(1), Login(2), Login(3), Play(1, "post", {"204"}),
      Play(1, "names", {"200"})>>

Script ==
    [LoadRegister |-> LoadRegister, LoadProfile |-> LoadProfile,
     LoadGetChannel |-> LoadGetChannel,
     LoadReadWriteUser |-> LoadReadWriteUser,
     LoadReadOnlyUser |-> LoadReadOnlyUser,
     CheckNotLoggedInUser |-> CheckNotLoggedInUser,
     CheckStaticFiles |-> CheckStaticFiles, CheckLogin |-> CheckLogin,
     CheckGetProfileFail |-> CheckGetProfileFail,
     CheckRegisterProfile |-> CheckRegisterProfile,
     CheckGetChannel |-> CheckGetChannel,
     CheckPostAddChannel |-> CheckPostAddChannel,
     CheckPostAddChannelFail |-> CheckPostAddChannelFail,
     CheckGetAddChannel |-> CheckGetAddChannel,
     CheckMessageScenario |-> CheckMessageScenario]

LoadFuncs == {"LoadRegister", "LoadProfile", "LoadGetChannel"}

Chooses(r) == CASE r \in Writers -> {"LoadReadWriteUser"}
                [] r \in Readers -> {"LoadReadOnlyUser"}
                [] r \in Loaders -> LoadFuncs
                [] OTHER -> DOMAIN Script \ (LoadFuncs \cup
                              {"LoadReadWriteUser", "LoadReadOnlyUser"})

\* Where a scenario takes its users from.
Pops(scen) == CASE scen = "LoadRegister" -> <<"new">>
                [] scen = "CheckRegisterProfile" -> <<"new", "pool">>
                [] scen = "CheckMessageScenario" -> <<"pool", "pool", "pool">>
                [] OTHER -> <<"pool">>

Loops(scen) == scen \in {"LoadReadWriteUser", "LoadReadOnlyUser"}
-----------------------------------------------------------------------------
Free == [scen |-> "none", step |-> 1, hand |-> <<>>, phase |-> "free",
         cookie |-> FALSE]
NoPoll == [phase |-> "off", user |-> NoUser, cookie |-> FALSE]
NoAsset == [phase |-> "off", user |-> NoUser]

Init ==
    /\ users = InitialUsers
    /\ newUsers = NewUsers
    /\ tokens = [u \in Users |-> Tokens]
    /\ jar = {}
    /\ draws = 0
    /\ run = [r \in Runners |-> Free]
    /\ poll = [w \in Writers |-> NoPoll]
    /\ asset = NoAsset
    /\ registered = InitialUsers
    /\ posted = InitialUsers
    /\ late = {}
    /\ blames = {}
    /\ done = FALSE
    /\ crashed = FALSE

Steps(r) == Script[run[r].scen]
Current(r) == Steps(r)[run[r].step]
Player(r) == run[r].hand[Current(r).who]
InLoop(r) == Loops(run[r].scen) /\ run[r].step = Len(Steps(r))
Took(t, u) == [t EXCEPT ![u] = @ - 1]
Gave(t, u) == [t EXCEPT ![u] = @ + 1]
Blame(kind, who) == blames' = blames \cup {<<kind, who>>}

-----------------------------------------------------------------------------
(***************************************************************************)
(* A goroutine chooses a scenario, takes its users and gives them back.    *)
(***************************************************************************)
Choose(r) ==
    /\ run[r].phase = "free"
    /\ ~done
    /\ draws' = IF r \in {Main} \cup Loaders THEN draws + 1 ELSE draws
    /\ draws' <= MaxDraws
    /\ \E scen \in Chooses(r) :
         run' = [run EXCEPT ![r].scen = scen, ![r].phase = "pop"]
    /\ UNCHANGED <<pool, tokens, jar, poll, asset, app, late, blames, done,
                   crashed>>

\* Mutant: a user is pushed only at the end of its scenario.
PushedAtEnd(r, how) ==
    IF how = "end" THEN Range(run[r].hand) ELSE {}

\* Mutant: every user is pushed, whatever became of it.
PushedAlways(r, how) == Range(run[r].hand)

\* The users a return pushes: a deferred push for each user of the pool; a
\* new user only when its scenario came to its end.
Pushed(r, how) ==
    {run[r].hand[i] : i \in {i \in DOMAIN run[r].hand :
                          how = "end" \/ Pops(run[r].scen)[i] = "pool"}}

\* A return at the "end" or where there was no user ("nil"), or an "error":
\* it ends a goroutine of the load, any return ends that of a user.
Return(r, how) ==
    /\ users' = users \cup Pushed(r, how)
    /\ run' = [run EXCEPT ![r] =
         IF r \in Writers \cup Readers \/ (r \in Loaders /\ how = "error")
         THEN [Free EXCEPT !.phase = "end"] ELSE Free]

Popped(r, u) ==
    LET hand == Append(run[r].hand, u)
    IN  run' = [run EXCEPT ![r].hand = hand,
                           ![r].phase = IF Len(hand) = Len(Pops(run[r].scen))
                                        THEN "idle" ELSE "pop"]

PopNewUser(r) ==
    \/ \E u \in newUsers :
         /\ newUsers' = newUsers \ {u}
         /\ Popped(r, u)
         /\ UNCHANGED <<users, crashed>>
    \/ newUsers = {} /\ Return(r, "nil") /\ UNCHANGED <<newUsers, crashed>>

\* Mutant: the user stays in the pool while it is in use.
PopSharedUser(r) ==
    /\ \E u \in users : Popped(r, u)
    /\ UNCHANGED <<pool, crashed>>

\* CheckMessageScenario does not look at its third user before it uses it.
PopRandomUser(r) ==
    \/ \E u \in users :
         /\ users' = users \ {u}
         /\ Popped(r, u)
         /\ UNCHANGED <<newUsers, crashed>>
    \/ /\ users = {}
       /\ Len(run[r].hand) < 2
       /\ Return(r, "nil")
       /\ UNCHANGED <<newUsers, crashed>>
    \/ /\ users = {}
       /\ Len(run[r].hand) = 2
       /\ crashed' = TRUE
       /\ UNCHANGED <<pool, run>>

Pop(r) ==
    /\ run[r].phase = "pop"
    /\ CASE Pops(run[r].scen)[Len(run[r].hand) + 1] = "new" -> PopNewUser(r)
         [] OTHER -> PopRandomUser(r)
    /\ UNCHANGED <<draws, tokens, jar, poll, asset, app, late, blames, done>>

-----------------------------------------------------------------------------
(***************************************************************************)
(* Checker.Play.                                                           *)
(***************************************************************************)
\* A Play returned nil: the next step, the loop once more, or the end.
Advance(r) ==
    \/ /\ run[r].step < Len(Steps(r))
       /\ run' = [run EXCEPT ![r].step = @ + 1, ![r].phase = "idle"]
       /\ UNCHANGED users
    \/ /\ InLoop(r)
       /\ run' = [run EXCEPT ![r].phase = "idle"]
       /\ UNCHANGED users
    \/ /\ run[r].step = Len(Steps(r))
       /\ ~InLoop(r)
       /\ Return(r, "end")

\* A request leaves with the cookie its user has now.
Enter(r) ==
    /\ run[r].phase = "idle"
    /\ Current(r).want # {}
    /\ ~done
    /\ tokens[Player(r)] > 0
    /\ tokens' = Took(tokens, Player(r))
    /\ run' = [run EXCEPT ![r].phase = "out", ![r].cookie = Player(r) \in jar]
    /\ UNCHANGED <<pool, draws, jar, poll, asset, app, late, blames, done,
                   crashed>>

\* After the deadline a Play that has no token returns nil, and so do all that
\* follow it.
SkipPlays(r) ==
    /\ run[r].phase \in {"idle", "inner"}
    /\ Current(r).want # {}
    /\ done
    /\ Return(r, "end")
    /\ tokens' = IF run[r].phase = "inner" THEN Gave(tokens, Player(r))
                 ELSE tokens
    /\ UNCHANGED <<newUsers, draws, jar, poll, asset, app, late, blames, done,
                   crashed>>

\* The CheckFunc of a profile page plays the icon of the first user.
Nested(r) == Current(r).req \in {"profileNew", "profileSet"}

Judged(r, answer) ==
    LET p == Current(r)
        shown == Shows(p.req, run[r].hand[1])
    IN  \/ /\ answer \notin p.want \/ ~shown
           /\ Blame(IF answer \notin p.want THEN "status" ELSE "content",
                    "owner")
           /\ tokens' = Gave(tokens, Player(r))
           /\ Return(r, "error")
        \/ /\ answer \in p.want /\ shown
           /\ Nested(r)
           /\ run' = [run EXCEPT ![r].phase = "inner"]
           /\ UNCHANGED <<users, tokens, blames>>
        \/ /\ answer \in p.want /\ shown
           /\ ~Nested(r)
           /\ tokens' = Gave(tokens, Player(r))
           /\ Advance(r)
           /\ UNCHANGED blames

Answered(r) ==
    /\ run[r].phase = "out"
    /\ LET req == Current(r).req
           answer == Answer(req, Player(r), run[r].cookie)
       IN  /\ Execute(req, Player(r), run[r].cookie)
           /\ jar' = JarAfter(req, Player(r), answer)
           /\ Judged(r, answer)
    /\ UNCHANGED <<newUsers, draws, poll, asset, late, done, crashed>>

\* Mutant: a request that times out keeps its token.
GivesUpMutant(r) ==
    /\ run[r].phase = "out"
    /\ Return(r, "error")
    /\ UNCHANGED <<newUsers, draws, tokens, jar, poll, asset, app, late,
                   blames, done, crashed>>

\* The timeout of the request or the deadline of the run.
GivesUp(r) ==
    /\ run[r].phase = "out"
    /\ late' = IF Current(r).req \in {"register", "profile"}
               THEN late \cup {<<Current(r).req, Player(r), run[r].cookie>>}
               ELSE late
    /\ tokens' = Gave(tokens, Player(r))
    /\ Return(r, "error")
    /\ UNCHANGED <<newUsers, draws, jar, poll, asset, app, blames, done,
                   crashed>>

LateExecute ==
    \E q \in late :
        /\ Execute(q[1], q[2], q[3])
        /\ late' = late \ {q}
        /\ UNCHANGED <<pool, draws, tokens, jar, run, poll, asset, blames,
                       done, crashed>>

\* Mutant: the Play inside a CheckFunc takes no token but gives one back.
InnerEnterMutant(r) ==
    /\ run[r].phase = "inner"
    /\ ~done
    /\ run' = [run EXCEPT ![r].phase = "innerOut"]
    /\ UNCHANGED <<pool, draws, tokens, jar, poll, asset, app, late, blames,
                   done, crashed>>

\* The Play inside a CheckFunc takes a second token.
InnerEnter(r) ==
    /\ run[r].phase = "inner"
    /\ ~done
    /\ tokens[run[r].hand[1]] > 0
    /\ tokens' = Took(tokens, run[r].hand[1])
    /\ run' = [run EXCEPT ![r].phase = "innerOut"]
    /\ UNCHANGED <<pool, draws, jar, poll, asset, app, late, blames, done,
                   crashed>>

InnerEnds(r) ==
    /\ run[r].phase = "innerOut"
    /\ tokens' = Gave(Gave(tokens, Player(r)), run[r].hand[1])
    /\ Advance(r) \/ Return(r, "error")     \* answered, or given up
    /\ UNCHANGED <<newUsers, draws, jar, poll, asset, app, late, blames, done,
                   crashed>>

-----------------------------------------------------------------------------
\* The steps that are no Plays.
Local(r) ==
    /\ run[r].phase = "idle"
    /\ Current(r).want = {}
    /\ \/ /\ Current(r).req = "ResetCookie"
          /\ jar' = jar \ {Player(r)}
          /\ UNCHANGED asset
       \/ /\ Current(r).req = "goLoadAsset"
          /\ asset' = IF asset.phase = "off"
                      THEN [phase |-> "wait", user |-> Player(r)] ELSE asset
          /\ UNCHANGED jar
    /\ Advance(r)
    /\ UNCHANGED <<newUsers, draws, tokens, poll, app, late, blames, done,
                   crashed>>

LoadStaticFile ==
    \/ /\ asset.phase = "wait"
       /\ done \/ tokens[asset.user] > 0
       /\ asset' = IF done THEN NoAsset ELSE [asset EXCEPT !.phase = "out"]
       /\ tokens' = IF done THEN tokens ELSE Took(tokens, asset.user)
       /\ UNCHANGED <<pool, draws, jar, run, poll, app, late, blames, done,
                      crashed>>
    \/ /\ asset.phase = "out"
       /\ asset' = NoAsset
       /\ tokens' = Gave(tokens, asset.user)
       /\ UNCHANGED <<pool, draws, jar, run, poll, app, late, blames, done,
                      crashed>>

-----------------------------------------------------------------------------
(***************************************************************************)
(* The polling goroutine of LoadReadWriteUser.                             *)
(***************************************************************************)
InSelect(w) == run[w].phase = "idle" /\ InLoop(w)

PollStart(w) ==
    /\ InSelect(w)
    /\ poll[w].phase = "off"
    /\ poll' = [poll EXCEPT ![w] = [NoPoll EXCEPT !.phase = "fetch",
                                                  !.user = run[w].hand[1]]]
    /\ UNCHANGED <<pool, draws, tokens, jar, run, asset, app, late, blames,
                   done, crashed>>

PollEnter(w) ==
    LET p == poll[w] IN
    /\ p.phase \in {"fetch", "message"}
    /\ ~done
    /\ tokens[p.user] > 0
    /\ tokens' = Took(tokens, p.user)
    /\ poll' = [poll EXCEPT
                  ![w].phase = IF p.phase = "fetch" THEN "fetchOut"
                               ELSE "messageOut",
                  ![w].cookie = p.user \in jar]
    /\ UNCHANGED <<pool, draws, jar, run, asset, app, late, blames, done,
                   crashed>>

PollSkip(w) ==
    /\ poll[w].phase \in {"fetch", "message"}
    /\ done
    /\ poll' = [poll EXCEPT ![w] = NoPoll]
    /\ UNCHANGED <<pool, draws, tokens, jar, run, asset, app, late, blames,
                   done, crashed>>

\* When nothing is unread the goroutine ends, else it gets the messages.
PollAnswered(w) ==
    LET p == poll[w]
        answer == Answer(IF p.phase = "fetchOut" THEN "fetch" ELSE "message",
                         p.user, p.cookie)
    IN
    /\ p.phase \in {"fetchOut", "messageOut"}
    /\ tokens' = Gave(tokens, p.user)
    /\ \/ /\ answer = "200"
          /\ poll' = [poll EXCEPT ![w] = NoPoll]
          /\ UNCHANGED blames
       \/ /\ answer = "200" /\ p.phase = "fetchOut"
          /\ poll' = [poll EXCEPT ![w].phase = "message"]
          /\ UNCHANGED blames
       \/ /\ answer # "200"
          /\ poll' = [poll EXCEPT ![w].phase = "failed"]
          /\ Blame("status", IF p.user \in Range(run[w].hand)
                             THEN "owner" ELSE "orphan")
    /\ UNCHANGED <<pool, draws, jar, run, asset, app, late, done, crashed>>

PollGivesUp(w) ==
    /\ poll[w].phase \in {"fetchOut", "messageOut"}
    /\ tokens' = Gave(tokens, poll[w].user)
    /\ poll' = [poll EXCEPT ![w].phase = "failed"]
    /\ UNCHANGED <<pool, draws, jar, run, asset, app, late, blames, done,
                   crashed>>

\* The scenario receives the error of its polling goroutine.
PollFailed(w) ==
    /\ InSelect(w)
    /\ poll[w].phase = "failed"
    /\ poll' = [poll EXCEPT ![w] = NoPoll]
    /\ Return(w, "error")
    /\ UNCHANGED <<newUsers, draws, tokens, jar, asset, app, late, blames,
                   done, crashed>>

Deadline ==
    /\ ~done
    /\ done' = TRUE
    /\ UNCHANGED <<pool, draws, tokens, jar, run, poll, asset, app, late,
                   blames, crashed>>

Run(r) == \/ Choose(r) \/ Pop(r) \/ Enter(r) \/ SkipPlays(r) \/ Answered(r)
          \/ GivesUp(r) \/ InnerEnter(r) \/ InnerEnds(r)
          \/ Local(r)

Polling(w) == \/ PollStart(w) \/ PollEnter(w) \/ PollSkip(w)
              \/ PollAnswered(w) \/ PollGivesUp(w) \/ PollFailed(w)

\* A nil dereference ends the process.
Next ==
    /\ ~crashed
    /\ \/ \E r \in Runners : Run(r)
       \/ \E w \in Writers : Polling(w)
       \/ LateExecute
       \/ LoadStaticFile
       \/ Deadline

Spec == Init /\ [][Next]_vars

-----------------------------------------------------------------------------
(***************************************************************************)
(* Properties.                                                             *)
(***************************************************************************)
Held(r) == Range(run[r].hand)

\* The variables keep their types (structure.go, checker.go).
ScenariosTypeOK ==
    /\ users \subseteq Users /\ newUsers \subseteq NewUsers
    /\ tokens \in [Users -> 0..Tokens]
    /\ jar \cup registered \cup posted \subseteq Users
    /\ \A r \in Runners :
         /\ run[r].scen \in DOMAIN Script \cup {"none"}
         /\ run[r].hand \in Seq(Users) /\ Len(run[r].hand) <= 3
         /\ run[r].phase \in {"free", "pop", "idle", "out", "inner", "innerOut",
                              "end"}
         /\ run[r].scen # "none" => run[r].step \in DOMAIN Steps(r)
    /\ \A w \in Writers : poll[w].user \in Users \cup {NoUser}
    /\ asset.user \in Users \cup {NoUser}
    /\ blames \subseteq {"status", "content"} \X {"owner", "orphan"}
    /\ {done, crashed} \subseteq BOOLEAN

\* A user is in one pool or in one hand, and a user that was in the pool comes
\* back on every path of every scenario: only new users whose scenario failed
\* are gone for good (structure.go PopRandomUser, PushUser; the deferred push
\* of each scenario).
OneOwner ==
    /\ users \cap newUsers = {}
    /\ \A r \in Runners :
         /\ \A i, j \in DOMAIN run[r].hand :
              run[r].hand[i] = run[r].hand[j] => i = j
         /\ Held(r) \cap (users \cup newUsers) = {}
         /\ \A q \in Runners \ {r} : Held(r) \cap Held(q) = {}
    /\ InitialUsers \subseteq users \cup UNION {Held(r) : r \in Runners}

\* While the run lasts, a user anybody may draw can log in and shows its own
\* display name: LoadRegister and CheckRegisterProfile push a user only when
\* its registration and its profile are in the tables, although every one of
\* their requests may time out and be executed later, and although a redirect
\* to the login page counts as an accepted profile (checkRedirectStatusCode).
PooledReady == ~done => users \subseteq registered \cap posted

\* Against the reference implementation an error that is not a timeout is the
\* work of a polling goroutine that outlived its scenario: LoadReadWriteUser
\* returns on a failed post and pushes the user while the poll goes on, and
\* the next scenario logs the same user out (LoadProfile, CheckLogin,
\* CheckNotLoggedInUser).  The scenario that owns a user never meets a wrong
\* answer.
BlameExplained == blames \subseteq {<<"status", "orphan">>}

\* The process crashes (scenario.go:2069 looks at user2 where it means user3)
\* only when the other goroutines hold all but two of the initial users.
CrashExplained ==
    crashed =>
        LET others == UNION {Held(r) : r \in Runners \ {Main}}
        IN  InitialUsers \ Held(Main) \subseteq others

\* The holders of the tokens of u that are waiting for an answer.
InFlight(u) ==
    {r \in Runners : run[r].phase \in {"out", "innerOut"}
                     /\ u \in {Player(r), run[r].hand[1]}}
    \cup {w \in Writers : poll[w].phase \in {"fetchOut", "messageOut"}
                          /\ poll[w].user = u}

\* A Play that finds no token waits for a request that is on its way, never
\* only for Plays that wait themselves, as a CheckFunc that plays on its own
\* Checker could (checkSelfProfile); and a request that ends, however it ends,
\* gives its token back (checker.go:319).
SomeoneAnswers ==
    \A u \in Users :
        tokens[u] = 0 => InFlight(u) # {} \/ (asset.phase = "out" /\
                                              asset.user = u)
=============================================================================
