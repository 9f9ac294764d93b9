-------------------------- MODULE ScenariosProofs --------------------------
(***************************************************************************)
(* The benchmarker's pool gives every user to one scenario at a time and   *)
(* gets it back, and a Checker that has run out of tokens waits for an     *)
(* answer: for any users, goroutines and number of tokens.                 *)
(***************************************************************************)
EXTENDS Scenarios, FiniteSetTheorems, SequenceTheorems, TLAPS

-----------------------------------------------------------------------------
(***************************************************************************)
(* The inductive invariant: hands.                                         *)
(***************************************************************************)
Scens == {"LoadRegister", "LoadProfile", "LoadGetChannel",
          "LoadReadWriteUser", "LoadReadOnlyUser", "CheckNotLoggedInUser",
          "CheckStaticFiles", "CheckLogin", "CheckGetProfileFail",
          "CheckRegisterProfile", "CheckGetChannel", "CheckPostAddChannel",
          "CheckPostAddChannelFail", "CheckGetAddChannel",
          "CheckMessageScenario"}

Out == {"out", "inner", "innerOut"}   \* inside a Play
Busy == Out \cup {"idle"}             \* has all its users

Phases == Busy \cup {"free", "pop", "end"}

\* What a goroutine x holds where it is.
HandOK(x) ==
    /\ x \in [scen : Scens \cup {"none"}, step : Nat, hand : Seq(Users),
              phase : Phases, cookie : BOOLEAN]
    /\ x.phase \in {"free", "end"} <=> x.scen = "none"
    /\ x.phase \in {"free", "end"} => x.hand = <<>>
    /\ x.phase \in {"free", "end", "pop"} => x.step = 1
    /\ x.phase = "pop" => Len(x.hand) < Len(Pops(x.scen))
    /\ x.phase \in Busy => /\ Len(x.hand) = Len(Pops(x.scen))
                           /\ x.step \in DOMAIN Script[x.scen]
    /\ \A i \in DOMAIN x.hand :
         Pops(x.scen)[i] = "new" => x.hand[i] \in NewUsers

Hands ==
    /\ DOMAIN run = Runners
    /\ \A r \in Runners : HandOK(run[r])

\* The pools; when the process crashes the pool is empty.
Pools ==
    /\ users \subseteq Users /\ newUsers \subseteq NewUsers
    /\ crashed \in BOOLEAN
    /\ crashed => users = {}
    /\ OneOwner

\* The tokens that are out, as who holds them for what.
PlaysFor(x, u) ==
    x.phase \in Out /\ x.hand[Script[x.scen][x.step].who] = u
IconFor(x, u) == x.phase = "innerOut" /\ x.hand[1] = u
PollFor(x, u) == x.phase \in {"fetchOut", "messageOut"} /\ x.user = u
AssetFor(x, u) == x.phase = "out" /\ x.user = u

Holds(u) ==
    {<<r, "play">> : r \in {r \in Runners : PlaysFor(run[r], u)}}
    \cup {<<r, "icon">> : r \in {r \in Runners : IconFor(run[r], u)}}
    \cup {<<w, "poll">> : w \in {w \in Writers : PollFor(poll[w], u)}}
    \cup (IF AssetFor(asset, u) THEN {<<Main, "asset">>} ELSE {})

\* Every token is in the Checker or with one holder.
KeptBy(t, holds) ==
    /\ t \in [Users -> Nat]
    /\ \A u \in Users : /\ IsFiniteSet(holds[u])
                        /\ t[u] + Cardinality(holds[u]) = Tokens

TokensKept == KeptBy(tokens, [u \in Users |-> Holds(u)])

\* The goroutines that play for a user without holding it.
Helpers ==
    /\ poll \in [Writers ->
                   [phase : {"off", "fetch", "message", "fetchOut",
                             "messageOut", "failed"},
                    user : Users \cup {NoUser}, cookie : BOOLEAN]]
    /\ \A w \in Writers : poll[w].phase # "off" => poll[w].user \in Users
    /\ asset \in [phase : {"off", "wait", "out"}, user : Users \cup {NoUser}]
    /\ asset.phase # "off" => asset.user \in Users

PoolInv == Hands /\ Pools /\ TokensKept /\ Helpers

-----------------------------------------------------------------------------
(***************************************************************************)
(* The scripts.                                                            *)
(***************************************************************************)
LEMMA PopsType ==
  ASSUME NEW scen
  PROVE  /\ Len(Pops(scen)) \in 1..3
         /\ DOMAIN Pops(scen) = 1..Len(Pops(scen))
         /\ \A i \in 1..Len(Pops(scen)) : Pops(scen)[i] \in {"new", "pool"}
<1>1. CASE scen = "LoadRegister"
  BY <1>1 DEF Pops
<1>2. CASE scen = "CheckRegisterProfile"
  BY <1>2 DEF Pops
<1>3. CASE scen = "CheckMessageScenario"
  BY <1>3 DEF Pops
<1>4. CASE /\ scen # "LoadRegister" /\ scen # "CheckRegisterProfile"
           /\ scen # "CheckMessageScenario"
  <2>1. Pops(scen) = <<"pool">>
    BY <1>4 DEF Pops
  <2> QED
    BY <2>1
<1> QED
  BY <1>1, <1>2, <1>3, <1>4

LEMMA ScriptDomain == DOMAIN Script = Scens
BY DEF Script, Scens

\* A step of a scenario plays for one of its users.
ScriptOK(scen) ==
    /\ Len(Script[scen]) \in Nat \ {0}
    /\ DOMAIN Script[scen] = 1..Len(Script[scen])
    /\ \A k \in 1..Len(Script[scen]) :
         Script[scen][k].who \in 1..Len(Pops(scen))

LEMMA ScriptType ==
  ASSUME NEW scen \in Scens
  PROVE  ScriptOK(scen)
<1> USE DEF ScriptOK, Script, Pops, Login, Play
<1>1. ScriptOK("LoadRegister")
  BY DEF LoadRegister
<1>2. ScriptOK("LoadProfile")
  BY DEF LoadProfile, Page
<1>3. ScriptOK("LoadGetChannel")
  BY DEF LoadGetChannel, Page, Message, GoLoadAsset
<1>4. ScriptOK("LoadReadWriteUser")
  BY DEF LoadReadWriteUser, Page, Message, GoLoadAsset
<1>5. ScriptOK("LoadReadOnlyUser")
  BY DEF LoadReadOnlyUser, Page, Message, GoLoadAsset
<1>6. ScriptOK("CheckNotLoggedInUser")
  BY DEF CheckNotLoggedInUser, ResetCookie
<1>7. ScriptOK("CheckStaticFiles")
  BY DEF CheckStaticFiles
<1>8. ScriptOK("CheckLogin")
  BY DEF CheckLogin
<1>9. ScriptOK("CheckGetProfileFail")
  BY DEF CheckGetProfileFail
<1>10. ScriptOK("CheckRegisterProfile")
  BY DEF CheckRegisterProfile, SelfProfile, OtherProfile
<1>11. ScriptOK("CheckGetChannel")
  BY DEF CheckGetChannel
<1>12. ScriptOK("CheckPostAddChannel")
  BY DEF CheckPostAddChannel
<1>13. ScriptOK("CheckPostAddChannelFail")
  BY DEF CheckPostAddChannelFail
<1>14. ScriptOK("CheckGetAddChannel")
  BY DEF CheckGetAddChannel, Page
<1>15. ScriptOK("CheckMessageScenario")
  BY DEF CheckMessageScenario
<1> HIDE DEF ScriptOK
<1> QED
  BY <1>1, <1>2, <1>3, <1>4, <1>5, <1>6, <1>7, <1>8, <1>9, <1>10, <1>11,
     <1>12, <1>13, <1>14, <1>15 DEF Scens

-----------------------------------------------------------------------------
(***************************************************************************)
(* What a step of the goroutine r does to its record.                      *)
(***************************************************************************)
Changes(r, x) ==
    /\ DOMAIN run' = Runners
    /\ run'[r] = x
    /\ \A q \in Runners \ {r} : run'[q] = run[q]

Returned(x) == /\ x.phase \in {"free", "end"} /\ x.scen = "none"
               /\ x.hand = <<>> /\ x.step = 1 /\ HandOK(x)

\* It keeps its users and its scenario.
Moved(r, x) == /\ run[r].phase \in Busy /\ x.phase \in Busy
               /\ x.scen = run[r].scen /\ x.hand = run[r].hand
               /\ HandOK(x)

LEMMA FreeReturned ==
  Returned(Free) /\ Returned([Free EXCEPT !.phase = "end"])
  /\ Free.phase = "free" /\ Free.cookie = FALSE
<1>1. <<>> \in Seq(Users) /\ DOMAIN <<>> = {}
  OBVIOUS
<1>2. Returned(Free)
  BY <1>1 DEF Returned, HandOK, Free, Phases, Busy, Out
<1> DEFINE x == [Free EXCEPT !.phase = "end"]
<1>3. /\ x.phase = "end" /\ x.scen = "none" /\ x.hand = <<>> /\ x.step = 1
      /\ x \in [scen : Scens \cup {"none"}, step : Nat, hand : Seq(Users),
                phase : Phases, cookie : BOOLEAN]
  BY <1>1 DEF Free, Phases, Busy, Out
<1> HIDE DEF x
<1>4. Returned(x)
  BY <1>1, <1>3 DEF Returned, HandOK, Busy, Out
<1> QED
  BY <1>2, <1>4 DEF x, Free

LEMMA ReturnChanges ==
  ASSUME Hands, NEW r \in Runners, NEW how, Return(r, how)
  PROVE  /\ users' = users \cup Pushed(r, how)
         /\ \E x : Changes(r, x) /\ Returned(x)
<1> DEFINE x == IF \/ r \in Writers \cup Readers
                   \/ r \in Loaders /\ how = "error"
                THEN [Free EXCEPT !.phase = "end"] ELSE Free
<1>1. users' = users \cup Pushed(r, how) /\ run' = [run EXCEPT ![r] = x]
  BY DEF Return
<1>2. Returned(x)
  BY FreeReturned
<1> HIDE DEF x
<1>3. Changes(r, x)
  BY <1>1 DEF Changes, Hands
<1> QED
  BY <1>1, <1>2, <1>3

LEMMA PoppedChanges ==
  ASSUME Hands, NEW r \in Runners, run[r].phase = "pop", NEW u \in Users,
         Popped(r, u),
         Pops(run[r].scen)[Len(run[r].hand) + 1] = "new" => u \in NewUsers
  PROVE  \E x : /\ Changes(r, x) /\ HandOK(x) /\ x.scen = run[r].scen
                /\ x.hand = Append(run[r].hand, u)
                /\ x.phase \in {"idle", "pop"} /\ x.step = 1
<1> DEFINE h == Append(run[r].hand, u)
           p == IF Len(h) = Len(Pops(run[r].scen)) THEN "idle" ELSE "pop"
           y == run[r]
<1>1. /\ y \in [scen : Scens \cup {"none"}, step : Nat, hand : Seq(Users),
                phase : Phases, cookie : BOOLEAN]
      /\ y.scen # "none" /\ y.step = 1 /\ Len(y.hand) < Len(Pops(y.scen))
      /\ \A i \in DOMAIN y.hand :
           Pops(y.scen)[i] = "new" => y.hand[i] \in NewUsers
  BY DEF Hands, HandOK, Busy, Out
<1>2. PICK x : x = [[y EXCEPT !.hand = h] EXCEPT !.phase = p]
  OBVIOUS
<1>3. Changes(r, x)
  <2>1. run' = [run EXCEPT ![r] = x]
    BY <1>2 DEF Popped, Hands
  <2> QED
    BY <2>1 DEF Changes, Hands
<1>4. /\ h \in Seq(Users) /\ Len(h) = Len(y.hand) + 1
      /\ \A i \in 1..Len(y.hand) : h[i] = y.hand[i]
      /\ h[Len(y.hand) + 1] = u
      /\ DOMAIN h = 1..(Len(y.hand) + 1) /\ DOMAIN y.hand = 1..Len(y.hand)
      /\ Len(y.hand) \in Nat
  BY <1>1
<1>5. p \in {"idle", "pop"} /\ p \in Phases
  BY DEF Phases, Busy
<1> HIDE DEF h, p
<1>6. /\ x.scen = y.scen /\ x.step = 1 /\ x.hand = h /\ x.phase = p
      /\ x.cookie = y.cookie
      /\ x \in [scen : Scens \cup {"none"}, step : Nat, hand : Seq(Users),
                phase : Phases, cookie : BOOLEAN]
  BY <1>1, <1>2, <1>4, <1>5
<1>7. 1 \in DOMAIN Script[y.scen]
  BY <1>1, ScriptType DEF ScriptOK
<1>8. Len(h) <= Len(Pops(y.scen)) /\ (p = "pop" => Len(h) < Len(Pops(y.scen)))
      /\ (p = "idle" => Len(h) = Len(Pops(y.scen)))
  BY <1>1, <1>4, PopsType DEF p
<1>9. \A i \in DOMAIN x.hand : Pops(x.scen)[i] = "new" => x.hand[i] \in NewUsers
  BY <1>1, <1>4, <1>6
<1>10. HandOK(x)
  BY <1>1, <1>5, <1>6, <1>7, <1>8, <1>9 DEF HandOK, Busy, Out
<1> QED
  BY <1>3, <1>5, <1>6, <1>10 DEF h

\* In a scenario a goroutine changes its step, its phase and its cookie.
LEMMA MoveChanges ==
  ASSUME Hands, NEW r \in Runners, run[r].phase \in Busy,
         NEW step \in DOMAIN Script[run[r].scen], NEW phase \in Busy,
         NEW cookie \in BOOLEAN, NEW x, x.step = step, x.phase = phase,
         x.cookie = cookie, x.scen = run[r].scen, x.hand = run[r].hand,
         x \in [scen : Scens \cup {"none"}, step : Nat, hand : Seq(Users),
               phase : Phases, cookie : BOOLEAN],
         run' = [run EXCEPT ![r] = x]
  PROVE  Changes(r, x) /\ Moved(r, x)
<1>1. Changes(r, x)
  BY DEF Changes, Hands
<1>2. HandOK(run[r])
  BY DEF Hands
<1> QED
  BY <1>1, <1>2 DEF Moved, HandOK, Busy, Out

LEMMA PhaseChanges ==
  ASSUME Hands, NEW r \in Runners, run[r].phase \in Busy, NEW phase \in Busy,
         run' = [run EXCEPT ![r].phase = phase]
  PROVE  \E x : /\ Changes(r, x) /\ Moved(r, x) /\ x.phase = phase
                /\ x.step = run[r].step /\ x.cookie = run[r].cookie
<1> DEFINE y == run[r]
<1>1. /\ y \in [scen : Scens \cup {"none"}, step : Nat, hand : Seq(Users),
                phase : Phases, cookie : BOOLEAN]
      /\ y.step \in DOMAIN Script[y.scen]
  BY DEF Hands, HandOK
<1>2. PICK x : x = [y EXCEPT !.phase = phase]
  OBVIOUS
<1>3. /\ x.step = y.step /\ x.phase = phase /\ x.cookie = y.cookie
      /\ x.scen = y.scen /\ x.hand = y.hand
      /\ x \in [scen : Scens \cup {"none"}, step : Nat, hand : Seq(Users),
               phase : Phases, cookie : BOOLEAN]
  BY <1>1, <1>2 DEF Phases
<1>4. run' = [run EXCEPT ![r] = x]
  BY <1>2 DEF Hands
<1> QED
  BY <1>1, <1>3, <1>4, MoveChanges

LEMMA EnterChanges ==
  ASSUME Hands, NEW r \in Runners, run[r].phase \in Busy,
         NEW cookie \in BOOLEAN,
         run' = [run EXCEPT ![r].phase = "out", ![r].cookie = cookie]
  PROVE  \E x : /\ Changes(r, x) /\ Moved(r, x) /\ x.phase = "out"
                /\ x.step = run[r].step /\ x.cookie = cookie
<1> DEFINE y == run[r]
<1>1. /\ y \in [scen : Scens \cup {"none"}, step : Nat, hand : Seq(Users),
                phase : Phases, cookie : BOOLEAN]
      /\ y.step \in DOMAIN Script[y.scen]
  BY DEF Hands, HandOK
<1>2. PICK x : x = [[y EXCEPT !.phase = "out"] EXCEPT !.cookie = cookie]
  OBVIOUS
<1>3. /\ x.step = y.step /\ x.phase = "out" /\ x.cookie = cookie
      /\ x.scen = y.scen /\ x.hand = y.hand
      /\ x \in [scen : Scens \cup {"none"}, step : Nat, hand : Seq(Users),
               phase : Phases, cookie : BOOLEAN]
  BY <1>1, <1>2 DEF Phases, Busy, Out
<1>4. run' = [run EXCEPT ![r] = x]
  BY <1>2 DEF Hands
<1> QED
  BY <1>1, <1>3, <1>4, MoveChanges DEF Busy, Out

\* A Play or another step of the script is over.
LEMMA AdvanceChanges ==
  ASSUME Hands, NEW r \in Runners, run[r].phase \in Busy, Advance(r)
  PROVE  \/ /\ users' = users
            /\ \E x : /\ Changes(r, x) /\ Moved(r, x) /\ x.phase = "idle"
                      /\ \/ /\ x.step = run[r].step + 1
                            /\ run[r].step < Len(Steps(r))
                         \/ x.step = run[r].step /\ InLoop(r)
         \/ Return(r, "end") /\ run[r].step = Len(Steps(r)) /\ ~InLoop(r)
<1> DEFINE y == run[r]
<1>1. /\ y \in [scen : Scens \cup {"none"}, step : Nat, hand : Seq(Users),
                phase : Phases, cookie : BOOLEAN]
      /\ y.step \in DOMAIN Script[y.scen] /\ y.scen \in Scens
  BY DEF Hands, HandOK, Busy, Out
<1>2. CASE /\ y.step < Len(Steps(r)) /\ UNCHANGED users
           /\ run' = [run EXCEPT ![r].step = @ + 1, ![r].phase = "idle"]
  <2>1. PICK x : x = [[y EXCEPT !.step = y.step + 1] EXCEPT !.phase = "idle"]
    OBVIOUS
  <2>a. y.step + 1 \in Nat
    BY <1>1
  <2>2. /\ x.step = y.step + 1 /\ x.phase = "idle" /\ x.cookie = y.cookie
        /\ x.scen = y.scen /\ x.hand = y.hand
        /\ x \in [scen : Scens \cup {"none"}, step : Nat, hand : Seq(Users),
                 phase : Phases, cookie : BOOLEAN]
    BY <1>1, <2>a, <2>1 DEF Phases, Busy, Out
  <2>3. run' = [run EXCEPT ![r] = x]
    BY <1>2, <2>1 DEF Hands
  <2>4. y.step + 1 \in DOMAIN Script[y.scen]
    BY <1>1, <1>2, ScriptType DEF ScriptOK, Steps
  <2>5. Changes(r, x) /\ Moved(r, x)
    BY <1>1, <2>2, <2>3, <2>4, MoveChanges DEF Busy
  <2> QED
    BY <1>2, <2>2, <2>5
<1>3. CASE /\ InLoop(r) /\ UNCHANGED users
           /\ run' = [run EXCEPT ![r].phase = "idle"]
  <2>1. "idle" \in Busy
    BY DEF Busy
  <2>a. run' = [run EXCEPT ![r].phase = "idle"]
    BY <1>3
  <2>2. \E x : /\ Changes(r, x) /\ Moved(r, x) /\ x.phase = "idle"
               /\ x.step = run[r].step /\ x.cookie = run[r].cookie
    BY <2>a, <2>1, PhaseChanges
  <2> QED
    BY <1>3, <2>2
<1> QED
  BY <1>2, <1>3 DEF Advance

-----------------------------------------------------------------------------
(***************************************************************************)
(* The pools.                                                              *)
(***************************************************************************)
\* OneOwner, user by user.
Apart ==
    /\ users \cap newUsers = {}
    /\ \A r \in Runners : \A i, j \in DOMAIN run[r].hand :
         run[r].hand[i] = run[r].hand[j] => i = j
    /\ \A r \in Runners : \A i \in DOMAIN run[r].hand :
         run[r].hand[i] \notin users \cup newUsers
    /\ \A r, q \in Runners :
         r # q => \A i \in DOMAIN run[r].hand : \A j \in DOMAIN run[q].hand :
                    run[r].hand[i] # run[q].hand[j]
    /\ \A u \in InitialUsers :
         \/ u \in users
         \/ \E r \in Runners : \E i \in DOMAIN run[r].hand : u = run[r].hand[i]

LEMMA OwnerPointwise == (OneOwner <=> Apart) /\ (OneOwner' <=> Apart')
<1>1. OneOwner => Apart
  BY DEF OneOwner, Apart, Held, Range
<1>2. Apart => OneOwner
  BY DEF OneOwner, Apart, Held, Range
<1>3. OneOwner' => Apart'
  BY DEF OneOwner, Apart, Held, Range
<1>4. Apart' => OneOwner'
  BY DEF OneOwner, Apart, Held, Range
<1> QED
  BY <1>1, <1>2, <1>3, <1>4

LEMMA MoveKeepsPools ==
  ASSUME Hands, Pools, NEW r \in Runners, NEW x, Changes(r, x), HandOK(x),
         x.hand = run[r].hand, UNCHANGED <<users, newUsers, crashed>>
  PROVE  Hands' /\ Pools'
<1>1. DOMAIN run = Runners /\ DOMAIN run' = Runners
      /\ \A q \in Runners : run'[q].hand = run[q].hand
  BY DEF Hands, Changes
<1>2. Hands'
  BY DEF Hands, Changes
<1>3. OneOwner'
  BY <1>1 DEF Pools, OneOwner, Held
<1> QED
  BY <1>2, <1>3 DEF Pools

LEMMA ReturnKeepsPools ==
  ASSUME Hands, Pools, ~crashed, NEW r \in Runners, NEW how, Return(r, how),
         UNCHANGED <<newUsers, crashed>>
  PROVE  Hands' /\ Pools'
<1>1. PICK x : Changes(r, x) /\ Returned(x)
  BY ReturnChanges
<1>2. users' = users \cup Pushed(r, how)
  BY ReturnChanges
<1>3. /\ DOMAIN run = Runners /\ DOMAIN run' = Runners
      /\ \A q \in Runners : HandOK(run[q])
      /\ run'[r].hand = <<>> /\ HandOK(run'[r])
      /\ \A q \in Runners \ {r} : run'[q] = run[q]
  BY <1>1 DEF Hands, Changes, Returned
<1>4. Hands'
  BY <1>3 DEF Hands
<1>5. DOMAIN (run[r].hand) = 1..Len(run[r].hand)
      /\ \A i \in DOMAIN run[r].hand : run[r].hand[i] \in Users
  BY <1>3 DEF HandOK
<1>6. Pushed(r, how) \subseteq Users
      /\ \A u \in Pushed(r, how) :
           \E i \in DOMAIN run[r].hand : u = run[r].hand[i]
  BY <1>5 DEF Pushed
<1>7. \A i \in DOMAIN run[r].hand :
        run[r].hand[i] \in InitialUsers => run[r].hand[i] \in Pushed(r, how)
  <2> TAKE i \in DOMAIN run[r].hand
  <2> HAVE run[r].hand[i] \in InitialUsers
  <2>1. run[r].hand[i] \notin NewUsers
    BY ScenariosAssumption
  <2>2. Len(run[r].hand) <= Len(Pops(run[r].scen)) /\ Len(run[r].hand) \in Nat
    BY <1>3 DEF HandOK, Phases, Busy, Out
  <2>3. Pops(run[r].scen)[i] = "pool"
    BY <1>3, <1>5, <2>1, <2>2, PopsType DEF HandOK
  <2> QED
    BY <2>3 DEF Pushed
<1>8. OneOwner
  BY DEF Pools
<1>9. DOMAIN run'[r].hand = {}
  BY <1>3
<1>10. OneOwner'
  BY <1>2, <1>3, <1>6, <1>7, <1>8, <1>9, OwnerPointwise DEF Apart
<1> QED
  BY <1>2, <1>4, <1>6, <1>10 DEF Pools

LEMMA PopKeepsPools ==
  ASSUME Hands, Pools, ~crashed, NEW r \in Runners, Pop(r)
  PROVE  /\ Hands' /\ Pools'
         /\ \/ \E x : /\ Changes(r, x) /\ x.phase \in {"idle", "pop"}
                      /\ run[r].phase = "pop"
            \/ \E x : Changes(r, x) /\ Returned(x)
            \/ UNCHANGED run
<1> DEFINE s == Pops(run[r].scen)
           n == Len(run[r].hand)
<1>1. /\ run[r].phase = "pop" /\ n \in Nat /\ n < Len(s)
      /\ DOMAIN run[r].hand = 1..n
      /\ run[r].scen \in Scens
  BY DEF Pop, Hands, HandOK, Phases, Busy, Out
<1>2. s[n + 1] \in {"new", "pool"}
  BY <1>1, PopsType
<1>3. ASSUME NEW u \in users \cup newUsers, Popped(r, u), UNCHANGED crashed,
             \/ /\ u \in users /\ users' = users \ {u} /\ newUsers' = newUsers
                /\ s[n + 1] # "new"
             \/ u \in newUsers /\ newUsers' = newUsers \ {u} /\ users' = users
      PROVE  /\ Hands' /\ Pools'
             /\ \E x : Changes(r, x) /\ x.phase \in {"idle", "pop"}
  <2>1. u \in Users /\ (s[n + 1] = "new" => u \in NewUsers)
    BY <1>3 DEF Pools, Users
  <2>2. PICK x : /\ Changes(r, x) /\ HandOK(x) /\ x.scen = run[r].scen
                 /\ x.hand = Append(run[r].hand, u)
                 /\ x.phase \in {"idle", "pop"} /\ x.step = 1
    BY <1>1, <1>3, <2>1, PoppedChanges
  <2>3. Hands'
    BY <2>2 DEF Hands, Changes
  <2>4. /\ DOMAIN run = Runners /\ DOMAIN run' = Runners
        /\ \A q \in Runners \ {r} : run'[q].hand = run[q].hand
        /\ run'[r].hand = Append(run[r].hand, u)
    BY <2>2 DEF Hands, Changes
  <2>5. /\ DOMAIN run'[r].hand = 1..n + 1 /\ run'[r].hand[n + 1] = u
        /\ \A i \in 1..n : run'[r].hand[i] = run[r].hand[i]
    <3>1. run[r].hand \in Seq(Users)
      BY DEF Hands, HandOK
    <3> QED
      BY <1>1, <2>1, <2>4, <3>1
  <2>6. OneOwner
    BY DEF Pools
  <2>7. u \in users => u \notin newUsers
    BY <2>6 DEF OneOwner
  <2>a. \A i \in 1..n + 1 : i \in 1..n \/ i = n + 1
    BY <1>1
  <2>8. \A i \in DOMAIN run'[r].hand :
          (i \in DOMAIN run[r].hand /\ run'[r].hand[i] = run[r].hand[i])
          \/ (i = n + 1 /\ run'[r].hand[i] = u)
    BY <1>1, <2>a, <2>5
  <2>9. \A q \in Runners : \A i \in DOMAIN run[q].hand : run[q].hand[i] # u
    BY <1>3, <2>4, <2>6, OwnerPointwise DEF Apart
  <2>10. users' \cup newUsers' = (users \cup newUsers) \ {u}
         /\ users' \cap newUsers' = {} /\ users \subseteq users' \cup {u}
    BY <1>3, <2>6, <2>7 DEF OneOwner
  <2>11. \A q \in Runners : \A i, j \in DOMAIN run'[q].hand :
           run'[q].hand[i] = run'[q].hand[j] => i = j
    BY <2>4, <2>6, <2>8, <2>9, OwnerPointwise DEF Apart
  <2>12. \A q \in Runners : \A i \in DOMAIN run'[q].hand :
           run'[q].hand[i] \notin users' \cup newUsers'
    BY <2>4, <2>6, <2>8, <2>9, <2>10, OwnerPointwise DEF Apart
  <2>13. \A p, q \in Runners :
           p # q => \A i \in DOMAIN run'[p].hand :
                      \A j \in DOMAIN run'[q].hand :
                        run'[p].hand[i] # run'[q].hand[j]
    BY <2>4, <2>6, <2>8, <2>9, OwnerPointwise DEF Apart
  <2>14. ASSUME NEW v \in InitialUsers
         PROVE  v \in users' \/ \E q \in Runners :
                                  \E i \in DOMAIN run'[q].hand :
                                    v = run'[q].hand[i]
    <3>1. CASE v = u
      BY <1>1, <2>5, <3>1
    <3>2. CASE v \in users /\ v # u
      BY <2>10, <3>2
    <3>3. CASE \E q \in Runners : \E i \in DOMAIN run[q].hand :
                 v = run[q].hand[i]
      <4>1. PICK q \in Runners : \E i \in DOMAIN run[q].hand :
                                   v = run[q].hand[i]
        BY <3>3
      <4>2. CASE q = r
        <5>1. \A i \in 1..n : i \in 1..n + 1
          BY <1>1
        <5> QED
          BY <1>1, <2>5, <4>1, <4>2, <5>1
      <4>3. CASE q # r
        BY <2>4, <4>1, <4>3
      <4> QED
        BY <4>2, <4>3
    <3> QED
      BY <2>4, <2>6, <3>1, <3>2, <3>3, OwnerPointwise DEF Apart
  <2>15. OneOwner'
    BY <2>4, <2>10, <2>11, <2>12, <2>13, <2>14, OwnerPointwise DEF Apart
  <2>16. Pools'
    BY <1>3, <2>15 DEF Pools
  <2> QED
    BY <2>2, <2>3, <2>16
<1>4. CASE /\ s[n + 1] = "new" /\ PopNewUser(r)
  <2>1. CASE Return(r, "nil") /\ UNCHANGED <<newUsers, crashed>>
    BY <2>1, ReturnKeepsPools, ReturnChanges
  <2>2. CASE \E u \in newUsers : /\ newUsers' = newUsers \ {u}
                                 /\ Popped(r, u)
                                 /\ UNCHANGED <<users, crashed>>
    BY <1>1, <1>3, <2>2
  <2> QED
    BY <1>4, <2>1, <2>2 DEF PopNewUser
<1>5. CASE /\ s[n + 1] # "new" /\ PopRandomUser(r)
  <2>1. CASE Return(r, "nil") /\ UNCHANGED <<newUsers, crashed>>
    BY <2>1, ReturnKeepsPools, ReturnChanges
  <2>2. CASE \E u \in users : /\ users' = users \ {u}
                              /\ Popped(r, u)
                              /\ UNCHANGED <<newUsers, crashed>>
    BY <1>1, <1>3, <1>5, <2>2
  <2>3. CASE users = {} /\ crashed' = TRUE /\ UNCHANGED <<pool, run>>
    <3>1. Hands' /\ OneOwner'
      BY <2>3 DEF Hands, OneOwner, Held, pool, Pools
    <3> QED
      BY <2>3, <3>1 DEF Pools, pool
  <2> QED
    BY <1>5, <2>1, <2>2, <2>3 DEF PopRandomUser
<1> QED
  BY <1>2, <1>4, <1>5 DEF Pop

-----------------------------------------------------------------------------
(***************************************************************************)
(* The tokens.                                                             *)
(***************************************************************************)
LEMMA HoldsElements ==
  ASSUME NEW u, NEW h
  PROVE  h \in Holds(u) <=>
           \/ \E r \in Runners : h = <<r, "play">> /\ PlaysFor(run[r], u)
           \/ \E r \in Runners : h = <<r, "icon">> /\ IconFor(run[r], u)
           \/ \E w \in Writers : h = <<w, "poll">> /\ PollFor(poll[w], u)
           \/ h = <<Main, "asset">> /\ AssetFor(asset, u)
BY DEF Holds

\* The tokens one goroutine holds.
Mine(r, x, u) ==
    (IF PlaysFor(x, u) THEN {<<r, "play">>} ELSE {})
    \cup (IF IconFor(x, u) THEN {<<r, "icon">>} ELSE {})

LEMMA RunHolds ==
  ASSUME Hands, NEW r \in Runners, NEW x, Changes(r, x), UNCHANGED poll,
         UNCHANGED asset, NEW u
  PROVE  /\ Holds(u)' = (Holds(u) \ {<<r, "play">>, <<r, "icon">>})
                        \cup Mine(r, x, u)
         /\ Mine(r, run[r], u) \subseteq Holds(u)
         /\ (Holds(u) \cap {<<r, "play">>, <<r, "icon">>})
              = Mine(r, run[r], u)
<1>1. /\ run'[r] = x
      /\ \A q \in Runners \ {r} : run'[q] = run[q]
  BY DEF Changes
<1>2. \A q : <<q, "play">> # <<q, "icon">>
  OBVIOUS
<1>3. Mine(r, run[r], u) \subseteq Holds(u)
  BY DEF Mine, Holds
<1>4. (Holds(u) \cap {<<r, "play">>, <<r, "icon">>}) = Mine(r, run[r], u)
  BY DEF Mine, Holds
<1>5. Holds(u)' = (Holds(u) \ {<<r, "play">>, <<r, "icon">>})
                  \cup Mine(r, x, u)
  BY <1>1 DEF Mine, Holds
<1> QED
  BY <1>3, <1>4, <1>5

\* From holds to next, the holders of u gain or lose h.
Gains(holds, next, u, h) ==
    /\ h \notin holds[u]
    /\ \A v \in Users :
         next[v] = IF v = u THEN holds[v] \cup {h} ELSE holds[v]
Loses(holds, next, u, h) ==
    /\ h \in holds[u]
    /\ \A v \in Users :
         next[v] = IF v = u THEN holds[v] \ {h} ELSE holds[v]

LEMMA TookKeeps ==
  ASSUME NEW t, NEW holds, KeptBy(t, holds), NEW u \in Users, t[u] > 0,
         NEW next, NEW h, Gains(holds, next, u, h)
  PROVE  KeptBy(Took(t, u), next)
<1>1. /\ IsFiniteSet(holds[u] \cup {h})
      /\ Cardinality(holds[u] \cup {h}) = Cardinality(holds[u]) + 1
      /\ Cardinality(holds[u]) \in Nat
  BY FS_AddElement, FS_CardinalityType DEF KeptBy, Gains
<1>2. t[u] \in Nat /\ t[u] + Cardinality(holds[u]) = Tokens
  BY DEF KeptBy
<1>3. t[u] - 1 \in Nat
      /\ t[u] - 1 + Cardinality(holds[u] \cup {h}) = Tokens
  BY <1>1, <1>2
<1>4. /\ Took(t, u) \in [Users -> Nat] /\ Took(t, u)[u] = t[u] - 1
      /\ \A v \in Users \ {u} : Took(t, u)[v] = t[v]
  BY <1>3 DEF KeptBy, Took
<1> QED
  BY <1>1, <1>3, <1>4 DEF KeptBy, Gains

LEMMA GaveKeeps ==
  ASSUME NEW t, NEW holds, KeptBy(t, holds), NEW u \in Users,
         NEW next, NEW h, Loses(holds, next, u, h)
  PROVE  KeptBy(Gave(t, u), next)
<1>1. /\ IsFiniteSet(holds[u] \ {h})
      /\ Cardinality(holds[u] \ {h}) = Cardinality(holds[u]) - 1
      /\ Cardinality(holds[u]) \in Nat
  BY FS_RemoveElement, FS_CardinalityType DEF KeptBy, Loses
<1>2. t[u] \in Nat /\ t[u] + Cardinality(holds[u]) = Tokens
  BY DEF KeptBy
<1>3. t[u] + 1 \in Nat
      /\ t[u] + 1 + Cardinality(holds[u] \ {h}) = Tokens
  BY <1>1, <1>2
<1>4. /\ Gave(t, u) \in [Users -> Nat] /\ Gave(t, u)[u] = t[u] + 1
      /\ \A v \in Users \ {u} : Gave(t, u)[v] = t[v]
  BY <1>3 DEF KeptBy, Gave
<1> QED
  BY <1>1, <1>3, <1>4 DEF KeptBy, Loses

\* The steps of a scenario's goroutine as its tokens see them.
LEMMA SameTokens ==
  ASSUME Hands, TokensKept, NEW r \in Runners, NEW x, Changes(r, x),
         UNCHANGED tokens, UNCHANGED poll, UNCHANGED asset,
         \A u \in Users : Mine(r, x, u) = Mine(r, run[r], u)
  PROVE  TokensKept'
<1>1. ASSUME NEW u \in Users
      PROVE  Holds(u)' = Holds(u)
  <2> DEFINE own == {<<r, "play">>, <<r, "icon">>}
  <2>1. Holds(u)' = (Holds(u) \ own) \cup Mine(r, x, u)
    BY RunHolds
  <2>2. Holds(u) \cap own = Mine(r, run[r], u)
    BY RunHolds
  <2> HIDE DEF own
  <2>3. Holds(u)' = (Holds(u) \ own) \cup (Holds(u) \cap own)
    BY <2>1, <2>2
  <2> QED
    BY <2>3
<1> QED
  BY <1>1 DEF TokensKept, KeptBy

\* One holder gains or loses a token.
LEMMA OneHolder ==
  ASSUME TokensKept, NEW p \in Users, NEW h,
         \/ /\ tokens[p] > 0 /\ tokens' = Took(tokens, p)
            /\ Gains([u \in Users |-> Holds(u)],
                     [u \in Users |-> Holds(u)]', p, h)
         \/ /\ tokens' = Gave(tokens, p)
            /\ Loses([u \in Users |-> Holds(u)],
                     [u \in Users |-> Holds(u)]', p, h)
  PROVE  TokensKept'
<1>1. PICK holds : holds = [u \in Users |-> Holds(u)]
  OBVIOUS
<1>2. PICK next : next = [u \in Users |-> Holds(u)]'
  OBVIOUS
<1>3. PICK t : t = tokens
  OBVIOUS
<1>4. KeptBy(t, holds)
  BY <1>1, <1>3 DEF TokensKept
<1>5. CASE /\ tokens[p] > 0 /\ tokens' = Took(tokens, p)
           /\ Gains([u \in Users |-> Holds(u)],
                    [u \in Users |-> Holds(u)]', p, h)
  <2>1. t[p] > 0 /\ Gains(holds, next, p, h)
    BY <1>1, <1>2, <1>3, <1>5
  <2>2. KeptBy(Took(t, p), next)
    BY <1>4, <2>1, TookKeeps
  <2> QED
    BY <1>2, <1>3, <1>5, <2>2 DEF TokensKept
<1>6. CASE /\ tokens' = Gave(tokens, p)
           /\ Loses([u \in Users |-> Holds(u)],
                    [u \in Users |-> Holds(u)]', p, h)
  <2>1. Loses(holds, next, p, h)
    BY <1>1, <1>2, <1>6
  <2>2. KeptBy(Gave(t, p), next)
    BY <1>4, <2>1, GaveKeeps
  <2> QED
    BY <1>2, <1>3, <1>6, <2>2 DEF TokensKept
<1> QED
  BY <1>5, <1>6

LEMMA TakesToken ==
  ASSUME Hands, TokensKept, NEW r \in Runners, NEW x, Changes(r, x),
         UNCHANGED poll, UNCHANGED asset, NEW p \in Users,
         tokens[p] > 0, tokens' = Took(tokens, p),
         NEW h \in {<<r, "play">>, <<r, "icon">>},
         Gains([u \in Users |-> Mine(r, run[r], u)],
               [u \in Users |-> Mine(r, x, u)], p, h)
  PROVE  TokensKept'
<1> DEFINE own == {<<r, "play">>, <<r, "icon">>}
<1>1. ASSUME NEW u \in Users
      PROVE  /\ Holds(u) \cap own = Mine(r, run[r], u)
             /\ Holds(u)' = IF u = p THEN Holds(u) \cup {h} ELSE Holds(u)
  <2>1. Holds(u)' = (Holds(u) \ own) \cup Mine(r, x, u)
    BY RunHolds
  <2>2. Holds(u) \cap own = Mine(r, run[r], u)
    BY RunHolds
  <2>3. Mine(r, x, u) = IF u = p THEN Mine(r, run[r], u) \cup {h}
                        ELSE Mine(r, run[r], u)
    BY DEF Gains
  <2> HIDE DEF own
  <2>4. CASE u = p
    BY <2>1, <2>2, <2>3, <2>4
  <2>5. CASE u # p
    BY <2>1, <2>2, <2>3, <2>5
  <2> QED
    BY <2>2, <2>4, <2>5
<1>2. h \notin Mine(r, run[r], p)
  BY DEF Gains
<1>3. h \notin Holds(p)
  BY <1>1, <1>2
<1>4. Gains([u \in Users |-> Holds(u)], [u \in Users |-> Holds(u)]', p, h)
  BY <1>1, <1>3 DEF Gains
<1> QED
  BY <1>4, OneHolder

LEMMA GivesToken ==
  ASSUME Hands, TokensKept, NEW r \in Runners, NEW x, Changes(r, x),
         UNCHANGED poll, UNCHANGED asset, NEW p \in Users,
         tokens' = Gave(tokens, p),
         NEW h \in {<<r, "play">>, <<r, "icon">>},
         Loses([u \in Users |-> Mine(r, run[r], u)],
               [u \in Users |-> Mine(r, x, u)], p, h)
  PROVE  TokensKept'
<1> DEFINE own == {<<r, "play">>, <<r, "icon">>}
<1>1. ASSUME NEW u \in Users
      PROVE  /\ Holds(u) \cap own = Mine(r, run[r], u)
             /\ Holds(u)' = IF u = p THEN Holds(u) \ {h} ELSE Holds(u)
  <2>1. Holds(u)' = (Holds(u) \ own) \cup Mine(r, x, u)
    BY RunHolds
  <2>2. Holds(u) \cap own = Mine(r, run[r], u)
    BY RunHolds
  <2>3. Mine(r, x, u) = IF u = p THEN Mine(r, run[r], u) \ {h}
                        ELSE Mine(r, run[r], u)
    BY DEF Loses
  <2>4. h \in own
    OBVIOUS
  <2> HIDE DEF own
  <2>5. CASE u = p
    BY <2>1, <2>2, <2>3, <2>4, <2>5
  <2>6. CASE u # p
    BY <2>1, <2>2, <2>3, <2>6
  <2> QED
    BY <2>2, <2>5, <2>6
<1>2. h \in Mine(r, run[r], p)
  BY DEF Loses
<1>3. h \in Holds(p)
  BY <1>1, <1>2
<1>4. Loses([u \in Users |-> Holds(u)], [u \in Users |-> Holds(u)]', p, h)
  BY <1>1, <1>3 DEF Loses
<1> QED
  BY <1>4, OneHolder

\* The Play of an icon ends, and with it the Play of its page.
LEMMA GivesBoth ==
  ASSUME Hands, TokensKept, NEW r \in Runners, NEW x, Changes(r, x),
         UNCHANGED poll, UNCHANGED asset, NEW p \in Users, NEW q \in Users,
         tokens' = Gave(Gave(tokens, p), q),
         \A u \in Users : Mine(r, x, u) = {},
         \A u \in Users : Mine(r, run[r], u) =
                            (IF u = p THEN {<<r, "play">>} ELSE {})
                            \cup (IF u = q THEN {<<r, "icon">>} ELSE {})
  PROVE  TokensKept'
<1> DEFINE a == <<r, "play">>
           b == <<r, "icon">>
<1>0. a # b
  OBVIOUS
<1>1. PICK holds : holds = [u \in Users |-> Holds(u)]
  OBVIOUS
<1>2. PICK next : next = [u \in Users |-> Holds(u)]'
  OBVIOUS
<1>3. PICK t : t = tokens
  OBVIOUS
<1>4. PICK some : some = [u \in Users |-> IF u = p THEN holds[u] \ {a}
                                          ELSE holds[u]]
  OBVIOUS
<1>5. ASSUME NEW u \in Users
      PROVE  /\ next[u] = holds[u] \ {a, b}
             /\ a \in holds[u] <=> u = p
             /\ b \in holds[u] <=> u = q
  <2>1. Holds(u)' = (Holds(u) \ {a, b}) \cup Mine(r, x, u)
    BY RunHolds
  <2>2. Holds(u) \cap {a, b} = Mine(r, run[r], u)
    BY RunHolds
  <2>3. next[u] = Holds(u)' /\ holds[u] = Holds(u)
    BY <1>1, <1>2
  <2>4. a \in Mine(r, run[r], u) <=> u = p
    BY <1>0
  <2>5. b \in Mine(r, run[r], u) <=> u = q
    BY <1>0
  <2>6. Mine(r, x, u) = {}
    OBVIOUS
  <2> HIDE DEF a, b
  <2> QED
    BY <2>1, <2>2, <2>3, <2>4, <2>5, <2>6
<1> HIDE DEF a, b
<1>6. KeptBy(t, holds)
  BY <1>1, <1>3 DEF TokensKept
<1>7. Loses(holds, some, p, a)
  BY <1>4, <1>5 DEF Loses
<1>8. Loses(some, next, q, b)
  <2>1. q \in Users
    OBVIOUS
  <2>2. b \in some[q]
    BY <1>0, <1>4, <1>5, <2>1
  <2>3. ASSUME NEW v \in Users
        PROVE  next[v] = IF v = q THEN some[v] \ {b} ELSE some[v]
    <3>1. /\ next[v] = holds[v] \ {a, b}
          /\ a \in holds[v] <=> v = p
          /\ b \in holds[v] <=> v = q
      BY <1>5
    <3>2. some[v] = IF v = p THEN holds[v] \ {a} ELSE holds[v]
      BY <1>4
    <3>3. next[v] = some[v] \ {b}
      BY <3>1, <3>2
    <3>4. v # q => b \notin some[v]
      BY <3>1, <3>2
    <3> QED
      BY <3>3, <3>4
  <2> QED
    BY <2>2, <2>3 DEF Loses
<1>9. KeptBy(Gave(t, p), some)
  BY <1>6, <1>7, GaveKeeps
<1>10. PICK t1 : t1 = Gave(t, p)
  OBVIOUS
<1>11. KeptBy(Gave(t1, q), next)
  BY <1>8, <1>9, <1>10, GaveKeeps
<1> QED
  BY <1>2, <1>3, <1>10, <1>11 DEF TokensKept

-----------------------------------------------------------------------------
(***************************************************************************)
(* Each step keeps the invariant.                                          *)
(***************************************************************************)
LEMMA PlayerIsUser ==
  ASSUME Hands, NEW r \in Runners, run[r].phase \in Busy
  PROVE  /\ Player(r) \in Users /\ run[r].hand[1] \in Users
         /\ Current(r).who \in DOMAIN run[r].hand /\ 1 \in DOMAIN run[r].hand
         /\ run[r].scen \in Scens /\ run[r].step \in DOMAIN Steps(r)
<1> DEFINE y == run[r]
<1>1. /\ y.hand \in Seq(Users) /\ y.scen \in Scens
      /\ Len(y.hand) = Len(Pops(y.scen)) /\ y.step \in DOMAIN Script[y.scen]
  BY DEF Hands, HandOK, Busy, Out
<1>2. /\ DOMAIN y.hand = 1..Len(Pops(y.scen)) /\ Len(Pops(y.scen)) \in 1..3
  BY <1>1, PopsType
<1>3. Script[y.scen][y.step].who \in DOMAIN y.hand
  BY <1>1, <1>2, ScriptType DEF ScriptOK
<1>4. 1 \in DOMAIN y.hand
  <2>1. \A n \in 1..3 : 1 \in 1..n
    OBVIOUS
  <2> QED
    BY <1>2, <2>1
<1> QED
  BY <1>1, <1>3, <1>4 DEF Player, Current, Steps

\* What a goroutine holds in its phase.
LEMMA MineByPhase ==
  ASSUME Hands, NEW r \in Runners, NEW x, NEW u
  PROVE  /\ x.phase \in {"free", "end", "pop", "idle"} => Mine(r, x, u) = {}
         /\ run[r].phase \in {"out", "inner"} =>
              Mine(r, run[r], u) = IF u = Player(r) THEN {<<r, "play">>} ELSE {}
         /\ run[r].phase = "innerOut" =>
              Mine(r, run[r], u) =
                (IF u = Player(r) THEN {<<r, "play">>} ELSE {})
                \cup (IF u = run[r].hand[1] THEN {<<r, "icon">>} ELSE {})
         /\ Moved(r, x) /\ x.step = run[r].step =>
              /\ x.phase \in {"out", "inner"} =>
                   Mine(r, x, u) = IF u = Player(r) THEN {<<r, "play">>} ELSE {}
              /\ x.phase = "innerOut" =>
                   Mine(r, x, u) =
                     (IF u = Player(r) THEN {<<r, "play">>} ELSE {})
                     \cup (IF u = run[r].hand[1] THEN {<<r, "icon">>} ELSE {})
<1>1. PlaysFor(run[r], u) <=> run[r].phase \in Out /\ Player(r) = u
  BY DEF PlaysFor, Player, Current, Steps
<1>2. Moved(r, x) /\ x.step = run[r].step =>
        /\ PlaysFor(x, u) <=> x.phase \in Out /\ Player(r) = u
        /\ IconFor(x, u) <=> x.phase = "innerOut" /\ run[r].hand[1] = u
  BY DEF PlaysFor, IconFor, Player, Current, Steps, Moved
<1>3. x.phase \in {"free", "end", "pop", "idle"} => Mine(r, x, u) = {}
  BY DEF Mine, PlaysFor, IconFor, Out
<1>4. run[r].phase \in {"out", "inner"} =>
        Mine(r, run[r], u) = IF u = Player(r) THEN {<<r, "play">>} ELSE {}
  BY <1>1 DEF Mine, IconFor, Out
<1>5. run[r].phase = "innerOut" =>
        Mine(r, run[r], u) = (IF u = Player(r) THEN {<<r, "play">>} ELSE {})
                             \cup (IF u = run[r].hand[1]
                                   THEN {<<r, "icon">>} ELSE {})
  BY <1>1 DEF Mine, IconFor, Out
<1>6. ASSUME Moved(r, x), x.step = run[r].step, x.phase \in {"out", "inner"}
      PROVE  Mine(r, x, u) = IF u = Player(r) THEN {<<r, "play">>} ELSE {}
  BY <1>2, <1>6 DEF Mine, Out
<1>7. ASSUME Moved(r, x), x.step = run[r].step, x.phase = "innerOut"
      PROVE  Mine(r, x, u) = (IF u = Player(r) THEN {<<r, "play">>} ELSE {})
                             \cup (IF u = run[r].hand[1]
                                   THEN {<<r, "icon">>} ELSE {})
  BY <1>2, <1>7 DEF Mine, Out
<1> QED
  BY <1>3, <1>4, <1>5, <1>6, <1>7

\* A step in which r holds no token before and after.
LEMMA IdleTokens ==
  ASSUME Hands, TokensKept, NEW r \in Runners, NEW x, Changes(r, x),
         UNCHANGED tokens, UNCHANGED poll, UNCHANGED asset,
         run[r].phase \in {"free", "end", "pop", "idle"},
         x.phase \in {"free", "end", "pop", "idle"}
  PROVE  TokensKept'
<1>1. ASSUME NEW u \in Users
      PROVE  Mine(r, x, u) = Mine(r, run[r], u)
  <2>1. Mine(r, x, u) = {} /\ Mine(r, run[r], u) = {}
    BY MineByPhase
  <2> QED
    BY <2>1
<1> QED
  BY <1>1, SameTokens

\* A Play is over.
LEMMA PlayOver ==
  ASSUME Hands, TokensKept, NEW r \in Runners, NEW x, Changes(r, x),
         UNCHANGED poll, UNCHANGED asset,
         run[r].phase \in {"out", "inner"}, tokens' = Gave(tokens, Player(r)),
         x.phase \in {"free", "end", "idle"}
  PROVE  TokensKept'
<1> DEFINE p == Player(r)
           h == <<r, "play">>
<1>1. p \in Users
  BY PlayerIsUser DEF Busy, Out
<1>2. ASSUME NEW u \in Users
      PROVE  /\ Mine(r, run[r], u) = IF u = p THEN {h} ELSE {}
             /\ Mine(r, x, u) = {}
  BY MineByPhase
<1> HIDE DEF p, h
<1>3. Loses([u \in Users |-> Mine(r, run[r], u)],
            [u \in Users |-> Mine(r, x, u)], p, h)
  BY <1>1, <1>2 DEF Loses
<1> QED
  BY <1>1, <1>3, GivesToken DEF h, p

LEMMA ChooseKeeps ==
  ASSUME PoolInv, ~crashed, NEW r \in Runners, Choose(r)
  PROVE  PoolInv'
<1> USE DEF PoolInv
<1>1. Chooses(r) \subseteq Scens
  BY ScriptDomain DEF Chooses, LoadFuncs, Scens
<1>2. PICK scen \in Scens :
        run' = [run EXCEPT ![r].scen = scen, ![r].phase = "pop"]
  BY <1>1 DEF Choose
<1> DEFINE y == run[r]
<1>3. /\ y.phase = "free" /\ y.hand = <<>> /\ y.step = 1
      /\ y \in [scen : Scens \cup {"none"}, step : Nat, hand : Seq(Users),
                phase : Phases, cookie : BOOLEAN]
  BY DEF Choose, Hands, HandOK
<1>4. PICK x : x = [[y EXCEPT !.scen = scen] EXCEPT !.phase = "pop"]
  OBVIOUS
<1>5. /\ x.scen = scen /\ x.phase = "pop" /\ x.hand = <<>> /\ x.step = 1
      /\ x \in [scen : Scens \cup {"none"}, step : Nat, hand : Seq(Users),
                phase : Phases, cookie : BOOLEAN]
  BY <1>3, <1>4 DEF Phases
<1>6. Changes(r, x)
  <2>1. run' = [run EXCEPT ![r] = x]
    BY <1>2, <1>4 DEF Hands
  <2> QED
    BY <2>1 DEF Changes, Hands
<1>7. HandOK(x)
  <2>1. Len(Pops(scen)) > 0 /\ Len(<<>>) = 0 /\ DOMAIN <<>> = {}
    BY PopsType
  <2>2. scen # "none"
    BY DEF Scens
  <2> QED
    BY <1>5, <2>1, <2>2 DEF HandOK, Busy, Out
<1>8. Hands' /\ Pools'
  BY <1>3, <1>5, <1>6, <1>7, MoveKeepsPools DEF Choose, pool
<1>9. TokensKept'
  BY <1>3, <1>5, <1>6, IdleTokens DEF Choose
<1>10. Helpers'
  BY DEF Choose, Helpers
<1> QED
  BY <1>8, <1>9, <1>10

LEMMA PopKeeps ==
  ASSUME PoolInv, ~crashed, NEW r \in Runners, Pop(r)
  PROVE  PoolInv'
<1> USE DEF PoolInv
<1>1. Hands' /\ Pools'
  BY PopKeepsPools
<1>2. UNCHANGED <<tokens, poll, asset>> /\ run[r].phase = "pop"
  BY DEF Pop
<1>3. TokensKept'
  <2>1. CASE UNCHANGED run
    BY <1>2, <2>1 DEF TokensKept, KeptBy, Holds
  <2>2. CASE \E x : Changes(r, x) /\ x.phase \in {"free", "end", "idle", "pop"}
    BY <1>2, <2>2, IdleTokens
  <2> QED
    BY <2>1, <2>2, PopKeepsPools DEF Returned
<1>4. Helpers'
  BY <1>2 DEF Helpers
<1> QED
  BY <1>1, <1>3, <1>4

LEMMA EnterKeeps ==
  ASSUME PoolInv, ~crashed, NEW r \in Runners, Enter(r)
  PROVE  PoolInv'
<1> USE DEF PoolInv
<1>1. run[r].phase = "idle" /\ run[r].phase \in Busy
  BY DEF Enter, Busy
<1>2. run' = [run EXCEPT ![r].phase = "out", ![r].cookie = Player(r) \in jar]
  BY DEF Enter
<1>3. (Player(r) \in jar) \in BOOLEAN
  OBVIOUS
<1>4. PICK x : /\ Changes(r, x) /\ Moved(r, x) /\ x.phase = "out"
               /\ x.step = run[r].step
  BY <1>1, <1>2, <1>3, EnterChanges
<1>5. Hands' /\ Pools'
  BY <1>4, MoveKeepsPools DEF Enter, pool, Moved
<1>6. TokensKept'
  <2> DEFINE p == Player(r)
             h == <<r, "play">>
  <2>1. p \in Users
    BY <1>1, PlayerIsUser
  <2>2. ASSUME NEW u \in Users
        PROVE  /\ Mine(r, run[r], u) = {}
               /\ Mine(r, x, u) = IF u = p THEN {h} ELSE {}
    BY <1>1, <1>4, MineByPhase
  <2>3. tokens[p] > 0 /\ tokens' = Took(tokens, p) /\ UNCHANGED <<poll, asset>>
    BY DEF Enter
  <2> HIDE DEF p, h
  <2>4. Gains([u \in Users |-> Mine(r, run[r], u)],
              [u \in Users |-> Mine(r, x, u)], p, h)
    BY <2>1, <2>2 DEF Gains
  <2>5. h \in {<<r, "play">>, <<r, "icon">>}
    BY DEF h
  <2> QED
    BY <1>4, <2>1, <2>3, <2>4, <2>5, TakesToken
<1>7. Helpers'
  BY DEF Enter, Helpers
<1> QED
  BY <1>5, <1>6, <1>7

LEMMA SkipPlaysKeeps ==
  ASSUME PoolInv, ~crashed, NEW r \in Runners, SkipPlays(r)
  PROVE  PoolInv'
<1> USE DEF PoolInv
<1>1. /\ run[r].phase \in {"idle", "inner"} /\ Return(r, "end")
      /\ UNCHANGED <<newUsers, poll, asset, crashed>>
  BY DEF SkipPlays
<1>2. PICK x : Changes(r, x) /\ Returned(x)
  BY <1>1, ReturnChanges
<1>3. Hands' /\ Pools'
  BY <1>1, ReturnKeepsPools
<1>4. TokensKept'
  <2>1. CASE run[r].phase = "inner"
    BY <1>1, <1>2, <2>1, PlayOver DEF SkipPlays, Returned
  <2>2. CASE run[r].phase = "idle"
    BY <1>1, <1>2, <2>2, IdleTokens DEF SkipPlays, Returned
  <2> QED
    BY <1>1, <2>1, <2>2
<1>5. Helpers'
  BY <1>1 DEF Helpers
<1> QED
  BY <1>3, <1>4, <1>5

\* A Play ends and the goroutine goes on or returns.
LEMMA AdvanceKeepsPools ==
  ASSUME Hands, Pools, ~crashed, NEW r \in Runners, run[r].phase \in Busy,
         Advance(r) \/ Return(r, "error"), UNCHANGED <<newUsers, crashed>>
  PROVE  /\ Hands' /\ Pools'
         /\ \E x : Changes(r, x) /\ x.phase \in {"free", "end", "idle"}
<1>1. CASE Return(r, "error") \/ Return(r, "end")
  BY <1>1, ReturnKeepsPools, ReturnChanges DEF Returned
<1>2. CASE /\ users' = users
           /\ \E x : /\ Changes(r, x) /\ Moved(r, x) /\ x.phase = "idle"
  <2>1. PICK x : Changes(r, x) /\ Moved(r, x) /\ x.phase = "idle"
    BY <1>2
  <2> QED
    BY <1>2, <2>1, MoveKeepsPools DEF Moved
<1> QED
  BY <1>1, <1>2, AdvanceChanges

LEMMA AnsweredKeeps ==
  ASSUME PoolInv, ~crashed, NEW r \in Runners, Answered(r)
  PROVE  PoolInv'
<1> USE DEF PoolInv
<1>1. /\ run[r].phase = "out" /\ run[r].phase \in Busy
      /\ UNCHANGED newUsers /\ UNCHANGED poll /\ UNCHANGED asset
      /\ UNCHANGED crashed
  BY DEF Answered, Busy, Out
<1>2. PICK answer : Judged(r, answer)
  BY DEF Answered
<1>3. Helpers'
  BY <1>1 DEF Helpers
<1>4. CASE /\ tokens' = Gave(tokens, Player(r))
           /\ Advance(r) \/ Return(r, "error")
  <2>1. /\ Hands' /\ Pools'
        /\ \E x : Changes(r, x) /\ x.phase \in {"free", "end", "idle"}
    BY <1>1, <1>4, AdvanceKeepsPools
  <2>2. TokensKept'
    BY <1>1, <1>4, <2>1, PlayOver
  <2> QED
    BY <1>3, <2>1, <2>2
<1>5. CASE /\ run' = [run EXCEPT ![r].phase = "inner"]
           /\ UNCHANGED <<users, tokens, blames>>
  <2>1. run' = [run EXCEPT ![r].phase = "inner"] /\ "inner" \in Busy
    BY <1>5 DEF Busy, Out
  <2>2. PICK x : /\ Changes(r, x) /\ Moved(r, x) /\ x.phase = "inner"
                 /\ x.step = run[r].step /\ x.cookie = run[r].cookie
    BY <1>1, <2>1, PhaseChanges
  <2>3. Hands' /\ Pools'
    BY <1>1, <1>5, <2>2, MoveKeepsPools DEF Moved
  <2>4. ASSUME NEW u \in Users
        PROVE  Mine(r, x, u) = Mine(r, run[r], u)
    <3>1. Mine(r, run[r], u) = IF u = Player(r) THEN {<<r, "play">>} ELSE {}
      BY <1>1, MineByPhase
    <3>2. Mine(r, x, u) = IF u = Player(r) THEN {<<r, "play">>} ELSE {}
      BY <2>2, MineByPhase
    <3> QED
      BY <3>1, <3>2
  <2>5. TokensKept'
    BY <1>1, <1>5, <2>2, <2>4, SameTokens
  <2> QED
    BY <1>3, <2>3, <2>5
<1> QED
  BY <1>2, <1>4, <1>5 DEF Judged

LEMMA GivesUpKeeps ==
  ASSUME PoolInv, ~crashed, NEW r \in Runners, GivesUp(r)
  PROVE  PoolInv'
<1> USE DEF PoolInv
<1>1. /\ run[r].phase = "out" /\ run[r].phase \in Busy
      /\ UNCHANGED newUsers /\ UNCHANGED poll /\ UNCHANGED asset
      /\ UNCHANGED crashed /\ tokens' = Gave(tokens, Player(r))
      /\ Return(r, "error")
  BY DEF GivesUp, Busy, Out
<1>2. /\ Hands' /\ Pools'
      /\ \E x : Changes(r, x) /\ x.phase \in {"free", "end", "idle"}
  BY <1>1, AdvanceKeepsPools
<1>3. TokensKept'
  BY <1>1, <1>2, PlayOver
<1>4. Helpers'
  BY <1>1 DEF Helpers
<1> QED
  BY <1>2, <1>3, <1>4

LEMMA InnerEnterKeeps ==
  ASSUME PoolInv, ~crashed, NEW r \in Runners, InnerEnter(r)
  PROVE  PoolInv'
<1> USE DEF PoolInv
<1>1. /\ run[r].phase = "inner" /\ run[r].phase \in Busy
      /\ "innerOut" \in Busy
      /\ run' = [run EXCEPT ![r].phase = "innerOut"]
      /\ UNCHANGED <<users, newUsers, poll, asset, crashed>>
  BY DEF InnerEnter, Busy, Out, pool
<1>2. PICK x : /\ Changes(r, x) /\ Moved(r, x) /\ x.phase = "innerOut"
               /\ x.step = run[r].step /\ x.cookie = run[r].cookie
  BY <1>1, PhaseChanges
<1>3. Hands' /\ Pools'
  BY <1>1, <1>2, MoveKeepsPools DEF Moved
<1>4. TokensKept'
  <2> DEFINE p == run[r].hand[1]
             h == <<r, "icon">>
             g == <<r, "play">>
  <2>1. p \in Users
    BY <1>1, PlayerIsUser
  <2>2. ASSUME NEW u \in Users
        PROVE  /\ h \notin Mine(r, run[r], u)
               /\ Mine(r, x, u) = Mine(r, run[r], u)
                                  \cup (IF u = p THEN {h} ELSE {})
    <3>1. Mine(r, run[r], u) = IF u = Player(r) THEN {g} ELSE {}
      BY <1>1, MineByPhase
    <3>2. Mine(r, x, u) = (IF u = Player(r) THEN {g} ELSE {})
                          \cup (IF u = p THEN {h} ELSE {})
      BY <1>2, MineByPhase
    <3>3. g # h
      OBVIOUS
    <3> HIDE DEF p, g, h
    <3> QED
      BY <3>1, <3>2, <3>3
  <2>3. tokens[p] > 0 /\ tokens' = Took(tokens, p)
    BY DEF InnerEnter
  <2>4. h \in {<<r, "play">>, <<r, "icon">>}
    OBVIOUS
  <2> HIDE DEF p, h
  <2>5. Gains([u \in Users |-> Mine(r, run[r], u)],
              [u \in Users |-> Mine(r, x, u)], p, h)
    BY <2>1, <2>2 DEF Gains
  <2> QED
    BY <1>1, <1>2, <2>1, <2>3, <2>4, <2>5, TakesToken
<1>5. Helpers'
  BY <1>1 DEF Helpers
<1> QED
  BY <1>3, <1>4, <1>5

LEMMA InnerEndsKeeps ==
  ASSUME PoolInv, ~crashed, NEW r \in Runners, InnerEnds(r)
  PROVE  PoolInv'
<1> USE DEF PoolInv
<1>1. /\ run[r].phase = "innerOut" /\ run[r].phase \in Busy
      /\ UNCHANGED newUsers /\ UNCHANGED poll /\ UNCHANGED asset
      /\ UNCHANGED crashed
      /\ tokens' = Gave(Gave(tokens, Player(r)), run[r].hand[1])
      /\ Advance(r) \/ Return(r, "error")
  BY DEF InnerEnds, Busy, Out
<1>2. Hands' /\ Pools'
  BY <1>1, AdvanceKeepsPools
<1>3. PICK x : Changes(r, x) /\ x.phase \in {"free", "end", "idle"}
  BY <1>1, AdvanceKeepsPools
<1>4. TokensKept'
  <2>1. Player(r) \in Users /\ run[r].hand[1] \in Users
    BY <1>1, PlayerIsUser
  <2>2. ASSUME NEW u \in Users
        PROVE  Mine(r, x, u) = {}
    BY <1>3, MineByPhase
  <2>3. ASSUME NEW u \in Users
        PROVE  Mine(r, run[r], u) =
                 (IF u = Player(r) THEN {<<r, "play">>} ELSE {})
                 \cup (IF u = run[r].hand[1] THEN {<<r, "icon">>} ELSE {})
    BY <1>1, MineByPhase
  <2> QED
    BY <1>1, <1>3, <2>1, <2>2, <2>3, GivesBoth
<1>5. Helpers'
  BY <1>1 DEF Helpers
<1> QED
  BY <1>2, <1>4, <1>5

LEMMA LocalKeeps ==
  ASSUME PoolInv, ~crashed, NEW r \in Runners, Local(r)
  PROVE  PoolInv'
<1> USE DEF PoolInv
<1>1. /\ run[r].phase = "idle" /\ run[r].phase \in Busy
      /\ UNCHANGED <<newUsers, tokens, poll, crashed>>
      /\ Advance(r)
  BY DEF Local, Busy
<1>2. /\ Hands' /\ Pools'
      /\ \E x : Changes(r, x) /\ x.phase \in {"free", "end", "idle"}
  BY <1>1, AdvanceKeepsPools
<1>3. CASE UNCHANGED asset
  <2>1. TokensKept'
    BY <1>1, <1>2, <1>3, IdleTokens
  <2>2. Helpers'
    BY <1>1, <1>3 DEF Helpers
  <2> QED
    BY <1>2, <2>1, <2>2
<1>4. CASE asset.phase = "off"
           /\ asset' = [phase |-> "wait", user |-> Player(r)]
  <2>1. Player(r) \in Users
    BY <1>1, PlayerIsUser
  <2>2. Helpers'
    BY <1>1, <1>4, <2>1 DEF Helpers
  <2>3. PICK x : Changes(r, x) /\ x.phase \in {"free", "end", "idle"}
    BY <1>2
  <2>4. ASSUME NEW u \in Users
        PROVE  Holds(u)' = Holds(u)
    <3>1. \A q \in Runners : PlaysFor(run'[q], u) <=> PlaysFor(run[q], u)
      BY <1>1, <2>3 DEF PlaysFor, Out, Changes
    <3>2. \A q \in Runners : IconFor(run'[q], u) <=> IconFor(run[q], u)
      BY <1>1, <2>3 DEF IconFor, Changes
    <3>3. ~AssetFor(asset, u) /\ ~AssetFor(asset', u)
      BY <1>4 DEF AssetFor
    <3> QED
      BY <1>1, <3>1, <3>2, <3>3 DEF Holds
  <2>5. TokensKept'
    BY <1>1, <2>4 DEF TokensKept, KeptBy
  <2> QED
    BY <1>2, <2>2, <2>5
<1>5. \/ UNCHANGED asset
      \/ asset' = IF asset.phase = "off"
                  THEN [phase |-> "wait", user |-> Player(r)] ELSE asset
  BY DEF Local
<1> QED
  BY <1>3, <1>4, <1>5

\* Hands and pools see neither the polling goroutines nor the static files.
LEMMA HelperKeepsPools ==
  ASSUME Hands, Pools, UNCHANGED <<users, newUsers, run, crashed>>
  PROVE  Hands' /\ Pools'
BY DEF Hands, Pools, OneOwner, Held

LEMMA PollHolds ==
  ASSUME Helpers, UNCHANGED run, UNCHANGED asset, NEW w \in Writers, NEW p,
         poll' = [poll EXCEPT ![w] = p], NEW u
  PROVE  /\ Holds(u)' = (Holds(u) \ {<<w, "poll">>})
                        \cup (IF PollFor(p, u) THEN {<<w, "poll">>} ELSE {})
         /\ <<w, "poll">> \in Holds(u) <=> PollFor(poll[w], u)
<1>1. poll'[w] = p /\ \A v \in Writers \ {w} : poll'[v] = poll[v]
  BY DEF Helpers
<1>2. <<w, "poll">> \in Holds(u) <=> PollFor(poll[w], u)
  BY DEF Holds
<1>3. Holds(u)' = (Holds(u) \ {<<w, "poll">>})
                  \cup (IF PollFor(p, u) THEN {<<w, "poll">>} ELSE {})
  BY <1>1 DEF Holds
<1> QED
  BY <1>2, <1>3

PollRecord == [phase : {"off", "fetch", "message", "fetchOut", "messageOut",
                        "failed"},
               user : Users \cup {NoUser}, cookie : BOOLEAN]

\* A poll that holds no token before and after its step.
LEMMA PollIdle ==
  ASSUME PoolInv, NEW w \in Writers, NEW p \in PollRecord,
         poll' = [poll EXCEPT ![w] = p], p.phase # "off" => p.user \in Users,
         UNCHANGED <<users, newUsers, run, crashed>>, UNCHANGED tokens,
         UNCHANGED asset,
         poll[w].phase \notin {"fetchOut", "messageOut"},
         p.phase \notin {"fetchOut", "messageOut"}
  PROVE  PoolInv'
<1> USE DEF PoolInv
<1>1. Hands' /\ Pools'
  BY HelperKeepsPools
<1>2. Helpers'
  BY DEF Helpers, PollRecord
<1>3. ASSUME NEW u \in Users
      PROVE  Holds(u)' = Holds(u)
  <2>1. ~PollFor(p, u) /\ ~PollFor(poll[w], u)
    BY DEF PollFor
  <2>2. Holds(u)' = (Holds(u) \ {<<w, "poll">>})
                    \cup (IF PollFor(p, u) THEN {<<w, "poll">>} ELSE {})
    BY PollHolds
  <2>3. <<w, "poll">> \in Holds(u) <=> PollFor(poll[w], u)
    BY PollHolds
  <2> QED
    BY <2>1, <2>2, <2>3
<1>4. TokensKept'
  BY <1>3 DEF TokensKept, KeptBy
<1> QED
  BY <1>1, <1>2, <1>4

\* A poll whose request leaves, or ends.
LEMMA PollToken ==
  ASSUME PoolInv, NEW w \in Writers, NEW p \in PollRecord,
         poll' = [poll EXCEPT ![w] = p], p.phase # "off" => p.user \in Users,
         UNCHANGED <<users, newUsers, run, crashed>>, UNCHANGED asset,
         NEW q, q = poll[w].user,
         \/ /\ q \in Users /\ tokens[q] > 0 /\ tokens' = Took(tokens, q)
            /\ poll[w].phase \notin {"fetchOut", "messageOut"}
            /\ p.phase \in {"fetchOut", "messageOut"} /\ p.user = q
         \/ /\ tokens' = Gave(tokens, q)
            /\ poll[w].phase \in {"fetchOut", "messageOut"}
            /\ p.phase \notin {"fetchOut", "messageOut"}
  PROVE  PoolInv'
<1> USE DEF PoolInv
<1> DEFINE h == <<w, "poll">>
<1>1. Hands' /\ Pools'
  BY HelperKeepsPools
<1>2. Helpers'
  BY DEF Helpers, PollRecord
<1>3. ASSUME NEW u \in Users
      PROVE  /\ Holds(u)' = (Holds(u) \ {h})
                            \cup (IF PollFor(p, u) THEN {h} ELSE {})
             /\ h \in Holds(u) <=> PollFor(poll[w], u)
  BY PollHolds
<1> HIDE DEF h
<1>4. CASE /\ q \in Users /\ tokens[q] > 0 /\ tokens' = Took(tokens, q)
           /\ poll[w].phase \notin {"fetchOut", "messageOut"}
           /\ p.phase \in {"fetchOut", "messageOut"} /\ p.user = q
  <2>1. \A u \in Users : ~PollFor(poll[w], u) /\ (PollFor(p, u) <=> u = q)
    BY <1>4 DEF PollFor
  <2>a. ASSUME NEW u \in Users
        PROVE  /\ h \notin Holds(u)
               /\ Holds(u)' = IF u = q THEN Holds(u) \cup {h} ELSE Holds(u)
    <3>1. h \notin Holds(u) /\ Holds(u) \ {h} = Holds(u)
      BY <1>3, <2>1
    <3>2. CASE u = q
      BY <1>3, <2>1, <3>1, <3>2
    <3>3. CASE u # q
      BY <1>3, <2>1, <3>1, <3>3
    <3> QED
      BY <3>1, <3>2, <3>3
  <2>2. Gains([u \in Users |-> Holds(u)], [u \in Users |-> Holds(u)]', q, h)
    BY <1>4, <2>a DEF Gains
  <2>3. TokensKept'
    BY <1>4, <2>2, OneHolder
  <2> QED
    BY <1>1, <1>2, <2>3
<1>5. CASE /\ tokens' = Gave(tokens, q)
           /\ poll[w].phase \in {"fetchOut", "messageOut"}
           /\ p.phase \notin {"fetchOut", "messageOut"}
  <2>1. q \in Users
    BY <1>5 DEF Helpers
  <2>2. \A u \in Users : ~PollFor(p, u) /\ (PollFor(poll[w], u) <=> u = q)
    BY <1>5 DEF PollFor
  <2>a. ASSUME NEW u \in Users
        PROVE  /\ h \in Holds(u) <=> u = q
               /\ Holds(u)' = IF u = q THEN Holds(u) \ {h} ELSE Holds(u)
    BY <1>3, <2>2
  <2>3. Loses([u \in Users |-> Holds(u)], [u \in Users |-> Holds(u)]', q, h)
    BY <2>1, <2>a DEF Loses
  <2>4. TokensKept'
    BY <1>5, <2>1, <2>3, OneHolder
  <2> QED
    BY <1>1, <1>2, <2>4
<1> QED
  BY <1>4, <1>5

LEMMA NoPollType == NoPoll \in PollRecord /\ NoPoll.phase = "off"
BY DEF NoPoll, PollRecord

LEMMA PollingKeeps ==
  ASSUME PoolInv, ~crashed, NEW w \in Writers, Polling(w)
  PROVE  PoolInv'
<1> DEFINE y == poll[w]
<1>0. /\ y \in PollRecord /\ y.user \in Users \cup {NoUser}
      /\ y.phase # "off" => y.user \in Users
      /\ DOMAIN poll = Writers /\ w \in Runners
  BY DEF PoolInv, Helpers, PollRecord, Runners
<1>1. CASE PollStart(w)
  <2>1. PICK u : u = run[w].hand[1]
    OBVIOUS
  <2>2. u \in Users
    BY <1>0, <1>1, <2>1, PlayerIsUser DEF PollStart, InSelect, Busy, PoolInv
  <2>3. PICK p : p = [[NoPoll EXCEPT !.phase = "fetch"] EXCEPT !.user = u]
    OBVIOUS
  <2>4. p \in PollRecord /\ p.phase = "fetch" /\ p.user = u
    BY <2>2, <2>3 DEF NoPoll, PollRecord
  <2>5. /\ poll' = [poll EXCEPT ![w] = p] /\ y.phase = "off"
        /\ UNCHANGED <<users, newUsers, run, crashed>>
        /\ UNCHANGED tokens /\ UNCHANGED asset
    BY <1>1, <2>1, <2>3 DEF PollStart, pool
  <2> QED
    BY <2>2, <2>4, <2>5, PollIdle
<1>2. CASE PollEnter(w)
  <2>1. /\ y.phase \in {"fetch", "message"} /\ tokens[y.user] > 0
        /\ tokens' = Took(tokens, y.user)
        /\ UNCHANGED <<users, newUsers, run, crashed>> /\ UNCHANGED asset
    BY <1>2 DEF PollEnter, pool
  <2>2. PICK phase \in {"fetchOut", "messageOut"} :
          poll' = [poll EXCEPT ![w].phase = phase,
                               ![w].cookie = y.user \in jar]
    BY <1>2 DEF PollEnter
  <2>3. (y.user \in jar) \in BOOLEAN
    OBVIOUS
  <2>4. PICK p : p = [[y EXCEPT !.phase = phase]
                        EXCEPT !.cookie = y.user \in jar]
    OBVIOUS
  <2>5. p \in PollRecord /\ p.phase = phase /\ p.user = y.user
    BY <1>0, <2>3, <2>4 DEF PollRecord
  <2>6. poll' = [poll EXCEPT ![w] = p]
    BY <1>0, <2>2, <2>4
  <2>7. PICK q : q = y.user
    OBVIOUS
  <2> QED
    BY <1>0, <2>1, <2>5, <2>6, <2>7, PollToken
<1>3. CASE PollSkip(w)
  <2>1. /\ y.phase \in {"fetch", "message"}
        /\ poll' = [poll EXCEPT ![w] = NoPoll]
        /\ UNCHANGED <<users, newUsers, run, crashed>>
        /\ UNCHANGED tokens /\ UNCHANGED asset
    BY <1>3 DEF PollSkip, pool
  <2> QED
    BY <2>1, PollIdle, NoPollType
<1>4. ASSUME NEW phase \in {"off", "message", "failed"}, NEW p,
             \/ p = [y EXCEPT !.phase = phase] /\ phase # "off"
             \/ p = NoPoll /\ phase = "off",
             poll' = [poll EXCEPT ![w] = p],
             y.phase \in {"fetchOut", "messageOut"},
             tokens' = Gave(tokens, y.user),
             UNCHANGED <<users, newUsers, run, crashed>>, UNCHANGED asset
      PROVE  PoolInv'
  <2>1. p \in PollRecord /\ p.phase = phase
        /\ (phase # "off" => p.user = y.user)
    BY <1>0, <1>4, NoPollType DEF PollRecord
  <2> QED
    BY <1>0, <1>4, <2>1, PollToken
<1>5. CASE PollAnswered(w)
  <2>1. /\ y.phase \in {"fetchOut", "messageOut"}
        /\ tokens' = Gave(tokens, y.user)
        /\ UNCHANGED <<users, newUsers, run, crashed>> /\ UNCHANGED asset
    BY <1>5 DEF PollAnswered, pool
  <2>2. \/ poll' = [poll EXCEPT ![w] = NoPoll]
        \/ poll' = [poll EXCEPT ![w].phase = "message"]
        \/ poll' = [poll EXCEPT ![w].phase = "failed"]
    BY <1>5 DEF PollAnswered
  <2>3. \A phase : [poll EXCEPT ![w].phase = phase]
                     = [poll EXCEPT ![w] = [y EXCEPT !.phase = phase]]
    BY <1>0
  <2> QED
    BY <1>4, <2>1, <2>2, <2>3
<1>6. CASE PollGivesUp(w)
  <2>1. /\ y.phase \in {"fetchOut", "messageOut"}
        /\ tokens' = Gave(tokens, y.user)
        /\ UNCHANGED <<users, newUsers, run, crashed>> /\ UNCHANGED asset
        /\ poll' = [poll EXCEPT ![w] = [y EXCEPT !.phase = "failed"]]
    BY <1>0, <1>6 DEF PollGivesUp, pool
  <2> QED
    BY <1>4, <2>1
<1>7. CASE PollFailed(w)
  <2>1. /\ y.phase = "failed" /\ run[w].phase = "idle"
        /\ poll' = [poll EXCEPT ![w] = NoPoll] /\ Return(w, "error")
        /\ UNCHANGED <<newUsers, tokens, asset, crashed>>
    BY <1>7 DEF PollFailed, InSelect
  <2>2. Hands' /\ Pools'
    BY <1>0, <2>1, ReturnKeepsPools DEF PoolInv
  <2>3. PICK x : Changes(w, x) /\ Returned(x)
    BY <1>0, <2>1, ReturnChanges DEF PoolInv
  <2>4. ASSUME NEW u \in Users
        PROVE  Holds(u)' = Holds(u)
    <3>1. \A q \in Runners : PlaysFor(run'[q], u) <=> PlaysFor(run[q], u)
      BY <2>1, <2>3 DEF PlaysFor, Out, Changes, Returned
    <3>2. \A q \in Runners : IconFor(run'[q], u) <=> IconFor(run[q], u)
      BY <2>1, <2>3 DEF IconFor, Changes, Returned
    <3>3. \A v \in Writers : PollFor(poll'[v], u) <=> PollFor(poll[v], u)
      BY <1>0, <2>1, NoPollType DEF PollFor
    <3> QED
      BY <2>1, <3>1, <3>2, <3>3 DEF Holds
  <2>5. TokensKept'
    BY <2>1, <2>4 DEF TokensKept, KeptBy, PoolInv
  <2>6. Helpers'
    BY <1>0, <2>1, NoPollType DEF Helpers, PollRecord, PoolInv
  <2> QED
    BY <2>2, <2>5, <2>6 DEF PoolInv
<1> QED
  BY <1>1, <1>2, <1>3, <1>5, <1>6, <1>7 DEF Polling

LEMMA AssetKeeps ==
  ASSUME PoolInv, ~crashed, LoadStaticFile
  PROVE  PoolInv'
<1> DEFINE h == <<Main, "asset">>
<1>1. /\ UNCHANGED <<users, newUsers, run, crashed>>
      /\ UNCHANGED poll /\ UNCHANGED run
  BY DEF LoadStaticFile, pool
<1>2. Hands' /\ Pools'
  BY <1>1, HelperKeepsPools DEF PoolInv
<1>3. ASSUME NEW u
      PROVE  /\ Holds(u)' = (Holds(u) \ {h})
                            \cup (IF AssetFor(asset', u) THEN {h} ELSE {})
             /\ h \in Holds(u) <=> AssetFor(asset, u)
  BY <1>1 DEF Holds
<1>4. /\ asset \in [phase : {"off", "wait", "out"}, user : Users \cup {NoUser}]
      /\ asset.phase # "off" => asset.user \in Users
  BY DEF PoolInv, Helpers
<1> HIDE DEF h
<1>5. CASE asset.phase = "wait" /\ done /\ asset' = NoAsset /\ tokens' = tokens
  <2>1. Helpers'
    BY <1>1, <1>5 DEF PoolInv, Helpers, NoAsset
  <2>2. ASSUME NEW u \in Users
        PROVE  Holds(u)' = Holds(u)
    <3>1. ~AssetFor(asset, u) /\ ~AssetFor(asset', u)
      BY <1>5 DEF AssetFor, NoAsset
    <3> QED
      BY <1>3, <3>1
  <2>3. TokensKept'
    BY <1>5, <2>2 DEF TokensKept, KeptBy, PoolInv
  <2> QED
    BY <1>2, <2>1, <2>3 DEF PoolInv
<1>6. CASE /\ asset.phase = "wait" /\ tokens[asset.user] > 0
           /\ asset' = [asset EXCEPT !.phase = "out"]
           /\ tokens' = Took(tokens, asset.user)
  <2>1. PICK q \in Users : q = asset.user
    BY <1>4, <1>6
  <2>2. Helpers'
    BY <1>1, <1>4, <1>6 DEF PoolInv, Helpers
  <2>3. ASSUME NEW u \in Users
        PROVE  /\ h \notin Holds(u)
               /\ Holds(u)' = IF u = q THEN Holds(u) \cup {h} ELSE Holds(u)
    <3>1. ~AssetFor(asset, u) /\ (AssetFor(asset', u) <=> u = q)
      BY <1>4, <1>6, <2>1 DEF AssetFor
    <3>2. h \notin Holds(u) /\ Holds(u) \ {h} = Holds(u)
      BY <1>3, <3>1
    <3>3. CASE u = q
      BY <1>3, <3>1, <3>2, <3>3
    <3>4. CASE u # q
      BY <1>3, <3>1, <3>2, <3>4
    <3> QED
      BY <3>2, <3>3, <3>4
  <2>4. Gains([u \in Users |-> Holds(u)], [u \in Users |-> Holds(u)]', q, h)
    BY <2>3 DEF Gains
  <2>5. TokensKept'
    BY <1>6, <2>1, <2>4, OneHolder DEF PoolInv
  <2> QED
    BY <1>2, <2>2, <2>5 DEF PoolInv
<1>7. CASE /\ asset.phase = "out" /\ asset' = NoAsset
           /\ tokens' = Gave(tokens, asset.user)
  <2>1. PICK q \in Users : q = asset.user
    BY <1>4, <1>7
  <2>2. Helpers'
    BY <1>1, <1>7 DEF PoolInv, Helpers, NoAsset
  <2>3. ASSUME NEW u \in Users
        PROVE  /\ h \in Holds(u) <=> u = q
               /\ Holds(u)' = IF u = q THEN Holds(u) \ {h} ELSE Holds(u)
    <3>1. ~AssetFor(asset', u) /\ (AssetFor(asset, u) <=> u = q)
      BY <1>7, <2>1 DEF AssetFor, NoAsset
    <3> QED
      BY <1>3, <3>1
  <2>4. Loses([u \in Users |-> Holds(u)], [u \in Users |-> Holds(u)]', q, h)
    BY <2>3 DEF Loses
  <2>5. TokensKept'
    BY <1>7, <2>1, <2>4, OneHolder DEF PoolInv
  <2> QED
    BY <1>2, <2>2, <2>5 DEF PoolInv
<1> QED
  BY <1>5, <1>6, <1>7 DEF LoadStaticFile

LEMMA OthersKeep ==
  ASSUME PoolInv, LateExecute \/ Deadline \/ UNCHANGED vars
  PROVE  PoolInv'
<1>1. /\ UNCHANGED <<users, newUsers, run, crashed>>
      /\ UNCHANGED <<tokens, poll, asset, run>>
  BY DEF LateExecute, Deadline, vars, pool
<1>2. Hands' /\ Pools'
  BY <1>1, HelperKeepsPools DEF PoolInv
<1>3. TokensKept' /\ Helpers'
  BY <1>1 DEF TokensKept, KeptBy, Holds, Helpers, PoolInv
<1> QED
  BY <1>2, <1>3 DEF PoolInv

LEMMA PoolInvInit == Init => PoolInv
<1> SUFFICES ASSUME Init PROVE PoolInv
  OBVIOUS
<1>1. Hands
  <2>1. \A r \in Runners : HandOK(run[r])
    BY FreeReturned DEF Init, Returned
  <2> QED
    BY <2>1 DEF Hands, Init
<1>2. OneOwner
  <2>1. \A r \in Runners : run[r].hand = <<>> /\ DOMAIN run[r].hand = {}
    BY DEF Init, Free
  <2>2. Apart
    BY <2>1, ScenariosAssumption DEF Init, Apart
  <2> QED
    BY <2>2, OwnerPointwise
<1>3. Pools
  BY <1>2 DEF Init, Pools, Users
<1>4. TokensKept
  <2>1. ASSUME NEW u \in Users
        PROVE  Holds(u) = {}
    <3>1. \A r \in Runners : run[r].phase = "free"
      BY DEF Init, Free
    <3>2. \A w \in Writers : poll[w].phase = "off"
      BY DEF Init, NoPoll
    <3>3. asset.phase = "off"
      BY DEF Init, NoAsset
    <3> QED
      BY <3>1, <3>2, <3>3
         DEF Holds, PlaysFor, IconFor, PollFor, AssetFor, Out
  <2>2. IsFiniteSet({}) /\ Cardinality({}) = 0
    BY FS_EmptySet
  <2> QED
    BY <2>1, <2>2, ScenariosAssumption DEF TokensKept, KeptBy, Init
<1>5. Helpers
  BY DEF Init, Helpers, NoPoll, NoAsset
<1> QED
  BY <1>1, <1>3, <1>4, <1>5 DEF PoolInv

LEMMA PoolInvNext == PoolInv /\ [Next]_vars => PoolInv'
<1> SUFFICES ASSUME PoolInv, [Next]_vars PROVE PoolInv'
  OBVIOUS
<1>1. CASE UNCHANGED vars
  BY <1>1, OthersKeep
<1>2. CASE Next
  <2>1. ~crashed
    BY <1>2 DEF Next
  <2>2. ASSUME NEW r \in Runners, Run(r) PROVE PoolInv'
    BY <2>1, <2>2, ChooseKeeps, PopKeeps, EnterKeeps, SkipPlaysKeeps,
       AnsweredKeeps, GivesUpKeeps, InnerEnterKeeps, InnerEndsKeeps,
       LocalKeeps DEF Run
  <2>3. ASSUME NEW w \in Writers, Polling(w) PROVE PoolInv'
    BY <2>1, <2>3, PollingKeeps
  <2>4. CASE LateExecute \/ Deadline
    BY <2>4, OthersKeep
  <2>5. CASE LoadStaticFile
    BY <2>1, <2>5, AssetKeeps
  <2> QED
    BY <1>2, <2>2, <2>3, <2>4, <2>5 DEF Next
<1> QED
  BY <1>1, <1>2

LEMMA PoolInvAlways == Spec => []PoolInv
BY PoolInvInit, PoolInvNext, PTL DEF Spec

-----------------------------------------------------------------------------
(***************************************************************************)
(* What the invariant shows.                                               *)
(***************************************************************************)
LEMMA CrashFollows == PoolInv => CrashExplained
<1> SUFFICES ASSUME PoolInv, crashed
             PROVE  InitialUsers \ Held(Main)
                      \subseteq UNION {Held(r) : r \in Runners \ {Main}}
  BY DEF CrashExplained
<1>1. users = {} /\ InitialUsers \subseteq users \cup
                                           UNION {Held(r) : r \in Runners}
  BY DEF PoolInv, Pools, OneOwner
<1> QED
  BY <1>1

LEMMA SomeoneFollows == PoolInv => SomeoneAnswers
<1> SUFFICES ASSUME PoolInv, NEW u \in Users, tokens[u] = 0, InFlight(u) = {},
                    ~(asset.phase = "out" /\ asset.user = u)
             PROVE  FALSE
  BY DEF SomeoneAnswers
<1>1. ASSUME NEW h \in Holds(u)
      PROVE  \E r \in Runners : /\ h = <<r, "play">> /\ u \in Held(r)
  <2>1. CASE \E r \in Runners : h = <<r, "play">> /\ PlaysFor(run[r], u)
    <3>1. PICK r \in Runners : h = <<r, "play">> /\ PlaysFor(run[r], u)
      BY <2>1
    <3>2. run[r].phase \in Busy /\ Player(r) = u
      BY <3>1 DEF PlaysFor, Busy, Player, Current, Steps
    <3>3. u \in Held(r)
      BY <3>2, PlayerIsUser DEF PoolInv, Held, Range, Player
    <3> QED
      BY <3>1, <3>3
  <2>2. CASE \E r \in Runners : h = <<r, "icon">> /\ IconFor(run[r], u)
    <3>1. PICK r \in Runners : IconFor(run[r], u)
      BY <2>2
    <3>2. r \in InFlight(u)
      BY <3>1 DEF IconFor, InFlight
    <3> QED
      BY <3>2
  <2>3. CASE \E w \in Writers : h = <<w, "poll">> /\ PollFor(poll[w], u)
    <3>1. PICK w \in Writers : PollFor(poll[w], u)
      BY <2>3
    <3>2. w \in InFlight(u)
      BY <3>1 DEF PollFor, InFlight
    <3> QED
      BY <3>2
  <2>4. ~AssetFor(asset, u)
    BY DEF AssetFor
  <2> QED
    BY <2>1, <2>2, <2>3, <2>4, HoldsElements
<1>2. \A r, q \in Runners : u \in Held(r) /\ u \in Held(q) => r = q
  BY DEF PoolInv, Pools, OneOwner
<1>3. \A g, h \in Holds(u) : g = h
  BY <1>1, <1>2
<1>4. IsFiniteSet(Holds(u)) /\ Cardinality(Holds(u)) = Tokens
  <2>1. /\ IsFiniteSet(Holds(u)) /\ tokens[u] \in Nat
        /\ tokens[u] + Cardinality(Holds(u)) = Tokens
    BY DEF PoolInv, TokensKept, KeptBy
  <2>2. Cardinality(Holds(u)) \in Nat
    BY <2>1, FS_CardinalityType
  <2> QED
    BY <2>1, <2>2
<1>5. CASE Holds(u) = {}
  BY <1>4, <1>5, FS_EmptySet, ScenariosAssumption
<1>6. CASE Holds(u) # {}
  <2>1. PICK h : h \in Holds(u)
    BY <1>6
  <2>2. Holds(u) = {h}
    BY <1>3, <2>1
  <2> QED
    BY <1>4, <2>2, FS_Singleton, ScenariosAssumption
<1> QED
  BY <1>5, <1>6

\* Every user is in one pool or in one hand, and the users the benchmarker
\* started with are never lost (structure.go PopRandomUser and PushUser, the
\* deferred pushes of scenario.go).
THEOREM UsersHaveOneOwner == Spec => []OneOwner
<1>1. PoolInv => OneOwner
  BY DEF PoolInv, Pools
<1> QED
  BY <1>1, PoolInvAlways, PTL

\* The process dereferences a nil user3 (scenario.go:2069) only when the other
\* goroutines hold all the users that CheckMessageScenario does not.
THEOREM CrashOnlyWhenDrained == Spec => []CrashExplained
BY CrashFollows, PoolInvAlways, PTL

\* No Play waits for a token that only Plays waiting themselves could return,
\* and no token is lost (checker.go:319): with two tokens or more for each
\* Checker, the code has six.
THEOREM TokensComeBack == Spec => []SomeoneAnswers
BY SomeoneFollows, PoolInvAlways, PTL

-----------------------------------------------------------------------------
(***************************************************************************)
(* The inductive invariant, continued: what the tables and the cookie jars *)
(* say of the users a goroutine holds.  The scripts fix how far a user is  *)
(* at each step.                                                           *)
(***************************************************************************)
\* The users, by their place in the hand, that have logged in by step k of a
\* scenario that needs them to.
Signed(scen, k) ==
    CASE scen = "LoadRegister" -> IF k = 3 THEN {1} ELSE {}
      [] scen = "CheckRegisterProfile" ->
           IF k <= 4 THEN {} ELSE IF k = 5 THEN {1} ELSE {1, 2}
      [] scen = "CheckMessageScenario" ->
           {i \in 1..3 : i < k}
      [] scen \in {"CheckNotLoggedInUser", "CheckStaticFiles", "CheckLogin"} ->
           {}
      [] OTHER -> IF k >= 2 THEN {1} ELSE {}

NewScens == {"LoadRegister", "CheckRegisterProfile"}

\* The new user of a scenario is registered, has changed its profile.
HasRegistered(scen, k) ==
    IF scen = "LoadRegister" THEN k >= 2 ELSE k >= 3
HasPosted(scen, k) == scen = "CheckRegisterProfile" /\ k >= 10

\* What holds of the users in the hand of x.
Fits(x, jars, rows, profiles, over) ==
    /\ \A i \in Signed(x.scen, x.step) \cap DOMAIN x.hand : x.hand[i] \in jars
    /\ x.scen = "CheckNotLoggedInUser" /\ x.step >= 2 =>
         x.hand[1] \notin jars
    /\ x.scen \in NewScens /\ x.hand # <<>> =>
         /\ x.hand[1] \in rows <=> HasRegistered(x.scen, x.step)
         /\ x.hand[1] \in profiles <=> HasPosted(x.scen, x.step)
    /\ ~over \/ x.phase \in Out =>
         \A i \in DOMAIN x.hand : Pops(x.scen)[i] = "pool" =>
                                    x.hand[i] \in rows \cap profiles
    /\ x.phase \in Out =>
         /\ Script[x.scen][x.step].want # {}
         /\ x.cookie = TRUE <=> x.hand[Script[x.scen][x.step].who] \in jars
    /\ x.phase \in {"inner", "innerOut"} =>
         Script[x.scen][x.step].req \in {"profileNew", "profileSet"}

AllFit == \A r \in Runners : Fits(run[r], jar, registered, posted, done)

Tables ==
    /\ jar \subseteq Users /\ posted \subseteq registered
    /\ registered \subseteq Users
    /\ InitialUsers \subseteq posted
    /\ newUsers \cap registered = {}
    /\ done \in BOOLEAN
    /\ PooledReady

\* A user that is gone for good.
Lost(u) == u \notin users \cup newUsers /\ \A r \in Runners : u \notin Held(r)

\* What the application may still execute changes nothing for a user that
\* somebody can still meet.
LateHarmless ==
    /\ late \subseteq {"register", "profile"} \X Users \X BOOLEAN
    /\ \A q \in late : Lost(q[2]) \/ (q[1] = "profile" /\ q[3] = FALSE)

\* The polling goroutine of a writer that has not returned polls for its user,
\* which is logged in.
PollsOwn ==
    \A w \in Writers :
        /\ run[w].scen \in {"none", "LoadReadWriteUser"}
        /\ poll[w].phase # "off" /\ run[w].phase # "end" =>
             /\ run[w].phase \in Busy /\ run[w].step = 5
             /\ poll[w].user = run[w].hand[1]
             /\ poll[w].phase \in {"fetchOut", "messageOut"} =>
                  poll[w].cookie /\ poll[w].user \in registered

ReadyInv == PoolInv /\ AllFit /\ Tables /\ LateHarmless /\ PollsOwn
            /\ BlameExplained

-----------------------------------------------------------------------------
(***************************************************************************)
(* The scripts ask nothing of a user that it cannot answer for.            *)
(***************************************************************************)
HasRow(scen, k, i) == Pops(scen)[i] = "pool" \/ HasRegistered(scen, k)

\* Why the answer to p, step k of scen, is one that p accepts.
Asks(scen, k, p) ==
    \/ p.want = {}
    \/ p.req = "login" /\ p.want = Redirect /\ HasRow(scen, k, p.who)
    \/ /\ p.req = "login" /\ p.want = {"403"} /\ scen \in NewScens
       /\ p.who = 1 /\ ~HasRegistered(scen, k)
    \/ /\ p.req = "register" /\ p.want = Redirect /\ scen \in NewScens
       /\ p.who = 1 /\ ~HasRegistered(scen, k)
    \/ /\ p.req = "register" /\ p.want = {"409"} /\ scen \in NewScens
       /\ p.who = 1 /\ HasRegistered(scen, k)
    \/ p.req = "loginStranger" /\ p.want = {"403"}
    \/ p.req = "logout" /\ p.want = Redirect
    \/ p.req = "open" /\ p.want = {"200"}
    \/ /\ scen = "CheckNotLoggedInUser" /\ k >= 2 /\ p.who = 1
       /\ \/ p.req \in {"page", "profile", "addChannel"} /\ p.want = {"toLogin"}
          \/ p.req = "message" /\ p.want = {"403"}
    \/ /\ p.who \in Signed(scen, k) /\ HasRow(scen, k, p.who)
       /\ \/ /\ p.req \in {"page", "message", "names", "profileNew",
                           "profileSet"}
             /\ p.want = {"200"}
          \/ p.req = "post" /\ p.want = {"204"}
          \/ p.req \in {"profile", "addChannel"} /\ p.want = Redirect
          \/ p.req = "profileStranger" /\ p.want = {"404"}
          \/ p.req \in {"badProfile", "badChannel"} /\ p.want = {"400"}

\* What its page shows is what it expects.
Expects(scen, k, p) ==
    /\ p.req = "profileNew" => scen \in NewScens /\ ~HasPosted(scen, k)
    /\ p.req = "profileSet" => scen \in NewScens /\ HasPosted(scen, k)
    /\ p.req = "names" => Pops(scen)[1] = "pool"

\* What the step makes of its users.
Leads(scen, k, p, last) ==
    /\ p.req = "register" => scen \in NewScens /\ p.who = 1 /\ p.want # {}
    /\ p.req = "profile" =>
         /\ p.who = 1 /\ p.want # {}
         /\ \/ scen = "CheckNotLoggedInUser" /\ k >= 2
            \/ /\ scen \in NewScens /\ HasRegistered(scen, k)
               /\ 1 \in Signed(scen, k)
    /\ p.want = {} <=> p.req \in {"ResetCookie", "goLoadAsset"}
    /\ p.req = "ResetCookie" => scen = "CheckNotLoggedInUser" /\ p.who = 1
    /\ scen = "CheckNotLoggedInUser" =>
         /\ p.req \notin {"login", "register"}
         /\ k = 1 => p.req = "ResetCookie"
    /\ Signed(scen, k + 1) \subseteq
         Signed(scen, k) \cup (IF p.req = "login" /\ p.want = Redirect
                               THEN {p.who} ELSE {})
    /\ p.req \in {"logout", "ResetCookie"} =>
         p.who \notin Signed(scen, k + 1) \/ k = last
    /\ scen \in NewScens =>
         /\ k < last =>
              /\ HasRegistered(scen, k + 1) <=>
                   HasRegistered(scen, k) \/ p.req = "register"
              /\ HasPosted(scen, k + 1) <=>
                   HasPosted(scen, k) \/ p.req = "profile"
         /\ k = last => /\ HasRegistered(scen, k)
                        /\ HasPosted(scen, k) \/ p.req = "profile"
    /\ Loops(scen) /\ k = last =>
         p.req \notin {"login", "logout", "register", "profile", "ResetCookie"}
    /\ scen = "LoadReadWriteUser" => last = 5

Facts(scen, k, p, last) ==
    Asks(scen, k, p) /\ Expects(scen, k, p) /\ Leads(scen, k, p, last)

StepFacts(scen, k) == Facts(scen, k, Script[scen][k], Len(Script[scen]))

\* The scenarios that log one user in and then play for it.
Plain == {"LoadProfile", "LoadGetChannel", "LoadReadWriteUser",
          "LoadReadOnlyUser", "CheckGetProfileFail", "CheckGetChannel",
          "CheckPostAddChannel", "CheckPostAddChannelFail",
          "CheckGetAddChannel"}

LEMMA RedirectNotEmpty == Redirect # {}
BY DEF Redirect

LEMMA PlainFacts ==
  ASSUME NEW scen \in Plain, NEW k \in Nat \ {0}, NEW last \in Nat, NEW p,
         scen \in {"LoadReadWriteUser", "LoadReadOnlyUser"} => last > 1,
         scen = "LoadReadWriteUser" => last = 5,
         \/ k = 1 /\ p = Login(1)
         \/ /\ k >= 2
            /\ p \in {Page, Message, GoLoadAsset, Play(1, "post", {"204"}),
                      Play(1, "names", {"200"}),
                      Play(1, "profileStranger", {"404"}),
                      Play(1, "addChannel", Redirect),
                      Play(1, "badChannel", {"400"})}
         \/ /\ k >= 2 /\ k = last /\ scen = "LoadProfile"
            /\ p = Play(1, "logout", Redirect)
  PROVE  Facts(scen, k, p, last)
<1>1. /\ Pops(scen) = <<"pool">> /\ Pops(scen)[1] = "pool"
      /\ Signed(scen, k) = (IF k >= 2 THEN {1} ELSE {})
      /\ Signed(scen, k + 1) = {1}
      /\ scen \notin NewScens /\ scen # "CheckNotLoggedInUser"
      /\ Loops(scen) <=> scen \in {"LoadReadWriteUser", "LoadReadOnlyUser"}
  BY DEF Plain, Pops, Signed, NewScens, Loops
<1>2. CASE k = 1 /\ p = Login(1)
  <2>1. p.who = 1 /\ p.req = "login" /\ p.want = Redirect
    BY <1>2 DEF Login, Play
  <2> QED
    BY <1>1, <1>2, <2>1, RedirectNotEmpty
       DEF Facts, Asks, Expects, Leads, HasRow
<1>3. CASE /\ k >= 2 /\ k = last /\ scen = "LoadProfile"
           /\ p = Play(1, "logout", Redirect)
  <2>1. p.who = 1 /\ p.req = "logout" /\ p.want = Redirect
    BY <1>3 DEF Play
  <2> QED
    BY <1>1, <1>3, <2>1, RedirectNotEmpty
       DEF Facts, Asks, Expects, Leads, HasRow
<1>4. ASSUME k >= 2, p.who = 1,
             \/ p.req = "goLoadAsset" /\ p.want = {}
             \/ p.req \in {"page", "message", "names"} /\ p.want = {"200"}
             \/ p.req = "post" /\ p.want = {"204"}
             \/ p.req = "addChannel" /\ p.want = Redirect
             \/ p.req = "profileStranger" /\ p.want = {"404"}
             \/ p.req = "badChannel" /\ p.want = {"400"}
      PROVE  Facts(scen, k, p, last)
  <2>1. p.want = {} <=> p.req = "goLoadAsset"
    BY <1>4, RedirectNotEmpty
  <2>2. Asks(scen, k, p)
    BY <1>1, <1>4 DEF Asks, HasRow
  <2>3. Expects(scen, k, p)
    BY <1>1, <1>4 DEF Expects
  <2>4. Leads(scen, k, p, last)
    BY <1>1, <1>4, <2>1 DEF Leads
  <2> QED
    BY <2>2, <2>3, <2>4 DEF Facts
<1>5. CASE p \in {Page, Message, GoLoadAsset, Play(1, "post", {"204"}),
                  Play(1, "names", {"200"}),
                  Play(1, "profileStranger", {"404"}),
                  Play(1, "addChannel", Redirect),
                  Play(1, "badChannel", {"400"})}
           /\ k >= 2
  BY <1>4, <1>5 DEF Page, Message, GoLoadAsset, Play
<1> QED
  BY <1>2, <1>3, <1>5

LEMMA PlainSteps ==
  ASSUME NEW scen \in Plain, NEW k \in 1..Len(Script[scen])
  PROVE  StepFacts(scen, k)
<1> DEFINE S == Script[scen]
<1>1. \/ S = <<Login(1), Page, Play(1, "logout", Redirect)>>
         /\ scen = "LoadProfile"
      \/ S = <<Login(1), Page, GoLoadAsset, Message, GoLoadAsset>>
         /\ scen = "LoadGetChannel"
      \/ S = <<Login(1), Page, GoLoadAsset, Message, Play(1, "post", {"204"})>>
         /\ scen = "LoadReadWriteUser"
      \/ S = <<Login(1), Page, GoLoadAsset, Message>>
         /\ scen = "LoadReadOnlyUser"
      \/ S = <<Login(1), Play(1, "profileStranger", {"404"})>>
         /\ scen = "CheckGetProfileFail"
      \/ S = <<Login(1), Play(1, "names", {"200"})>> /\ scen = "CheckGetChannel"
      \/ S = <<Login(1), Play(1, "addChannel", Redirect)>>
         /\ scen = "CheckPostAddChannel"
      \/ S = <<Login(1), Play(1, "badChannel", {"400"})>>
         /\ scen = "CheckPostAddChannelFail"
      \/ S = <<Login(1), Page>> /\ scen = "CheckGetAddChannel"
  BY DEF Plain, Script, LoadProfile, LoadGetChannel, LoadReadWriteUser,
         LoadReadOnlyUser, CheckGetProfileFail, CheckGetChannel,
         CheckPostAddChannel, CheckPostAddChannelFail, CheckGetAddChannel
<1> HIDE DEF S
<1>2. /\ Len(S) \in Nat
      /\ scen \in {"LoadReadWriteUser", "LoadReadOnlyUser"} => Len(S) > 1
      /\ scen = "LoadReadWriteUser" => Len(S) = 5
  BY <1>1
<1>3. k \in Nat \ {0} /\ k \in 1..Len(S)
  BY <1>2 DEF S
<1>4. PICK p : p = S[k]
  OBVIOUS
<1>5. PICK last : last = Len(S)
  OBVIOUS
<1>6. /\ last \in Nat
      /\ scen \in {"LoadReadWriteUser", "LoadReadOnlyUser"} => last > 1
      /\ scen = "LoadReadWriteUser" => last = 5
  BY <1>2, <1>5
<1>7. \/ k = 1 /\ p = Login(1)
      \/ /\ k >= 2
         /\ p \in {Page, Message, GoLoadAsset, Play(1, "post", {"204"}),
                   Play(1, "names", {"200"}),
                   Play(1, "profileStranger", {"404"}),
                   Play(1, "addChannel", Redirect),
                   Play(1, "badChannel", {"400"})}
      \/ /\ k >= 2 /\ k = last /\ scen = "LoadProfile"
         /\ p = Play(1, "logout", Redirect)
  BY <1>1, <1>3, <1>4, <1>5
<1>8. Facts(scen, k, p, last)
  BY <1>3, <1>6, <1>7, PlainFacts
<1> QED
  BY <1>4, <1>5, <1>8 DEF StepFacts, S

LEMMA ScriptSteps ==
  ASSUME NEW scen \in Scens, NEW k \in 1..Len(Script[scen])
  PROVE  StepFacts(scen, k)
<1> DEFINE All(s) == \A n \in 1..Len(Script[s]) : StepFacts(s, n)
<1> USE RedirectNotEmpty
        DEF Facts, Pops, Login, Play, Asks, Expects, Leads, HasRow,
            HasRegistered, HasPosted, Signed, NewScens, Loops
<1>1. All("LoadRegister")
  <2>1. Facts("LoadRegister", 1, Play(1, "register", Redirect), 3)
    OBVIOUS
  <2>2. Facts("LoadRegister", 2, Login(1), 3)
    OBVIOUS
  <2>3. Facts("LoadRegister", 3, Play(1, "profile", Redirect), 3)
    OBVIOUS
  <2> HIDE DEF Facts, Play, Login
  <2>a. Script["LoadRegister"] =
          <<Play(1, "register", Redirect), Login(1),
            Play(1, "profile", Redirect)>>
    BY DEF Script, LoadRegister
  <2> QED
    BY <2>1, <2>2, <2>3, <2>a DEF StepFacts
<1>2. All("CheckNotLoggedInUser")
  <2>1. Facts("CheckNotLoggedInUser", 1, ResetCookie, 6)
    BY DEF ResetCookie
  <2>2. Facts("CheckNotLoggedInUser", 2, Play(1, "open", {"200"}), 6)
    OBVIOUS
  <2>3. Facts("CheckNotLoggedInUser", 3, Play(1, "page", {"toLogin"}), 6)
    OBVIOUS
  <2>4. Facts("CheckNotLoggedInUser", 4, Play(1, "message", {"403"}), 6)
    OBVIOUS
  <2>5. Facts("CheckNotLoggedInUser", 5, Play(1, "profile", {"toLogin"}), 6)
    OBVIOUS
  <2>6. Facts("CheckNotLoggedInUser", 6, Play(1, "addChannel", {"toLogin"}), 6)
    OBVIOUS
  <2> HIDE DEF Facts, Play, Login
  <2>a. Script["CheckNotLoggedInUser"] =
          <<ResetCookie, Play(1, "open", {"200"}),
            Play(1, "page", {"toLogin"}), Play(1, "message", {"403"}),
            Play(1, "profile", {"toLogin"}),
            Play(1, "addChannel", {"toLogin"})>>
    BY DEF Script, CheckNotLoggedInUser
  <2> QED
    BY <2>1, <2>2, <2>3, <2>4, <2>5, <2>6, <2>a DEF StepFacts
<1>3. All("CheckStaticFiles")
  <2>1. Facts("CheckStaticFiles", 1, Play(1, "open", {"200"}), 1)
    OBVIOUS
  <2> HIDE DEF Facts, Play, Login
  <2>a. Script["CheckStaticFiles"] =
          <<Play(1, "open", {"200"})>>
    BY DEF Script, CheckStaticFiles
  <2> QED
    BY <2>1, <2>a DEF StepFacts
<1>4. All("CheckLogin")
  <2>1. Facts("CheckLogin", 1, Login(1), 3)
    OBVIOUS
  <2>2. Facts("CheckLogin", 2, Play(1, "logout", Redirect), 3)
    OBVIOUS
  <2>3. Facts("CheckLogin", 3, Play(1, "loginStranger", {"403"}), 3)
    OBVIOUS
  <2> HIDE DEF Facts, Play, Login
  <2>a. Script["CheckLogin"] =
          <<Login(1), Play(1, "logout", Redirect),
            Play(1, "loginStranger", {"403"})>>
    BY DEF Script, CheckLogin
  <2> QED
    BY <2>1, <2>2, <2>3, <2>a DEF StepFacts
<1>5. All("CheckRegisterProfile")
  <2>1. Facts("CheckRegisterProfile", 1, Play(1, "login", {"403"}), 11)
    OBVIOUS
  <2>2. Facts("CheckRegisterProfile", 2, Play(1, "register", Redirect), 11)
    OBVIOUS
  <2>3. Facts("CheckRegisterProfile", 3, Play(1, "register", {"409"}), 11)
    OBVIOUS
  <2>4. Facts("CheckRegisterProfile", 4, Login(1), 11)
    OBVIOUS
  <2>5. Facts("CheckRegisterProfile", 5, Login(2), 11)
    OBVIOUS
  <2>6. Facts("CheckRegisterProfile", 6, SelfProfile("profileNew"), 11)
    BY DEF SelfProfile
  <2>7. Facts("CheckRegisterProfile", 7, OtherProfile("profileNew"), 11)
    BY DEF OtherProfile
  <2>8. Facts("CheckRegisterProfile", 8, Play(1, "badProfile", {"400"}), 11)
    OBVIOUS
  <2>9. Facts("CheckRegisterProfile", 9, Play(1, "profile", Redirect), 11)
    OBVIOUS
  <2>10. Facts("CheckRegisterProfile", 10, SelfProfile("profileSet"), 11)
    BY DEF SelfProfile
  <2>11. Facts("CheckRegisterProfile", 11, OtherProfile("profileSet"), 11)
    BY DEF OtherProfile
  <2> HIDE DEF Facts, Play, Login
  <2>a. Script["CheckRegisterProfile"] =
          <<Play(1, "login", {"403"}), Play(1, "register", Redirect),
            Play(1, "register", {"409"}), Login(1), Login(2),
            SelfProfile("profileNew"), OtherProfile("profileNew"),
            Play(1, "badProfile", {"400"}), Play(1, "profile", Redirect),
            SelfProfile("profileSet"), OtherProfile("profileSet")>>
    BY DEF Script, CheckRegisterProfile
  <2> QED
    BY <2>1, <2>2, <2>3, <2>4, <2>5, <2>6, <2>7, <2>8, <2>9, <2>10,
       <2>11, <2>a DEF StepFacts
<1>6. All("CheckMessageScenario")
  <2>1. Facts("CheckMessageScenario", 1, Login(1), 5)
    OBVIOUS
  <2>2. Facts("CheckMessageScenario", 2, Login(2), 5)
    OBVIOUS
  <2>3. Facts("CheckMessageScenario", 3, Login(3), 5)
    OBVIOUS
  <2>4. Facts("CheckMessageScenario", 4, Play(1, "post", {"204"}), 5)
    OBVIOUS
  <2>5. Facts("CheckMessageScenario", 5, Play(1, "names", {"200"}), 5)
    OBVIOUS
  <2> HIDE DEF Facts, Play, Login
  <2>a. Script["CheckMessageScenario"] =
          <<Login(1), Login(2), Login(3), Play(1, "post", {"204"}),
            Play(1, "names", {"200"})>>
    BY DEF Script, CheckMessageScenario
  <2> QED
    BY <2>1, <2>2, <2>3, <2>4, <2>5, <2>a DEF StepFacts
<1>7. ASSUME NEW s \in Plain PROVE All(s)
  BY PlainSteps
<1> HIDE DEF All
<1>8. All(scen)
  BY <1>1, <1>2, <1>3, <1>4, <1>5, <1>6, <1>7 DEF Scens, Plain
<1> QED
  BY <1>8 DEF All

-----------------------------------------------------------------------------
(***************************************************************************)
(* The owner of a user never meets a wrong answer.                         *)
(***************************************************************************)
LEMMA PopsNew ==
  ASSUME NEW scen, NEW i \in 1..Len(Pops(scen))
  PROVE  /\ Pops(scen)[i] = "pool" \/ (scen \in NewScens /\ i = 1)
         /\ scen \in NewScens => Pops(scen)[1] = "new"
<1>1. CASE scen = "LoadRegister"
  BY <1>1 DEF Pops, NewScens
<1>2. CASE scen = "CheckRegisterProfile"
  BY <1>2 DEF Pops, NewScens
<1>3. CASE scen = "CheckMessageScenario"
  BY <1>3 DEF Pops, NewScens
<1>4. CASE /\ scen # "LoadRegister" /\ scen # "CheckRegisterProfile"
           /\ scen # "CheckMessageScenario"
  <2>1. Pops(scen) = <<"pool">>
    BY <1>4 DEF Pops
  <2> QED
    BY <1>4, <2>1 DEF NewScens
<1> QED
  BY <1>1, <1>2, <1>3, <1>4

\* The step the goroutine r is at.
LEMMA AtStep ==
  ASSUME Hands, NEW r \in Runners, run[r].phase \in Busy
  PROVE  /\ Asks(run[r].scen, run[r].step, Current(r))
         /\ Expects(run[r].scen, run[r].step, Current(r))
         /\ Leads(run[r].scen, run[r].step, Current(r), Len(Steps(r)))
         /\ run[r].scen \in Scens /\ run[r].step \in 1..Len(Steps(r))
         /\ Len(Steps(r)) \in Nat /\ DOMAIN Steps(r) = 1..Len(Steps(r))
         /\ DOMAIN run[r].hand = 1..Len(Pops(run[r].scen))
         /\ run[r].hand # <<>>
<1>1. /\ run[r].scen \in Scens /\ run[r].step \in DOMAIN Steps(r)
      /\ 1 \in DOMAIN run[r].hand
  BY PlayerIsUser
<1>2. DOMAIN Steps(r) = 1..Len(Steps(r)) /\ Len(Steps(r)) \in Nat
  BY <1>1, ScriptType DEF Steps, ScriptOK
<1>3. StepFacts(run[r].scen, run[r].step)
  BY <1>1, <1>2, ScriptSteps DEF Steps
<1>4. DOMAIN run[r].hand = 1..Len(Pops(run[r].scen))
  BY PopsType DEF Hands, HandOK
<1>5. run[r].hand # <<>>
  BY <1>1
<1> QED
  BY <1>1, <1>2, <1>3, <1>4, <1>5 DEF StepFacts, Facts, Steps, Current

LEMMA Accepted ==
  ASSUME ReadyInv, NEW r \in Runners, run[r].phase = "out"
  PROVE  /\ Answer(Current(r).req, Player(r), run[r].cookie) \in Current(r).want
         /\ Shows(Current(r).req, run[r].hand[1])
<1> DEFINE s == run[r].scen
           k == run[r].step
           p == Current(r)
           u == Player(r)
           c == run[r].cookie
<1>0. Hands /\ run[r].phase \in Busy /\ run[r].phase \in Out
  BY DEF ReadyInv, PoolInv, Busy, Out
<1>1. /\ Asks(s, k, p) /\ Expects(s, k, p)
      /\ DOMAIN run[r].hand = 1..Len(Pops(s)) /\ run[r].hand # <<>>
  BY <1>0, AtStep
<1>2. p.who \in DOMAIN run[r].hand /\ 1 \in DOMAIN run[r].hand /\ u \in Users
  BY <1>0, PlayerIsUser
<1>3. Fits(run[r], jar, registered, posted, done)
  BY DEF ReadyInv, AllFit
<1>4. p.want # {} /\ (c = TRUE <=> u \in jar) /\ c \in BOOLEAN
  BY <1>0, <1>3 DEF Fits, Hands, HandOK, Current, Player, Steps
<1>5. /\ \A i \in DOMAIN run[r].hand : Pops(s)[i] = "pool" =>
                                run[r].hand[i] \in registered \cap posted
      /\ s \in NewScens =>
           /\ run[r].hand[1] \in registered <=> HasRegistered(s, k)
           /\ run[r].hand[1] \in posted <=> HasPosted(s, k)
      /\ \A i \in Signed(s, k) \cap DOMAIN run[r].hand : run[r].hand[i] \in jar
      /\ s = "CheckNotLoggedInUser" /\ k >= 2 => run[r].hand[1] \notin jar
  BY <1>0, <1>1, <1>3 DEF Fits
<1>6. u = run[r].hand[p.who]
  BY DEF Player
<1>7. HasRow(s, k, p.who) => u \in registered
  BY <1>1, <1>2, <1>5, <1>6, PopsNew DEF HasRow
<1>8. p.who \in Signed(s, k) => c = TRUE
  BY <1>2, <1>4, <1>5, <1>6
<1>9. s = "CheckNotLoggedInUser" /\ k >= 2 /\ p.who = 1 => c = FALSE
  BY <1>4, <1>5, <1>6
<1>10. s \in NewScens /\ p.who = 1 => (u \in registered <=> HasRegistered(s, k))
  BY <1>5, <1>6
<1>11. Shows(p.req, run[r].hand[1])
  BY <1>1, <1>2, <1>5 DEF Expects, Shows
<1> HIDE DEF s, k, p, u, c
<1>12. Answer(p.req, u, c) \in p.want
  <2>1. CASE p.req = "login" /\ p.want = Redirect /\ HasRow(s, k, p.who)
    BY <1>7, <2>1 DEF Answer, Redirect
  <2>2. CASE /\ p.req = "login" /\ p.want = {"403"} /\ s \in NewScens
             /\ p.who = 1 /\ ~HasRegistered(s, k)
    BY <1>10, <2>2 DEF Answer
  <2>3. CASE /\ p.req = "register" /\ p.want = Redirect /\ s \in NewScens
             /\ p.who = 1 /\ ~HasRegistered(s, k)
    BY <1>10, <2>3 DEF Answer, Redirect
  <2>4. CASE /\ p.req = "register" /\ p.want = {"409"} /\ s \in NewScens
             /\ p.who = 1 /\ HasRegistered(s, k)
    BY <1>10, <2>4 DEF Answer
  <2>5. CASE \/ p.req = "loginStranger" /\ p.want = {"403"}
             \/ p.req = "logout" /\ p.want = Redirect
             \/ p.req = "open" /\ p.want = {"200"}
    BY <2>5 DEF Answer, Redirect
  <2>6. CASE /\ s = "CheckNotLoggedInUser" /\ k >= 2 /\ p.who = 1
             /\ \/ /\ p.req \in {"page", "profile", "addChannel"}
                   /\ p.want = {"toLogin"}
                \/ p.req = "message" /\ p.want = {"403"}
    BY <1>9, <2>6 DEF Answer, LoggedIn, Api
  <2>7. CASE /\ p.who \in Signed(s, k) /\ HasRow(s, k, p.who)
             /\ \/ /\ p.req \in {"page", "message", "names", "profileNew",
                                 "profileSet"}
                   /\ p.want = {"200"}
                \/ p.req = "post" /\ p.want = {"204"}
                \/ p.req \in {"profile", "addChannel"} /\ p.want = Redirect
                \/ p.req = "profileStranger" /\ p.want = {"404"}
                \/ p.req \in {"badProfile", "badChannel"} /\ p.want = {"400"}
    BY <1>7, <1>8, <2>7 DEF Answer, LoggedIn, Redirect
  <2> QED
    BY <1>1, <1>4, <2>1, <2>2, <2>3, <2>4, <2>5, <2>6, <2>7 DEF Asks
<1> QED
  BY <1>11, <1>12 DEF p, u, c

-----------------------------------------------------------------------------
(***************************************************************************)
(* What a step leaves of the facts about its users.                        *)
(***************************************************************************)
LEMMA FitsElsewhere ==
  ASSUME NEW x, HandOK(x), NEW j1, NEW r1, NEW p1, NEW o1,
         NEW j2, NEW r2, NEW p2, NEW o2, Fits(x, j1, r1, p1, o1),
         o1 => o2,
         \A i \in DOMAIN x.hand : /\ x.hand[i] \in j1 <=> x.hand[i] \in j2
                                  /\ x.hand[i] \in r1 <=> x.hand[i] \in r2
                                  /\ x.hand[i] \in p1 <=> x.hand[i] \in p2
  PROVE  Fits(x, j2, r2, p2, o2)
<1>1. x.step >= 2 \/ x.phase \in Out => 1 \in DOMAIN x.hand
  <2>1. x.step >= 2 \/ x.phase \in Out => x.phase \in Busy
    BY DEF HandOK, Busy, Out, Phases
  <2>2. x.phase \in Busy => DOMAIN x.hand = 1..Len(Pops(x.scen))
    BY DEF HandOK
  <2>3. Len(Pops(x.scen)) \in 1..3
    BY PopsType
  <2>4. \A n \in 1..3 : 1 \in 1..n
    OBVIOUS
  <2> QED
    BY <2>1, <2>2, <2>3, <2>4
<1>2. x.hand # <<>> => 1 \in DOMAIN x.hand
  <2>1. x.hand \in Seq(Users)
    BY DEF HandOK
  <2> QED
    BY <2>1
<1>3. x.phase \in Out => Script[x.scen][x.step].who \in DOMAIN x.hand
  <2>1. ASSUME x.phase \in Out
        PROVE  /\ x.scen \in Scens /\ x.step \in DOMAIN Script[x.scen]
               /\ DOMAIN x.hand = 1..Len(Pops(x.scen))
    BY <2>1 DEF HandOK, Busy, Out
  <2> QED
    BY <2>1, ScriptType DEF ScriptOK
<1>4. \A i \in Signed(x.scen, x.step) \cap DOMAIN x.hand : x.hand[i] \in j2
  BY DEF Fits
<1>5. x.scen = "CheckNotLoggedInUser" /\ x.step >= 2 => x.hand[1] \notin j2
  BY <1>1 DEF Fits
<1>6. x.scen \in NewScens /\ x.hand # <<>> =>
        /\ x.hand[1] \in r2 <=> HasRegistered(x.scen, x.step)
        /\ x.hand[1] \in p2 <=> HasPosted(x.scen, x.step)
  BY <1>2 DEF Fits
<1>7. ~o2 \/ x.phase \in Out =>
        \A i \in DOMAIN x.hand : Pops(x.scen)[i] = "pool" =>
                                   x.hand[i] \in r2 \cap p2
  BY DEF Fits
<1>8. x.phase \in Out =>
        /\ Script[x.scen][x.step].want # {}
        /\ x.cookie = TRUE <=> x.hand[Script[x.scen][x.step].who] \in j2
  BY <1>3 DEF Fits
<1> QED
  BY <1>4, <1>5, <1>6, <1>7, <1>8 DEF Fits

SameFor(v) == /\ v \in jar' <=> v \in jar
              /\ v \in registered' <=> v \in registered
              /\ v \in posted' <=> v \in posted

LEMMA AllFitBy ==
  ASSUME Hands, OneOwner, AllFit, NEW r \in Runners, NEW x, Changes(r, x),
         Fits(x, jar', registered', posted', done'), done => done',
         \A v : v \in Held(r) \/ SameFor(v)
  PROVE  AllFit'
<1> SUFFICES ASSUME NEW q \in Runners
             PROVE  Fits(run'[q], jar', registered', posted', done')
  BY DEF AllFit
<1>1. CASE q = r
  BY <1>1 DEF Changes
<1>2. CASE q # r
  <2>1. run'[q] = run[q] /\ HandOK(run[q])
    BY <1>2 DEF Changes, Hands
  <2>2. Fits(run[q], jar, registered, posted, done)
    BY DEF AllFit
  <2>3. \A i \in DOMAIN run[q].hand : SameFor(run[q].hand[i])
    BY <1>2 DEF OneOwner, Held, Range
  <2>4. Fits(run[q], jar', registered', posted', done')
    BY <2>1, <2>2, <2>3, FitsElsewhere DEF SameFor
  <2> QED
    BY <2>1, <2>4
<1> QED
  BY <1>1, <1>2

\* What the Play or the other step of r, now over, did to its user.
Effects(r) ==
    LET p == Current(r)
        u == Player(r)
    IN  /\ \A v : v # u => SameFor(v)
        /\ p.req \in {"logout", "ResetCookie"} => u \notin jar'
        /\ p.req \notin {"logout", "ResetCookie", "login", "register"} =>
             (u \in jar' <=> u \in jar)
        /\ p.req \in {"login", "register"} /\ u \in jar => u \in jar'
        /\ p.req = "login" /\ p.want = Redirect => u \in jar'
        /\ u \in registered' <=> u \in registered \/ p.req = "register"
        /\ u \in posted => u \in posted'
        /\ u \in posted' => u \in posted \/ (p.req = "profile" /\
                                             u \in registered)
        /\ p.req = "profile" /\ run[r].scen \in NewScens => u \in posted'

LEMMA AnsweredEffects ==
  ASSUME ReadyInv, NEW r \in Runners, Answered(r)
  PROVE  Effects(r)
<1> DEFINE s == run[r].scen
           k == run[r].step
           p == Current(r)
           u == Player(r)
           c == run[r].cookie
           a == Answer(p.req, u, c)
<1>0. run[r].phase = "out" /\ run[r].phase \in Busy /\ run[r].phase \in Out
      /\ Hands
  BY DEF Answered, ReadyInv, PoolInv, Busy, Out
<1>1. /\ jar' = JarAfter(p.req, u, a)
      /\ registered' = IF p.req = "register" THEN registered \cup {u}
                       ELSE registered
      /\ posted' = IF p.req = "profile" /\ c /\ u \in registered
                   THEN posted \cup {u} ELSE posted
  BY DEF Answered, Execute, LoggedIn
<1>2. a \in p.want
  BY <1>0, Accepted
<1>3. Leads(s, k, p, Len(Steps(r)))
  BY <1>0, AtStep
<1>4. /\ u = run[r].hand[p.who] /\ p.who \in DOMAIN run[r].hand
      /\ run[r].hand # <<>>
  BY <1>0, PlayerIsUser, AtStep DEF Player
<1>5. Fits(run[r], jar, registered, posted, done)
  BY DEF ReadyInv, AllFit
<1>6. c = TRUE <=> u \in jar
  BY <1>0, <1>5 DEF Fits, Current, Player, Steps
<1>7. p.req = "profile" /\ s \in NewScens => c = TRUE /\ u \in registered
  <2>1. p.req = "profile" /\ s \in NewScens =>
          p.who = 1 /\ HasRegistered(s, k) /\ 1 \in Signed(s, k)
    BY <1>3 DEF Leads, NewScens
  <2> QED
    BY <1>4, <1>5, <1>6, <2>1 DEF Fits
<1>8. p.req = "login" /\ p.want = Redirect => a = "redirect"
  BY <1>2 DEF Answer, LoggedIn, Redirect
<1> HIDE DEF s, p, u, c, a, k
<1>9. /\ \A v : v # u => SameFor(v)
      /\ p.req = "logout" => u \notin jar'
      /\ p.req \notin {"logout", "login", "register"} => jar' = jar
      /\ p.req \in {"login", "register"} /\ u \in jar => u \in jar'
      /\ p.req = "login" /\ p.want = Redirect => u \in jar'
  BY <1>1, <1>8 DEF JarAfter, SameFor
<1>10. /\ u \in registered' <=> u \in registered \/ p.req = "register"
       /\ u \in posted => u \in posted'
       /\ u \in posted' => u \in posted \/ (p.req = "profile" /\
                                            u \in registered)
       /\ p.req = "profile" /\ s \in NewScens => u \in posted'
  BY <1>1, <1>7
<1>11. p.req # "ResetCookie"
  BY <1>0, <1>3, <1>5 DEF Leads, Fits, Current, Steps, p
<1> QED
  BY <1>9, <1>10, <1>11 DEF Effects, p, u, s

LEMMA LocalEffects ==
  ASSUME ReadyInv, NEW r \in Runners, Local(r)
  PROVE  Effects(r)
<1> DEFINE p == Current(r)
           u == Player(r)
<1>1. /\ registered' = registered /\ posted' = posted
      /\ \/ p.req = "ResetCookie" /\ jar' = jar \ {u}
         \/ p.req = "goLoadAsset" /\ jar' = jar
  BY DEF Local, app
<1> HIDE DEF p, u
<1>2. p.req \in {"ResetCookie", "goLoadAsset"}
  BY <1>1
<1>3. \A v : v # u => SameFor(v)
  BY <1>1 DEF SameFor
<1> QED
  BY <1>1, <1>2, <1>3 DEF Effects, p, u

LEMMA InnerEffects ==
  ASSUME ReadyInv, NEW r \in Runners, InnerEnds(r)
  PROVE  Effects(r)
<1>1. UNCHANGED <<jar, registered, posted>> /\ run[r].phase = "innerOut"
  BY DEF InnerEnds, app
<1>2. Current(r).req \in {"profileNew", "profileSet"}
  BY <1>1 DEF ReadyInv, AllFit, Fits, Current, Steps
<1>3. \A v : SameFor(v)
  BY <1>1 DEF SameFor
<1> QED
  BY <1>1, <1>2, <1>3 DEF Effects

LEMMA NextFits ==
  ASSUME ReadyInv, NEW r \in Runners, run[r].phase \in Busy, Effects(r),
         NEW x, Moved(r, x), x.phase = "idle", done' = done,
         \/ x.step = run[r].step + 1 /\ run[r].step < Len(Steps(r))
         \/ x.step = run[r].step /\ InLoop(r)
  PROVE  Fits(x, jar', registered', posted', done')
<1> DEFINE s == run[r].scen
           k == run[r].step
           p == Current(r)
           u == Player(r)
           h == run[r].hand
           last == Len(Steps(r))
<1>0. Hands /\ OneOwner
  BY DEF ReadyInv, PoolInv, Pools
<1>1. /\ Leads(s, k, p, last) /\ k \in 1..last /\ last \in Nat
      /\ h # <<>>
  BY <1>0, AtStep
<1>2. u = h[p.who] /\ p.who \in DOMAIN h /\ 1 \in DOMAIN h
  BY <1>0, PlayerIsUser DEF Player
<1>3. Fits(run[r], jar, registered, posted, done)
  BY DEF ReadyInv, AllFit
<1>4. \A i \in DOMAIN h : i = p.who \/ SameFor(h[i])
  BY <1>0, <1>2 DEF OneOwner, Effects
<1>5. /\ \A i \in Signed(s, k) \cap DOMAIN h : h[i] \in jar
      /\ s = "CheckNotLoggedInUser" /\ k >= 2 => h[1] \notin jar
      /\ s \in NewScens => /\ h[1] \in registered <=> HasRegistered(s, k)
                           /\ h[1] \in posted <=> HasPosted(s, k)
      /\ ~done => \A i \in DOMAIN h : Pops(s)[i] = "pool" =>
                                        h[i] \in registered \cap posted
  BY <1>1, <1>3 DEF Fits
<1>6. x.scen = s /\ x.hand = h
  BY DEF Moved
<1>7. /\ p.req \in {"logout", "ResetCookie"} => u \notin jar'
      /\ p.req \notin {"logout", "ResetCookie", "login", "register"} =>
           (u \in jar' <=> u \in jar)
      /\ p.req \in {"login", "register"} /\ u \in jar => u \in jar'
      /\ p.req = "login" /\ p.want = Redirect => u \in jar'
      /\ u \in registered' <=> u \in registered \/ p.req = "register"
      /\ u \in posted => u \in posted'
      /\ u \in posted' => u \in posted \/ p.req = "profile"
      /\ p.req = "profile" /\ s \in NewScens => u \in posted'
  BY DEF Effects
<1> HIDE DEF s, k, p, u, h, last
<1>8. \A i \in DOMAIN h :
        /\ h[i] \in registered => h[i] \in registered'
        /\ h[i] \in posted => h[i] \in posted'
  BY <1>2, <1>4, <1>7 DEF SameFor
<1>9. ~done' => \A i \in DOMAIN h : Pops(s)[i] = "pool" =>
                                      h[i] \in registered' \cap posted'
  BY <1>5, <1>8
<1>10. CASE x.step = k + 1 /\ k < last
  <2>1. \A i \in Signed(s, k + 1) \cap DOMAIN h : h[i] \in jar'
    <3> TAKE i \in Signed(s, k + 1) \cap DOMAIN h
    <3>1. CASE i = p.who
      <4>1. p.req \notin {"logout", "ResetCookie"}
        BY <1>1, <1>10, <3>1 DEF Leads
      <4>2. CASE p.req = "login" /\ p.want = Redirect
        BY <1>2, <1>7, <3>1, <4>2
      <4>3. CASE i \in Signed(s, k)
        BY <1>2, <1>5, <1>7, <3>1, <4>1, <4>3
      <4> QED
        BY <1>1, <4>2, <4>3 DEF Leads
    <3>2. CASE i # p.who
      <4>1. i \in Signed(s, k)
        BY <1>1, <3>2 DEF Leads
      <4> QED
        BY <1>4, <1>5, <3>2, <4>1 DEF SameFor
    <3> QED
      BY <3>1, <3>2
  <2>2. s = "CheckNotLoggedInUser" => h[1] \notin jar'
    <3> HAVE s = "CheckNotLoggedInUser"
    <3>1. CASE k = 1
      <4>1. p.req = "ResetCookie" /\ p.who = 1
        BY <1>1, <3>1 DEF Leads
      <4> QED
        BY <1>2, <1>7, <4>1
    <3>2. CASE k >= 2
      <4>1. h[1] \notin jar /\ p.req \notin {"login", "register"}
        BY <1>1, <1>5, <3>2 DEF Leads
      <4> QED
        BY <1>2, <1>4, <1>7, <4>1 DEF SameFor
    <3> QED
      BY <1>1, <3>1, <3>2
  <2>3. s \in NewScens =>
          /\ h[1] \in registered' <=> HasRegistered(s, k + 1)
          /\ h[1] \in posted' <=> HasPosted(s, k + 1)
    <3> HAVE s \in NewScens
    <3>1. /\ HasRegistered(s, k + 1) <=>
               HasRegistered(s, k) \/ p.req = "register"
          /\ HasPosted(s, k + 1) <=> HasPosted(s, k) \/ p.req = "profile"
          /\ p.req \in {"register", "profile"} => p.who = 1
      BY <1>1, <1>10 DEF Leads
    <3>2. CASE p.who = 1
      BY <1>2, <1>5, <1>7, <3>1, <3>2
    <3>3. CASE p.who # 1
      BY <1>2, <1>4, <1>5, <3>1, <3>3 DEF SameFor
    <3> QED
      BY <3>2, <3>3
  <2> QED
    BY <1>6, <1>9, <1>10, <2>1, <2>2, <2>3 DEF Fits, Out
<1>11. CASE x.step = k /\ InLoop(r)
  <2>1. k = last /\ Loops(s)
    BY <1>11 DEF InLoop, k, last, s
  <2>2. p.req \notin {"login", "logout", "register", "profile", "ResetCookie"}
    BY <1>1, <2>1 DEF Leads
  <2>3. \A i \in DOMAIN h : SameFor(h[i])
    BY <1>2, <1>4, <1>7, <2>2 DEF SameFor
  <2>4. /\ \A i \in Signed(s, k) \cap DOMAIN h : h[i] \in jar'
        /\ s = "CheckNotLoggedInUser" /\ k >= 2 => h[1] \notin jar'
        /\ s \in NewScens => /\ h[1] \in registered' <=> HasRegistered(s, k)
                             /\ h[1] \in posted' <=> HasPosted(s, k)
    BY <1>2, <1>5, <2>3 DEF SameFor
  <2> QED
    BY <1>6, <1>9, <1>11, <2>4 DEF Fits, Out
<1> QED
  BY <1>10, <1>11 DEF k, last

\* A user that is gone stays gone.
LEMMA MoveLost ==
  ASSUME NEW r \in Runners, NEW x, Changes(r, x), x.hand = run[r].hand,
         UNCHANGED <<users, newUsers>>, NEW v, Lost(v)
  PROVE  Lost(v)'
BY DEF Lost, Changes, Held

LEMMA ReturnLost ==
  ASSUME Hands, NEW r \in Runners, NEW how, Return(r, how),
         UNCHANGED newUsers, NEW v, Lost(v)
  PROVE  Lost(v)'
<1>1. PICK x : Changes(r, x) /\ Returned(x)
  BY ReturnChanges
<1>2. users' = users \cup Pushed(r, how)
  BY ReturnChanges
<1>3. Pushed(r, how) \subseteq Held(r)
  BY DEF Pushed, Held, Range
<1>4. run'[r].hand = <<>> /\ Held(r)' = {}
  BY <1>1 DEF Changes, Returned, Held, Range
<1>5. \A q \in Runners \ {r} : Held(q)' = Held(q)
  BY <1>1 DEF Changes, Held
<1> QED
  BY <1>2, <1>3, <1>4, <1>5 DEF Lost

LEMMA ReturnFits ==
  ASSUME NEW x, Returned(x), NEW j, NEW t, NEW p, NEW o
  PROVE  Fits(x, j, t, p, o)
<1>1. /\ x.hand = <<>> /\ DOMAIN x.hand = {} /\ x.scen = "none"
      /\ x.phase \notin Out /\ x.phase \notin {"inner", "innerOut"}
  BY DEF Returned, Out
<1> QED
  BY <1>1 DEF Fits, NewScens

LEMMA ReturnReady ==
  ASSUME ReadyInv, NEW r \in Runners, NEW how, Return(r, how), done' = done,
         registered \subseteq registered', posted \subseteq posted',
         done \/ how # "end" \/
           (run[r].scen \in NewScens =>
              run[r].hand[1] \in registered' \cap posted')
  PROVE  PooledReady'
<1> SUFFICES ASSUME ~done, NEW v \in users'
             PROVE  v \in registered' \cap posted'
  BY DEF PooledReady
<1>1. Hands
  BY DEF ReadyInv, PoolInv
<1>2. users' = users \cup Pushed(r, how)
  BY <1>1, ReturnChanges
<1>3. CASE v \in users
  BY <1>3 DEF ReadyInv, Tables, PooledReady
<1>4. CASE v \in Pushed(r, how)
  <2>1. PICK i \in DOMAIN run[r].hand :
          v = run[r].hand[i] /\ (how = "end" \/ Pops(run[r].scen)[i] = "pool")
    BY <1>4 DEF Pushed
  <2>2. i \in 1..Len(Pops(run[r].scen))
    <3>1. HandOK(run[r])
      BY <1>1 DEF Hands
    <3>2. /\ DOMAIN run[r].hand = 1..Len(run[r].hand)
          /\ Len(run[r].hand) \in Nat /\ run[r].hand # <<>>
      BY <2>1, <3>1 DEF HandOK
    <3>3. Len(run[r].hand) <= Len(Pops(run[r].scen))
      BY <3>1, <3>2 DEF HandOK, Busy, Out, Phases
    <3>4. Len(Pops(run[r].scen)) \in Nat
      BY PopsType
    <3> QED
      BY <2>1, <3>2, <3>3, <3>4
  <2>3. CASE Pops(run[r].scen)[i] = "pool"
    BY <2>1, <2>3 DEF ReadyInv, AllFit, Fits
  <2>4. CASE Pops(run[r].scen)[i] # "pool"
    BY <2>1, <2>2, <2>4, PopsNew
  <2> QED
    BY <2>3, <2>4
<1> QED
  BY <1>2, <1>3, <1>4

\* At its end a scenario has registered its new user and set its profile.
LEMMA EndReady ==
  ASSUME ReadyInv, NEW r \in Runners, run[r].phase \in Busy, Effects(r),
         run[r].step = Len(Steps(r)), run[r].scen \in NewScens
  PROVE  run[r].hand[1] \in registered' \cap posted'
<1> DEFINE s == run[r].scen
           k == run[r].step
           p == Current(r)
           u == Player(r)
<1>1. /\ Leads(s, k, p, Len(Steps(r))) /\ u = run[r].hand[p.who]
      /\ run[r].hand # <<>>
  BY AtStep DEF ReadyInv, PoolInv, Player
<1>2. Fits(run[r], jar, registered, posted, done)
  BY DEF ReadyInv, AllFit
<1>3. /\ HasRegistered(s, k)
      /\ HasPosted(s, k) \/ p.req = "profile"
      /\ p.req = "profile" => p.who = 1
  BY <1>1 DEF Leads
<1>4. /\ run[r].hand[1] \in registered
      /\ HasPosted(s, k) => run[r].hand[1] \in posted
  BY <1>1, <1>2, <1>3 DEF Fits
<1>5. /\ \A v : v # u => SameFor(v)
      /\ u \in registered => u \in registered'
      /\ u \in posted => u \in posted'
      /\ p.req = "profile" => u \in posted'
  BY DEF Effects
<1> HIDE DEF u, p, k
<1>6. registered \subseteq registered' /\ posted \subseteq posted'
  BY <1>5 DEF SameFor
<1> QED
  BY <1>1, <1>3, <1>4, <1>5, <1>6

LEMMA PollsOwnBy ==
  ASSUME Hands, PollsOwn, NEW r \in Runners, NEW x, Changes(r, x),
         poll' = poll, registered \subseteq registered',
         r \in Writers =>
           \/ x.phase = "end" /\ x.scen = "none"
           \/ /\ run[r].phase # "end" /\ x.hand = run[r].hand
              /\ x.scen = run[r].scen /\ x.step = run[r].step
              /\ run[r].phase \in Busy /\ x.phase \in Busy
           \/ /\ poll[r].phase = "off"
              /\ x.scen \in {"none", "LoadReadWriteUser"}
  PROVE  PollsOwn'
<1> SUFFICES ASSUME NEW w \in Writers
             PROVE  /\ run'[w].scen \in {"none", "LoadReadWriteUser"}
                    /\ poll[w].phase # "off" /\ run'[w].phase # "end" =>
                         /\ run'[w].phase \in Busy /\ run'[w].step = 5
                         /\ poll[w].user = run'[w].hand[1]
                         /\ poll[w].phase \in {"fetchOut", "messageOut"} =>
                              poll[w].cookie /\ poll[w].user \in registered'
  BY DEF PollsOwn
<1>1. CASE w = r
  <2>1. run'[w] = x
    BY <1>1 DEF Changes
  <2> QED
    BY <1>1, <2>1 DEF PollsOwn
<1>2. CASE w # r
  <2>1. run'[w] = run[w]
    BY <1>2 DEF Changes, Runners
  <2> QED
    BY <2>1 DEF PollsOwn
<1> QED
  BY <1>1, <1>2

LEMMA ReturnEnds ==
  ASSUME Hands, NEW r \in Runners, NEW how, Return(r, how), NEW x,
         Changes(r, x), r \in Writers
  PROVE  x.phase = "end" /\ x.scen = "none"
<1>1. run'[r] = [Free EXCEPT !.phase = "end"]
  BY DEF Return, Hands
<1> QED
  BY <1>1 DEF Changes, Free

-----------------------------------------------------------------------------
(***************************************************************************)
(* Each step keeps the rest of the invariant.                              *)
(***************************************************************************)
AppInv == AllFit /\ Tables /\ LateHarmless /\ PollsOwn /\ BlameExplained

LEMMA LateSame ==
  ASSUME LateHarmless, late' = late,
         \A v \in Users : Lost(v) => Lost(v)'
  PROVE  LateHarmless'
BY DEF LateHarmless

\* A step that goes on to the next Play, or returns.
LEMMA AfterPlay ==
  ASSUME ReadyInv, ~crashed, NEW r \in Runners, run[r].phase \in Busy,
         Effects(r), Advance(r) \/ Return(r, "error"), done' = done,
         newUsers' = newUsers, poll' = poll, late' = late, blames' = blames
  PROVE  AppInv'
<1>0. /\ Hands /\ Pools /\ OneOwner /\ AllFit /\ Tables /\ LateHarmless
      /\ PollsOwn /\ BlameExplained
  BY DEF ReadyInv, PoolInv, Pools
<1>1. Player(r) \in Held(r) /\ Player(r) \in Users
  BY <1>0, PlayerIsUser DEF Player, Held, Range
<1>2. /\ \A v : v # Player(r) => SameFor(v)
      /\ Player(r) \in registered => Player(r) \in registered'
      /\ Player(r) \in posted => Player(r) \in posted'
      /\ Player(r) \in posted' => Player(r) \in posted \cup registered
  BY DEF Effects
<1>3. /\ \A v : v \in Held(r) \/ SameFor(v)
      /\ registered \subseteq registered' /\ posted \subseteq posted'
      /\ posted' \subseteq registered'
  BY <1>0, <1>1, <1>2 DEF SameFor, Tables
<1>4. jar' \subseteq Users /\ registered' \subseteq Users
  BY <1>0, <1>1, <1>2 DEF SameFor, Tables
<1>5. newUsers' \cap registered' = {}
  BY <1>0, <1>1, <1>2 DEF SameFor, Tables, OneOwner
<1>6. \/ /\ users' = users
         /\ \E x : /\ Changes(r, x) /\ Moved(r, x) /\ x.phase = "idle"
                   /\ \/ /\ x.step = run[r].step + 1
                         /\ run[r].step < Len(Steps(r))
                      \/ x.step = run[r].step /\ InLoop(r)
      \/ /\ Return(r, "end") /\ run[r].step = Len(Steps(r))
         /\ ~InLoop(r)
      \/ Return(r, "error")
  BY <1>0, AdvanceChanges
<1>7. ASSUME PooledReady' PROVE Tables'
  BY <1>0, <1>3, <1>4, <1>5, <1>7 DEF Tables
<1>8. BlameExplained'
  BY <1>0 DEF BlameExplained
<1>9. CASE /\ users' = users
           /\ \E x : /\ Changes(r, x) /\ Moved(r, x) /\ x.phase = "idle"
                     /\ \/ /\ x.step = run[r].step + 1
                           /\ run[r].step < Len(Steps(r))
                        \/ x.step = run[r].step /\ InLoop(r)
  <2>1. PICK x : /\ Changes(r, x) /\ Moved(r, x) /\ x.phase = "idle"
                 /\ \/ /\ x.step = run[r].step + 1
                       /\ run[r].step < Len(Steps(r))
                    \/ x.step = run[r].step /\ InLoop(r)
    BY <1>9
  <2>2. Fits(x, jar', registered', posted', done')
    BY <2>1, NextFits
  <2>3. AllFit'
    BY <1>0, <1>3, <2>1, <2>2, AllFitBy
  <2>4. PooledReady'
    BY <1>0, <1>3, <1>9 DEF Tables, PooledReady
  <2>5. ASSUME NEW v \in Users, Lost(v) PROVE Lost(v)'
    BY <1>9, <2>1, <2>5, MoveLost DEF Moved
  <2>6. LateHarmless'
    BY <1>0, <2>5, LateSame
  <2>7. PollsOwn'
    <3>1. ASSUME r \in Writers, poll[r].phase # "off"
          PROVE  x.step = run[r].step
      <4>1. run[r].scen = "LoadReadWriteUser" /\ run[r].step = 5
        BY <1>0, <3>1, AtStep DEF PollsOwn, Busy, Out, Scens
      <4>2. Len(Steps(r)) = 5
        BY <1>0, <4>1, AtStep DEF Leads
      <4> QED
        BY <2>1, <4>1, <4>2
    <3>2. r \in Writers => run[r].scen \in {"none", "LoadReadWriteUser"}
      BY <1>0 DEF PollsOwn
    <3>3. /\ x.hand = run[r].hand /\ x.scen = run[r].scen
          /\ x.phase \in Busy /\ run[r].phase # "end"
      BY <2>1 DEF Moved, Busy, Out
    <3> QED
      BY <1>0, <1>3, <2>1, <3>1, <3>2, <3>3, PollsOwnBy
  <2> QED
    BY <1>7, <1>8, <2>3, <2>4, <2>6, <2>7 DEF AppInv
<1>10. ASSUME NEW how \in {"end", "error"}, Return(r, how),
              how = "end" => run[r].step = Len(Steps(r))
       PROVE  AppInv'
  <2>1. PICK x : Changes(r, x) /\ Returned(x)
    BY <1>0, <1>10, ReturnChanges
  <2>2. Fits(x, jar', registered', posted', done')
    BY <2>1, ReturnFits
  <2>3. AllFit'
    BY <1>0, <1>3, <2>1, <2>2, AllFitBy
  <2>4. how = "end" /\ run[r].scen \in NewScens =>
          run[r].hand[1] \in registered' \cap posted'
    BY <1>10, EndReady
  <2>5. PooledReady'
    BY <1>3, <1>10, <2>4, ReturnReady
  <2>6. ASSUME NEW v \in Users, Lost(v) PROVE Lost(v)'
    BY <1>0, <1>10, <2>6, ReturnLost
  <2>7. LateHarmless'
    BY <1>0, <2>6, LateSame
  <2>8. r \in Writers => x.phase = "end" /\ x.scen = "none"
    BY <1>0, <1>10, <2>1, ReturnEnds
  <2>9. PollsOwn'
    BY <1>0, <1>3, <2>1, <2>8, PollsOwnBy
  <2> QED
    BY <1>7, <1>8, <2>3, <2>5, <2>7, <2>9 DEF AppInv
<1> QED
  BY <1>6, <1>9, <1>10

\* A step that only moves r.
LEMMA QuietMove ==
  ASSUME ReadyInv, NEW r \in Runners, NEW x, Changes(r, x),
         x.hand = run[r].hand,
         UNCHANGED <<users, newUsers, jar, registered, posted, late, blames,
                     done, poll>>,
         Fits(x, jar, registered, posted, done),
         r \in Writers =>
           \/ /\ run[r].phase # "end" /\ x.hand = run[r].hand
              /\ x.scen = run[r].scen /\ x.step = run[r].step
              /\ run[r].phase \in Busy /\ x.phase \in Busy
           \/ /\ poll[r].phase = "off"
              /\ x.scen \in {"none", "LoadReadWriteUser"}
  PROVE  AppInv'
<1>0. /\ Hands /\ OneOwner /\ AllFit /\ Tables /\ LateHarmless
      /\ PollsOwn /\ BlameExplained
  BY DEF ReadyInv, PoolInv, Pools
<1>1. AllFit'
  <2>1. \A v : SameFor(v)
    BY DEF SameFor
  <2>2. Fits(x, jar', registered', posted', done')
    OBVIOUS
  <2> QED
    BY <1>0, <2>1, <2>2, AllFitBy
<1>2. Tables'
  BY <1>0 DEF Tables, PooledReady
<1>3. LateHarmless'
  <2>1. ASSUME NEW v \in Users, Lost(v) PROVE Lost(v)'
    BY <2>1, MoveLost
  <2> QED
    BY <1>0, <2>1, LateSame
<1>4. PollsOwn'
  BY <1>0, PollsOwnBy
<1>5. BlameExplained'
  BY <1>0 DEF BlameExplained
<1> QED
  BY <1>1, <1>2, <1>3, <1>4, <1>5 DEF AppInv

LEMMA ChooseApp ==
  ASSUME ReadyInv, ~crashed, NEW r \in Runners, Choose(r)
  PROVE  AppInv'
<1> DEFINE y == run[r]
<1>0. Hands /\ AllFit /\ PollsOwn
  BY DEF ReadyInv, PoolInv
<1>1. PICK scen \in Chooses(r) :
        run' = [run EXCEPT ![r].scen = scen, ![r].phase = "pop"]
  BY DEF Choose
<1>2. PICK x : x = [[y EXCEPT !.scen = scen] EXCEPT !.phase = "pop"]
  OBVIOUS
<1>3. /\ y.phase = "free" /\ y.hand = <<>> /\ y.step = 1
      /\ y \in [scen : Scens \cup {"none"}, step : Nat, hand : Seq(Users),
                phase : Phases, cookie : BOOLEAN]
  BY <1>0 DEF Choose, Hands, HandOK
<1>4. /\ x.scen = scen /\ x.phase = "pop" /\ x.hand = <<>> /\ x.step = 1
      /\ x.hand = y.hand
  BY <1>2, <1>3
<1>5. Changes(r, x)
  <2>1. run' = [run EXCEPT ![r] = x]
    BY <1>0, <1>1, <1>2 DEF Hands
  <2> QED
    BY <1>0, <2>1 DEF Changes, Hands
<1>6. Fits(x, jar, registered, posted, done)
  <2>1. DOMAIN x.hand = {} /\ x.phase \notin Out
        /\ x.phase \notin {"inner", "innerOut"} /\ ~(x.step >= 2)
    BY <1>4 DEF Out
  <2> QED
    BY <1>4, <2>1 DEF Fits
<1>7. r \in Writers =>
        poll[r].phase = "off" /\ x.scen \in {"none", "LoadReadWriteUser"}
  <2>1. r \in Writers => scen = "LoadReadWriteUser"
    BY <1>1, ScenariosAssumption DEF Chooses
  <2>2. r \in Writers => poll[r].phase = "off"
    BY <1>0, <1>3 DEF PollsOwn, Busy, Out
  <2> QED
    BY <1>4, <2>1, <2>2
<1>8. UNCHANGED <<users, newUsers, jar, registered, posted, late, blames,
                  done, poll>>
  BY DEF Choose, pool, app
<1> QED
  BY <1>4, <1>5, <1>6, <1>7, <1>8, QuietMove

LEMMA EnterApp ==
  ASSUME ReadyInv, ~crashed, NEW r \in Runners, Enter(r)
  PROVE  AppInv'
<1>0. Hands /\ AllFit /\ PollsOwn
  BY DEF ReadyInv, PoolInv
<1>1. /\ run[r].phase = "idle" /\ run[r].phase \in Busy /\ ~done
      /\ Current(r).want # {}
  BY DEF Enter, Busy
<1>2. run' = [run EXCEPT ![r].phase = "out", ![r].cookie = Player(r) \in jar]
  BY DEF Enter
<1>3. (Player(r) \in jar) \in BOOLEAN
  OBVIOUS
<1>4. PICK x : /\ Changes(r, x) /\ Moved(r, x) /\ x.phase = "out"
               /\ x.step = run[r].step /\ x.cookie = (Player(r) \in jar)
  BY <1>0, <1>1, <1>2, <1>3, EnterChanges
<1>5. Fits(x, jar, registered, posted, done)
  <2>1. Fits(run[r], jar, registered, posted, done)
    BY <1>0 DEF AllFit
  <2>2. x.cookie = TRUE <=> Player(r) \in jar
    BY <1>4
  <2> QED
    BY <1>1, <1>4, <2>1, <2>2 DEF Fits, Moved, Player, Current, Steps
<1>6. /\ x.hand = run[r].hand /\ x.scen = run[r].scen
      /\ x.step = run[r].step /\ run[r].phase # "end"
      /\ x.phase \in Busy /\ run[r].phase \in Busy
  BY <1>1, <1>4 DEF Moved
<1>7. UNCHANGED <<users, newUsers, jar, registered, posted, late, blames,
                  done, poll>>
  BY DEF Enter, pool, app
<1> QED
  BY <1>4, <1>5, <1>6, <1>7, QuietMove

LEMMA InnerEnterApp ==
  ASSUME ReadyInv, ~crashed, NEW r \in Runners, InnerEnter(r)
  PROVE  AppInv'
<1>0. Hands /\ AllFit /\ PollsOwn
  BY DEF ReadyInv, PoolInv
<1>1. /\ run[r].phase = "inner" /\ run[r].phase \in Busy
      /\ run[r].phase \in Out /\ "innerOut" \in Busy /\ "innerOut" \in Out
      /\ run' = [run EXCEPT ![r].phase = "innerOut"]
  BY DEF InnerEnter, Busy, Out
<1>2. PICK x : /\ Changes(r, x) /\ Moved(r, x) /\ x.phase = "innerOut"
               /\ x.step = run[r].step /\ x.cookie = run[r].cookie
  BY <1>0, <1>1, PhaseChanges
<1>3. Fits(x, jar, registered, posted, done)
  <2>1. Fits(run[r], jar, registered, posted, done)
    BY <1>0 DEF AllFit
  <2> QED
    BY <1>1, <1>2, <2>1 DEF Fits, Moved
<1>4. /\ x.hand = run[r].hand /\ x.scen = run[r].scen
      /\ x.step = run[r].step /\ run[r].phase # "end"
      /\ x.phase \in Busy /\ run[r].phase \in Busy
  BY <1>1, <1>2 DEF Moved
<1>5. UNCHANGED <<users, newUsers, jar, registered, posted, late, blames,
                  done, poll>>
  BY DEF InnerEnter, pool, app
<1> QED
  BY <1>2, <1>3, <1>4, <1>5, QuietMove

LEMMA LocalApp ==
  ASSUME ReadyInv, ~crashed, NEW r \in Runners, Local(r)
  PROVE  AppInv'
<1>1. /\ run[r].phase \in Busy /\ Advance(r)
      /\ UNCHANGED <<newUsers, poll, late, blames, done>>
  BY DEF Local, Busy
<1>2. Effects(r)
  BY LocalEffects
<1> QED
  BY <1>1, <1>2, AfterPlay

LEMMA InnerEndsApp ==
  ASSUME ReadyInv, ~crashed, NEW r \in Runners, InnerEnds(r)
  PROVE  AppInv'
<1>1. /\ run[r].phase \in Busy
      /\ Advance(r) \/ Return(r, "error")
      /\ UNCHANGED <<newUsers, poll, late, blames, done>>
  BY DEF InnerEnds, Busy, Out
<1>2. Effects(r)
  BY InnerEffects
<1> QED
  BY <1>1, <1>2, AfterPlay

LEMMA AnsweredApp ==
  ASSUME ReadyInv, ~crashed, NEW r \in Runners, Answered(r)
  PROVE  AppInv'
<1> DEFINE p == Current(r)
           a == Answer(p.req, Player(r), run[r].cookie)
<1>0. Hands /\ AllFit /\ PollsOwn /\ Tables
  BY DEF ReadyInv, PoolInv
<1>1. /\ run[r].phase = "out" /\ run[r].phase \in Busy
      /\ run[r].phase \in Out
      /\ UNCHANGED <<newUsers, poll, late, done>> /\ Judged(r, a)
  BY DEF Answered, Busy, Out
<1>2. a \in p.want /\ Shows(p.req, run[r].hand[1])
  BY <1>1, Accepted
<1>3. Effects(r)
  BY AnsweredEffects
<1>4. \/ /\ Nested(r) /\ run' = [run EXCEPT ![r].phase = "inner"]
         /\ UNCHANGED <<users, tokens, blames>>
      \/ Advance(r) /\ UNCHANGED blames
  <2>1. \/ ~(a \in p.want /\ Shows(p.req, run[r].hand[1]))
        \/ /\ Nested(r) /\ run' = [run EXCEPT ![r].phase = "inner"]
           /\ UNCHANGED <<users, tokens, blames>>
        \/ Advance(r) /\ UNCHANGED blames
    <3> HIDE DEF a
    <3> QED
      BY <1>1 DEF Judged
  <2> QED
    BY <1>2, <2>1
<1>5. CASE Advance(r) /\ UNCHANGED blames
  BY <1>1, <1>3, <1>5, AfterPlay
<1>6. CASE /\ Nested(r) /\ run' = [run EXCEPT ![r].phase = "inner"]
           /\ UNCHANGED <<users, tokens, blames>>
  <2>1. run' = [run EXCEPT ![r].phase = "inner"] /\ "inner" \in Busy
    BY <1>6 DEF Busy, Out
  <2>2. PICK x : /\ Changes(r, x) /\ Moved(r, x) /\ x.phase = "inner"
                 /\ x.step = run[r].step /\ x.cookie = run[r].cookie
    BY <1>0, <1>1, <2>1, PhaseChanges
  <2>3. Fits(x, jar, registered, posted, done)
    <3>1. Fits(run[r], jar, registered, posted, done)
      BY <1>0 DEF AllFit
    <3> QED
      BY <1>1, <1>6, <2>2, <3>1 DEF Fits, Moved, Nested, Current, Steps, Out
  <2>4. /\ x.hand = run[r].hand /\ x.scen = run[r].scen
        /\ x.step = run[r].step /\ run[r].phase # "end"
        /\ x.phase \in Busy /\ run[r].phase \in Busy
    BY <1>1, <2>2 DEF Moved
  <2>5. UNCHANGED <<users, newUsers, jar, registered, posted, late, blames,
                    done, poll>>
    <3>1. p.req \in {"profileNew", "profileSet"}
      BY <1>6 DEF Nested
    <3>2. UNCHANGED <<jar, registered, posted>>
      BY <3>1 DEF Answered, Execute, LoggedIn, JarAfter
    <3> QED
      BY <1>1, <1>6, <3>2
  <2> QED
    BY <2>2, <2>3, <2>4, <2>5, QuietMove
<1> QED
  BY <1>4, <1>5, <1>6

LEMMA SkipPlaysApp ==
  ASSUME ReadyInv, ~crashed, NEW r \in Runners, SkipPlays(r)
  PROVE  AppInv'
<1>0. /\ Hands /\ OneOwner /\ AllFit /\ Tables /\ LateHarmless
      /\ PollsOwn /\ BlameExplained
  BY DEF ReadyInv, PoolInv, Pools
<1>1. /\ done /\ Return(r, "end")
      /\ UNCHANGED <<newUsers, jar, poll, registered, posted, late, blames,
                     done>>
  BY DEF SkipPlays, app
<1>2. PICK x : Changes(r, x) /\ Returned(x)
  BY <1>0, <1>1, ReturnChanges
<1>3. AllFit'
  <2>1. Fits(x, jar', registered', posted', done')
    BY <1>2, ReturnFits
  <2>2. \A v : SameFor(v)
    BY <1>1 DEF SameFor
  <2> QED
    BY <1>0, <1>1, <1>2, <2>1, <2>2, AllFitBy
<1>4. Tables'
  BY <1>0, <1>1 DEF Tables, PooledReady
<1>5. LateHarmless'
  <2>1. ASSUME NEW v \in Users, Lost(v) PROVE Lost(v)'
    BY <1>0, <1>1, <2>1, ReturnLost
  <2> QED
    BY <1>0, <1>1, <2>1, LateSame
<1>6. PollsOwn'
  <2>1. r \in Writers => x.phase = "end" /\ x.scen = "none"
    BY <1>0, <1>1, <1>2, ReturnEnds
  <2> QED
    BY <1>0, <1>1, <1>2, <2>1, PollsOwnBy
<1>7. BlameExplained'
  BY <1>0, <1>1 DEF BlameExplained
<1> QED
  BY <1>3, <1>4, <1>5, <1>6, <1>7 DEF AppInv

LEMMA GivesUpApp ==
  ASSUME ReadyInv, ~crashed, NEW r \in Runners, GivesUp(r)
  PROVE  AppInv'
<1>u. PICK u : u = Player(r)
  OBVIOUS
<1>p. PICK p : p = Current(r)
  OBVIOUS
<1>c. PICK c : c = run[r].cookie
  OBVIOUS
<1>0. /\ Hands /\ OneOwner /\ AllFit /\ Tables /\ LateHarmless
      /\ PollsOwn /\ BlameExplained
  BY DEF ReadyInv, PoolInv, Pools
<1>1. /\ run[r].phase = "out" /\ run[r].phase \in Busy
      /\ run[r].phase \in Out /\ Return(r, "error")
      /\ UNCHANGED <<newUsers, jar, poll, registered, posted, blames, done>>
      /\ late' = IF p.req \in {"register", "profile"}
                 THEN late \cup {<<p.req, u, c>>} ELSE late
  BY <1>u, <1>p, <1>c DEF GivesUp, app, Busy, Out
<1>2. PICK x : Changes(r, x) /\ Returned(x)
  BY <1>0, <1>1, ReturnChanges
<1>3. AllFit'
  <2>1. Fits(x, jar', registered', posted', done')
    BY <1>2, ReturnFits
  <2>2. \A v : SameFor(v)
    BY <1>1 DEF SameFor
  <2> QED
    BY <1>0, <1>1, <1>2, <2>1, <2>2, AllFitBy
<1>4. PooledReady'
  BY <1>1, ReturnReady
<1>5. Tables'
  BY <1>0, <1>1, <1>4 DEF Tables
<1>6. ASSUME NEW v \in Users, Lost(v) PROVE Lost(v)'
  BY <1>0, <1>1, <1>6, ReturnLost
<1>7. /\ u = run[r].hand[p.who] /\ p.who \in DOMAIN run[r].hand /\ u \in Users
      /\ DOMAIN run[r].hand = 1..Len(Pops(run[r].scen))
      /\ Leads(run[r].scen, run[r].step, p, Len(Steps(r)))
  BY <1>0, <1>1, <1>u, <1>p, PlayerIsUser, AtStep DEF Player
<1>8. c \in BOOLEAN
  BY <1>0, <1>c DEF Hands, HandOK
<1>9. ASSUME p.req \in {"register", "profile"}
      PROVE  Lost(u)' \/ (p.req = "profile" /\ c = FALSE)
  <2>1. CASE run[r].scen = "CheckNotLoggedInUser" /\ run[r].step >= 2
             /\ p.req = "profile" /\ p.who = 1
    BY <1>0, <1>1, <1>u, <1>p, <1>c, <1>7, <1>8, <2>1
       DEF AllFit, Fits, Current, Player, Steps
  <2>2. CASE run[r].scen \in NewScens /\ p.who = 1
    <3>1. Pops(run[r].scen)[1] = "new"
      BY <1>7, <2>2, PopsNew
    <3>2. users' = users \cup Pushed(r, "error")
      BY <1>0, <1>1, ReturnChanges
    <3>3. u \notin Pushed(r, "error")
      BY <1>0, <1>7, <2>2, <3>1 DEF Pushed, OneOwner
    <3>4. u \in Held(r)
      BY <1>7 DEF Held, Range
    <3>5. /\ u \notin users \cup newUsers
          /\ \A q \in Runners \ {r} : u \notin Held(q)
      BY <1>0, <3>4 DEF OneOwner
    <3>6. Held(r)' = {} /\ \A q \in Runners \ {r} : Held(q)' = Held(q)
      BY <1>2 DEF Changes, Returned, Held, Range
    <3> QED
      BY <1>1, <3>2, <3>3, <3>5, <3>6 DEF Lost
  <2> QED
    BY <1>7, <1>9, <2>1, <2>2 DEF Leads
<1>10. LateHarmless'
  <2>1. ASSUME NEW q \in late
        PROVE  Lost(q[2])' \/ (q[1] = "profile" /\ q[3] = FALSE)
    <3>1. PICK v \in Users : v = q[2]
      BY <1>0 DEF LateHarmless
    <3>2. Lost(v) \/ (q[1] = "profile" /\ q[3] = FALSE)
      BY <1>0, <3>1 DEF LateHarmless
    <3>3. Lost(v) => Lost(v)'
      BY <1>6
    <3> QED
      BY <3>1, <3>2, <3>3 DEF Lost
  <2>2. ASSUME NEW q \in late'
        PROVE  /\ q \in {"register", "profile"} \X Users \X BOOLEAN
               /\ Lost(q[2])' \/ (q[1] = "profile" /\ q[3] = FALSE)
    <3>1. CASE q \in late
      BY <1>0, <2>1, <3>1 DEF LateHarmless
    <3>2. CASE q = <<p.req, u, c>> /\ p.req \in {"register", "profile"}
      <4>1. q[1] = p.req /\ q[2] = u /\ q[3] = c
        BY <3>2
      <4>2. q \in {"register", "profile"} \X Users \X BOOLEAN
        BY <1>7, <1>8, <3>2
      <4> QED
        BY <1>9, <3>2, <4>1, <4>2 DEF Lost
    <3> QED
      BY <1>1, <3>1, <3>2
  <2> QED
    BY <2>2 DEF LateHarmless
<1>11. PollsOwn'
  <2>1. r \in Writers => x.phase = "end" /\ x.scen = "none"
    BY <1>0, <1>1, <1>2, ReturnEnds
  <2> QED
    BY <1>0, <1>1, <1>2, <2>1, PollsOwnBy
<1>12. BlameExplained'
  BY <1>0, <1>1 DEF BlameExplained
<1> QED
  BY <1>3, <1>5, <1>10, <1>11, <1>12 DEF AppInv

\* A return that is neither an end nor an error.
LEMMA NilApp ==
  ASSUME ReadyInv, NEW r \in Runners, Return(r, "nil"),
         UNCHANGED <<newUsers, jar, poll, registered, posted, late, blames,
                     done>>
  PROVE  AppInv'
<1>0. /\ Hands /\ OneOwner /\ AllFit /\ Tables /\ LateHarmless
      /\ PollsOwn /\ BlameExplained
  BY DEF ReadyInv, PoolInv, Pools
<1>1. PICK x : Changes(r, x) /\ Returned(x)
  BY <1>0, ReturnChanges
<1>2. AllFit'
  <2>1. Fits(x, jar', registered', posted', done')
    BY <1>1, ReturnFits
  <2>2. \A v : SameFor(v)
    BY DEF SameFor
  <2> QED
    BY <1>0, <1>1, <2>1, <2>2, AllFitBy
<1>3. Tables'
  BY <1>0, ReturnReady DEF Tables
<1>4. LateHarmless'
  <2>1. ASSUME NEW v \in Users, Lost(v) PROVE Lost(v)'
    BY <1>0, <2>1, ReturnLost
  <2> QED
    BY <1>0, <2>1, LateSame
<1>5. PollsOwn'
  <2>1. r \in Writers => x.phase = "end" /\ x.scen = "none"
    BY <1>0, <1>1, ReturnEnds
  <2> QED
    BY <1>0, <1>1, <2>1, PollsOwnBy
<1>6. BlameExplained'
  BY <1>0 DEF BlameExplained
<1> QED
  BY <1>2, <1>3, <1>4, <1>5, <1>6 DEF AppInv

\* A user drawn from one of the pools.
LEMMA PoppedApp ==
  ASSUME ReadyInv, NEW r \in Runners, run[r].phase = "pop",
         NEW u, Popped(r, u),
         UNCHANGED <<jar, poll, registered, posted, late, blames, done>>,
         \/ /\ Pops(run[r].scen)[Len(run[r].hand) + 1] = "new"
            /\ u \in newUsers /\ newUsers' = newUsers \ {u} /\ users' = users
         \/ /\ Pops(run[r].scen)[Len(run[r].hand) + 1] # "new"
            /\ u \in users /\ users' = users \ {u} /\ newUsers' = newUsers
  PROVE  AppInv'
<1> DEFINE s == run[r].scen
           h == run[r].hand
           n == Len(h)
<1>0. /\ Hands /\ OneOwner /\ AllFit /\ Tables /\ LateHarmless
      /\ PollsOwn /\ BlameExplained /\ Pools
  BY DEF ReadyInv, PoolInv, Pools
<1>1. /\ n \in Nat /\ n < Len(Pops(s)) /\ DOMAIN h = 1..n
      /\ run[r].step = 1 /\ s \in Scens /\ h \in Seq(Users)
  BY <1>0 DEF Hands, HandOK, Phases, Busy, Out
<1>2. u \in Users /\ (Pops(s)[n + 1] = "new" => u \in NewUsers)
  BY <1>0 DEF Pools, Users
<1>3. PICK x : /\ Changes(r, x) /\ HandOK(x) /\ x.scen = s
               /\ x.hand = Append(h, u)
               /\ x.phase \in {"idle", "pop"} /\ x.step = 1
  BY <1>0, <1>2, PoppedChanges
<1>4. /\ DOMAIN x.hand = 1..n + 1 /\ x.hand[n + 1] = u
      /\ \A i \in 1..n : x.hand[i] = h[i]
  BY <1>1, <1>2, <1>3
<1>5. Fits(run[r], jar, registered, posted, done)
  BY <1>0 DEF AllFit
<1>6. Signed(s, 1) = {} /\ ~HasPosted(s, 1)
      /\ (s \in NewScens => ~HasRegistered(s, 1))
  BY DEF Signed, HasPosted, HasRegistered, NewScens
<1>7. \A i \in DOMAIN x.hand : i \in 1..n \/ i = n + 1
  BY <1>1, <1>4
<1>8. Pops(s)[n + 1] = "pool" \/ Pops(s)[n + 1] = "new"
  BY <1>1, PopsType
<1>9. \A i \in 1..n : i \in DOMAIN h
  BY <1>1
<1>10. s \in NewScens =>
         x.hand[1] \notin registered /\ x.hand[1] \notin posted
  <2> HAVE s \in NewScens
  <2>1. CASE n = 0
    <3>1. Pops(s)[1] = "new"
      BY <1>1, PopsNew
    <3>2. x.hand[1] = u /\ u \in newUsers
      BY <1>4, <2>1, <3>1
    <3> QED
      BY <1>0, <3>2 DEF Tables
  <2>2. CASE n > 0
    <3>1. x.hand[1] = h[1] /\ h # <<>>
      BY <1>1, <1>4, <2>2
    <3> QED
      BY <1>1, <1>5, <1>6, <3>1 DEF Fits
  <2> QED
    BY <1>1, <2>1, <2>2
<1>11. ASSUME ~done, NEW i \in DOMAIN x.hand, Pops(s)[i] = "pool"
       PROVE  x.hand[i] \in registered \cap posted
  <2>1. CASE i \in 1..n
    BY <1>4, <1>5, <1>9, <1>11, <2>1 DEF Fits
  <2>2. CASE i = n + 1
    BY <1>0, <1>4, <1>11, <2>2 DEF Tables, PooledReady
  <2> QED
    BY <1>7, <2>1, <2>2
<1>12. Fits(x, jar, registered, posted, done)
  <2>1. x.phase \notin Out /\ x.phase \notin {"inner", "innerOut"}
        /\ ~(x.step >= 2)
    BY <1>3 DEF Out
  <2> QED
    BY <1>3, <1>6, <1>10, <1>11, <2>1 DEF Fits
<1>13. AllFit'
  <2>1. \A v : SameFor(v)
    BY DEF SameFor
  <2>2. Fits(x, jar', registered', posted', done')
    BY <1>12
  <2> QED
    BY <1>0, <1>3, <2>1, <2>2, AllFitBy
<1>14. Tables'
  BY <1>0 DEF Tables, PooledReady
<1>15. ASSUME NEW v \in Users, Lost(v) PROVE Lost(v)'
  <2>1. v # u
    BY <1>15 DEF Lost
  <2>2. \A i \in DOMAIN x.hand : x.hand[i] # v
    BY <1>4, <1>7, <1>9, <1>15, <2>1 DEF Lost, Held, Range
  <2>3. v \notin Held(r)'
    BY <1>3, <2>2 DEF Changes, Held, Range
  <2>4. \A q \in Runners \ {r} : Held(q)' = Held(q)
    BY <1>3 DEF Changes, Held
  <2> QED
    BY <1>15, <2>3, <2>4 DEF Lost
<1>16. LateHarmless'
  BY <1>0, <1>15, LateSame
<1>17. PollsOwn'
  <2>1. r \in Writers =>
          poll[r].phase = "off" /\ x.scen \in {"none", "LoadReadWriteUser"}
    BY <1>0, <1>3 DEF PollsOwn, Busy, Out
  <2> QED
    BY <1>0, <1>3, <2>1, PollsOwnBy
<1>18. BlameExplained'
  BY <1>0 DEF BlameExplained
<1> QED
  BY <1>13, <1>14, <1>16, <1>17, <1>18 DEF AppInv

\* A step that changes nothing the facts are about; the deadline may pass.
LEMMA StillApp ==
  ASSUME ReadyInv, UNCHANGED <<users, newUsers, run, jar, registered, posted,
                               late, blames, poll>>,
         done' \in BOOLEAN, done => done'
  PROVE  AppInv'
<1>0. /\ Hands /\ AllFit /\ Tables /\ LateHarmless /\ PollsOwn
      /\ BlameExplained
  BY DEF ReadyInv, PoolInv
<1>1. AllFit'
  <2> SUFFICES ASSUME NEW q \in Runners
               PROVE  Fits(run[q], jar, registered, posted, done')
    BY DEF AllFit
  <2>1. Fits(run[q], jar, registered, posted, done) /\ HandOK(run[q])
    BY <1>0 DEF AllFit, Hands
  <2> QED
    BY <2>1, FitsElsewhere
<1>2. Tables'
  BY <1>0 DEF Tables, PooledReady
<1>3. LateHarmless'
  BY <1>0 DEF LateHarmless, Lost, Held
<1>4. PollsOwn' /\ BlameExplained'
  BY <1>0 DEF PollsOwn, BlameExplained
<1> QED
  BY <1>1, <1>2, <1>3, <1>4 DEF AppInv

LEMMA PopApp ==
  ASSUME ReadyInv, ~crashed, NEW r \in Runners, Pop(r)
  PROVE  AppInv'
<1> DEFINE t == Pops(run[r].scen)[Len(run[r].hand) + 1]
<1>1. /\ run[r].phase = "pop"
      /\ UNCHANGED <<jar, poll, registered, posted, late, blames, done>>
  BY DEF Pop, app
<1>2. CASE t = "new" /\ PopNewUser(r)
  <2>1. CASE Return(r, "nil") /\ UNCHANGED <<newUsers, crashed>>
    BY <1>1, <2>1, NilApp
  <2>2. ASSUME NEW u \in newUsers, newUsers' = newUsers \ {u}, Popped(r, u),
               users' = users
        PROVE  AppInv'
    BY <1>1, <1>2, <2>2, PoppedApp
  <2> QED
    BY <1>2, <2>1, <2>2 DEF PopNewUser
<1>3. CASE t # "new" /\ PopRandomUser(r)
  <2>1. CASE Return(r, "nil") /\ UNCHANGED <<newUsers, crashed>>
    BY <1>1, <2>1, NilApp
  <2>2. ASSUME NEW u \in users, users' = users \ {u}, Popped(r, u),
               newUsers' = newUsers
        PROVE  AppInv'
    BY <1>1, <1>3, <2>2, PoppedApp
  <2>3. CASE UNCHANGED <<pool, run>>
    <3>1. done \in BOOLEAN /\ UNCHANGED <<users, newUsers, run>>
      BY <2>3 DEF ReadyInv, Tables, pool
    <3> QED
      BY <1>1, <3>1, StillApp
  <2> QED
    BY <1>3, <2>1, <2>2, <2>3 DEF PopRandomUser
<1> QED
  BY <1>2, <1>3 DEF Pop

\* A request executed after its client gave up meets no user of anybody.
LEMMA LateApp ==
  ASSUME ReadyInv, LateExecute
  PROVE  AppInv'
<1>0. /\ Hands /\ OneOwner /\ AllFit /\ Tables /\ LateHarmless
      /\ PollsOwn /\ BlameExplained
  BY DEF ReadyInv, PoolInv, Pools
<1>1. /\ UNCHANGED <<users, newUsers, jar, run, poll, blames, done>>
      /\ \E q \in late : Execute(q[1], q[2], q[3]) /\ late' = late \ {q}
  BY DEF LateExecute, pool
<1>2. PICK q \in late : Execute(q[1], q[2], q[3]) /\ late' = late \ {q}
  BY <1>1
<1>u. PICK u : u = q[2]
  OBVIOUS
<1>3. /\ u \in Users /\ q[1] \in {"register", "profile"} /\ q[3] \in BOOLEAN
      /\ Lost(u) \/ (q[1] = "profile" /\ q[3] = FALSE)
  BY <1>0, <1>u DEF LateHarmless, Lost
<1>4. /\ registered' = IF q[1] = "register" THEN registered \cup {u}
                       ELSE registered
      /\ posted' = IF q[1] = "profile" /\ q[3] /\ u \in registered
                   THEN posted \cup {u} ELSE posted
  BY <1>2, <1>u DEF Execute, LoggedIn
<1>5. \A v : v # u => SameFor(v)
  BY <1>1, <1>4 DEF SameFor
<1>6. \A v : ~Lost(v) => SameFor(v)
  <2>1. CASE Lost(u)
    BY <1>5, <2>1
  <2>2. CASE q[1] = "profile" /\ q[3] = FALSE
    BY <1>1, <1>4, <2>2 DEF SameFor
  <2> QED
    BY <1>3, <2>1, <2>2
<1>7. AllFit'
  <2> SUFFICES ASSUME NEW r \in Runners
               PROVE  Fits(run[r], jar', registered', posted', done')
    BY <1>1 DEF AllFit
  <2>1. Fits(run[r], jar, registered, posted, done) /\ HandOK(run[r])
    BY <1>0 DEF AllFit, Hands
  <2>2. \A i \in DOMAIN run[r].hand : SameFor(run[r].hand[i])
    BY <1>6 DEF Lost, Held, Range
  <2> QED
    BY <1>1, <2>1, <2>2, FitsElsewhere DEF SameFor
<1>8. /\ registered \subseteq registered' /\ posted \subseteq posted'
      /\ registered' \subseteq Users /\ posted' \subseteq registered'
  BY <1>0, <1>3, <1>4 DEF Tables
<1>9. newUsers \cap registered' = {}
  BY <1>0, <1>6 DEF Tables, Lost, SameFor
<1>10. Tables'
  BY <1>0, <1>1, <1>8, <1>9 DEF Tables, PooledReady
<1>11. LateHarmless'
  BY <1>0, <1>1, <1>2 DEF LateHarmless, Lost, Held
<1>12. PollsOwn' /\ BlameExplained'
  BY <1>0, <1>1, <1>8 DEF PollsOwn, BlameExplained
<1> QED
  BY <1>7, <1>10, <1>11, <1>12 DEF AppInv

\* Where the polling goroutine of w may be while w goes on.
PollOwn(p, x) ==
    p.phase # "off" /\ x.phase # "end" =>
        /\ x.phase \in Busy /\ x.step = 5 /\ p.user = x.hand[1]
        /\ p.phase \in {"fetchOut", "messageOut"} =>
             p.cookie /\ p.user \in registered

\* A step of the polling goroutine alone.
LEMMA PollStep ==
  ASSUME ReadyInv, NEW w \in Writers, NEW p, poll' = [poll EXCEPT ![w] = p],
         UNCHANGED <<users, newUsers, run, jar, registered, posted, late,
                     done>>,
         blames' \subseteq blames \cup {<<"status", "orphan">>},
         PollOwn(p, run[w])
  PROVE  AppInv'
<1>0. /\ AllFit /\ Tables /\ LateHarmless /\ PollsOwn /\ BlameExplained
      /\ DOMAIN poll = Writers
  BY DEF ReadyInv, PoolInv, Helpers
<1>1. AllFit' /\ Tables' /\ LateHarmless' /\ BlameExplained'
  BY <1>0 DEF AllFit, Tables, PooledReady, LateHarmless, Lost, Held,
     BlameExplained
<1>2. PollsOwn'
  <2> SUFFICES ASSUME NEW v \in Writers
               PROVE  /\ run[v].scen \in {"none", "LoadReadWriteUser"}
                      /\ PollOwn(poll'[v], run[v])
    BY DEF PollsOwn, PollOwn
  <2>1. CASE v = w
    BY <1>0, <2>1 DEF PollsOwn
  <2>2. CASE v # w
    BY <1>0, <2>2 DEF PollsOwn, PollOwn
  <2> QED
    BY <2>1, <2>2
<1> QED
  BY <1>1, <1>2 DEF AppInv

\* A writer whose loop goes on.
LEMMA WriterInLoop ==
  ASSUME ReadyInv, NEW w \in Writers, run[w].phase \in Busy, run[w].step = 5
  PROVE  /\ run[w].hand[1] \in jar
         /\ ~done => run[w].hand[1] \in registered
<1>1. Hands /\ w \in Runners /\ Fits(run[w], jar, registered, posted, done)
  BY DEF ReadyInv, PoolInv, AllFit, Runners
<1>2. run[w].scen = "LoadReadWriteUser"
  BY <1>1 DEF ReadyInv, PollsOwn, Hands, HandOK, Busy, Out
<1>3. 1 \in DOMAIN run[w].hand
  BY <1>1, PlayerIsUser
<1>4. 1 \in Signed(run[w].scen, run[w].step)
      /\ Pops(run[w].scen)[1] = "pool"
  BY <1>2 DEF Signed, Pops
<1> QED
  BY <1>1, <1>3, <1>4 DEF Fits

LEMMA PollingApp ==
  ASSUME ReadyInv, ~crashed, NEW w \in Writers, Polling(w)
  PROVE  AppInv'
<1> DEFINE y == poll[w]
           x == run[w]
<1>0. /\ Hands /\ OneOwner /\ AllFit /\ Tables /\ LateHarmless
      /\ PollsOwn /\ BlameExplained /\ w \in Runners
      /\ y \in PollRecord /\ DOMAIN poll = Writers
  BY DEF ReadyInv, PoolInv, Pools, Helpers, PollRecord, Runners
<1>1. PollOwn(y, x)
  BY <1>0 DEF PollsOwn, PollOwn
<1>2. x.phase = "end" => x.hand = <<>>
  BY <1>0 DEF Hands, HandOK
<1>3. CASE PollStart(w)
  <2>1. PICK u : u = x.hand[1]
    OBVIOUS
  <2>2. PICK p : p = [[NoPoll EXCEPT !.phase = "fetch"] EXCEPT !.user = u]
    OBVIOUS
  <2>3. p.phase = "fetch" /\ p.user = u
    BY <2>2 DEF NoPoll
  <2>4. /\ poll' = [poll EXCEPT ![w] = p] /\ x.phase = "idle"
        /\ Loops(x.scen) /\ x.step = Len(Steps(w))
        /\ UNCHANGED <<users, newUsers, run, jar, registered, posted, late,
                       done>>
        /\ UNCHANGED blames
    BY <1>3, <2>1, <2>2 DEF PollStart, InSelect, InLoop, pool, app
  <2>5. x.scen = "LoadReadWriteUser" /\ x.phase \in Busy
    BY <1>0, <2>4 DEF PollsOwn, Loops, Busy, Out
  <2>6. x.step = 5
    BY <1>0, <2>4, <2>5, AtStep DEF Leads
  <2>7. PollOwn(p, x)
    BY <2>1, <2>3, <2>5, <2>6 DEF PollOwn
  <2> QED
    BY <2>4, <2>7, PollStep
<1>4. CASE PollEnter(w)
  <2>1. /\ y.phase \in {"fetch", "message"} /\ ~done
        /\ UNCHANGED <<users, newUsers, run, jar, registered, posted, late,
                       done>>
        /\ UNCHANGED blames
    BY <1>4 DEF PollEnter, pool, app
  <2>2. PICK phase \in {"fetchOut", "messageOut"} :
          poll' = [poll EXCEPT ![w].phase = phase,
                               ![w].cookie = y.user \in jar]
    BY <1>4 DEF PollEnter
  <2>3. PICK p : p = [[y EXCEPT !.phase = phase]
                        EXCEPT !.cookie = y.user \in jar]
    OBVIOUS
  <2>4. p.phase = phase /\ p.user = y.user /\ p.cookie = (y.user \in jar)
    BY <1>0, <2>3 DEF PollRecord
  <2>5. poll' = [poll EXCEPT ![w] = p]
    BY <1>0, <2>2, <2>3
  <2>6. PollOwn(p, x)
    BY <1>1, <2>1, <2>4, WriterInLoop DEF PollOwn
  <2> QED
    BY <2>1, <2>5, <2>6, PollStep
<1>5. ASSUME NEW phase \in {"off", "message", "failed"}, NEW p,
             \/ p = [y EXCEPT !.phase = phase] /\ phase # "off"
             \/ p = NoPoll /\ phase = "off",
             poll' = [poll EXCEPT ![w] = p],
             y.phase # "off",
             UNCHANGED <<users, newUsers, run, jar, registered, posted, late,
                         done>>,
             blames' \subseteq blames \cup {<<"status", "orphan">>}
      PROVE  AppInv'
  <2>1. p.phase = phase /\ (phase # "off" => p.user = y.user)
    BY <1>0, <1>5, NoPollType DEF PollRecord
  <2>2. PollOwn(p, x)
    BY <1>1, <1>5, <2>1 DEF PollOwn
  <2> QED
    BY <1>5, <2>2, PollStep
<1>6. CASE PollSkip(w)
  BY <1>5, <1>6 DEF PollSkip, pool, app
<1>7. CASE PollAnswered(w)
  <2> DEFINE a == Answer(IF y.phase = "fetchOut" THEN "fetch" ELSE "message",
                         y.user, y.cookie)
  <2>1. /\ y.phase \in {"fetchOut", "messageOut"}
        /\ UNCHANGED <<users, newUsers, run, jar, registered, posted, late,
                       done>>
    BY <1>7 DEF PollAnswered, pool, app
  <2>2. \A phase : [poll EXCEPT ![w].phase = phase]
                     = [poll EXCEPT ![w] = [y EXCEPT !.phase = phase]]
    BY <1>0
  <2>3. CASE blames' = blames /\ \/ poll' = [poll EXCEPT ![w] = NoPoll]
                                 \/ poll' = [poll EXCEPT ![w].phase = "message"]
    BY <1>5, <2>1, <2>2, <2>3
  <2>4. CASE /\ a # "200" /\ poll' = [poll EXCEPT ![w].phase = "failed"]
             /\ Blame("status", IF y.user \in Range(x.hand)
                                THEN "owner" ELSE "orphan")
    <3>1. ASSUME x.phase # "end"
          PROVE  FALSE
      <4>1. y.cookie /\ y.user \in registered
        BY <1>1, <2>1, <3>1 DEF PollOwn
      <4> QED
        BY <2>4, <4>1 DEF Answer, LoggedIn
    <3>2. y.user \notin Range(x.hand)
      BY <1>2, <3>1 DEF Range
    <3>3. blames' \subseteq blames \cup {<<"status", "orphan">>}
      BY <2>4, <3>2 DEF Blame
    <3> QED
      BY <1>5, <2>1, <2>2, <2>4, <3>3
  <2> QED
    BY <1>7, <2>3, <2>4 DEF PollAnswered
<1>8. CASE PollGivesUp(w)
  <2>1. poll' = [poll EXCEPT ![w] = [y EXCEPT !.phase = "failed"]]
    BY <1>0, <1>8 DEF PollGivesUp
  <2> QED
    BY <1>5, <1>8, <2>1 DEF PollGivesUp, pool, app
<1>9. CASE PollFailed(w)
  <2>1. /\ poll' = [poll EXCEPT ![w] = NoPoll] /\ Return(w, "error")
        /\ UNCHANGED <<newUsers, jar, registered, posted, late, blames, done>>
    BY <1>9 DEF PollFailed, app
  <2>2. PICK z : Changes(w, z) /\ Returned(z)
    BY <1>0, <2>1, ReturnChanges
  <2>3. AllFit'
    <3>1. Fits(z, jar', registered', posted', done')
      BY <2>2, ReturnFits
    <3>2. \A v : SameFor(v)
      BY <2>1 DEF SameFor
    <3> QED
      BY <1>0, <2>1, <2>2, <3>1, <3>2, AllFitBy
  <2>4. PooledReady'
    BY <1>0, <2>1, ReturnReady
  <2>5. Tables'
    BY <1>0, <2>1, <2>4 DEF Tables
  <2>6. LateHarmless'
    <3>1. ASSUME NEW v \in Users, Lost(v) PROVE Lost(v)'
      BY <1>0, <2>1, <3>1, ReturnLost
    <3> QED
      BY <1>0, <2>1, <3>1, LateSame
  <2>7. PollsOwn'
    <3> SUFFICES ASSUME NEW v \in Writers
                 PROVE  /\ run'[v].scen \in {"none", "LoadReadWriteUser"}
                        /\ PollOwn(poll'[v], run'[v])
      BY <2>1 DEF PollsOwn, PollOwn
    <3>1. CASE v = w
      <4>1. poll'[v].phase = "off" /\ run'[v].scen = "none"
        BY <1>0, <2>1, <2>2, <3>1, NoPollType DEF Changes, Returned
      <4> QED
        BY <4>1 DEF PollOwn
    <3>2. CASE v # w
      <4>1. poll'[v] = poll[v] /\ run'[v] = run[v]
        BY <1>0, <2>1, <2>2, <3>2 DEF Changes, Runners
      <4> QED
        BY <1>0, <4>1 DEF PollsOwn, PollOwn
    <3> QED
      BY <3>1, <3>2
  <2>8. BlameExplained'
    BY <1>0, <2>1 DEF BlameExplained
  <2> QED
    BY <2>3, <2>5, <2>6, <2>7, <2>8 DEF AppInv
<1> QED
  BY <1>3, <1>4, <1>6, <1>7, <1>8, <1>9 DEF Polling

-----------------------------------------------------------------------------
LEMMA ReadyInvInit == Init => ReadyInv
<1> SUFFICES ASSUME Init PROVE ReadyInv
  OBVIOUS
<1>1. PoolInv
  BY PoolInvInit
<1>2. AllFit
  BY FreeReturned, ReturnFits DEF AllFit, Init
<1>3. Tables
  BY ScenariosAssumption DEF Init, Tables, PooledReady, Users
<1>4. LateHarmless /\ BlameExplained
  BY DEF Init, LateHarmless, BlameExplained
<1>5. PollsOwn
  <2>1. \A w \in Writers : run[w].scen = "none" /\ poll[w].phase = "off"
    BY NoPollType DEF Init, Free, Runners
  <2> QED
    BY <2>1 DEF PollsOwn
<1> QED
  BY <1>1, <1>2, <1>3, <1>4, <1>5 DEF ReadyInv

LEMMA ReadyInvNext == ReadyInv /\ [Next]_vars => ReadyInv'
<1> SUFFICES ASSUME ReadyInv, [Next]_vars PROVE ReadyInv'
  OBVIOUS
<1>1. PoolInv'
  BY PoolInvNext DEF ReadyInv
<1>2. done \in BOOLEAN
  BY DEF ReadyInv, Tables
<1>3. CASE UNCHANGED vars
  <2>1. AppInv'
    BY <1>2, <1>3, StillApp DEF vars
  <2> QED
    BY <1>1, <2>1 DEF ReadyInv, AppInv
<1>4. CASE Next
  <2>1. ~crashed
    BY <1>4 DEF Next
  <2>2. ASSUME NEW r \in Runners, Run(r) PROVE AppInv'
    BY <2>1, <2>2, ChooseApp, PopApp, EnterApp, SkipPlaysApp, AnsweredApp,
       GivesUpApp, InnerEnterApp, InnerEndsApp, LocalApp DEF Run
  <2>3. ASSUME NEW w \in Writers, Polling(w) PROVE AppInv'
    BY <2>1, <2>3, PollingApp
  <2>4. ASSUME LateExecute PROVE AppInv'
    BY <2>4, LateApp
  <2>5. ASSUME LoadStaticFile PROVE AppInv'
    BY <1>2, <2>5, StillApp DEF LoadStaticFile, pool, app
  <2>6. ASSUME Deadline PROVE AppInv'
    BY <2>6, StillApp DEF Deadline, pool, app
  <2>7. AppInv'
    BY <1>4, <2>2, <2>3, <2>4, <2>5, <2>6 DEF Next
  <2> QED
    BY <1>1, <2>7 DEF ReadyInv, AppInv
<1> QED
  BY <1>3, <1>4

LEMMA ReadyInvAlways == Spec => []ReadyInv
BY ReadyInvInit, ReadyInvNext, PTL DEF Spec

\* The tokens that are out are no more than there are.
LEMMA TokensType == TokensKept => tokens \in [Users -> 0..Tokens]
<1> SUFFICES ASSUME TokensKept PROVE tokens \in [Users -> 0..Tokens]
  OBVIOUS
<1>1. tokens \in [Users -> Nat]
  BY DEF TokensKept, KeptBy
<1>2. ASSUME NEW u \in Users
      PROVE  tokens[u] \in 0..Tokens
  <2>1. IsFiniteSet(Holds(u)) /\ tokens[u] + Cardinality(Holds(u)) = Tokens
    BY DEF TokensKept, KeptBy
  <2>2. Cardinality(Holds(u)) \in Nat
    BY <2>1, FS_CardinalityType
  <2> QED
    BY <1>1, <2>1, <2>2, ScenariosAssumption
<1> QED
  BY <1>1, <1>2

LEMMA TypeFollows == ReadyInv => ScenariosTypeOK
<1> SUFFICES ASSUME ReadyInv PROVE ScenariosTypeOK
  OBVIOUS
<1>0. /\ Hands /\ Pools /\ TokensKept /\ Helpers /\ Tables /\ BlameExplained
  BY DEF ReadyInv, PoolInv
<1>1. /\ users \subseteq Users /\ newUsers \subseteq NewUsers
      /\ jar \cup registered \cup posted \subseteq Users
      /\ {done, crashed} \subseteq BOOLEAN
      /\ blames \subseteq {"status", "content"} \X {"owner", "orphan"}
  BY <1>0 DEF Pools, Tables, BlameExplained
<1>2. tokens \in [Users -> 0..Tokens]
  BY <1>0, TokensType
<1>3. ASSUME NEW r \in Runners
      PROVE  /\ run[r].scen \in DOMAIN Script \cup {"none"}
             /\ run[r].hand \in Seq(Users) /\ Len(run[r].hand) <= 3
             /\ run[r].phase \in {"free", "pop", "idle", "out", "inner",
                                  "innerOut", "end"}
             /\ run[r].scen # "none" => run[r].step \in DOMAIN Steps(r)
  <2>1. HandOK(run[r])
    BY <1>0 DEF Hands
  <2>2. /\ run[r].scen \in Scens \cup {"none"} /\ run[r].phase \in Phases
        /\ run[r].hand \in Seq(Users)
    BY <2>1 DEF HandOK
  <2>3. Len(run[r].hand) <= 3
    <3>1. Len(Pops(run[r].scen)) \in 1..3
      BY PopsType
    <3>2. Len(run[r].hand) \in Nat
      BY <2>2
    <3>3. CASE run[r].phase \in {"free", "end"}
      BY <2>1, <3>3 DEF HandOK
    <3>4. CASE run[r].phase \notin {"free", "end"}
      BY <2>1, <2>2, <3>1, <3>2, <3>4 DEF HandOK, Phases, Busy, Out
    <3> QED
      BY <3>3, <3>4
  <2>4. ASSUME run[r].scen # "none"
        PROVE  run[r].step \in DOMAIN Steps(r)
    <3>1. CASE run[r].phase \in Busy
      BY <2>1, <3>1 DEF HandOK, Steps
    <3>2. CASE run[r].phase = "pop"
      <4>1. run[r].step = 1 /\ run[r].scen \in Scens
        BY <2>1, <2>2, <2>4, <3>2 DEF HandOK
      <4> QED
        BY <4>1, ScriptType DEF ScriptOK, Steps
    <3> QED
      BY <2>1, <2>2, <2>4, <3>1, <3>2 DEF HandOK, Phases
  <2> QED
    BY <2>2, <2>3, <2>4, ScriptDomain DEF Phases, Busy, Out
<1>4. /\ \A w \in Writers : poll[w].user \in Users \cup {NoUser}
      /\ asset.user \in Users \cup {NoUser}
  BY <1>0 DEF Helpers
<1> QED
  BY <1>1, <1>2, <1>3, <1>4 DEF ScenariosTypeOK

-----------------------------------------------------------------------------
\* The variables keep their types; no Checker ever has more free tokens than
\* it began with, and no scenario runs off the end of its script
\* (checker.go:319, scenario.go).
THEOREM ScenariosTypeCorrect == Spec => []ScenariosTypeOK
BY TypeFollows, ReadyInvAlways, PTL

\* While the run lasts, a user anybody may draw from the pool is registered
\* and has its profile, whatever timed out before and whatever the application
\* executed late (structure.go PushUser, scenario.go LoadRegister and
\* CheckRegisterProfile).
THEOREM PoolIsReady == Spec => []PooledReady
<1>1. ReadyInv => PooledReady
  BY DEF ReadyInv, Tables
<1> QED
  BY <1>1, ReadyInvAlways, PTL

\* The scenario that owns a user never meets a wrong answer of a correct
\* application: only a polling goroutine that outlived its scenario does
\* (scenario.go LoadReadWriteUser).
THEOREM OwnersMeetNoError == Spec => []BlameExplained
<1>1. ReadyInv => BlameExplained
  BY DEF ReadyInv
<1> QED
  BY <1>1, ReadyInvAlways, PTL
=============================================================================
