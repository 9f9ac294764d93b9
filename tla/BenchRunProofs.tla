--------------------------- MODULE BenchRunProofs ---------------------------
(***************************************************************************)
(* A run of the benchmarker applies no load after an error of preTest,     *)
(* passes with a fatal error of its validation only when that was its last *)
(* check or when a plain error of CheckMessageScenario took its place, and *)
(* lists the errors that decide: for every number of load goroutines,      *)
(* channels and checks.                                                    *)
(***************************************************************************)
EXTENDS BenchRun, FiniteSetTheorems, TLAPS

-----------------------------------------------------------------------------
(***************************************************************************)
(* The inductive invariant.                                                *)
(***************************************************************************)
PreTestError == \E e \in errors : e.by \in {"addChannel", "preTest"}

\* A fatal error of a check that has no goroutines of its own, and of the one
\* that has.
CheckFatal == \E e \in errors : e.kind = Fatal /\ e.by = "validate"
ScenarioFatal == \E e \in errors : e.kind = Fatal /\ e.by = "scenario"

Running == {l \in Loads : load[l] # "off"}

\* The errors of Play.
Entries == [kind : {Plain, Fatal}, by : Whom, late : BOOLEAN,
            listed : BOOLEAN]

\* The results of a run that recorded these errors.
Results(E) == [pass : BOOLEAN, set : BOOLEAN, errors : SUBSET E]

\* What RunTypeOK says of the values, with the counter of level ups bound to
\* the goroutines they started.
Types ==
    /\ pc \in Phases
    /\ step \in Nat
    /\ play \in BOOLEAN
    /\ err \in {Nil, Plain, Fatal}
    /\ done \in BOOLEAN
    /\ bench \in {"off", "started", "beat", "end"}
    /\ load \in [Loads -> {"off", "ready", "play", "end"}]
    /\ guard \in BOOLEAN
    /\ errors \subseteq Entries
    /\ result \in Results(errors)
    /\ level \in Nat
    /\ met \subseteq {Plain, Fatal}
    /\ masked \in BOOLEAN

\* Where the main goroutine is in its checks.
Steps ==
    /\ pc = "initialize" => step = 0
    /\ pc = "addChannel" => step <= MaxChannels
    /\ pc = "preTest" => step <= PreChecks
    /\ pc = "validate" => step <= Validations
    /\ pc = "validate" /\ err # Nil => step < Validations
    /\ play => Checking /\ err = Nil
    /\ met # {} => play /\ InScenario

\* benchmarkMain starts with the validation, and the load with benchmarkMain.
LoadFollows ==
    /\ pc \in {"initialize", "addChannel", "preTest"} => bench = "off"
    /\ pc \in {"validate", "loop", "score"} => bench # "off"
    /\ bench \in {"off", "started"} =>
         level = 0 /\ \A l \in Loads : load[l] = "off"
    /\ level <= Cardinality(Running)

\* An error is that of the check under way, or the one last returned until
\* the caller has looked at it, or it was masked.
LastError ==
    /\ PreTestError => /\ pc \in {"addChannel", "preTest", "end"}
                       /\ err # Nil \/ met # {}
                       /\ bench = "off"
    /\ CheckFatal => err = Fatal
    /\ ScenarioFatal => err = Fatal \/ Fatal \in met \/ masked
    /\ result.pass => bench # "off" /\ pc = "end"

\* Does this list hold an error of this kind that a check has met?
Told(E, k) == \E e \in E : e.kind = k /\ e.by # "load"

\* The list is shut after the deadline, and until then it holds the error for
\* which the run may fail.
ErrorsTold ==
    /\ guard => done /\ bench = "end"
    /\ \A e \in errors : e.listed \/ e.late
    /\ \A k \in met : Told(IF guard THEN errors ELSE Listed, k)
    /\ pc = "initialize" => err = Nil
    /\ pc = "score" => done
    /\ err # Nil /\ pc # "end" /\ (pc \in {"addChannel", "preTest"} \/ ~done)
         => Told(Listed, err)
    /\ result.set => pc = "end"
    /\ result.pass => done /\ \A e \in errors : ~e.late => e \in result.errors
    /\ result.set /\ ~result.pass /\ err # Nil => Told(result.errors, err)

RunInv == Types /\ Steps /\ LoadFollows /\ LastError /\ ErrorsTold

-----------------------------------------------------------------------------
LEMMA RunningFinite ==
  /\ IsFiniteSet(Running) /\ Cardinality(Running) \in Nat
  /\ Cardinality(Running) <= Cardinality(Loads)
  /\ Cardinality(Loads) \in Nat
BY RunAssumption, FS_Subset, FS_CardinalityType DEF Running

\* What OnError does to the errors.
LEMMA RecordedErrors ==
  ASSUME RunInv, NEW e \in {Nil, Plain, Fatal}, NEW who \in Whom
  PROVE  /\ errors \subseteq Recorded(e, who)
         /\ Recorded(e, who) \subseteq Entries
         /\ \A x \in Recorded(e, who) \ errors :
              /\ e # Nil /\ x.kind = e /\ x.by = who /\ x.late = done
              /\ x.listed \/ x.late
         /\ e # Nil => \E x \in Recorded(e, who) :
                         x.kind = e /\ x.by = who /\ x.listed = ~guard
<1> DEFINE new == [kind |-> e, by |-> who, late |-> done, listed |-> ~guard]
<1>1. errors \subseteq Entries /\ done \in BOOLEAN /\ guard \in BOOLEAN
  BY DEF RunInv, Types
<1>2. guard => done
  BY DEF RunInv, ErrorsTold
<1>3. e # Nil => e \in {Plain, Fatal}
  OBVIOUS
<1>4. e # Nil => new \in Entries
  BY <1>1, <1>3 DEF Entries
<1>5. /\ new.kind = e /\ new.by = who /\ new.late = done
      /\ new.listed = ~guard
  OBVIOUS
<1>6. Recorded(e, who) = IF e = Nil THEN errors ELSE errors \cup {new}
  BY DEF Recorded
<1> HIDE DEF new
<1> QED
  BY <1>1, <1>2, <1>4, <1>5, <1>6

LEMMA ResultsGrow ==
  ASSUME NEW E, NEW F, E \subseteq F, NEW x \in Results(E)
  PROVE  x \in Results(F)
BY DEF Results

LEMMA ToldGrows ==
  ASSUME NEW E, NEW F, E \subseteq F, NEW k, Told(E, k)
  PROVE  Told(F, k)
BY DEF Told

LEMMA ResultOf ==
  ASSUME NEW E, NEW F \in SUBSET E, NEW pass \in BOOLEAN
  PROVE  /\ [pass |-> pass, set |-> TRUE, errors |-> F] \in Results(E)
         /\ None \in Results(E) /\ ~None.pass /\ ~None.set
         /\ [None EXCEPT !.set = TRUE] \in Results(E)
         /\ ~[None EXCEPT !.set = TRUE].pass
BY DEF Results, None

LEMMA InitRunInv == Init => RunInv
<1> SUFFICES ASSUME Init PROVE RunInv
  OBVIOUS
<1>0. None \in Results({}) /\ ~None.pass /\ ~None.set
  BY ResultOf
<1>1. Types
  BY <1>0 DEF Init, Types, Phases, Nil, Plain, Fatal
<1>2. Steps /\ LastError
  BY <1>0 DEF Init, Steps, LastError, PreTestError, CheckFatal, ScenarioFatal,
              Nil
<1>3. LoadFollows
  BY RunningFinite DEF Init, LoadFollows
<1>4. ErrorsTold
  BY <1>0 DEF Init, ErrorsTold, Nil
<1> QED
  BY <1>1, <1>2, <1>3, <1>4 DEF RunInv

(***************************************************************************)
(* A step of the main goroutine, but for the end of a check, and the       *)
(* deadline: none of them touches the load or the errors.                  *)
(***************************************************************************)
MainQuiet ==
    \/ RequestInitialize \/ Deadline \/ Enter \/ Skip \/ ChannelsAdded
    \/ PreTestFails \/ StartLoad \/ Overlook \/ RoundEnds \/ Loop \/ Score

\* Outside its checks the main goroutine has no errors of theirs to return.
LEMMA IdleMeetsNothing ==
  ASSUME RunInv,
         \/ RequestInitialize \/ Enter \/ Skip \/ ChannelsAdded
         \/ PreTestFails \/ StartLoad \/ Overlook \/ RoundEnds \/ Loop \/ Score
  PROVE  ~play /\ met = {}
<1>1. /\ play => Checking /\ err = Nil
      /\ pc = "addChannel" => step <= MaxChannels
      /\ step \in Nat /\ MaxChannels \in Nat /\ PreChecks \in Nat
  BY RunAssumption DEF RunInv, Steps, Types
<1>2. ~play
  <2>1. CASE Enter \/ Skip \/ RoundEnds
    BY <2>1 DEF Enter, Skip, RoundEnds
  <2>2. CASE RequestInitialize \/ Loop \/ Score
    BY <1>1, <2>2 DEF RequestInitialize, Loop, Score, Checking
  <2>3. CASE PreTestFails \/ Overlook
    BY <1>1, <2>3 DEF PreTestFails, Overlook, Nil, Plain
  <2>4. CASE ChannelsAdded
    BY <1>1, <2>4 DEF ChannelsAdded, Checking
  <2>5. CASE StartLoad
    BY <1>1, <2>5 DEF StartLoad, Checking
  <2> QED
    BY <2>1, <2>2, <2>3, <2>4, <2>5
<1> QED
  BY <1>2 DEF RunInv, Steps

LEMMA MainQuietFrame ==
  ASSUME RunInv, MainQuiet
  PROVE  /\ UNCHANGED <<load, guard, errors, level, met, masked>>
         /\ Running' = Running /\ PreTestError' = PreTestError
         /\ CheckFatal' = CheckFatal /\ ScenarioFatal' = ScenarioFatal
         /\ Listed' = Listed
<1>1. UNCHANGED <<load, guard, errors, level, met, masked>>
  BY DEF MainQuiet, RequestInitialize, Deadline, Enter, Skip, ChannelsAdded,
         PreTestFails, StartLoad, Overlook, RoundEnds, Loop, Score
<1> QED
  BY <1>1 DEF Running, PreTestError, CheckFatal, ScenarioFatal, Listed

\* The run ends: its result lists what the list holds.
LEMMA ReturnInv ==
  ASSUME RunInv, NEW pass \in BOOLEAN, Return(pass),
         PreTestFails \/ Loop \/ Score,
         UNCHANGED <<step, play, err, bench>>,
         pass => done /\ bench # "off",
         ~pass => Told(Listed, err)
  PROVE  RunInv'
<1> USE DEF RunInv
<1>1. /\ ~play /\ met = {}
      /\ UNCHANGED <<load, guard, errors, level, met, masked>>
      /\ Running' = Running /\ PreTestError' = PreTestError
      /\ CheckFatal' = CheckFatal /\ ScenarioFatal' = ScenarioFatal
  BY IdleMeetsNothing, MainQuietFrame DEF MainQuiet
<1>2. Listed \subseteq errors /\ \A e \in errors : ~e.late => e \in Listed
  BY DEF Listed, ErrorsTold
<1>3. /\ pc' = "end" /\ done' = TRUE
      /\ result' = [pass |-> pass, set |-> TRUE, errors |-> Listed]
  BY DEF Return
<1>4. /\ result' \in Results(errors)
      /\ result'.pass = pass /\ result'.errors = Listed
  BY <1>2, <1>3, ResultOf
<1>5. Types'
  BY <1>1, <1>3, <1>4 DEF Types, Phases
<1>6. Steps'
  BY <1>1, <1>3 DEF Steps
<1>7. LoadFollows'
  BY <1>1, <1>3 DEF LoadFollows
<1>8. LastError'
  BY <1>1, <1>3, <1>4 DEF LastError
<1>9. ErrorsTold'
  BY <1>1, <1>2, <1>3, <1>4 DEF ErrorsTold
<1> QED
  BY <1>5, <1>6, <1>7, <1>8, <1>9

LEMMA MainQuietInv ==
  ASSUME RunInv, MainQuiet
  PROVE  RunInv'
<1> USE DEF RunInv
<1>a. MaxChannels \in Nat /\ PreChecks \in Nat \ {0}
      /\ Validations \in Nat \ {0}
  BY RunAssumption
<1>b. /\ UNCHANGED <<load, guard, errors, level, met, masked>>
      /\ Running' = Running /\ PreTestError' = PreTestError
      /\ CheckFatal' = CheckFatal /\ ScenarioFatal' = ScenarioFatal
      /\ Listed' = Listed
  BY MainQuietFrame
<1>c. Deadline \/ (~play /\ met = {})
  BY IdleMeetsNothing DEF MainQuiet
<1>1. CASE RequestInitialize
  <2>1. /\ result' \in Results(errors)
        /\ result' = result \/ (~result'.pass /\ pc' = "end")
    BY <1>1, ResultOf DEF RequestInitialize, Types
  <2>2. /\ pc = "initialize" /\ err = Nil /\ bench = "off"
        /\ pc' \in {"addChannel", "end"} /\ ~play /\ met = {}
        /\ UNCHANGED <<step, play, err, done, bench>>
        /\ result' = result \/ pc' = "end"
    BY <1>1, <2>1, IdleMeetsNothing
       DEF RequestInitialize, ErrorsTold, LoadFollows
  <2>3. Types'
    BY <1>b, <2>1, <2>2 DEF Types, Phases
  <2>4. Steps' /\ LoadFollows'
    BY <1>1, <1>a, <1>b, <2>2
       DEF RequestInitialize, Steps, LoadFollows
  <2>5. ~PreTestError /\ ~result.pass /\ ~result.set
    BY <2>2 DEF LastError, ErrorsTold
  <2>6. LastError'
    BY <1>b, <2>1, <2>2, <2>5 DEF LastError
  <2>7. ErrorsTold'
    BY <1>b, <2>1, <2>2, <2>5 DEF ErrorsTold
  <2> QED
    BY <2>3, <2>4, <2>6, <2>7
<1>2. CASE Deadline
  <2>1. /\ UNCHANGED <<pc, step, play, err, bench, result>> /\ done' = TRUE
    BY <1>2 DEF Deadline
  <2>2. Types' /\ Steps' /\ LoadFollows' /\ LastError'
    BY <1>b, <2>1
       DEF Types, Steps, LoadFollows, LastError, Checking, InScenario
  <2>3. ErrorsTold'
    BY <1>b, <2>1 DEF ErrorsTold
  <2> QED
    BY <2>2, <2>3
<1>3. CASE Enter \/ Skip
  <2>1. /\ UNCHANGED <<pc, err, done, bench, result>> /\ Checking
        /\ ~play /\ met = {} /\ err = Nil
    BY <1>3, IdleMeetsNothing DEF Enter, Skip
  <2>2. Types' /\ Steps'
    <3>1. CASE Enter
      BY <1>b, <2>1, <3>1 DEF Enter, Types, Steps, Checking
    <3>2. CASE Skip
      <4>1. /\ play' = play /\ step \in Nat
            /\ pc = "addChannel" => step' = step
            /\ pc = "preTest" => step' = step + 1 /\ step < PreChecks
            /\ pc = "validate" => step' = Validations
            /\ pc \in {"addChannel", "preTest", "validate"}
        BY <2>1, <3>2 DEF Skip, Checking, Types
      <4>2. step' \in Nat
        BY <1>a, <4>1
      <4>3. Types'
        BY <1>b, <2>1, <4>1, <4>2 DEF Types
      <4>4. Steps'
        BY <1>a, <1>b, <2>1, <4>1 DEF Steps
      <4> QED
        BY <4>3, <4>4
    <3> QED
      BY <1>3, <3>1, <3>2
  <2>3. LoadFollows' /\ LastError'
    BY <1>3, <1>b, <2>1 DEF Enter, Skip, LoadFollows, LastError
  <2>4. ErrorsTold'
    BY <1>b, <2>1 DEF ErrorsTold
  <2> QED
    BY <2>2, <2>3, <2>4
<1>4. CASE ChannelsAdded \/ StartLoad
  <2>1. /\ UNCHANGED <<play, err, done, result>> /\ err = Nil /\ step' = 0
        /\ pc' \in {"preTest", "validate"} /\ ~play /\ met = {}
        /\ pc \in {"addChannel", "preTest"}
    BY <1>4, <1>c, IdleMeetsNothing DEF ChannelsAdded, StartLoad
  <2>2. Types'
    BY <1>4, <1>b, <2>1 DEF ChannelsAdded, StartLoad, Types, Phases
  <2>3. Steps'
    BY <1>a, <1>b, <2>1 DEF Steps
  <2>4. LoadFollows' /\ LastError'
    BY <1>4, <1>b, <2>1
       DEF ChannelsAdded, StartLoad, LoadFollows, LastError
  <2>5. ErrorsTold'
    BY <1>4, <1>b, <2>1
       DEF ChannelsAdded, StartLoad, ErrorsTold, LoadFollows
  <2> QED
    BY <2>2, <2>3, <2>4, <2>5
<1>5. CASE PreTestFails
  <2>1. Told(Listed, err)
    BY <1>5 DEF PreTestFails, ErrorsTold
  <2> QED
    BY <1>5, <2>1, ReturnInv DEF PreTestFails
<1>6. CASE Score
  <2>1. done /\ bench # "off"
    BY <1>6 DEF Score, ErrorsTold, LoadFollows
  <2> QED
    BY <1>6, <2>1, ReturnInv DEF Score
<1>7. CASE Overlook
  <2>1. /\ UNCHANGED <<pc, play, done, bench, result>>
        /\ pc = "validate" /\ err = Plain /\ err' = Nil /\ step' = step + 1
        /\ ~play /\ met = {} /\ step < Validations
    BY <1>7, <1>c, IdleMeetsNothing DEF Overlook, Steps, Nil, Plain
  <2>2. Types' /\ Steps'
    BY <1>a, <1>b, <2>1 DEF Types, Steps
  <2>3. LoadFollows' /\ LastError'
    BY <1>b, <2>1 DEF LoadFollows, LastError, Nil, Plain, Fatal
  <2>4. ErrorsTold'
    BY <1>b, <2>1 DEF ErrorsTold
  <2> QED
    BY <2>2, <2>3, <2>4
<1>8. CASE RoundEnds
  <2>1. /\ UNCHANGED <<step, play, err, done, bench, result>>
        /\ pc = "validate" /\ pc' = "loop" /\ ~play /\ met = {}
    BY <1>8, IdleMeetsNothing DEF RoundEnds
  <2>2. Types' /\ Steps'
    BY <1>b, <2>1 DEF Types, Steps, Phases
  <2>3. LoadFollows' /\ LastError'
    BY <1>b, <2>1 DEF LoadFollows, LastError
  <2>4. ErrorsTold'
    BY <1>b, <2>1 DEF ErrorsTold
  <2> QED
    BY <2>2, <2>3, <2>4
<1>9. CASE Loop
  <2>0. /\ pc = "loop" /\ ~play /\ met = {} /\ UNCHANGED <<play, bench>>
    BY <1>9, IdleMeetsNothing DEF Loop
  <2>1. CASE done /\ pc' = "score" /\ UNCHANGED <<step, err, result, done>>
    <3>1. Types' /\ Steps'
      BY <1>b, <2>0, <2>1 DEF Types, Steps, Phases
    <3>2. LoadFollows' /\ LastError'
      BY <1>b, <2>0, <2>1 DEF LoadFollows, LastError
    <3>3. ErrorsTold'
      BY <1>b, <2>0, <2>1 DEF ErrorsTold
    <3> QED
      BY <3>1, <3>2, <3>3
  <2>2. CASE ~done /\ err = Fatal /\ Return(FALSE) /\ UNCHANGED <<step, err>>
    <3>1. Told(Listed, err)
      BY <2>0, <2>2 DEF ErrorsTold, Nil, Fatal
    <3> QED
      BY <1>9, <2>0, <2>2, <3>1, ReturnInv
  <2>3. CASE ~done /\ err = Nil /\ pc' = "validate" /\ step' = 0
             /\ UNCHANGED <<err, result, done>>
    <3>1. Types' /\ Steps'
      BY <1>a, <1>b, <2>0, <2>3 DEF Types, Steps, Phases
    <3>2. LoadFollows' /\ LastError'
      BY <1>b, <2>0, <2>3 DEF LoadFollows, LastError
    <3>3. ErrorsTold'
      BY <1>b, <2>0, <2>3 DEF ErrorsTold
    <3> QED
      BY <3>1, <3>2, <3>3
  <2> QED
    BY <1>9, <2>1, <2>2, <2>3 DEF Loop
<1> QED
  BY <1>1, <1>2, <1>3, <1>4, <1>5, <1>6, <1>7, <1>8, <1>9 DEF MainQuiet

\* A goroutine of CheckMessageScenario fails.
LEMMA MeetsInv ==
  ASSUME RunInv, NEW e \in {Plain, Fatal}, Meets(e)
  PROVE  RunInv'
<1> USE DEF RunInv
<1>a. /\ play /\ InScenario /\ Checking /\ err = Nil /\ pc \in Phases
      /\ met' = met \cup {e} /\ errors' = Recorded(e, Checker)
      /\ UNCHANGED <<pc, step, play, err, done, bench, load, guard, level,
                     result, masked>>
  BY DEF Meets, Steps, Types
<1>b. /\ pc \in {"preTest", "validate"}
      /\ Checker \in Whom /\ Checker # "load"
      /\ pc = "preTest" => Checker = "preTest" /\ bench = "off"
      /\ pc = "validate" => Checker = "scenario"
  BY <1>a DEF InScenario, Checker, Whom, Phases, LoadFollows
<1>c. e \in {Nil, Plain, Fatal} /\ e # Nil
  BY DEF Nil, Plain, Fatal
<1>d. /\ errors \subseteq errors'
      /\ errors' \subseteq Entries
      /\ \A x \in errors' \ errors :
           /\ x.kind = e /\ x.by = Checker /\ x.late = done
           /\ x.listed \/ x.late
      /\ \E x \in errors' : x.kind = e /\ x.by = Checker /\ x.listed = ~guard
  BY <1>a, <1>b, <1>c, RecordedErrors
<1>1. Types'
  <2>1. result' \in Results(errors')
    BY <1>a, <1>d, ResultsGrow DEF Types
  <2> QED
    BY <1>a, <1>d, <2>1 DEF Types
<1>2. Steps' /\ LoadFollows'
  BY <1>a DEF Steps, LoadFollows, Checking, InScenario, Running
<1>3. LastError'
  <2>1. ~result.pass /\ e \in met'
    BY <1>a, <1>b DEF LastError
  <2>2. PreTestError' => pc = "preTest"
    BY <1>a, <1>b, <1>d DEF PreTestError, LastError
  <2>3. CheckFatal' => CheckFatal
    BY <1>b, <1>d DEF CheckFatal
  <2>4. ScenarioFatal' => ScenarioFatal \/ e = Fatal
    BY <1>d DEF ScenarioFatal
  <2> QED
    BY <1>a, <1>b, <2>1, <2>2, <2>3, <2>4 DEF LastError
<1>4. ErrorsTold'
  <2>1. Listed \subseteq Listed'
    BY <1>d DEF Listed
  <2>2. \A k \in met' : Told(IF guard THEN errors' ELSE Listed', k)
    <3>1. Told(IF guard THEN errors' ELSE Listed', e)
      BY <1>b, <1>d DEF Told, Listed
    <3>2. \A k \in met : Told(IF guard THEN errors' ELSE Listed', k)
      BY <1>d, <2>1 DEF ErrorsTold, Told
    <3> QED
      BY <1>a, <3>1, <3>2
  <2>3. \A x \in errors' : x.listed \/ x.late
    BY <1>d DEF ErrorsTold
  <2>4. ~result.pass /\ ~result.set
    BY <1>b DEF LastError, ErrorsTold
  <2>5. guard => done /\ bench = "end"
    BY DEF ErrorsTold
  <2> QED
    BY <1>a, <1>b, <2>2, <2>3, <2>4, <2>5 DEF ErrorsTold
<1> QED
  BY <1>1, <1>2, <1>3, <1>4

\* A check returns.  Its error is in the list, unless the list was shut.
LEMMA FinishInv ==
  ASSUME RunInv, NEW e \in {Nil, Plain, Fatal}, Finish(e)
  PROVE  RunInv'
<1> USE DEF RunInv
<1>a. MaxChannels \in Nat /\ PreChecks \in Nat \ {0}
      /\ Validations \in Nat \ {0}
  BY RunAssumption
<1>b. /\ play /\ Checking /\ err = Nil /\ pc \in Phases
      /\ UNCHANGED <<pc, done, bench, load, guard, level, result>>
      /\ play' = FALSE /\ err' = e /\ met' = {}
      /\ masked' = (masked \/ (e = Plain /\ Fatal \in met))
      /\ met # {} => e \in met /\ errors' = errors /\ InScenario
      /\ met = {} => errors' = Recorded(e, Checker)
      /\ step' \in {step, step + 1} /\ (e # Nil => step' = step)
  BY DEF Finish, Steps, Types, Nil
<1>c. /\ pc \in {"addChannel", "preTest", "validate"}
      /\ Checker \in Whom /\ Checker # "load"
      /\ pc # "validate" => Checker = pc /\ bench = "off"
      /\ pc = "validate" => Checker \in {"validate", "scenario"}
  BY <1>b DEF Checking, Checker, Whom, Phases, LoadFollows
<1>d. /\ errors \subseteq errors'
      /\ errors' \subseteq Entries
      /\ \A x \in errors' \ errors :
           /\ e # Nil /\ x.kind = e /\ x.by = Checker
           /\ x.listed \/ x.late
      /\ met = {} /\ e # Nil => \E x \in errors' :
           x.kind = e /\ x.by = Checker /\ x.listed = ~guard
  <2>1. CASE met = {}
    BY <1>b, <1>c, <2>1, RecordedErrors
  <2>2. CASE met # {}
    BY <1>b, <2>2 DEF Types
  <2> QED
    BY <2>1, <2>2
<1>1. Types'
  <2>1. result' \in Results(errors')
    BY <1>b, <1>d, ResultsGrow DEF Types
  <2>2. step' \in Nat
    BY <1>b DEF Types
  <2> QED
    BY <1>b, <1>d, <2>1, <2>2 DEF Types
<1>2. Steps'
  BY <1>a, <1>b DEF Steps, Checking, Types
<1>3. LoadFollows'
  BY <1>b DEF LoadFollows, Running
<1>4. LastError'
  <2>1. ~result.pass
    BY <1>b, <1>c DEF LastError
  <2>2. PreTestError' => pc \in {"addChannel", "preTest"} /\ e # Nil
    <3>1. CASE PreTestError
      BY <1>b, <1>c, <3>1 DEF LastError, Types, Nil, Plain, Fatal
    <3>2. CASE ~PreTestError
      BY <1>c, <1>d, <3>2 DEF PreTestError
    <3> QED
      BY <3>1, <3>2
  <2>3. CheckFatal' => e = Fatal
    <3>1. ~CheckFatal
      BY <1>b DEF LastError, Nil, Fatal
    <3> QED
      BY <1>d, <3>1 DEF CheckFatal
  <2>4. ScenarioFatal' => e = Fatal \/ masked'
    <3>1. CASE ScenarioFatal
      <4>1. Fatal \in met \/ masked
        BY <1>b, <3>1 DEF LastError, Nil, Fatal
      <4>2. Fatal \in met => e \in {Plain, Fatal}
        BY <1>b DEF Types
      <4> QED
        BY <1>b, <4>1, <4>2
    <3>2. CASE ~ScenarioFatal
      BY <1>d, <3>2 DEF ScenarioFatal
    <3> QED
      BY <3>1, <3>2
  <2> QED
    BY <1>b, <1>c, <2>1, <2>2, <2>3, <2>4 DEF LastError
<1>5. ErrorsTold'
  <2>1. e # Nil => Told(IF guard THEN errors' ELSE Listed', e)
    <3>1. CASE met = {}
      BY <1>c, <1>d, <3>1 DEF Told, Listed
    <3>2. CASE met # {}
      BY <1>b, <3>2 DEF ErrorsTold, Told, Listed
    <3> QED
      BY <3>1, <3>2
  <2>2. \A x \in errors' : x.listed \/ x.late
    BY <1>d DEF ErrorsTold
  <2>3. ~result.pass /\ ~result.set
    BY <1>c DEF LastError, ErrorsTold
  <2>4. guard => done /\ bench = "end"
    BY DEF ErrorsTold
  <2>5. e # Nil /\ (pc \in {"addChannel", "preTest"} \/ ~done)
          => Told(Listed', e)
    BY <1>c, <2>1, <2>4
  <2> QED
    BY <1>b, <1>c, <2>2, <2>3, <2>4, <2>5 DEF ErrorsTold
<1> QED
  BY <1>1, <1>2, <1>3, <1>4, <1>5

(***************************************************************************)
(* A step of benchmarkMain or of a load goroutine.                         *)
(***************************************************************************)
LEMMA BenchInv ==
  ASSUME RunInv, Benchmark \/ Guard \/ \E l \in Loads : LevelUp(l)
  PROVE  RunInv'
<1> USE DEF RunInv
<1>a. /\ UNCHANGED <<pc, step, play, err, done, errors, result, met, masked>>
      /\ bench # "off" /\ bench' # "off"
  BY DEF Benchmark, Guard, LevelUp
<1>b. /\ PreTestError' = PreTestError /\ CheckFatal' = CheckFatal
      /\ ScenarioFatal' = ScenarioFatal /\ Listed' = Listed
  BY <1>a DEF PreTestError, CheckFatal, ScenarioFatal, Listed
<1>c. Steps' /\ LastError'
  <2>1. Checking' = Checking /\ InScenario' = InScenario
    BY <1>a DEF Checking, InScenario
  <2>2. Steps'
    BY <1>a, <2>1 DEF Steps
  <2>3. LastError'
    BY <1>a, <1>b DEF LastError
  <2> QED
    BY <2>2, <2>3
<1>1. CASE Benchmark
  <2>1. Types'
    BY <1>1, <1>a, RunAssumption DEF Benchmark, Types
  <2>2. level' = 0 /\ bench' = "beat" /\ bench = "started"
        /\ UNCHANGED guard
    BY <1>1 DEF Benchmark, LoadFollows
  <2>3. Cardinality(Running') \in Nat
    <3>1. Running' \in SUBSET Loads
      BY DEF Running
    <3> QED
      BY <3>1, RunAssumption, FS_Subset, FS_CardinalityType
  <2>4. LoadFollows'
    BY <1>1, <1>a, <2>1, <2>2, <2>3 DEF Benchmark, LoadFollows
  <2>5. ErrorsTold'
    BY <1>a, <1>b, <2>2 DEF ErrorsTold
  <2> QED
    BY <1>c, <2>1, <2>4, <2>5
<1>2. CASE Guard
  <2>1. Running' = Running /\ load' = load /\ level' = level
        /\ guard' = TRUE /\ bench' = "end" /\ done
    BY <1>2 DEF Guard, Running
  <2>2. Types'
    BY <1>a, <2>1 DEF Types
  <2>3. LoadFollows'
    BY <1>a, <1>2, <2>1 DEF Guard, LoadFollows
  <2>4. Listed \subseteq errors
    BY DEF Listed
  <2>5. \A k \in met : Told(errors, k)
    BY <2>4 DEF ErrorsTold, Told
  <2>6. ErrorsTold'
    BY <1>a, <1>b, <2>1, <2>5 DEF ErrorsTold
  <2> QED
    BY <1>c, <2>2, <2>3, <2>6
<1>3. ASSUME NEW l \in Loads, LevelUp(l) PROVE RunInv'
  <2>1. Types'
    BY <1>3, <1>a DEF LevelUp, Types
  <2>2. Running' = Running \cup {l} /\ l \notin Running
    BY <1>3 DEF LevelUp, Running, Types
  <2>3. Cardinality(Running') = Cardinality(Running) + 1
    BY <2>2, RunningFinite, FS_AddElement
  <2>4. LoadFollows'
    BY <1>3, <1>a, <2>1, <2>3, RunningFinite DEF LevelUp, LoadFollows, Types
  <2>5. ErrorsTold'
    BY <1>3, <1>a, <1>b DEF LevelUp, ErrorsTold
  <2> QED
    BY <1>c, <2>1, <2>4, <2>5
<1> QED
  BY <1>1, <1>2, <1>3

LEMMA LoadInv ==
  ASSUME RunInv, NEW l \in Loads, LoadStep(l)
  PROVE  RunInv'
<1> USE DEF RunInv
<1>1. PICK to \in {"ready", "play", "end"} :
        /\ load[l] \in {"ready", "play"}
        /\ load' = [load EXCEPT ![l] = to]
  BY DEF LoadStep, LoadPlay, LoadFinish
<1>2. UNCHANGED <<pc, step, play, err, done, bench, guard, level, result, met,
                  masked>>
  BY DEF LoadStep, LoadPlay, LoadFinish
<1>3. /\ errors \subseteq errors'
      /\ errors' \subseteq Entries
      /\ \A x \in errors' \ errors :
           x.by = "load" /\ x.late = done /\ (x.listed \/ x.late)
  <2>1. CASE LoadPlay(l)
    BY <2>1 DEF LoadPlay, Types
  <2>2. ASSUME NEW e \in {Nil, Plain, Fatal}, LoadFinish(l, e)
        PROVE  <1>3!1 /\ <1>3!2 /\ <1>3!3
    BY <2>2, RecordedErrors DEF LoadFinish, Whom
  <2> QED
    BY <2>1, <2>2 DEF LoadStep
<1>4. Running' = Running
  BY <1>1 DEF Running, Types
<1>5. /\ PreTestError' = PreTestError /\ CheckFatal' = CheckFatal
      /\ ScenarioFatal' = ScenarioFatal /\ Listed \subseteq Listed'
  BY <1>3 DEF PreTestError, CheckFatal, ScenarioFatal, Listed
<1>6. Types'
  <2>1. result' \in Results(errors')
    BY <1>2, <1>3, ResultsGrow DEF Types
  <2> QED
    BY <1>1, <1>2, <1>3, <2>1 DEF Types
<1>7. Steps' /\ LastError'
  BY <1>2, <1>5 DEF Steps, LastError, Checking, InScenario
<1>8. LoadFollows'
  BY <1>1, <1>2, <1>4 DEF LoadFollows, Types
<1>9. ErrorsTold'
  <2>1. \A k \in met : Told(IF guard THEN errors' ELSE Listed', k)
    BY <1>3, <1>5 DEF ErrorsTold, Told
  <2>2. err # Nil /\ pc # "end" /\ (pc \in {"addChannel", "preTest"} \/ ~done)
          => Told(Listed', err)
    BY <1>5 DEF ErrorsTold, Told
  <2>3. \A x \in errors' : x.listed \/ x.late
    BY <1>3 DEF ErrorsTold
  <2>4. result.pass => \A x \in errors' : ~x.late => x \in result.errors
    BY <1>3 DEF ErrorsTold
  <2> QED
    BY <1>2, <2>1, <2>2, <2>3, <2>4 DEF ErrorsTold
<1> QED
  BY <1>6, <1>7, <1>8, <1>9

LEMMA NextRunInv == RunInv /\ [Next]_vars => RunInv'
<1> SUFFICES ASSUME RunInv, [Next]_vars PROVE RunInv'
  OBVIOUS
<1>1. CASE UNCHANGED vars
  BY <1>1 DEF vars, RunInv, Types, Steps, LoadFollows, LastError, ErrorsTold,
              Checking, InScenario, Running, PreTestError, CheckFatal,
              ScenarioFatal, Listed
<1> QED
  BY <1>1, MainQuietInv, MeetsInv, FinishInv, BenchInv, LoadInv
     DEF Next, Main, MainQuiet

LEMMA RunInvariant == Spec => []RunInv
BY InitRunInv, NextRunInv, PTL DEF Spec
-----------------------------------------------------------------------------
\* The variables of a run keep their types; the load level is raised at most
\* once for a load goroutine (benchmarkMain), the main goroutine is never in a
\* check that its phase does not have, and only CheckMessageScenario, while it
\* waits for its goroutines, holds errors of theirs.
THEOREM RunTypeCorrect == Spec => []RunTypeOK
<1>1. RunInv => RunTypeOK
  <2> SUFFICES ASSUME RunInv PROVE RunTypeOK
    OBVIOUS
  <2>1. level \in 0 .. Cardinality(Loads)
    BY RunningFinite DEF RunInv, Types, LoadFollows
  <2> QED
    BY <2>1 DEF RunInv, Types, Steps, RunTypeOK, Results, Entries
<1> QED
  BY <1>1, RunInvariant, PTL

\* An error that preTest recorded ends the run: startBenchmark starts no load
\* and does not pass.
THEOREM PreTestStopsLoad == Spec => []NoLoadAfterPreTestError
<1>1. RunInv => NoLoadAfterPreTestError
  BY DEF RunInv, LoadFollows, LastError, NoLoadAfterPreTestError,
         PreTestError, Types
<1> QED
  BY <1>1, RunInvariant, PTL

\* startBenchmark passes a run in which a check of validationMain met a fatal
\* error only when that was the last check of the run, or when it was
\* CheckMessageScenario and returned a plain error of another of its
\* goroutines in place of the fatal one.
THEOREM PassOnlyOnLastFatal == Spec => []OnlyLastFatal
<1>1. RunInv => OnlyLastFatal
  <2> SUFFICES ASSUME RunInv, result.pass,
                      NEW e \in errors, e.kind = Fatal,
                      e.by \in {"validate", "scenario"}
               PROVE  err = Fatal \/ (e.by = "scenario" /\ masked)
    BY DEF OnlyLastFatal
  <2>1. pc = "end" /\ met = {}
    BY DEF RunInv, LastError, Steps, Checking
  <2>2. CASE e.by = "validate"
    BY <2>2 DEF RunInv, LastError, CheckFatal
  <2>3. CASE e.by = "scenario"
    BY <2>1, <2>3 DEF RunInv, LastError, ScenarioFatal
  <2> QED
    BY <2>2, <2>3
<1> QED
  BY <1>1, RunInvariant, PTL

\* getErrorsString of startBenchmark and the guard that benchmarkMain sets
\* after the deadline: a run that passes lists all errors recorded before the
\* deadline, one that fails lists the error for which it fails.
THEOREM ResultsAreComplete == Spec => []ResultListsErrors
<1>1. RunInv => ResultListsErrors
  BY DEF RunInv, ErrorsTold, ResultListsErrors, Told
<1> QED
  BY <1>1, RunInvariant, PTL
=============================================================================
