------------------------------ MODULE BenchRun ------------------------------
(***************************************************************************)
(* One run of the benchmarker, bench/src/cmd/bench/bench.go: the main      *)
(* goroutine of startBenchmark (initialize, preTest, the validation loop,  *)
(* the result), the goroutine of benchmarkMain, the load goroutines it     *)
(* starts, the context that times out after benchDuration, and the error   *)
(* list of checker.go they share.                                          *)
(*                                                                         *)
(* Every request goes through Checker.Play.  Play has three outcomes for   *)
(* its caller: nil, an error, and a fatal error.  It returns nil without a *)
(* request when the context is done before it starts.  Otherwise the       *)
(* application decides, and once the context is done the client may give   *)
(* up, which is an error.  A check of preTest or validationMain is one     *)
(* Play here, its further Plays have the same outcomes.  But               *)
(* CheckMessageScenario, the last check of both, plays in three goroutines *)
(* that record their errors each, and returns one of these errors.         *)
(***************************************************************************)
EXTENDS Naturals, FiniteSets

CONSTANTS
    Loads,        \* load goroutines
    FirstLoads,   \* those benchmarkMain starts before its first level up
    MaxChannels,  \* maxChannelCount less the channels of the data set
    PreChecks,    \* the checks of preTest after its channel loop
    Validations   \* the checks of one round of validationMain, 8

ASSUME RunAssumption ==
    /\ FirstLoads \subseteq Loads /\ IsFiniteSet(Loads)
    /\ MaxChannels \in Nat
    /\ PreChecks \in Nat \ {0}
    /\ Validations \in Nat \ {0}

VARIABLES
    pc,        \* the phase of the main goroutine
    step,      \* channels added, or checks done, in this phase
    play,      \* is the main goroutine inside Play?
    err,       \* what its last check returned
    done,      \* ctx.Err() # nil
    bench,     \* the goroutine of benchmarkMain
    load,      \* load[l]: a load goroutine
    guard,     \* checkerErrorGuard
    errors,    \* the errors of Play, checkerErrors and those it refused
    level,     \* counter load-level-up
    result,    \* what startBenchmark returned
    met,       \* kinds of err1, err2 and err3 of CheckMessageScenario
    masked     \* history: did it return an error in place of a fatal one?

vars == <<pc, step, play, err, done, bench, load, guard, errors, level,
          result, met, masked>>

Nil == "nil"
Plain == "error"
Fatal == "fatal"

Phases == {"initialize", "addChannel", "preTest", "validate", "loop", "score",
           "end"}

None == [pass |-> FALSE, set |-> FALSE, errors |-> {}]

Init ==
    /\ pc = "initialize"
    /\ step = 0
    /\ play = FALSE
    /\ err = Nil
    /\ done = FALSE
    /\ bench = "off"
    /\ load = [l \in Loads |-> "off"]
    /\ guard = FALSE
    /\ errors = {}
    /\ level = 0
    /\ result = None
    /\ met = {}
    /\ masked = FALSE

\* OnError and appendError: late when the context is done, listed unless the
\* guard is up.
Recorded(e, who) ==
    IF e = Nil THEN errors
    ELSE errors \cup {[kind |-> e, by |-> who, late |-> done,
                       listed |-> ~guard]}

\* GetCheckerErrors
Listed == {e \in errors : e.listed}

\* startBenchmark returns, and its deferred cancel ends the context.
Return(pass) ==
    /\ pc' = "end"
    /\ result' = [pass |-> pass, set |-> TRUE, errors |-> Listed]
    /\ done' = TRUE

-----------------------------------------------------------------------------
\* requestInitialize has a client of its own and records no error.
RequestInitialize ==
    /\ pc = "initialize"
    /\ \/ /\ pc' = "addChannel"
          /\ UNCHANGED result
       \/ /\ pc' = "end"
          /\ result' = [None EXCEPT !.set = TRUE]
    /\ UNCHANGED <<step, play, err, done, bench, load, guard, errors, level,
                   met, masked>>

\* context.WithTimeout starts with preTest.
Deadline ==
    /\ pc \notin {"initialize", "end"}
    /\ ~done
    /\ done' = TRUE
    /\ UNCHANGED <<pc, step, play, err, bench, load, guard, errors, level,
                   result, met, masked>>

(***************************************************************************)
(* The checks of the main goroutine.  err holds what the last one returned *)
(* until the caller looks at it; step counts the channels that were added, *)
(* or the checks of the phase.                                             *)
(***************************************************************************)
Checking == \/ pc = "addChannel" /\ step < MaxChannels
            \/ pc = "preTest" /\ step < PreChecks
            \/ pc = "validate" /\ step < Validations

Enter ==
    /\ Checking
    /\ ~play
    /\ err = Nil
    /\ ~done
    /\ play' = TRUE
    /\ UNCHANGED <<pc, step, err, done, bench, load, guard, errors, level,
                   result, met, masked>>

\* Play returns nil at once.  CheckPostAddChannel has added no channel then.
\* validationMain returns before its next check.
Skip ==
    /\ Checking
    /\ ~play
    /\ err = Nil
    /\ done
    /\ step' = CASE pc = "addChannel" -> step
                 [] pc = "preTest" -> step + 1
                 [] pc = "validate" -> Validations
    /\ UNCHANGED <<pc, play, err, done, bench, load, guard, errors, level,
                   result, met, masked>>

\* CheckMessageScenario, the last check of preTest and of validationMain.
InScenario == \/ pc = "preTest" /\ step = PreChecks - 1
              \/ pc = "validate" /\ step = Validations - 1

\* Whose errors those of this check are.
Checker == IF pc = "validate" /\ InScenario THEN "scenario" ELSE pc

\* One of the three goroutines of CheckMessageScenario fails.  The others go
\* on, and so does the check until wg.Wait returns.
Meets(e) ==
    /\ play
    /\ InScenario
    /\ met' = met \cup {e}
    /\ errors' = Recorded(e, Checker)
    /\ UNCHANGED <<pc, step, play, err, done, bench, load, guard, level,
                   result, masked>>

\* Mutant: a check that failed counts as done, and again when overlooked.
FinishMutant(e) ==
    /\ play
    /\ met # {} => e \in met
    /\ play' = FALSE
    /\ err' = e
    /\ errors' = IF met = {} THEN Recorded(e, Checker) ELSE errors
    /\ step' = step + 1
    /\ met' = {}
    /\ masked' = (masked \/ (e = Plain /\ Fatal \in met))
    /\ UNCHANGED <<pc, done, bench, load, guard, level, result>>

\* A check returns: nil, the error of its last Play, or the first of err1,
\* err2 and err3 that is not nil, which may hide a fatal one.  When the context
\* is done CheckPostAddChannel may return nil without a channel.
Finish(e) ==
    /\ play
    /\ met # {} => e \in met
    /\ play' = FALSE
    /\ err' = e
    /\ errors' = IF met = {} THEN Recorded(e, Checker) ELSE errors
    /\ \/ e = Nil /\ step' = step + 1
       \/ (e # Nil \/ (pc = "addChannel" /\ done)) /\ step' = step
    /\ met' = {}
    /\ masked' = (masked \/ (e = Plain /\ Fatal \in met))
    /\ UNCHANGED <<pc, done, bench, load, guard, level, result>>

\* preTest returns the first error, whatever its kind.
PreTestFails ==
    /\ pc \in {"addChannel", "preTest"}
    /\ err # Nil
    /\ Return(FALSE)
    /\ UNCHANGED <<step, play, err, bench, load, guard, errors, level, met,
                   masked>>

ChannelsAdded ==
    /\ pc = "addChannel"
    /\ step = MaxChannels
    /\ err = Nil
    /\ pc' = "preTest"
    /\ step' = 0
    /\ UNCHANGED <<play, err, done, bench, load, guard, errors, level, result,
                   met, masked>>

\* Mutant: an error of the last check of preTest is dropped.
StartLoadMutant ==
    /\ pc = "preTest"
    /\ step = PreChecks \/ err # Nil
    /\ pc' = "validate"
    /\ step' = 0
    /\ err' = Nil
    /\ bench' = "started"
    /\ UNCHANGED <<play, done, load, guard, errors, level, result, met,
                   masked>>

\* preTest passed: go benchmarkMain(ctx, state), then the validation loop.
StartLoad ==
    /\ pc = "preTest"
    /\ step = PreChecks
    /\ err = Nil
    /\ pc' = "validate"
    /\ step' = 0
    /\ bench' = "started"
    /\ UNCHANGED <<play, err, done, load, guard, errors, level, result, met,
                   masked>>

\* validationMain passes over an error that is not fatal.
Overlook ==
    /\ pc = "validate"
    /\ err = Plain
    /\ err' = Nil
    /\ step' = step + 1
    /\ UNCHANGED <<pc, play, done, bench, load, guard, errors, level, result,
                   met, masked>>

\* A round of validationMain ends, by a fatal error or after its last check.
RoundEnds ==
    /\ pc = "validate"
    /\ ~play
    /\ \/ err = Fatal
       \/ err = Nil /\ step = Validations
    /\ pc' = "loop"
    /\ UNCHANGED <<step, play, err, done, bench, load, guard, errors, level,
                   result, met, masked>>

\* Mutant: a fatal error ends the run only at the end of the load.
LoopMutant ==
    /\ pc = "loop"
    /\ \/ /\ done
          /\ pc' = "score"
          /\ UNCHANGED <<step, err, result, done>>
       \/ /\ ~done
          /\ pc' = "validate"
          /\ step' = 0
          /\ err' = Nil
          /\ UNCHANGED <<result, done>>
    /\ UNCHANGED <<play, bench, load, guard, errors, level, met, masked>>

\* Mutant: only an error ends the loop, and none does after the deadline.
EndlessMutant ==
    /\ pc = "loop"
    /\ \/ /\ ~done /\ err = Fatal
          /\ Return(FALSE)
          /\ UNCHANGED <<step, err>>
       \/ /\ done \/ err = Nil
          /\ pc' = "validate"
          /\ step' = 0
          /\ err' = Nil
          /\ UNCHANGED <<result, done>>
    /\ UNCHANGED <<play, bench, load, guard, errors, level, met, masked>>

\* Mutant: err is looked at before the context.
ErrorFirstMutant ==
    /\ pc = "loop"
    /\ \/ /\ err = Fatal
          /\ Return(FALSE)
          /\ UNCHANGED <<step, err>>
       \/ /\ err = Nil /\ done
          /\ pc' = "score"
          /\ UNCHANGED <<step, err, result, done>>
       \/ /\ err = Nil /\ ~done
          /\ pc' = "validate"
          /\ step' = 0
          /\ UNCHANGED <<err, result, done>>
    /\ UNCHANGED <<play, bench, load, guard, errors, level, met, masked>>

\* The loop of startBenchmark looks at the context before it looks at err.
Loop ==
    /\ pc = "loop"
    /\ \/ /\ done
          /\ pc' = "score"
          /\ UNCHANGED <<step, err, result, done>>
       \/ /\ ~done /\ err = Fatal
          /\ Return(FALSE)
          /\ UNCHANGED <<step, err>>
       \/ /\ ~done /\ err = Nil
          /\ pc' = "validate"
          /\ step' = 0
          /\ UNCHANGED <<err, result, done>>
    /\ UNCHANGED <<play, bench, load, guard, errors, level, met, masked>>

Score ==
    /\ pc = "score"
    /\ Return(TRUE)
    /\ UNCHANGED <<step, play, err, bench, load, guard, errors, level, met,
                   masked>>

-----------------------------------------------------------------------------
\* addChannelUser and the goroutines of the load functions.
Benchmark ==
    /\ bench = "started"
    /\ bench' = "beat"
    /\ load' = [l \in Loads |-> IF l \in FirstLoads THEN "ready" ELSE "off"]
    /\ UNCHANGED <<pc, step, play, err, done, guard, errors, level, result,
                   met, masked>>

\* A tick without a recent error or slow request.  Whether the last of them
\* is five seconds old is left open.
LevelUp(l) ==
    /\ bench = "beat"
    /\ load[l] = "off"
    /\ load' = [load EXCEPT ![l] = "ready"]
    /\ level' = level + 1
    /\ UNCHANGED <<pc, step, play, err, done, bench, guard, errors, result,
                   met, masked>>

Guard ==
    /\ bench = "beat"
    /\ done
    /\ guard' = TRUE
    /\ bench' = "end"
    /\ UNCHANGED <<pc, step, play, err, done, load, errors, level, result, met,
                   masked>>

LoadPlay(l) ==
    /\ load[l] = "ready"
    /\ load' = [load EXCEPT ![l] = IF done THEN "end" ELSE "play"]
    /\ UNCHANGED <<pc, step, play, err, done, bench, guard, errors, level,
                   result, met, masked>>

\* A load goroutine ends with its first error.
LoadFinish(l, e) ==
    /\ load[l] = "play"
    /\ load' = [load EXCEPT ![l] = IF e = Nil THEN "ready" ELSE "end"]
    /\ errors' = Recorded(e, "load")
    /\ UNCHANGED <<pc, step, play, err, done, bench, guard, level, result, met,
                   masked>>

Main == RequestInitialize \/ Enter \/ Skip \/ ChannelsAdded \/ PreTestFails
          \/ StartLoad \/ Overlook \/ RoundEnds \/ Loop \/ Score
          \/ \E e \in {Nil, Plain, Fatal} : Finish(e)

LoadStep(l) == LoadPlay(l) \/ \E e \in {Nil, Plain, Fatal} : LoadFinish(l, e)

Next == Main \/ Deadline \/ Benchmark \/ Guard
          \/ \E e \in {Plain, Fatal} : Meets(e)
          \/ \E l \in Loads : LevelUp(l) \/ LoadStep(l)

Spec == Init /\ [][Next]_vars

\* Requests have timeouts, so Play returns; goroutines are scheduled; time
\* passes.
FairSpec == Spec /\ WF_vars(Main) /\ WF_vars(Deadline)

-----------------------------------------------------------------------------
Whom == Phases \cup {"scenario", "load"}

\* The variables keep their types; the main goroutine is in no check that its
\* phase does not have, and holds errors of the goroutines of
\* CheckMessageScenario only inside it (scenario.go:2163).
RunTypeOK ==
    /\ pc \in Phases
    /\ step \in Nat
    /\ pc = "addChannel" => step <= MaxChannels
    /\ pc = "preTest" => step <= PreChecks
    /\ pc = "validate" => step <= Validations
    /\ play \in BOOLEAN
    /\ err \in {Nil, Plain, Fatal}
    /\ done \in BOOLEAN
    /\ bench \in {"off", "started", "beat", "end"}
    /\ load \in [Loads -> {"off", "ready", "play", "end"}]
    /\ guard \in BOOLEAN
    /\ errors \subseteq [kind : {Plain, Fatal}, by : Whom, late : BOOLEAN,
                         listed : BOOLEAN]
    /\ level \in 0 .. Cardinality(Loads)
    /\ result \in [pass : BOOLEAN, set : BOOLEAN, errors : SUBSET errors]
    /\ met \subseteq {Plain, Fatal}
    /\ masked \in BOOLEAN
    /\ play => Checking /\ err = Nil
    /\ met # {} => play /\ InScenario

(***************************************************************************)
(* "If an error occurs, end without applying load" (bench.go, preTest):    *)
(* once preTest has recorded an error no load goroutine ever runs, and the *)
(* run does not pass.                                                      *)
(***************************************************************************)
NoLoadAfterPreTestError ==
    (\E e \in errors : e.by \in {"addChannel", "preTest"}) =>
       /\ bench = "off"
       /\ \A l \in Loads : load[l] = "off"
       /\ ~result.pass

(***************************************************************************)
(* A fatal error is worth 0 points (checker.go:138).  Of those that the    *)
(* checks of validationMain met, listed or not, a run that passes had only *)
(* two kinds: that of the last check of the run, and one of a goroutine of *)
(* CheckMessageScenario whose place a plain error of another goroutine     *)
(* took.                                                                   *)
(***************************************************************************)
OnlyLastFatal ==
    result.pass =>
       \A e \in errors :
          e.kind = Fatal /\ e.by \in {"validate", "scenario"} =>
             err = Fatal \/ (e.by = "scenario" /\ masked)

(***************************************************************************)
(* benchmarkMain shuts the error list some time after the deadline, while  *)
(* checks and load goroutines go on (bench.go:273).  A result misses none  *)
(* of the errors that decide: a run that passes lists every error that was *)
(* recorded before the deadline, one that fails lists that of the check    *)
(* for which it fails.                                                     *)
(***************************************************************************)
ResultListsErrors ==
    result.set =>
       IF result.pass
       THEN \A e \in errors : ~e.late => e \in result.errors
       ELSE err # Nil =>
              \E e \in result.errors : e.kind = err /\ e.by # "load"

(***************************************************************************)
(* The run ends, unless its context was done while channels were added:    *)
(* CheckPostAddChannel then adds none and returns no error.                *)
(***************************************************************************)
EndsOrStuckAddingChannels ==
    <>(pc = "end") \/ <>[](pc = "addChannel" /\ done)

-----------------------------------------------------------------------------
(***************************************************************************)
(* What the code does not do: the flag duration of bench.go, main, is the  *)
(* "benchmark duration", and the run does not end when it is over.         *)
(***************************************************************************)
Terminates == <>(pc = "end")
=============================================================================
