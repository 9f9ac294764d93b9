------------------------------- MODULE Worker -------------------------------
(***************************************************************************)
(* Worker mode of the benchmarker, bench/src/cmd/bench/workermode.go: the  *)
(* loop that asks the portal for a job, runs the benchmarker as a child    *)
(* process, and posts its result.  While the child runs, two goroutines    *)
(* copy its output to logbuf, one waits for it, and a timer kills it after *)
(* 100 seconds, when it has asked it for a dump of its goroutines.         *)
(*                                                                         *)
(* An exchange with the portal is one step, with its answer or without.    *)
(* The pauses between two requests change nothing and are left out.        *)
(***************************************************************************)
EXTENDS Naturals, FiniteSets

CONSTANTS
    Jobs,    \* the jobs of the portal
    Zero,    \* new(Job): what decoding some other JSON object leaves
    NoJob

ASSUME JobsAssumption ==
    /\ IsFiniteSet(Jobs)
    /\ Zero \notin Jobs
    /\ NoJob \notin Jobs \cup {Zero}

VARIABLES
    queue,     \* the jobs the portal has not handed out
    results,   \* what the portal received
    pc,        \* where runWorkerMode is
    job,       \* the job in hand
    aborted,   \* the local variable aborted
    child,     \* the child process
    file,      \* the output file of the child
    readers,   \* the readLog goroutines that have not returned
    waiting,   \* is a goroutine in cmd.Wait?
    watch,     \* watch[j]: the timer function of the run of j
    broken,    \* history: jobs whose child ended while it wrote its output
    trouble    \* history: jobs hit by a failure no retry makes good

vars == <<queue, results, pc, job, aborted, child, file, readers, waiting,
          watch, broken, trouble>>

Streams == {"stdout", "stderr"}
Up == pc # "dead"
Alive == {"running", "writing", "written"}

Init ==
    /\ queue = Jobs
    /\ results = {}
    /\ pc = "getJob"
    /\ job = NoJob
    /\ aborted = FALSE
    /\ child = "none"
    /\ file = "none"
    /\ readers = {}
    /\ waiting = FALSE
    /\ watch = [j \in Jobs \cup {Zero} |-> "off"]
    /\ broken = {}
    /\ trouble = {}

\* A run begins: a new context, a new command, a new name for the output.
Take(j) ==
    /\ job' = j
    /\ pc' = "start"
    /\ child' = "none"
    /\ file' = "none"

-----------------------------------------------------------------------------
\* getJobLoop.  Whatever goes wrong, it asks again; a job whose answer is
\* lost is not offered twice.
GetJob ==
    /\ pc = "getJob"
    /\ \E j \in queue :
         /\ queue' = queue \ {j}
         /\ \/ /\ Take(j)
               /\ UNCHANGED trouble
            \/ /\ trouble' = trouble \cup {j}
               /\ UNCHANGED <<job, pc, child, file>>
    /\ UNCHANGED <<results, aborted, readers, waiting, watch, broken>>

\* getJob looks at no status but 204: an error that comes as a JSON object
\* is taken for job 0.  One such run is enough here.
GetError ==
    /\ pc = "getJob"
    /\ watch[Zero] = "off"
    /\ Take(Zero)
    /\ UNCHANGED <<queue, results, aborted, readers, waiting, watch, broken,
                   trouble>>

\* Mutant: the job stays in hand.
StartFailsMutant ==
    /\ pc = "start"
    /\ pc' = "getJob"
    /\ trouble' = trouble \cup {job}
    /\ UNCHANGED <<queue, results, job, aborted, child, file, readers, waiting,
                   watch, broken>>

\* A pipe or the process cannot be made: "continue", without a result.
StartFails ==
    /\ pc = "start"
    /\ pc' = "getJob"
    /\ job' = NoJob
    /\ trouble' = trouble \cup {job}
    /\ UNCHANGED <<queue, results, aborted, child, file, readers, waiting,
                   watch, broken>>

Start ==
    /\ pc = "start"
    /\ pc' = "run"
    /\ child' = "running"
    /\ watch' = [watch EXCEPT ![job] = "armed"]
    /\ readers' = Streams
    /\ waiting' = TRUE
    /\ UNCHANGED <<queue, results, job, aborted, file, broken, trouble>>

(***************************************************************************)
(* The child.  main of bench.go writes the output file at its end, in      *)
(* steps; it may end at any moment, by itself or killed.                   *)
(***************************************************************************)
WriteOutput ==
    /\ \/ /\ child = "running"
          /\ child' = "writing"
          /\ file' = "partial"
       \/ /\ child = "writing"
          /\ child' = "written"
          /\ file' = "whole"
    /\ UNCHANGED <<queue, results, pc, job, aborted, readers, waiting, watch,
                   broken, trouble>>

Gone ==
    /\ child' = "gone"
    /\ broken' = IF child = "writing" THEN broken \cup {job} ELSE broken

ChildEnds ==
    /\ child \in Alive
    /\ Gone
    /\ UNCHANGED <<queue, results, pc, job, aborted, file, readers, waiting,
                   watch, trouble>>

(***************************************************************************)
(* The goroutines of a run.                                                *)
(***************************************************************************)
\* The pipe is at its end, or closed by cmd.Wait.
ReadLogEnds(s) ==
    /\ Up
    /\ s \in readers
    /\ child = "gone"
    /\ readers' = readers \ {s}
    /\ UNCHANGED <<queue, results, pc, job, aborted, child, file, waiting,
                   watch, broken, trouble>>

WaitReturns ==
    /\ Up
    /\ waiting
    /\ child = "gone"
    /\ waiting' = FALSE
    /\ UNCHANGED <<queue, results, pc, job, aborted, child, file, readers,
                   watch, broken, trouble>>

\* time.AfterFunc.  The function may still run when the run is over.
WatchFires(j) ==
    /\ Up
    /\ watch[j] = "armed"
    /\ watch' = [watch EXCEPT ![j] = "dumping"]
    /\ UNCHANGED <<queue, results, pc, job, aborted, child, file, readers,
                   waiting, broken, trouble>>

\* The process that has the pprof port answers http.Get: the child of this
\* run, or that of a later one.
DumpAnswered(j) ==
    /\ Up
    /\ watch[j] = "dumping"
    /\ child \in Alive
    /\ watch' = [watch EXCEPT ![j] = "copying"]
    /\ UNCHANGED <<queue, results, pc, job, aborted, child, file, readers,
                   waiting, broken, trouble>>

\* The deferred cancel.  Each run has a context of its own, so that of an
\* earlier run kills nothing any more.
Cancel(j) ==
    /\ watch' = [watch EXCEPT ![j] = "done"]
    /\ IF j = job /\ child \in Alive
       THEN Gone
       ELSE UNCHANGED <<child, broken>>

DumpCopied(j) ==
    /\ Up
    /\ watch[j] = "copying"
    /\ Cancel(j)
    /\ UNCHANGED <<queue, results, pc, job, aborted, file, readers, waiting,
                   trouble>>

\* Mutant: without an answer the child is left alone.
DumpFailsMutant(j) ==
    /\ Up
    /\ watch[j] = "dumping"
    /\ watch' = [watch EXCEPT ![j] = "done"]
    /\ UNCHANGED <<queue, results, pc, job, aborted, child, file, readers,
                   waiting, broken, trouble>>

DumpFails(j) ==
    /\ Up
    /\ watch[j] = "dumping"
    /\ Cancel(j)
    /\ UNCHANGED <<queue, results, pc, job, aborted, file, readers, waiting,
                   trouble>>

\* The goroutines that use the logbuf of this run, which has no lock.
LogbufUsers ==
    readers \cup (IF job # NoJob /\ watch[job] = "copying"
                  THEN {"watch"} ELSE {})
            \cup (IF pc = "save" THEN {"main"} ELSE {})

\* bytes.Buffer may panic when two of them write, and the process is gone.
LogbufRace ==
    /\ pc \in {"run", "save"}
    /\ Cardinality(LogbufUsers) > 1
    /\ pc' = "dead"
    /\ trouble' = trouble \cup {job}
    /\ UNCHANGED <<queue, results, job, aborted, child, file, readers,
                   waiting, watch, broken>>

-----------------------------------------------------------------------------
\* Mutant: cmd.Wait is not in the wait group, nor is stderr.
JoinMutant ==
    /\ pc = "run"
    /\ pc' = "save"
    /\ aborted' = (file = "none")
    /\ watch' = [watch EXCEPT ![job] = IF @ = "armed" THEN "off" ELSE @]
    /\ UNCHANGED <<queue, results, job, child, file, readers, waiting, broken,
                   trouble>>

\* wg.Wait, tm.Stop, cancel, os.Stat.
Join ==
    /\ pc = "run"
    /\ readers = {}
    /\ ~waiting
    /\ pc' = "save"
    /\ aborted' = (file = "none")
    /\ watch' = [watch EXCEPT ![job] = IF @ = "armed" THEN "off" ELSE @]
    /\ UNCHANGED <<queue, results, job, child, file, readers, waiting, broken,
                   trouble>>

\* The log file; an error is only logged.
SaveLog ==
    /\ pc = "save"
    /\ pc' = "post"
    /\ UNCHANGED <<queue, results, job, aborted, child, file, readers,
                   waiting, watch, broken, trouble>>

\* Mutant: nothing is posted for an aborted run.
PostResultMutant ==
    /\ pc = "post"
    /\ pc' = "getJob"
    /\ job' = NoJob
    /\ results' = IF aborted THEN results
                  ELSE results \cup {[job |-> job, aborted |-> FALSE,
                                      file |-> file]}
    /\ UNCHANGED <<queue, aborted, child, file, readers, waiting, watch,
                   broken, trouble>>

\* postResult is called once; its error is only logged.
PostResult ==
    /\ pc = "post"
    /\ pc' = "getJob"
    /\ job' = NoJob
    /\ \/ /\ results' = results \cup {[job |-> job, aborted |-> aborted,
                                       file |-> file]}
          /\ UNCHANGED trouble
       \/ /\ trouble' = trouble \cup {job}
          /\ UNCHANGED results
    /\ UNCHANGED <<queue, aborted, child, file, readers, waiting, watch,
                   broken>>

Main == Start \/ Join \/ SaveLog

Watch(j) == WatchFires(j) \/ DumpAnswered(j) \/ DumpCopied(j) \/ DumpFails(j)

Next ==
    \/ GetJob \/ GetError \/ StartFails \/ Main \/ PostResult
    \/ WriteOutput \/ ChildEnds \/ LogbufRace
    \/ WaitReturns \/ \E s \in Streams : ReadLogEnds(s)
    \/ \E j \in Jobs \cup {Zero} : Watch(j)

Spec == Init /\ [][Next]_vars

(***************************************************************************)
(* The goroutines run and the timer fires.  Nothing is asked of the portal *)
(* or of the child: neither has to answer, the child need not send all of  *)
(* its dump, and it need not end.  When it has ended, a request to its     *)
(* port fails and a dump from it is at its end.                            *)
(***************************************************************************)
FairSpec ==
    /\ Spec
    /\ WF_vars(Main)
    /\ WF_vars(WaitReturns)
    /\ \A s \in Streams : WF_vars(ReadLogEnds(s))
    /\ \A j \in Jobs \cup {Zero} :
         /\ WF_vars(WatchFires(j))
         /\ WF_vars(child = "gone" /\ DumpCopied(j))
         /\ WF_vars(child = "gone" /\ DumpFails(j))

-----------------------------------------------------------------------------
\* The variables keep their types, a job is in hand exactly while it is worked
\* on, and a run ends after its child, so that there is never a second one (the
\* loop of runWorkerMode, workermode.go:160).
WorkerTypeOK ==
    /\ queue \subseteq Jobs
    /\ results \subseteq [job : Jobs \cup {Zero}, aborted : BOOLEAN,
                          file : {"none", "partial", "whole"}]
    /\ pc \in {"getJob", "start", "run", "save", "post", "dead"}
    /\ job \in Jobs \cup {Zero, NoJob}
    /\ aborted \in BOOLEAN
    /\ child \in Alive \cup {"none", "gone"}
    /\ file \in {"none", "partial", "whole"}
    /\ readers \subseteq Streams
    /\ waiting \in BOOLEAN
    /\ watch \in [Jobs \cup {Zero} ->
                    {"off", "armed", "dumping", "copying", "done"}]
    /\ broken \subseteq Jobs \cup {Zero}
    /\ trouble \subseteq Jobs \cup {Zero}
    /\ job = NoJob <=> pc = "getJob"
    /\ pc \notin {"run", "dead"} => child \in {"none", "gone"}

(***************************************************************************)
(* What the portal is told is true: a run is reported as aborted exactly   *)
(* when its child left no output, the output of a run that is not reported *)
(* as aborted is whole unless the child ended while writing it, and a job  *)
(* of the portal is reported once.                                         *)
(***************************************************************************)
ResultsTrue ==
    \A r \in results :
      /\ r.aborted <=> r.file = "none"
      /\ r.file = "partial" => r.job \in broken
      /\ r.job \in Jobs => \A q \in results : q.job = r.job => q = r

(***************************************************************************)
(* A job that was handed out is in hand, or reported, or was hit by one of *)
(* the failures the code does not retry: the answer with the job lost, no  *)
(* child process, a panic of the shared log buffer, a result not received. *)
(***************************************************************************)
LossExplained ==
    \A j \in Jobs \ queue :
      j = job \/ j \in trouble \/ \E r \in results : r.job = j

(***************************************************************************)
(* A run ends, unless its child goes on and leaves the request of its own  *)
(* watchdog for its goroutines unanswered or half answered: neither        *)
(* http.Get nor io.Copy has a timeout, and cancel comes after both         *)
(* (workermode.go:201, 207).                                               *)
(***************************************************************************)
EndsOrMute ==
    []<>(pc # "run")
      \/ \E j \in Jobs \cup {Zero} :
           <>[](/\ watch[j] \in {"dumping", "copying"}
               /\ j = job
               /\ child # "gone")
=============================================================================
