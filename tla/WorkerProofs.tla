---------------------------- MODULE WorkerProofs ----------------------------
(***************************************************************************)
(* The worker tells the portal the truth about every run and loses no job  *)
(* without one of the failures it does not retry: for every set of jobs.   *)
(***************************************************************************)
EXTENDS Worker, TLAPS

-----------------------------------------------------------------------------
(***************************************************************************)
(* The inductive invariant.                                                *)
(***************************************************************************)
\* The goroutines of a run outlive its child, so that wg.Wait returns only
\* when it is gone.
RunJoined ==
    /\ pc = "start" => child = "none"
    /\ pc = "run" => child # "none"
    /\ pc = "run" /\ child # "gone" => readers = Streams /\ waiting
    /\ pc \in {"save", "post"} => child = "gone"

\* What the output file holds follows the child, and what the loop noted of
\* it is still so when it posts the result.
FileTold ==
    /\ child \in {"none", "running"} => file = "none"
    /\ child = "writing" => file = "partial"
    /\ child = "written" => file = "whole"
    /\ child = "gone" /\ file = "partial" /\ job # NoJob => job \in broken
    /\ pc \in {"save", "post"} => (aborted <=> file = "none")

\* A job of the portal is in one place.
OnePlace ==
    /\ job \notin queue
    /\ \A r \in results : r.job \notin queue
    /\ \A r \in results : r.job \in Jobs => r.job # job

WorkerInv ==
    /\ WorkerTypeOK
    /\ RunJoined
    /\ FileTold
    /\ OnePlace
    /\ ResultsTrue
    /\ LossExplained

-----------------------------------------------------------------------------
LEMMA InitWorkerInv == Init => WorkerInv
BY JobsAssumption
   DEF Init, WorkerInv, WorkerTypeOK, RunJoined, FileTold, OnePlace,
       ResultsTrue, LossExplained, Alive, Streams

(***************************************************************************)
(* A step of the main loop.                                                *)
(***************************************************************************)
LEMMA GetJobInv ==
  ASSUME WorkerInv, GetJob
  PROVE  WorkerInv'
<1> USE DEF WorkerInv
<1>1. PICK j \in queue :
        /\ queue' = queue \ {j}
        /\ \/ Take(j) /\ UNCHANGED trouble
           \/ /\ trouble' = trouble \cup {j}
              /\ UNCHANGED <<job, pc, child, file>>
  BY DEF GetJob
<1>2. /\ j \in Jobs /\ job = NoJob /\ pc = "getJob"
      /\ UNCHANGED <<results, aborted, readers, waiting, watch, broken>>
  BY DEF GetJob, WorkerTypeOK
<1>3. WorkerTypeOK'
  BY <1>1, <1>2, JobsAssumption DEF WorkerTypeOK, Take
<1>4. RunJoined' /\ FileTold'
  BY <1>1, <1>2, JobsAssumption DEF RunJoined, FileTold, Take
<1>5. OnePlace'
  BY <1>1, <1>2, JobsAssumption DEF OnePlace, Take, WorkerTypeOK
<1>6. ResultsTrue'
  BY <1>2 DEF ResultsTrue
<1>7. LossExplained'
  BY <1>1, <1>2, JobsAssumption DEF LossExplained, Take
<1> QED
  BY <1>3, <1>4, <1>5, <1>6, <1>7

LEMMA MainInv ==
  ASSUME WorkerInv, GetError \/ StartFails \/ Main \/ LogbufRace
  PROVE  WorkerInv'
<1> USE DEF WorkerInv
<1>1. CASE GetError
  BY <1>1, JobsAssumption
     DEF GetError, Take, WorkerTypeOK, RunJoined, FileTold, OnePlace,
         ResultsTrue, LossExplained
<1>2. CASE StartFails
  BY <1>2, JobsAssumption
     DEF StartFails, WorkerTypeOK, RunJoined, FileTold, OnePlace,
         ResultsTrue, LossExplained
<1>3. CASE Start
  BY <1>3, JobsAssumption
     DEF Start, WorkerTypeOK, RunJoined, FileTold, OnePlace,
         ResultsTrue, LossExplained, Alive, Streams
<1>4. CASE Join
  BY <1>4, JobsAssumption
     DEF Join, WorkerTypeOK, RunJoined, FileTold, OnePlace,
         ResultsTrue, LossExplained, Alive, Streams
<1>5. CASE SaveLog
  BY <1>5, JobsAssumption
     DEF SaveLog, WorkerTypeOK, RunJoined, FileTold, OnePlace,
         ResultsTrue, LossExplained
<1>6. CASE LogbufRace
  BY <1>6, JobsAssumption
     DEF LogbufRace, WorkerTypeOK, RunJoined, FileTold, OnePlace,
         ResultsTrue, LossExplained
<1> QED
  BY <1>1, <1>2, <1>3, <1>4, <1>5, <1>6 DEF Main

LEMMA PostResultInv ==
  ASSUME WorkerInv, PostResult
  PROVE  WorkerInv'
<1> USE DEF WorkerInv
<1>1. WorkerTypeOK'
  BY JobsAssumption DEF PostResult, WorkerTypeOK
<1>2. RunJoined' /\ FileTold'
  BY DEF PostResult, RunJoined, FileTold
<1>3. OnePlace'
  BY JobsAssumption DEF PostResult, OnePlace, WorkerTypeOK
<1>4. ResultsTrue'
  BY JobsAssumption
     DEF PostResult, ResultsTrue, OnePlace, FileTold, RunJoined, WorkerTypeOK
<1>5. LossExplained'
  <2> DEFINE new == [job |-> job, aborted |-> aborted, file |-> file]
  <2>1. /\ queue' = queue
        /\ \/ results' = results \cup {new} /\ trouble' = trouble
           \/ results' = results /\ trouble' = trouble \cup {job}
    BY DEF PostResult
  <2>2. new.job = job
    OBVIOUS
  <2>3. SUFFICES ASSUME NEW j \in Jobs \ queue
        PROVE  j \in trouble' \/ \E r \in results' : r.job = j
    BY <2>1 DEF LossExplained
  <2>4. j = job \/ j \in trouble \/ \E r \in results : r.job = j
    BY DEF LossExplained
  <2> HIDE DEF new
  <2> QED
    BY <2>1, <2>2, <2>4
<1> QED
  BY <1>1, <1>2, <1>3, <1>4, <1>5

(***************************************************************************)
(* A step of the child or of a goroutine.                                  *)
(***************************************************************************)
LEMMA ChildInv ==
  ASSUME WorkerInv, WriteOutput \/ ChildEnds
  PROVE  WorkerInv'
<1> USE DEF WorkerInv
<1>1. CASE WriteOutput
  BY <1>1, JobsAssumption
     DEF WriteOutput, WorkerTypeOK, RunJoined, FileTold, OnePlace,
         ResultsTrue, LossExplained, Alive
<1>2. CASE ChildEnds
  BY <1>2, JobsAssumption
     DEF ChildEnds, Gone, WorkerTypeOK, RunJoined, FileTold, OnePlace,
         ResultsTrue, LossExplained, Alive
<1> QED
  BY <1>1, <1>2

LEMMA JoinedInv ==
  ASSUME WorkerInv, WaitReturns \/ \E s \in Streams : ReadLogEnds(s)
  PROVE  WorkerInv'
<1> USE DEF WorkerInv
<1>1. /\ child = "gone" /\ waiting' \in BOOLEAN /\ readers' \subseteq Streams
      /\ UNCHANGED <<queue, results, pc, job, aborted, child, file, watch,
                     broken, trouble>>
  BY DEF WaitReturns, ReadLogEnds, WorkerTypeOK
<1>2. WorkerTypeOK'
  BY <1>1 DEF WorkerTypeOK
<1>3. RunJoined' /\ FileTold' /\ OnePlace'
  BY <1>1 DEF RunJoined, FileTold, OnePlace
<1>4. ResultsTrue' /\ LossExplained'
  BY <1>1 DEF ResultsTrue, LossExplained
<1> QED
  BY <1>2, <1>3, <1>4

LEMMA WatchInv ==
  ASSUME WorkerInv, NEW j \in Jobs \cup {Zero}, Watch(j)
  PROVE  WorkerInv'
<1> USE DEF WorkerInv
<1>1. CASE WatchFires(j) \/ DumpAnswered(j)
  BY <1>1
     DEF WatchFires, DumpAnswered, WorkerTypeOK, RunJoined, FileTold,
         OnePlace, ResultsTrue, LossExplained
<1>2. CASE DumpCopied(j) \/ DumpFails(j)
  BY <1>2, JobsAssumption
     DEF DumpCopied, DumpFails, Cancel, Gone, WorkerTypeOK, RunJoined,
         FileTold, OnePlace, ResultsTrue, LossExplained, Alive
<1> QED
  BY <1>1, <1>2 DEF Watch

LEMMA NextWorkerInv == WorkerInv /\ [Next]_vars => WorkerInv'
<1> SUFFICES ASSUME WorkerInv, [Next]_vars PROVE WorkerInv'
  OBVIOUS
<1>1. CASE UNCHANGED vars
  BY <1>1
     DEF vars, WorkerInv, WorkerTypeOK, RunJoined, FileTold, OnePlace,
         ResultsTrue, LossExplained
<1> QED
  BY <1>1, GetJobInv, MainInv, PostResultInv, ChildInv, JoinedInv, WatchInv
     DEF Next

LEMMA WorkerInvariant == Spec => []WorkerInv
BY InitWorkerInv, NextWorkerInv, PTL DEF Spec

-----------------------------------------------------------------------------
\* The variables of worker mode keep their types, a job is in hand exactly
\* while it is worked on, and runWorkerMode has no second child: the loop
\* leaves a run when its child is gone.
THEOREM WorkerTypeCorrect == Spec => []WorkerTypeOK
BY WorkerInvariant, PTL DEF WorkerInv

\* What postResult tells the portal is true: aborted exactly when there is no
\* output, a partial output only of a child that ended while it wrote, and one
\* result for a job of the portal.
THEOREM WorkerTellsTruth == Spec => []ResultsTrue
BY WorkerInvariant, PTL DEF WorkerInv

\* A job that getJob took from the portal is in hand, or reported, or was hit
\* by a failure that runWorkerMode does not retry.
THEOREM WorkerLosesNoJob == Spec => []LossExplained
BY WorkerInvariant, PTL DEF WorkerInv
=============================================================================
