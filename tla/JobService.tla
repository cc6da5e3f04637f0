------------------------------ MODULE JobService ------------------------------
(***************************************************************************)
(* fgate/service.py: QCService, the jobs of the API.  A client's submit    *)
(* makes the job's directory, enters the job in the table and hands it to  *)
(* a pool of workers; a worker fetches and processes the videos one after  *)
(* the other, one worker processing at a time, writes the report, removes  *)
(* the fetched sources and only then calls the job complete.               *)
(*                                                                         *)
(* Directories, sources, artifacts and reports are files; the table, the   *)
(* pool and the workers are lost when the API is restarted.                *)
(*                                                                         *)
(* A result says whether the video was judged, and if so whether evidence  *)
(* images were written for it (fgate/processing.py).                       *)
(***************************************************************************)
EXTENDS Naturals, Sequences, FiniteSets

CONSTANTS Jobs,         \* job ids: uuid4, never used twice
          MaxVideos,    \* bound: videos of a request
          Workers,      \* FGATE_WORKERS
          MaxRestarts,  \* bound: restarts of the API
          NoJob         \* the processing lock is free

ASSUME MaxVideosAssumption == MaxVideos \in Nat \ {0}
ASSUME WorkersAssumption == Workers \in Nat \ {0}
ASSUME NoJobIsNoJob == NoJob \notin Jobs

VARIABLES
    \* the job table, _jobs
    state,        \* state[j]: "unknown", "queued", "running", "complete" or "error"
    videos,       \* videos[j]: how many the request names
    completed,    \* completed[j]: completed_videos
    \* the pool and what each job's _run is doing
    queue, pc, results, sources, lock,
    \* the job directories
    made,         \* made[j]: the directory exists
    staged,       \* staged[j]: the videos whose source file is there
    images,       \* images[j]: the videos whose evidence images are there
    report,       \* report[j]: report.json, <<>> if there is none
    restarts

tableVars == <<state, videos, completed>>
diskVars == <<made, staged, images, report>>
vars == <<tableVars, queue, pc, results, sources, lock, diskVars, restarts>>

Result == [verdict : {"judged", "error"}, evidence : BOOLEAN]

Error == [verdict |-> "error", evidence |-> FALSE]

Steps == {"fetch", "lock", "process", "record", "report", "clean", "fail"}

TypeOK ==
    /\ state \in [Jobs -> {"unknown", "queued", "running", "complete", "error"}]
    /\ videos \in [Jobs -> 0..MaxVideos]
    /\ completed \in [Jobs -> 0..MaxVideos]
    /\ queue \in Seq(Jobs)
    /\ pc \in [Jobs -> {"none", "submitting", "queued", "ended"} \cup Steps]
    /\ results \in [Jobs -> Seq(Result)]
    /\ sources \in [Jobs -> SUBSET (1..MaxVideos)]
    /\ lock \in Jobs \cup {NoJob}
    /\ made \in [Jobs -> BOOLEAN]
    /\ staged \in [Jobs -> SUBSET (1..MaxVideos)]
    /\ images \in [Jobs -> SUBSET (1..MaxVideos)]
    /\ report \in [Jobs -> Seq(Result)]
    /\ restarts \in Nat

Init ==
    /\ state = [j \in Jobs |-> "unknown"]
    /\ videos = [j \in Jobs |-> 0]
    /\ completed = [j \in Jobs |-> 0]
    /\ queue = <<>>
    /\ pc = [j \in Jobs |-> "none"]
    /\ results = [j \in Jobs |-> <<>>]
    /\ sources = [j \in Jobs |-> {}]
    /\ lock = NoJob
    /\ made = [j \in Jobs |-> FALSE]
    /\ staged = [j \in Jobs |-> {}]
    /\ images = [j \in Jobs |-> {}]
    /\ report = [j \in Jobs |-> <<>>]
    /\ restarts = 0

GoTo(j, step) == pc' = [pc EXCEPT ![j] = step]

Current(j) == Len(results[j]) + 1

------------------------------------------------------------------------------
(* submit *)

CreateJob(j) ==
    /\ ~made[j]
    /\ made' = [made EXCEPT ![j] = TRUE]
    /\ GoTo(j, "submitting")
    /\ UNCHANGED <<tableVars, queue, results, sources, lock, staged, images, report,
                   restarts>>

Enqueue(j, n) ==
    /\ pc[j] = "submitting"
    /\ state' = [state EXCEPT ![j] = "queued"]
    /\ videos' = [videos EXCEPT ![j] = n]
    /\ queue' = Append(queue, j)
    /\ GoTo(j, "queued")
    /\ UNCHANGED <<completed, results, sources, lock, diskVars, restarts>>

------------------------------------------------------------------------------
(* _run *)

Begin ==
    /\ queue # <<>>
    /\ Cardinality({j \in Jobs : pc[j] \in Steps}) < Workers
    /\ queue' = Tail(queue)
    /\ state' = [state EXCEPT ![Head(queue)] = "running"]
    /\ GoTo(Head(queue), "fetch")
    /\ UNCHANGED <<videos, completed, results, sources, lock, diskVars, restarts>>

Fetch(j) ==
    /\ pc[j] = "fetch"
    /\ staged' = [staged EXCEPT ![j] = @ \cup {Current(j)}]
    /\ sources' = [sources EXCEPT ![j] = @ \cup {Current(j)}]
    /\ GoTo(j, "lock")
    /\ UNCHANGED <<tableVars, queue, results, lock, made, images, report, restarts>>

\* The exception becomes the video's result.
FetchFails(j) ==
    /\ pc[j] = "fetch"
    /\ results' = [results EXCEPT ![j] = Append(@, Error)]
    /\ GoTo(j, "record")
    /\ UNCHANGED <<tableVars, queue, sources, lock, diskVars, restarts>>

\* with self._processing_lock
LockIgnored == TRUE

LockFree == lock = NoJob

Acquire(j) ==
    /\ pc[j] = "lock"
    /\ LockFree
    /\ lock' = j
    /\ GoTo(j, "process")
    /\ UNCHANGED <<tableVars, queue, results, sources, diskVars, restarts>>

\* processor.process returns; a video it cannot decode is an error result.
Process(j) ==
    /\ pc[j] = "process"
    /\ \E r \in Result :
            /\ r.evidence => r.verdict = "judged"
            /\ results' = [results EXCEPT ![j] = Append(@, r)]
            /\ images' = IF r.evidence THEN [images EXCEPT ![j] = @ \cup {Current(j)}]
                         ELSE images
    /\ lock' = NoJob
    /\ GoTo(j, "record")
    /\ UNCHANGED <<tableVars, queue, sources, made, staged, report, restarts>>

\* It raises, perhaps after some images were moved into place.
LockKeptOnError(j) ==
    /\ pc[j] = "process"
    /\ results' = [results EXCEPT ![j] = Append(@, Error)]
    /\ images' \in {images, [images EXCEPT ![j] = @ \cup {Current(j)}]}
    /\ GoTo(j, "record")
    /\ UNCHANGED <<tableVars, queue, sources, lock, made, staged, report, restarts>>

ProcessRaises(j) ==
    /\ pc[j] = "process"
    /\ results' = [results EXCEPT ![j] = Append(@, Error)]
    /\ images' \in {images, [images EXCEPT ![j] = @ \cup {Current(j)}]}
    /\ lock' = NoJob
    /\ GoTo(j, "record")
    /\ UNCHANGED <<tableVars, queue, sources, made, staged, report, restarts>>

\* completed_videos = len(results); then the next video, or the report.
AllButOne(j) == Len(results[j]) + 1 >= videos[j]

AllVideos(j) == Len(results[j]) = videos[j]

RecordAndClean(j) ==
    /\ pc[j] = "record"
    /\ completed' = [completed EXCEPT ![j] = Len(results[j])]
    /\ GoTo(j, IF AllVideos(j) THEN "report" ELSE "fetch")
    /\ staged' = [staged EXCEPT ![j] = {}]
    /\ UNCHANGED <<state, videos, queue, results, sources, lock, made, images, report,
                   restarts>>

RecordAhead(j) ==
    /\ pc[j] = "record"
    /\ completed' = [completed EXCEPT ![j] = Current(j)]
    /\ GoTo(j, IF AllVideos(j) THEN "report" ELSE "fetch")
    /\ UNCHANGED <<state, videos, queue, results, sources, lock, diskVars, restarts>>

Record(j) ==
    /\ pc[j] = "record"
    /\ completed' = [completed EXCEPT ![j] = Len(results[j])]
    /\ GoTo(j, IF AllVideos(j) THEN "report" ELSE "fetch")
    /\ UNCHANGED <<state, videos, queue, results, sources, lock, diskVars, restarts>>

\* write_report: a .partial file, fsync, replace.
WriteReport(j) ==
    /\ pc[j] = "report"
    /\ report' = [report EXCEPT ![j] = results[j]]
    /\ GoTo(j, "clean")
    /\ UNCHANGED <<tableVars, queue, results, sources, lock, made, staged, images, restarts>>

ReportFailureIgnored(j) ==
    /\ pc[j] = "report"
    /\ GoTo(j, "clean")
    /\ UNCHANGED <<tableVars, queue, results, sources, lock, diskVars, restarts>>

ReportFails(j) ==
    /\ pc[j] = "report"
    /\ GoTo(j, "fail")
    /\ UNCHANGED <<tableVars, queue, results, sources, lock, diskVars, restarts>>

\* source.unlink(missing_ok=True), in the order of fetching.
Clean(j) ==
    /\ pc[j] = "clean"
    /\ \E v \in sources[j] :
            /\ \A u \in sources[j] : v <= u
            /\ sources' = [sources EXCEPT ![j] = @ \ {v}]
            /\ staged' = [staged EXCEPT ![j] = @ \ {v}]
    /\ UNCHANGED <<tableVars, queue, pc, results, lock, made, images, report, restarts>>

CleanFails(j) ==
    /\ pc[j] = "clean"
    /\ sources[j] # {}
    /\ GoTo(j, "fail")
    /\ UNCHANGED <<tableVars, queue, results, sources, lock, diskVars, restarts>>

Complete(j) ==
    /\ pc[j] = "clean"
    /\ sources[j] = {}
    /\ state' = [state EXCEPT ![j] = "complete"]
    /\ GoTo(j, "ended")
    /\ UNCHANGED <<videos, completed, queue, results, sources, lock, diskVars, restarts>>

Fail(j) ==
    /\ pc[j] = "fail"
    /\ state' = [state EXCEPT ![j] = "error"]
    /\ GoTo(j, "ended")
    /\ UNCHANGED <<videos, completed, queue, results, sources, lock, diskVars, restarts>>

------------------------------------------------------------------------------

\* The API process is replaced; the files stay.
Restart ==
    /\ restarts < MaxRestarts
    /\ restarts' = restarts + 1
    /\ state' = [j \in Jobs |-> "unknown"]
    /\ videos' = [j \in Jobs |-> 0]
    /\ completed' = [j \in Jobs |-> 0]
    /\ queue' = <<>>
    /\ pc' = [j \in Jobs |-> "none"]
    /\ results' = [j \in Jobs |-> <<>>]
    /\ sources' = [j \in Jobs |-> {}]
    /\ lock' = NoJob
    /\ UNCHANGED diskVars

Submit(j) == CreateJob(j) \/ \E n \in 1..MaxVideos : Enqueue(j, n)

Work(j) ==
    \/ Fetch(j) \/ FetchFails(j)
    \/ Acquire(j) \/ Process(j) \/ ProcessRaises(j)
    \/ Record(j)
    \/ WriteReport(j) \/ ReportFails(j)
    \/ Clean(j) \/ CleanFails(j)
    \/ Complete(j) \/ Fail(j)

Next == (\E j \in Jobs : Submit(j) \/ Work(j)) \/ Begin \/ Restart

Spec == Init /\ [][Next]_vars

\* The pool starts queued jobs and its threads run; fetching and processing a
\* video end some time.
Fairness == WF_vars(Begin) /\ \A j \in Jobs : WF_vars(Work(j))

FairSpec == Spec /\ Fairness

------------------------------------------------------------------------------
(* Properties. *)

\* A client that sees COMPLETE finds a report with a result for every video,
\* every evidence image the report names, and no source left behind (_run sets
\* the state last).
CompleteMeansReported ==
    \A j \in Jobs : state[j] = "complete" =>
        /\ Len(report[j]) = videos[j]
        /\ \A v \in 1..Len(report[j]) : report[j][v].evidence => v \in images[j]
        /\ staged[j] = {}

\* TASKS FG-108, "staged sources are removed only after verified report writes".
SourcesKeptUntilReported ==
    [][\A j \in Jobs : staged[j] \subseteq staged'[j] \/ report[j] # <<>>]_vars

\* One video is processed at a time, whatever the number of workers: the detector
\* has one inference context (_processing_lock).
OneVideoAtATime ==
    \A i, j \in Jobs : pc[i] = "process" /\ pc[j] = "process" => i = j

\* The service implements its promise to the client, who sees of a job its state,
\* its progress and, once it is complete, its report.
PhaseOf(s) == IF s \in {"queued", "running"} THEN "working" ELSE s

Promise == INSTANCE ApiJobs WITH
               Results <- Result,
               phase <- [j \in Jobs |-> PhaseOf(state[j])],
               total <- videos,
               progress <- completed,
               answer <- [j \in Jobs |-> IF state[j] = "complete" THEN report[j] ELSE <<>>]

ImplementsJobs == Promise!Spec

\* A job that was accepted ends, or is forgotten in a restart: neither a failing
\* video nor a failing job keeps the lock or a worker.
JobsEnd == \A j \in Jobs :
    state[j] \in {"queued", "running"} ~> state[j] \in {"complete", "error", "unknown"}
==============================================================================
