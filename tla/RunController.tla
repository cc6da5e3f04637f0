---------------------------- MODULE RunController ----------------------------
(***************************************************************************)
(* qc_pipeline/controller.py: a process that stages the items of an R2     *)
(* manifest cohort by cohort, downloads and judges each cohort on two      *)
(* pools of threads, publishes the results and releases the staged files.  *)
(* The operator runs it again, with or without retry_only, after every end *)
(* and every crash; the run directory and R2 survive, the process does not.*)
(*                                                                         *)
(* Simplifications.                                                        *)
(*  - One process at a time, always with the frozen job.json.              *)
(*  - Journal records reach the disk whole (ProgressJournal and            *)
(*    BatchRunner have the torn ones).                                     *)
(*  - upload_create_only is one step with the outcomes R2Store allows; a   *)
(*    PUT that arrives after its sender gave up is left to R2Store.        *)
(*  - An object replaced at the source has the size of the declared one:   *)
(*    another size is refused at the same places.                          *)
(*  - Every video yields one evidence image, a function of the staged      *)
(*    bytes; a result carries the seconds its judging took, so no two      *)
(*    attempts write the same one, and a report the time it was made.      *)
(*  - The detector is the static one (a context per lane); the shared,     *)
(*    batching one is DetectorBatchService.                                *)
(***************************************************************************)
EXTENDS FiniteSets, SequencesExt

CONSTANTS
    Manifest,           \* job.source.items, in order
    Size,               \* Size[i]: size_bytes
    MaxStaging,         \* job.runtime.max_staging_bytes
    DownloadWorkers,    \* job.runtime.download_workers
    Lanes,              \* the job.runtime.processing_workers threads of a pool
    MaxAttempts,        \* job.runtime.max_attempts
    None,               \* no item, no object, no file
    MaxCrashes,         \* bound: deaths of the process
    MaxFailures,        \* bound: calls of R2, the disk or the judge that fail or whose
                        \* answer is lost
    MaxSwaps            \* bound: replacements of source objects

Items == Range(Manifest)

ASSUME ManifestAssumption == Manifest \in Seq(Items) /\ IsInjective(Manifest)
ASSUME SizeAssumption == Size \in [Items -> Nat \ {0}]
ASSUME LimitAssumption == {MaxAttempts, DownloadWorkers} \subseteq Nat \ {0} /\ MaxStaging \in Nat
ASSUME BoundsAssumption == {MaxCrashes, MaxFailures, MaxSwaps} \subseteq Nat

VARIABLES
    \* R2: the source objects, and the keys this job creates
    source, evidence, results, report,
    \* the run directory: journal, staged files and unfinished downloads
    latest, attempts, file, partial,
    \* the process
    phase,
    selected,   \* the items that run() selected and no cohort has yet
    cohorts,
    task,       \* task[i]: how far the thread that has item i is
    lane,       \* lane[l]: the item on processing thread l
    held,       \* held[l]: the detector in the thread's local storage
    unclaimed,  \* _unclaimed_detector is still there
    crashes, failures, swaps

bucketVars == <<source, evidence, results, report>>
journalVars == <<latest, attempts>>
diskVars == <<file, partial>>
laneVars == <<lane, held, unclaimed>>
spentVars == <<crashes, failures, swaps>>
planVars == <<selected, cohorts>>

vars == <<bucketVars, journalVars, diskVars, phase, planVars, task, laneVars, spentVars>>

------------------------------------------------------------------------------
Declared == "declared"

Copies == {Declared, "other"}

\* A result is the judgement of some bytes by one attempt.
Results == [attempt : Nat, of : Copies]

ASSUME NoneAssumption == None \notin Items \cup Copies \cup Results

Statuses == {"attempting", "downloading", "downloaded", "processing", "processed",
             "result_uploaded", "freed", "conflict", "quarantined", "failed-retryable"}

Terminal == {"freed", "conflict", "quarantined"}

Journal == INSTANCE Ledger WITH Details <- Results, NoDetail <- None, health <- "whole"

Status(i) == latest[i].status

Journaled(i, s) == Journal!Recorded(i, s, None)

\* A thread has the item; its failure is not recorded yet; nobody has it.
Downloading == {"heading", "getting", "replacing", "landed"}
Judging == {"starting", "claiming", "inferring", "evidence", "result", "uploaded", "clearing",
            "cleared"}
Raised == {"conflict", "failure"}
Tasks == {"idle", "selected", "queued", "fetched"} \cup Downloading \cup Judging \cup Raised

Staged == Tasks \ {"idle"}

\* A byte of an item is the item and the place of the byte in it.
Bytes(S) == Cardinality(UNION {{i} \X (1..Size[i]) : i \in S})

Init ==
    /\ source = [i \in Items |-> Declared]
    /\ evidence = [i \in Items |-> None]
    /\ results = [i \in Items |-> None]
    /\ report = None
    /\ Journal!Init
    /\ file = [i \in Items |-> None]
    /\ partial = [i \in Items |-> None]
    /\ phase = "down"
    /\ selected = {}
    /\ cohorts = <<>>
    /\ task = [i \in Items |-> "idle"]
    /\ lane = [l \in Lanes |-> None]
    /\ held = [l \in Lanes |-> "none"]
    /\ unclaimed = FALSE
    /\ crashes = 0
    /\ failures = 0
    /\ swaps = 0

------------------------------------------------------------------------------
(* run(): selection and cohorts. *)

\* A plausible slip: the item itself is not counted.
OpensLate(open, i) == Bytes(ToSet(open)) > MaxStaging

\* _cohorts: an item opens a cohort when the open one has no room for it.
Opens(open, i) == Bytes(ToSet(open)) + Size[i] > MaxStaging

Placed(packed, i) ==
    IF packed # <<>> /\ ~Opens(Last(packed), i)
    THEN [packed EXCEPT ![Len(packed)] = Append(@, i)]
    ELSE Append(packed, <<i>>)

SelectedIfFailed(retryOnly, i) == Status(i) \in {"none", "failed-retryable"}

\* The items an ordinary run, or one with retry_only, takes up.
Selected(retryOnly, i) ==
    IF retryOnly THEN Status(i) = "failed-retryable" ELSE Status(i) \notin Terminal

\* RunController() and the head of run(): an item larger than the limit ends it.
Start(retryOnly) ==
    /\ phase = "down"
    /\ selected' = {i \in Items : Selected(retryOnly, i)}
    /\ \A i \in selected' : Size[i] <= MaxStaging
    /\ phase' = "packing"
    /\ unclaimed' = TRUE
    /\ UNCHANGED <<bucketVars, journalVars, diskVars, cohorts, task, lane, held, spentVars>>

\* _cohorts takes the selected items in the manifest's order.
Pack(n) ==
    /\ phase = "packing"
    /\ Manifest[n] \in selected
    /\ \A m \in 1..(n - 1) : Manifest[m] \notin selected
    /\ selected' = selected \ {Manifest[n]}
    /\ cohorts' = Placed(cohorts, Manifest[n])
    /\ UNCHANGED <<bucketVars, journalVars, diskVars, phase, task, laneVars, spentVars>>

Packed ==
    /\ phase = "packing"
    /\ selected = {}
    /\ phase' = "cohort"
    /\ UNCHANGED <<bucketVars, journalVars, diskVars, planVars, task, laneVars, spentVars>>

OpenCohort ==
    /\ phase = "cohort"
    /\ cohorts # <<>>
    /\ phase' = "attempting"
    /\ task' = [i \in Items |-> IF i \in ToSet(Head(cohorts)) THEN "selected" ELSE "idle"]
    /\ UNCHANGED <<bucketVars, journalVars, diskVars, planVars, laneVars, spentVars>>

\* The whole cohort is attempted before any of it is downloaded.
Attempt ==
    /\ phase = "attempting"
    /\ \E n \in DOMAIN Head(cohorts) :
        LET i == Head(cohorts)[n] IN
        /\ task[i] = "selected"
        /\ \A m \in 1..(n - 1) : task[Head(cohorts)[m]] # "selected"
        /\ Journaled(i, "attempting")
        /\ task' = [task EXCEPT ![i] = "queued"]
        /\ phase' = IF n = Len(Head(cohorts)) THEN "downloading" ELSE phase
    /\ UNCHANGED <<bucketVars, diskVars, planVars, laneVars, spentVars>>

\* Leaving a pool joins its threads; their local storage goes with them.
Downloaded ==
    /\ phase = "downloading"
    /\ \A i \in Items : task[i] \in {"idle", "fetched"}
    /\ phase' = "judging"
    /\ UNCHANGED <<bucketVars, journalVars, diskVars, planVars, task, laneVars, spentVars>>

CloseCohort ==
    /\ phase = "judging"
    /\ \A i \in Items : task[i] = "idle"
    /\ phase' = "cohort"
    /\ cohorts' = Tail(cohorts)
    /\ held' = [l \in Lanes |-> "none"]
    /\ UNCHANGED <<bucketVars, journalVars, diskVars, selected, task, lane, unclaimed, spentVars>>

------------------------------------------------------------------------------
(* The download pool: _download and R2Store.download. *)

Goes(i, from, to) == task[i] = from /\ task' = [task EXCEPT ![i] = to]

Works(i, from, to) == Goes(i, from, to) /\ UNCHANGED failures

Fails(i, from, to) ==
    /\ failures < MaxFailures
    /\ failures' = failures + 1
    /\ Goes(i, from, to)

\* What a step on one item leaves of the bounds.
SpendsFailures == UNCHANGED <<crashes, swaps>>

Busy == {j \in Items : task[j] \in Downloading}

\* The pool takes the cohort's items in order.
FirstQueued(i) == \A n \in DOMAIN Head(cohorts) :
                task[Head(cohorts)[n]] = "queued" =>
                    \E m \in 1..n : Head(cohorts)[m] = i

BeginDownload(i) ==
    /\ phase = "downloading"
    /\ Cardinality(Busy) < DownloadWorkers
    /\ FirstQueued(i)
    /\ \/ /\ file[i] # None
          /\ Goes(i, "queued", "fetched")
          /\ Journaled(i, "downloaded")
       \/ /\ file[i] = None
          /\ Goes(i, "queued", "heading")
          /\ Journaled(i, "downloading")
    /\ UNCHANGED <<bucketVars, diskVars, phase, planVars, laneVars, spentVars>>

\* HEAD: the object is the declared one, or another (SourceConflict), or no answer.
HeadSource(i) ==
    /\ \/ source[i] = Declared /\ Works(i, "heading", "getting")
       \/ source[i] # Declared /\ Works(i, "heading", "conflict")
       \/ Fails(i, "heading", "failure")
    /\ SpendsFailures
    /\ UNCHANGED <<bucketVars, journalVars, diskVars, phase, planVars, laneVars>>

MatchesAny(i) == TRUE

\* GET with If-Match: the object of this moment, if it is still the declared one.
Matches(i) == source[i] = Declared

GetSource(i) ==
    /\ \/ /\ Matches(i)
          /\ Works(i, "getting", "replacing")
          /\ partial' = [partial EXCEPT ![i] = source[i]]
       \/ ~Matches(i) /\ Works(i, "getting", "failure") /\ UNCHANGED partial
       \/ Fails(i, "getting", "failure") /\ UNCHANGED partial
    /\ SpendsFailures
    /\ UNCHANGED <<bucketVars, journalVars, file, phase, planVars, laneVars>>

\* The size holds and the file moves into place, or the partial file is removed.
ReplaceFile(i) ==
    /\ \/ Works(i, "replacing", "landed") /\ file' = [file EXCEPT ![i] = partial[i]]
       \/ Fails(i, "replacing", "failure") /\ UNCHANGED file
    /\ partial' = [partial EXCEPT ![i] = None]
    /\ SpendsFailures
    /\ UNCHANGED <<bucketVars, journalVars, phase, planVars, laneVars>>

JournalDownload(i) ==
    /\ Goes(i, "landed", "fetched")
    /\ Journaled(i, "downloaded")
    /\ UNCHANGED <<bucketVars, diskVars, phase, planVars, laneVars, spentVars>>

DownloadStep(i) == BeginDownload(i) \/ HeadSource(i) \/ GetSource(i) \/ ReplaceFile(i)
                   \/ JournalDownload(i)

------------------------------------------------------------------------------
(* The processing pool: _process_one and _upload_processed. *)

BeginProcessing(l, i) ==
    /\ phase = "judging"
    /\ lane[l] = None
    /\ Goes(i, "fetched", "claiming")
    /\ Journaled(i, "processing")
    /\ lane' = [lane EXCEPT ![l] = i]
    /\ UNCHANGED <<bucketVars, diskVars, phase, planVars, held, unclaimed, spentVars>>

ClaimUnlocked(l) ==
    /\ lane[l] # None
    /\ Goes(lane[l], "claiming", "inferring")
    /\ held' = [held EXCEPT ![l] = IF @ # "none" THEN @
                                   ELSE IF unclaimed THEN "primary" ELSE "own"]
    /\ unclaimed' \in {unclaimed, FALSE}
    /\ UNCHANGED <<bucketVars, journalVars, diskVars, phase, planVars, lane, spentVars>>

\* _detector(): the thread's own, else the controller's first one, else a new one.
Claim(l) ==
    /\ lane[l] # None
    /\ Goes(lane[l], "claiming", "inferring")
    /\ held' = [held EXCEPT ![l] = IF @ # "none" THEN @
                                   ELSE IF unclaimed THEN "primary" ELSE "own"]
    /\ unclaimed' = (unclaimed /\ held[l] # "none")
    /\ UNCHANGED <<bucketVars, journalVars, diskVars, phase, planVars, lane, spentVars>>

\* What a lane leaves alone while it works on its item.
LaneKeeps == SpendsFailures /\ UNCHANGED <<source, report, partial, phase, planVars, laneVars>>

Judge(i) ==
    /\ \/ Works(i, "inferring", "evidence") /\ Journaled(i, "processed")
       \/ Fails(i, "inferring", "failure") /\ UNCHANGED journalVars
    /\ LaneKeeps
    /\ UNCHANGED <<evidence, results, file>>

\* The result this attempt has in memory.
Product(i) == [attempt |-> attempts[i], of |-> file[i]]

\* An upload that only failed is taken for done.
UploadsBlindly(i, from, to, o, c, n) ==
    \/ n = (IF o = None THEN c ELSE o) /\ Works(i, from, IF n = c THEN to ELSE "conflict")
    \/ n = o /\ Fails(i, from, to)
    \/ o = None /\ n = c /\ \E e \in Raised : Fails(i, from, e)

\* upload_create_only(c) at a key that holds o, and holds n afterwards: it ends as
\* the key stands, or fails before or after the PUT, or its response is lost and the
\* re-sent copy is refused.
Uploads(i, from, to, o, c, n) ==
    \/ n = (IF o = None THEN c ELSE o) /\ Works(i, from, IF n = c THEN to ELSE "conflict")
    \/ n = o /\ Fails(i, from, "failure")
    \/ o = None /\ n = c /\ \E e \in Raised : Fails(i, from, e)

UploadEvidence(i) ==
    /\ \E n \in Copies \cup {None} :
        /\ Uploads(i, "evidence", "result", evidence[i], file[i], n)
        /\ evidence' = [evidence EXCEPT ![i] = n]
    /\ LaneKeeps
    /\ UNCHANGED <<results, journalVars, file>>

\* The directory is removed before the upload is recorded.
UploadResultAndClear(i) ==
    /\ \E n \in {results[i], Product(i)} :
        /\ Uploads(i, "result", "uploaded", results[i], Product(i), n)
        /\ results' = [results EXCEPT ![i] = n]
    /\ file' = [file EXCEPT ![i] = None]
    /\ LaneKeeps
    /\ UNCHANGED <<evidence, journalVars>>

UploadResult(i) ==
    /\ \E n \in {results[i], Product(i)} :
        /\ Uploads(i, "result", "uploaded", results[i], Product(i), n)
        /\ results' = [results EXCEPT ![i] = n]
    /\ LaneKeeps
    /\ UNCHANGED <<evidence, journalVars, file>>

JournalUpload(i) ==
    /\ Works(i, "uploaded", "clearing")
    /\ Journal!Recorded(i, "result_uploaded", Product(i))
    /\ LaneKeeps
    /\ UNCHANGED <<evidence, results, file>>

\* rmtree(item_dir), which may raise before or after it removed the video.
Clear(i) ==
    /\ \/ Works(i, "clearing", "cleared") /\ file' = [file EXCEPT ![i] = None]
       \/ Fails(i, "clearing", "failure") /\ file' \in {file, [file EXCEPT ![i] = None]}
    /\ LaneKeeps
    /\ UNCHANGED <<evidence, results, journalVars>>

\* The record repeats the digest of the upload's.
JournalFreed(l, i) ==
    /\ lane[l] = i
    /\ Goes(i, "cleared", "idle")
    /\ Journal!Recorded(i, "freed", latest[i].detail)
    /\ lane' = [lane EXCEPT ![l] = None]
    /\ UNCHANGED <<bucketVars, diskVars, phase, planVars, held, unclaimed, spentVars>>

LaneStep(l) ==
    \/ \E i \in Items : BeginProcessing(l, i) \/ JournalFreed(l, i)
    \/ Claim(l)

JudgeStep(i) == Judge(i) \/ UploadEvidence(i) \/ UploadResult(i) \/ JournalUpload(i) \/ Clear(i)

------------------------------------------------------------------------------
\* _record_failure, in the main thread as the futures end.
FailureStatus(i) ==
    IF task[i] = "conflict" THEN "conflict"
    ELSE IF attempts[i] >= MaxAttempts THEN "quarantined" ELSE "failed-retryable"

RecordFailure(i) ==
    /\ task[i] \in Raised
    /\ Journaled(i, FailureStatus(i))
    /\ task' = [task EXCEPT ![i] = "idle"]
    /\ lane' = [l \in Lanes |-> IF lane[l] = i THEN None ELSE lane[l]]
    /\ UNCHANGED <<bucketVars, diskVars, phase, planVars, held, unclaimed, spentVars>>

ItemStep == \E i \in Items : DownloadStep(i) \/ JudgeStep(i) \/ RecordFailure(i)

------------------------------------------------------------------------------
(* The end of run(). *)

Freed == {i \in Items : Status(i) = "freed"}

\* The results of the freed items are read back from R2; the report is published
\* if none is missing, and never when one was published before.
Finish ==
    /\ phase = "cohort"
    /\ cohorts = <<>>
    /\ phase' = "down"
    /\ \/ UNCHANGED report
       \/ /\ Freed = Items
          /\ report = None
          /\ report' = results
    /\ unclaimed' = FALSE
    /\ UNCHANGED <<source, evidence, results, journalVars, diskVars, planVars, task, lane, held,
                   spentVars>>

\* The process dies: threads, cohorts and detectors go, files and bucket stay.
Crash ==
    /\ phase # "down"
    /\ crashes < MaxCrashes
    /\ crashes' = crashes + 1
    /\ phase' = "down"
    /\ selected' = {}
    /\ cohorts' = <<>>
    /\ task' = [i \in Items |-> "idle"]
    /\ lane' = [l \in Lanes |-> None]
    /\ held' = [l \in Lanes |-> "none"]
    /\ unclaimed' = FALSE
    /\ UNCHANGED <<bucketVars, journalVars, diskVars, failures, swaps>>

\* Somebody replaces a source object, or restores it.
SwapSource(i) ==
    /\ swaps < MaxSwaps
    /\ swaps' = swaps + 1
    /\ source' = [source EXCEPT ![i] = IF @ = Declared THEN "other" ELSE Declared]
    /\ UNCHANGED <<evidence, results, report, journalVars, diskVars, phase, planVars, task,
                   laneVars, crashes, failures>>

PackStep == Packed \/ \E n \in DOMAIN Manifest : Pack(n)

CohortStep == PackStep \/ OpenCohort \/ Attempt \/ Downloaded \/ CloseCohort \/ Finish

ControllerStep == CohortStep \/ ItemStep \/ \E l \in Lanes : LaneStep(l)

Next == \/ \E retryOnly \in BOOLEAN : Start(retryOnly)
        \/ ControllerStep
        \/ Crash
        \/ \E i \in Items : SwapSource(i)

Spec == Init /\ [][Next]_vars

\* Threads run, and the operator repeats the command without retry_only.
FairSpec == Spec /\ WF_vars(ControllerStep) /\ SF_vars(Start(FALSE))

------------------------------------------------------------------------------
(* Properties. *)

\* Types of R2, the run directory and the process.
TypeOK ==
    /\ source \in [Items -> Copies]
    /\ evidence \in [Items -> Copies \cup {None}]
    /\ results \in [Items -> Results \cup {None}]
    /\ report \in [Items -> Results \cup {None}] \cup {None}
    /\ Journal!TypeOK
    /\ file \in [Items -> Copies \cup {None}]
    /\ partial \in [Items -> Copies \cup {None}]
    /\ phase \in {"down", "packing", "cohort", "attempting", "downloading", "judging"}
    /\ selected \in SUBSET Items
    /\ cohorts \in Seq(Seq(Items))
    /\ task \in [Items -> Tasks]
    /\ lane \in [Lanes -> Items \cup {None}]
    /\ held \in [Lanes -> {"none", "primary", "own"}]
    /\ unclaimed \in BOOLEAN
    /\ crashes \in 0..MaxCrashes
    /\ failures \in 0..MaxFailures
    /\ swaps \in 0..MaxSwaps

\* controller.py:144 takes a staged file of the right size for the declared one,
\* in whichever run it was left: it is, through every replacement of the source
\* object between HEAD, GET, crash and retry, and so is what was published of it.
StagedIsDeclared ==
    \A i \in Items :
        /\ file[i] \in {None, Declared}
        /\ evidence[i] \in {None, Declared}
        /\ results[i] # None => results[i].of = Declared

\* The declared bytes of the items at work fit max_staging_bytes; what else is on
\* the disk (controller.py:50) is left over from an item that failed or a crash.
StagingBounded ==
    /\ Bytes({i \in Items : task[i] \in Staged}) <= MaxStaging
    /\ crashes = 0 =>
        \A i \in Items : file[i] # None /\ task[i] = "idle" =>
            Status(i) \in {"failed-retryable", "conflict", "quarantined"}

\* An item is recorded as uploaded or freed when its result and its evidence are at
\* R2 and are those of the recorded attempt; a report has the result of every item,
\* as R2 does.
ReleasedIsPublished ==
    /\ \A i \in Items : Status(i) \in {"result_uploaded", "freed"} =>
        /\ results[i] # None
        /\ results[i] = latest[i].detail
        /\ evidence[i] # None
    /\ report # None => report = results /\ \A i \in Items : results[i] # None

\* Two lanes never run inference in the same context: the first detector goes to one
\* thread, whatever the order in which the threads ask for it.
LanesOwnDetectors ==
    \A l, m \in Lanes : held[l] = "primary" /\ held[m] = "primary" => l = m

\* Repeating the ordinary command ends every item, whatever crashes and passes with
\* retry_only (which leaves interrupted items alone, controller.py:273) lie between.
ItemsEnd == <>[](\A i \in Items : Status(i) \in Terminal)
==============================================================================
