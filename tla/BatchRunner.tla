----------------------------- MODULE BatchRunner -----------------------------
(***************************************************************************)
(* fgate/batch.py: `fgate batch`, one process that takes the items of an   *)
(* R2 manifest through the QC API and publishes their results, and the     *)
(* operator who runs the command again after every end, crash or refusal.  *)
(*                                                                         *)
(* The process keeps a run directory (frozen job.json and policy.sha256,   *)
(* progress.jsonl, one directory per item) that survives it; everything    *)
(* else it knows is lost with it.  It talks to R2 (module R2Store, with    *)
(* one writer), to its journal (module Ledger, which ProgressJournal       *)
(* implements) and to the API, of which a run sees one job at a time.      *)
(*                                                                         *)
(* Simplifications.                                                        *)
(*  - The operator starts one process at a time and always with the same   *)
(*    job.json (a different one is refused by _freeze before any step).    *)
(*  - status() and report() of a completed job are one step: a job lost    *)
(*    between them fails the item as a job lost before status() does.      *)
(*  - The artifacts of one item are uploaded in any order; their keys      *)
(*    differ.                                                              *)
(*  - A result carries the id of its API job, so no two attempts build the *)
(*    same result (provenance.fgate_job_id); a report carries the time it  *)
(*    was made, so no two runs build the same report.                      *)
(***************************************************************************)
EXTENDS FiniteSetsExt

CONSTANTS
    NumItems,       \* items of the manifest, in order
    MaxAttempts,    \* job.runtime.max_attempts
    ArtifactIds,    \* evidence a report may name for a video
    Digests,        \* distinguishable evidence images
    Policies,       \* policy hashes a backend may serve
    Foreign,        \* an object somebody else left at a result key
    Runner,         \* the process, as a writer to R2
    Absent,         \* no object, no file, no detail
    Partial,        \* a file whose writing was cut short
    MaxFaults,      \* bound: crashes, and journal appends that write and then raise
    MaxTears,       \* bound: journal appends that write short
    MaxSwaps,       \* bound: replacements of source objects
    MaxDeploys      \* bound: restarts of the API

Items == 1..NumItems

ASSUME NumItemsAssumption == NumItems \in Nat \ {0}
ASSUME MaxAttemptsAssumption == MaxAttempts \in 1..5
ASSUME BoundsAssumption == {MaxFaults, MaxTears, MaxSwaps, MaxDeploys} \subseteq Nat

VARIABLES
    \* R2
    objects, upload, late,
    \* the journal
    latest, attempts, health,
    \* the rest of the run directory
    frozenJob,      \* job.json: "absent", "partial" or "whole"
    frozenPolicy,   \* policy.sha256
    local,          \* local[i]: the item's directory exists
    \* the process
    pc, runPolicy, todo, item, product, left, cause,
    \* the sources and the API
    source,         \* source[i]: what the source key holds now
    backend,        \* the policy hash the API serves
    job,            \* the API job of the attempt under way
    jobs,           \* API jobs submitted so far: the next job's id
    \* what was spent of the bounds, and one history flag
    faults, tears, swaps, deploys,
    policyMoved     \* the API changed its policy in the middle of a run

storeVars == <<objects, upload, late>>
journalVars == <<latest, attempts, health, tears>>
dirVars == <<frozenJob, frozenPolicy, local>>
attemptVars == <<item, product, left, cause>>
apiVars == <<backend, job, jobs>>
spentVars == <<faults, swaps, deploys, policyMoved>>

vars == <<storeVars, journalVars, dirVars, pc, runPolicy, todo, attemptVars, source,
          apiVars, spentVars>>

------------------------------------------------------------------------------
(* Objects and events. *)

ResultKey(i) == <<"result", i>>
EvidenceKey(i, a) == <<"evidence", i, a>>
ReportKey == <<"report">>

Keys == {ResultKey(i) : i \in Items} \cup
        {EvidenceKey(i, a) : i \in Items, a \in ArtifactIds} \cup
        {ReportKey}

\* The source object is the one of the manifest, another of the same size, or
\* one of another size; "nothing" stands for a video the API never fetched.
Sources == {"declared", "sameSize", "otherSize"}

Results == [kind : {"result"}, job : Nat, policy : Policies,
            seen : Sources \cup {"nothing"}, verdict : {"judged", "error"},
            evidence : [ArtifactIds -> Digests \cup {Absent}]]

Reports == [kind : {"report"}, edition : {"first", "later"}, policy : Policies,
            items : [Items -> Results]]

Contents == Results \cup Reports \cup Digests \cup {Foreign}

ASSUME AbsentIsNothing == Absent \notin Contents \cup Keys \cup Policies
ASSUME ForeignIsNotOurs == Foreign \notin Results
ASSUME PartialIsNoPolicy == Partial \notin Policies

Statuses == {"attempting", "result_uploaded", "freed", "conflict", "quarantined",
             "failed-retryable"}

Terminal == {"freed", "conflict", "quarantined"}

Store == INSTANCE R2Store WITH Writers <- {Runner}

Journal == INSTANCE Ledger WITH Details <- Results, NoDetail <- Absent

Status(i) == latest[i].status

NoEvidence == [a \in ArtifactIds |-> Absent]

NoJob == [state |-> "none", policy |-> Absent, seen |-> "nothing", verdict |-> "none",
          evidence |-> NoEvidence]

Queued(q) == [state |-> "queued", policy |-> q, seen |-> "nothing", verdict |-> "none",
              evidence |-> NoEvidence]

LostJob == [state |-> "lost", policy |-> Absent, seen |-> "nothing", verdict |-> "none",
            evidence |-> NoEvidence]

Jobs == [state : {"none", "queued", "complete", "error", "lost"},
         policy : Policies \cup {Absent},
         seen : Sources \cup {"nothing"},
         verdict : {"none", "judged", "error"},
         evidence : [ArtifactIds -> Digests \cup {Absent}]]

ProcessPoints == {"freezing", "starting", "pinning", "reading", "next", "publishing"}

ItemPoints == {"checking", "submitting", "polling", "rechecking", "evidence", "sending",
               "uploaded", "clearing", "freeing", "failed"}

DirTypeOK ==
    /\ frozenJob \in {"absent", "partial", "whole"}
    /\ frozenPolicy \in Policies \cup {Absent, Partial}
    /\ local \in [Items -> BOOLEAN]

ProcessTypeOK ==
    /\ pc \in {"down"} \cup ProcessPoints \cup ItemPoints
    /\ runPolicy \in Policies \cup {Absent}
    /\ pc \in {"pinning", "reading", "next", "publishing"} \cup ItemPoints =>
            runPolicy \in Policies
    /\ todo \subseteq Items
    /\ item \in Items \cup {0}
    /\ pc \in ItemPoints <=> item # 0
    /\ product \in Results \cup {Absent}
    /\ pc \in {"rechecking", "evidence", "sending", "uploaded", "clearing", "freeing"} =>
            product \in Results
    /\ left \subseteq {a \in ArtifactIds : product # Absent /\ product.evidence[a] # Absent}
    /\ left # {} => pc \in ItemPoints \ {"checking", "submitting", "polling"}
    /\ cause \in {"none", "conflict", "failure"}

WorldTypeOK ==
    /\ source \in [Items -> Sources]
    /\ backend \in Policies
    /\ job \in Jobs
    /\ job.state \in {"queued", "complete", "error"} => job.policy \in Policies
    /\ job.state = "complete" => job.verdict # "none"
    /\ job.state = "queued" => pc = "polling" \/ pc = "failed"
    /\ jobs \in Nat
    /\ faults \in Nat /\ swaps \in Nat /\ deploys \in Nat
    /\ policyMoved \in BOOLEAN

TypeOK ==
    /\ Store!TypeOK
    /\ Journal!TypeOK /\ tears \in Nat
    /\ DirTypeOK
    /\ ProcessTypeOK
    /\ WorldTypeOK

\* A new run directory.  The destination may hold results of somebody else under
\* the same job id.
Init ==
    /\ objects \in [Keys -> {Absent, Foreign}]
    /\ \A k \in Keys : objects[k] = Foreign => \E i \in Items : k = ResultKey(i)
    /\ upload = [w \in {Runner} |-> Store!NoUpload]
    /\ late = {}
    /\ Journal!Init
    /\ frozenJob = "absent"
    /\ frozenPolicy = Absent
    /\ local = [i \in Items |-> FALSE]
    /\ pc = "down"
    /\ runPolicy = Absent
    /\ todo = {}
    /\ item = 0 /\ product = Absent /\ left = {} /\ cause = "none"
    /\ source = [i \in Items |-> "declared"]
    /\ backend \in Policies
    /\ job = NoJob
    /\ jobs = 0
    /\ faults = 0 /\ tears = 0 /\ swaps = 0 /\ deploys = 0
    /\ policyMoved = FALSE

------------------------------------------------------------------------------
(* Steps the process is made of. *)

\* One journal append; a short write goes unnoticed.
Journaled(i, s, d) ==
    \E end \in Journal!Endings :
        /\ Journal!Record(i, s, d, end)
        /\ tears' = IF end = "newline" THEN tears ELSE tears + 1
        /\ tears' <= MaxTears

\* The attempt is over: its API job is left alone.
AttemptOver ==
    /\ item' = 0 /\ product' = Absent /\ left' = {} /\ cause' = "none"
    /\ job' = NoJob

\* The process ends, by returning, raising or being killed.
ProcessOver ==
    /\ pc' = "down"
    /\ runPolicy' = Absent
    /\ todo' = {}
    /\ AttemptOver

\* An exception inside _run_item's try block.
Raise(c) == pc' = "failed" /\ cause' = c

------------------------------------------------------------------------------
(* Start of a run: __init__, readiness, _freeze_policy. *)

\* __init__ and _freeze.
Launch ==
    /\ pc = "down"
    /\ \/ frozenJob = "absent" /\ frozenJob' = "partial" /\ pc' = "freezing"
       \/ frozenJob = "whole" /\ pc' = "starting" /\ UNCHANGED frozenJob
    /\ UNCHANGED <<storeVars, journalVars, frozenPolicy, local, runPolicy, todo,
                   attemptVars, source, apiVars, spentVars>>

\* ControllerError("run directory contains a different immutable job.json").
LaunchRefused == pc = "down" /\ frozenJob = "partial" /\ UNCHANGED vars

\* shutil.copyfile returns.
FreezeJob ==
    /\ pc = "freezing"
    /\ frozenJob' = "whole"
    /\ pc' = "starting"
    /\ UNCHANGED <<storeVars, journalVars, frozenPolicy, local, runPolicy, todo,
                   attemptVars, source, apiVars, spentVars>>

\* The API is not ready, or does not serve the policy.
NotReady ==
    /\ pc = "starting"
    /\ ProcessOver
    /\ UNCHANGED <<storeVars, journalVars, dirVars, source, backend, jobs, spentVars>>

\* _freeze_policy compares the hash of this run with the one of the first run.
AnyPolicyAccepted == TRUE

PolicyAccepted == frozenPolicy \in {Absent, backend}

Start ==
    /\ pc = "starting"
    /\ PolicyAccepted
    /\ runPolicy' = backend
    /\ IF frozenPolicy = Absent
         THEN frozenPolicy' = Partial /\ pc' = "pinning"
         ELSE UNCHANGED frozenPolicy /\ pc' = "reading"
    /\ UNCHANGED <<storeVars, journalVars, frozenJob, local, todo, attemptVars, source,
                   apiVars, spentVars>>

PolicyRefused ==
    /\ pc = "starting"
    /\ ~PolicyAccepted
    /\ ProcessOver
    /\ UNCHANGED <<storeVars, journalVars, dirVars, source, backend, jobs, spentVars>>

\* path.write_text returns.
PinPolicy ==
    /\ pc = "pinning"
    /\ frozenPolicy' = runPolicy
    /\ pc' = "reading"
    /\ UNCHANGED <<storeVars, journalVars, frozenJob, local, runPolicy, todo, attemptVars,
                   source, apiVars, spentVars>>

\* Statuses the run passes over, read once for the whole run.
SkippedButQuarantined == {"freed", "conflict"}

Skipped == {"freed", "quarantined", "conflict"}

ToRunFailedOnly == {i \in Items : Status(i) \in {"none", "failed-retryable"}}

ToRun == {i \in Items : Status(i) \notin Skipped}

\* latest = self._journal.latest()
ReadJournal ==
    /\ pc = "reading"
    /\ Journal!Readable
    /\ todo' = ToRun
    /\ pc' = "next"
    /\ UNCHANGED <<storeVars, journalVars, dirVars, runPolicy, attemptVars, source, apiVars,
                   spentVars>>

\* events() raises on a spoiled line, at the start or at the end of the run.
JournalUnreadable ==
    /\ pc = "reading" \/ (pc = "next" /\ todo = {})
    /\ ~Journal!Readable
    /\ ProcessOver
    /\ UNCHANGED <<storeVars, journalVars, dirVars, source, backend, jobs, spentVars>>

------------------------------------------------------------------------------
(* One item: _run_item. *)

Attempt ==
    /\ pc = "next"
    /\ todo # {}
    /\ item' = Min(todo)
    /\ todo' = todo \ {Min(todo)}
    /\ Journaled(Min(todo), "attempting", Absent)
    /\ pc' = "checking"
    /\ UNCHANGED <<storeVars, dirVars, runPolicy, product, left, cause, source, apiVars,
                   spentVars>>

\* _assert_source_identity, before.
CheckSource ==
    /\ pc = "checking"
    /\ IF source[item] = "declared"
         THEN pc' = "submitting" /\ UNCHANGED cause
         ELSE Raise("conflict")
    /\ UNCHANGED <<storeVars, journalVars, dirVars, runPolicy, todo, item, product, left,
                   source, apiVars, spentVars>>

\* presign_get and submit.
Submit ==
    /\ pc = "submitting"
    /\ job' = Queued(backend)
    /\ jobs' = jobs + 1
    /\ pc' = "polling"
    /\ UNCHANGED <<storeVars, journalVars, dirVars, runPolicy, todo, attemptVars, source,
                   backend, spentVars>>

\* status() says COMPLETE; report() and _legacy_result give the item's result.
PollComplete ==
    /\ pc = "polling"
    /\ job.state = "complete"
    /\ product' = [kind |-> "result", job |-> jobs, policy |-> job.policy,
                   seen |-> job.seen, verdict |-> job.verdict, evidence |-> job.evidence]
    /\ pc' = "rechecking"
    /\ UNCHANGED <<storeVars, journalVars, dirVars, runPolicy, todo, item, left, cause,
                   source, apiVars, spentVars>>

\* status() says ERROR, or a restarted API knows no such job.
PollError ==
    /\ pc = "polling"
    /\ job.state \in {"error", "lost"}
    /\ Raise("failure")
    /\ UNCHANGED <<storeVars, journalVars, dirVars, runPolicy, todo, item, product, left,
                   source, apiVars, spentVars>>

\* _assert_source_identity, after, and the size the API fetched; then
\* _upload_item makes the item's directory.
SizeHeld == product.seen # "otherSize"

SourceHeld == source[item] = "declared" /\ product.seen # "otherSize"

Recheck ==
    /\ pc = "rechecking"
    /\ IF SourceHeld
         THEN /\ pc' = "evidence"
              /\ left' = {a \in ArtifactIds : product.evidence[a] # Absent}
              /\ local' = [local EXCEPT ![item] = TRUE]
              /\ UNCHANGED cause
         ELSE Raise("conflict") /\ UNCHANGED <<left, local>>
    /\ UNCHANGED <<storeVars, journalVars, frozenJob, frozenPolicy, runPolicy, todo, item,
                   product, source, apiVars, spentVars>>

\* One artifact: fetched from the API, which must still know the job, then
\* uploaded.
UploadEvidence ==
    /\ pc = "evidence"
    /\ job.state = "complete"
    /\ \E a \in left : Store!Begin(Runner, EvidenceKey(item, a), product.evidence[a])
    /\ pc' = "sending"
    /\ UNCHANGED <<journalVars, dirVars, runPolicy, todo, attemptVars, source, apiVars,
                   spentVars>>

\* result.json is written and uploaded once every artifact is.
EvidenceOptional == TRUE

EvidenceUploaded == left = {}

UploadResult ==
    /\ pc = "evidence"
    /\ EvidenceUploaded
    /\ Store!Begin(Runner, ResultKey(item), product)
    /\ pc' = "sending"
    /\ UNCHANGED <<journalVars, dirVars, runPolicy, todo, attemptVars, source, apiVars,
                   spentVars>>

\* upload_create_only at work, for an item or for the report.
UploadStep ==
    /\ pc \in {"sending", "publishing"}
    /\ Store!Exchange(Runner)
    /\ UNCHANGED <<journalVars, dirVars, pc, runPolicy, todo, attemptVars, source, apiVars,
                   spentVars>>

SentKey == upload[Runner].key

\* upload_create_only returns.
ReturnedOrUnverified == Store!Phase(Runner) \in {"done", "error"}

Returned == Store!Phase(Runner) = "done"

SkipUploadEvent == IF SentKey = ResultKey(item) THEN "clearing" ELSE "evidence"

AfterUpload == IF SentKey = ResultKey(item) THEN "uploaded" ELSE "evidence"

UploadReturns ==
    /\ pc = "sending"
    /\ Returned
    /\ Store!Return(Runner)
    /\ pc' = AfterUpload
    /\ left' = {a \in left : SentKey # EvidenceKey(item, a)}
    /\ UNCHANGED <<journalVars, dirVars, runPolicy, todo, item, product, cause, source,
                   apiVars, spentVars>>

\* upload_create_only raises DestinationConflict or StorageError.
UploadRaises ==
    /\ pc = "sending"
    /\ Store!Phase(Runner) \in {"conflict", "error"}
    /\ Store!Return(Runner)
    /\ Raise(IF Store!Phase(Runner) = "conflict" THEN "conflict" ELSE "failure")
    /\ UNCHANGED <<journalVars, dirVars, runPolicy, todo, item, product, left, source,
                   apiVars, spentVars>>

JournalUpload ==
    /\ pc = "uploaded"
    /\ Journaled(item, "result_uploaded", product)
    /\ pc' = "clearing"
    /\ UNCHANGED <<storeVars, dirVars, runPolicy, todo, attemptVars, source, apiVars,
                   spentVars>>

\* shutil.rmtree(item_dir)
RemoveLocal ==
    /\ pc = "clearing"
    /\ local' = [local EXCEPT ![item] = FALSE]
    /\ pc' = "freeing"
    /\ UNCHANGED <<storeVars, journalVars, frozenJob, frozenPolicy, runPolicy, todo,
                   attemptVars, source, apiVars, spentVars>>

JournalFreed ==
    /\ pc = "freeing"
    /\ Journaled(item, "freed", product)
    /\ pc' = "next"
    /\ AttemptOver
    /\ UNCHANGED <<storeVars, dirVars, runPolicy, todo, source, backend, jobs, spentVars>>

\* The record that frees the item is written, and os.fsync raises: the item has
\* been released and failed.
FreedUnsynced ==
    /\ pc = "freeing"
    /\ faults < MaxFaults
    /\ faults' = faults + 1
    /\ Journaled(item, "freed", product)
    /\ Raise("failure")
    /\ UNCHANGED <<storeVars, dirVars, runPolicy, todo, item, product, left, source,
                   apiVars, swaps, deploys, policyMoved>>

\* Any other call of the try block raises: HEAD, presign, submit, status,
\* report, artifact, local files, rmtree, a journal append.
StepRaises ==
    /\ pc \in ItemPoints \ {"sending", "failed"}
    /\ Raise("failure")
    /\ UNCHANGED <<storeVars, journalVars, dirVars, runPolicy, todo, item, product, left,
                   source, apiVars, spentVars>>

\* The except block.
FailureStatusLate ==
    IF cause = "conflict" THEN "conflict"
    ELSE IF attempts[item] > MaxAttempts THEN "quarantined"
    ELSE "failed-retryable"

FailureStatus ==
    IF cause = "conflict" THEN "conflict"
    ELSE IF attempts[item] >= MaxAttempts THEN "quarantined"
    ELSE "failed-retryable"

RecordFailureAndClear ==
    /\ pc = "failed"
    /\ Journal!Readable
    /\ Journaled(item, FailureStatus, Absent)
    /\ pc' = "next"
    /\ AttemptOver
    /\ local' = [local EXCEPT ![item] = FALSE]
    /\ UNCHANGED <<storeVars, frozenJob, frozenPolicy, runPolicy, todo, source, backend,
                   jobs, spentVars>>

RecordFailure ==
    /\ pc = "failed"
    /\ Journal!Readable
    /\ Journaled(item, FailureStatus, Absent)
    /\ pc' = "next"
    /\ AttemptOver
    /\ UNCHANGED <<storeVars, dirVars, runPolicy, todo, source, backend, jobs, spentVars>>

\* attempts() raises in the except block: the exception leaves run().
FailureUnreadable ==
    /\ pc = "failed"
    /\ ~Journal!Readable
    /\ ProcessOver
    /\ UNCHANGED <<storeVars, journalVars, dirVars, source, backend, jobs, spentVars>>

------------------------------------------------------------------------------
(* End of a run: _uploaded_results, build_report, the report's upload. *)

FreedItems == {i \in Items : Status(i) = "freed"}

CompleteBySnapshot == todo = {}

Complete == FreedItems = Items

Report == [kind |-> "report",
           edition |-> IF objects[ReportKey] = Absent THEN "first" ELSE "later",
           policy |-> runPolicy,
           items |-> [i \in Items |-> objects[ResultKey(i)]]]

\* A partial report stays in the run directory.
ReportPartial ==
    /\ pc = "next"
    /\ todo = {}
    /\ Journal!Readable
    /\ ~Complete
    /\ ProcessOver
    /\ UNCHANGED <<storeVars, journalVars, dirVars, source, backend, jobs, spentVars>>

PublishReport ==
    /\ pc = "next"
    /\ todo = {}
    /\ Journal!Readable
    /\ Complete
    /\ Store!Begin(Runner, ReportKey, Report)
    /\ pc' = "publishing"
    /\ UNCHANGED <<journalVars, dirVars, runPolicy, todo, attemptVars, source, apiVars,
                   spentVars>>

\* get_json raises.
CollectFails ==
    /\ pc = "next"
    /\ todo = {}
    /\ FreedItems # {}
    /\ ProcessOver
    /\ UNCHANGED <<storeVars, journalVars, dirVars, source, backend, jobs, spentVars>>

\* The report is uploaded, or run() raises: nothing is journaled either way.
PublishEnds ==
    /\ pc = "publishing"
    /\ Store!Return(Runner)
    /\ ProcessOver
    /\ UNCHANGED <<journalVars, dirVars, source, backend, jobs, spentVars>>

\* The process is killed, or an append outside the try block raises.
Interrupt ==
    /\ pc # "down"
    /\ faults < MaxFaults
    /\ faults' = faults + 1
    /\ IF Store!Phase(Runner) = "idle" THEN UNCHANGED storeVars ELSE Store!Die(Runner)
    /\ ProcessOver
    /\ UNCHANGED <<journalVars, dirVars, source, backend, jobs, swaps, deploys, policyMoved>>

------------------------------------------------------------------------------
(* Everybody else. *)

ApiUnchanged == UNCHANGED <<storeVars, journalVars, dirVars, pc, runPolicy, todo,
                            attemptVars, source, backend, jobs, spentVars>>

\* The API's fetcher reads the presigned source.
ApiFetch ==
    /\ job.state = "queued"
    /\ job.seen = "nothing"
    /\ job' = [job EXCEPT !.seen = source[item]]
    /\ ApiUnchanged

ApiComplete ==
    /\ job.state = "queued"
    /\ job.seen # "nothing"
    /\ \E e \in [ArtifactIds -> Digests \cup {Absent}] :
            job' = [job EXCEPT !.state = "complete", !.verdict = "judged", !.evidence = e]
    /\ ApiUnchanged

\* The video's result is an ERROR verdict and the job completes: the fetched file
\* cannot be decoded, or fetching or processing raised and the result does not
\* even carry a source size.
ApiVideoFails ==
    /\ job.state = "queued"
    /\ \E s \in {job.seen, "nothing"} :
            job' = [job EXCEPT !.state = "complete", !.verdict = "error", !.seen = s]
    /\ ApiUnchanged

ApiJobFails ==
    /\ job.state = "queued"
    /\ job' = [job EXCEPT !.state = "error"]
    /\ ApiUnchanged

\* The API is restarted, perhaps with another policy; its jobs are gone.
Redeploy ==
    /\ deploys < MaxDeploys
    /\ deploys' = deploys + 1
    /\ backend' \in Policies
    /\ job' = IF job = NoJob THEN NoJob ELSE LostJob
    /\ policyMoved' = (policyMoved \/ (pc # "down" /\ backend' # backend))
    /\ UNCHANGED <<storeVars, journalVars, dirVars, pc, runPolicy, todo, attemptVars, source,
                   jobs, faults, swaps>>

\* Somebody replaces a source object, or puts the declared one back.
SwapSource ==
    /\ swaps < MaxSwaps
    /\ swaps' = swaps + 1
    /\ \E i \in Items, s \in Sources :
            source[i] # s /\ source' = [source EXCEPT ![i] = s]
    /\ UNCHANGED <<storeVars, journalVars, dirVars, pc, runPolicy, todo, attemptVars,
                   apiVars, faults, deploys, policyMoved>>

\* R2 applies a PUT of a dead process.
LatePut ==
    /\ \E put \in late : Store!LateArrival(put[1], put[2])
    /\ UNCHANGED <<journalVars, dirVars, pc, runPolicy, todo, attemptVars, source, apiVars,
                   spentVars>>

StartStep == FreezeJob \/ NotReady \/ Start \/ PolicyRefused \/ PinPolicy \/ ReadJournal
             \/ JournalUnreadable

ItemStep == Attempt \/ CheckSource \/ Submit \/ PollComplete \/ PollError \/ Recheck
            \/ UploadEvidence \/ UploadResult \/ UploadReturns \/ UploadRaises
            \/ JournalUpload \/ RemoveLocal \/ JournalFreed \/ FreedUnsynced
            \/ StepRaises \/ RecordFailure \/ FailureUnreadable

EndStep == ReportPartial \/ PublishReport \/ CollectFails \/ PublishEnds

RunnerStep == StartStep \/ ItemStep \/ UploadStep \/ EndStep

ApiStep == ApiFetch \/ ApiComplete \/ ApiVideoFails \/ ApiJobFails

Next == Launch \/ LaunchRefused \/ RunnerStep \/ Interrupt \/ ApiStep \/ Redeploy
        \/ SwapSource \/ LatePut

Spec == Init /\ [][Next]_vars

\* The process runs, the API works on what it accepted, the operator repeats the
\* command, and a backend that is asked again and again is ready some time.
Fairness ==
    /\ WF_vars(RunnerStep)
    /\ WF_vars(ApiStep)
    /\ WF_vars(Launch)
    /\ SF_vars(Start)

FairSpec == Spec /\ Fairness

------------------------------------------------------------------------------
(* Properties. *)

Own(i) == objects[ResultKey(i)] \notin {Absent, Foreign}

Published(i) == objects[ResultKey(i)]

\* Whatever the journal says was uploaded is at R2 with the journaled digest,
\* after every crash, retry, late PUT and torn record: _uploaded_results reads
\* these objects for the report, and the local copy is gone.
FreedIsPublished ==
    \A i \in Items : Status(i) \in {"result_uploaded", "freed"} =>
        latest[i].detail # Absent /\ Published(i) = latest[i].detail

\* A published result names no evidence image that is missing or different at
\* R2, whichever attempt uploaded the image and whichever built the result.
EvidenceResolves ==
    \A i \in Items : Own(i) =>
        \A a \in ArtifactIds : Published(i).evidence[a] # Absent =>
            objects[EvidenceKey(i, a)] = Published(i).evidence[a]

\* TASKS FG-007, "source size and ETag are checked before and after processing":
\* a published verdict is about the bytes of the manifest.  The two checks
\* cannot see a same-sized object that was swapped in and out again around the
\* fetch, and only that.
PublishedFromDeclaredSource ==
    \A i \in Items : Own(i) /\ Published(i).verdict = "judged" =>
        \/ Published(i).seen = "declared"
        \/ Published(i).seen = "sameSize" /\ swaps >= 2

\* RUNBOOK, "refuses a changed policy hash": the results of a run directory were
\* judged under the policy it pinned, unless the API changed its policy while a
\* run was under way (the hash is compared at the start of a run only).
PublishedUnderPinnedPolicy ==
    \A i \in Items : Own(i) => Published(i).policy = frozenPolicy \/ policyMoved

\* A report at R2 covers the whole manifest and quotes the published results
\* (run() uploads it only if complete).
ReportCoversBatch ==
    objects[ReportKey] # Absent =>
        \A i \in Items : Status(i) = "freed" /\ objects[ReportKey].items[i] = Published(i)

\* An item is attempted no more often than max_attempts, except once more for
\* every crash that kept an attempt from being recorded as failed.
AttemptBudget == \A i \in Items : attempts[i] <= MaxAttempts + faults

\* An item that is freed, in conflict or quarantined stays what it is, through
\* every later run of the directory, unless the append that freed it raised and
\* its own attempt goes on to record a failure.
TerminalIsFinal ==
    [][\A i \in Items : Status(i) \in Terminal /\ ~(i = item /\ pc = "failed") =>
            latest'[i] = latest[i]]_vars

\* README, "local media is cleaned only after verified upload": the directory of
\* an item goes only when this attempt's own result is at R2 and, unless the
\* journal was spoiled, journaled.
LocalKeptUntilPublished ==
    [][\A i \in Items : local[i] /\ ~local'[i] =>
            /\ i = item
            /\ product # Absent /\ Published(i) = product
            /\ health = "whole" => Status(i) = "result_uploaded"]_vars

\* The runner, its crashes and its retries implement the lifecycle of RUNBOOK.
Lifecycle == INSTANCE ItemLifecycle WITH
                 status <- [i \in Items |-> Status(i)],
                 published <- [i \in Items |-> objects[ResultKey(i)]]

ImplementsLifecycle == Lifecycle!Spec

\* "Re-running the command retries pending or retryable items": as long as the
\* command is repeated every item ends, or the run directory refuses to run:
\* its job.json or policy.sha256 was cut short by a crash, its journal is
\* spoiled, or the API serves another policy for good.
Settled == \A i \in Items : Status(i) \in Terminal

Wedged ==
    \/ frozenJob = "partial"
    \/ frozenPolicy \notin {Absent, backend}
    \/ ~Journal!Readable

SettlesUnlessWedged == <>[]Settled \/ <>[]Wedged

------------------------------------------------------------------------------
(* What the documents say and the code does not do; see the violation runs. *)

\* RUNBOOK: "Other failures [...] are quarantined at the manifest's
\* maximum-attempt limit".
AttemptsWithinLimit == \A i \in Items : attempts[i] <= MaxAttempts

\* RUNBOOK: "Conflicts are terminal.  Other failures become failed-retryable":
\* an item in conflict has a replaced source or a destination this batch did
\* not fill itself.
ConflictIsForeign ==
    \A i \in Items : Status(i) = "conflict" => swaps > 0 \/ ~Own(i)

\* RUNBOOK: "Other failures become failed-retryable [...]": no item is released
\* because the API failed to fetch or to process its video.
FailedProcessingNotFreed ==
    \A i \in Items : Status(i) = "freed" =>
        ~(Published(i).verdict = "error" /\ Published(i).seen = "nothing")
==============================================================================
