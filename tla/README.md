# TLA+ models of fgate

fgate judges first-person videos: an API on a GPU host fetches videos, runs a
hand detector over sampled frames and answers with a report; `fgate batch` takes
the items of a frozen R2 manifest through that API and publishes one result per
item, its evidence images and a batch report. An older controller
(`qc_pipeline/controller.py`) does the same work in one process, without the
API. What makes the program hard is not the verdicts but the bookkeeping around
them: a batch takes days, is killed and rerun, and must never publish twice,
release what is not published, or lose what is.

Paths below are relative to the repository's root; line numbers are in
`PROJECT.json`, which maps every definition to the lines it stands for.

## The system

| part | state | operations | talks to |
|---|---|---|---|
| `fgate/batch.py` BatchRunner | run directory: `job.json`, `policy.sha256`, `progress.jsonl`, `items/`, `report.json` | freeze, run, run an item, upload, record | API over HTTP, R2, journal |
| `qc_pipeline/storage.py` R2Store | objects in R2 | head, presign, create-only upload, get JSON, download | R2 through boto3 with retries |
| `qc_pipeline/journal.py` ProgressJournal | one append-only file | append, events, latest, attempts, summary | file system |
| `fgate/service.py` QCService | job table in memory, job directories | submit, status, report, artifact, the worker's `_run` | fetcher, processor, artifact store |
| `fgate/fetcher.py` | a `.partial` file | fetch with checked redirects | HTTPS |
| `fgate/artifacts.py` | report and artifacts of each job | atomic report write, reads | file system |
| `fgate/api.py`, `fgate/backend.py` | none | HTTP on either side | QCService, BatchRunner |
| `qc_pipeline/detector.py` DetectorBatchService | a queue, a thread, futures | detect_batch, gather, put back, infer, close | a detector with one inference context |
| `qc_pipeline/controller.py` RunController | run directory, two thread pools | cohorts, download, process, upload, retry_only | R2, journal, DetectorBatchService |
| `fgate/processing.py`, `qc_pipeline/processor.py`, `media.py`, `camera.py` | none across videos | decode, sample, measure | ffmpeg, OpenCV, detector |
| `fgate/checks.py`, `fgate/policy.py`, `qc_pipeline/rules.py`, `statistics.py`, `report.py`, `evidence.py` | evidence slots | pure functions from measurements to outcomes | - |
| `qc_pipeline/profiling.py` | samples | start, sample, stop | nvidia-smi |
| `fgate/cli.py`, `fgate/deployment.py`, `scripts/` | none | argument parsing, docker compose, benchmarks | - |

Behaviours that are hard to test, and where:

* **Crashes and reruns.** `progress.jsonl` and R2 are two logs of the same
  facts and a process may die between them, at any line of `_upload_item`. An
  attempt the process died in is never recorded as failed.
* **R2 as seen through a retrying SDK.** A response may be lost and the PUT sent
  again; a PUT that was given up on may still be carried out, even after the
  process that sent it.
* **A journal without a commit.** `append` ignores how much `os.write` took and
  may raise after the record is on its way; every later read fails on a spoiled
  line.
* **State read once and used later.** The policy hash is compared when a run
  starts, the source's identity before and after the job but not during it, the
  set of items to skip once for the whole run.
* **Threads.** Lanes share a detector through a queue whose consumer takes
  requests out, puts them back at the other end and cuts the result apart; a
  service with a job table, a lock and a processing lock; a controller whose
  main thread records failures while its pools record progress.
* **Chunks and clocks.** Frames arrive in chunks of a fixed size, hand samples are
  picked from them by a clock that runs across chunks, and each sample is compared
  with the one before it, which may be of an earlier chunk.
* **Two judges.** A job's rules judge fractions, the policy's checks percentages;
  each video of an API job is judged by both, and the runner translates the
  outcomes of the second back into rules. Both conversions are floating-point
  operations, so a value on a limit may be on different sides of it.

For each part, what makes it correct:

* store: an upload that returned left these bytes at this key, for good;
* journal: reading it back gives what was appended, or fails for good;
* runner: nothing is recorded, released or deleted before it is at R2; a
  published result is about the declared source, names evidence that exists and
  was judged under the pinned policy; an item that ended stays ended; attempts
  are bounded; a report covers its batch; reruns settle every item;
* detector service: every lane gets its own detections in order, no batch is
  too large, no request is lost, everybody is answered, close() ends it;
* service: a COMPLETE job has its report and evidence and no sources, one video
  is processed at a time, jobs end, sources go only after the report is written;
* controller: staging stays within its bound, staged bytes are the declared ones
  however they were left there, what is recorded is published, lanes share no
  detector, and repeated runs end every item;
* video processing: chunking is invisible in what is measured, evidence and
  failure intervals are those of the whole file, every failure has an image, and
  the two routes to a verdict agree but for what the floats round on a limit.

## Modules

| module | models | composed of |
|---|---|---|
| `WriteOnce` | the promise of `upload_create_only` | |
| `R2Store` | `upload_create_only`, several writers on one bucket | implements `WriteOnce` |
| `R2StoreProofs` | | proofs about `R2Store` |
| `Ledger` | what a run reads from the journal | |
| `ProgressJournal` | the journal's file | implements `Ledger` |
| `ProgressJournalProofs` | | proofs about `ProgressJournal` |
| `ItemLifecycle` | the life of an item, RUNBOOK's diagram | |
| `BatchRunner` | the batch process, the operator, its environment | instantiates `R2Store` and `Ledger`, implements `ItemLifecycle` |
| `BatchRunnerProofs`, `BatchPublishProofs` | | proofs about `BatchRunner` |
| `BatchDetector` | what a lane sees of the detector | |
| `DetectorBatchService` | the batching thread and the lanes' calls | implements `BatchDetector` |
| `DetectorProofs` | | proofs about `DetectorBatchService` |
| `ApiJobs` | what a client sees of its jobs | |
| `JobService` | QCService: job table, pool, locks, job directories | implements `ApiJobs` |
| `JobServiceProofs` | | proofs about `JobService` |
| `RunController` | the run controller, its pools, run directory and bucket | instantiates `Ledger` |
| `RunControllerProofs` | | proofs about `RunController` |
| `Rules` | rule outcomes, the verdict and its reasons | |
| `PolicyChecks` | the policy's checks, the rules made from a policy, the runner's translation | extends `Rules` |
| `EvidenceSelector` | first, worst and last image of a reason | |
| `VideoMeasures` | motion, idling, runs, windows, statistics | extends `PolicyChecks` |
| `VideoProcessor` | `process_video` from the decoder to the verdict | extends `VideoMeasures`, instantiates `EvidenceSelector` |
| `VideoProofs` | | proofs about `PolicyChecks`, `VideoMeasures` and `VideoProcessor` |
| `MC*` | the instances TLC checks | |

**R2Store.** A call is a record `upload[w]` that moves through the phases of the
code: `head` (the first `self.head`), `put`, `verify` (the second) and one of
three answers: the returned identity (`done`), `DestinationConflict`
(`conflict`), `StorageError` (`error`). Between two phases anybody else may
move. `PutResponseLost` is the store's half of a PUT whose response is lost: the
object exists and the call is still in its PUT, which botocore sends again.
`late` holds PUTs nobody waits for. R2's own guarantees (an atomic conditional
PUT, a HEAD that sees it, no deletion) are assumptions and are marked external.
Equal bytes stand for equal size and equal `sha256` metadata.

**ProgressJournal** is the file as the sequence of writes that reached it, each
ending with its newline, without it, or torn. A line is everything between two
newlines, so a record after a bare or torn one is glued to it. `LatestEvents`,
`AttemptCounts` and `FileHealth` fold the file the way `latest()` and
`attempts()` do; `ImplementsLedger` says that this equals remembering each
record as it is appended, which is what `Ledger` does and what `BatchRunner`
uses instead of a file.

**BatchRunner** has one action per call of the code that can fail or be
interrupted on its own, and a program counter named after what comes next.
`Launch`/`FreezeJob` are `__init__`, `Start`/`PinPolicy`/`ReadJournal` the head
of `run`, `Attempt` to `JournalFreed` are `_run_item` and `_upload_item`,
`RecordFailure` is the except block, `ReportPartial` and `PublishReport` the end
of `run`. `StepRaises` is any other exception inside the try block; `Interrupt`
kills the process at any point and loses everything but the run directory and
R2; `FreedUnsynced` is the append of `freed` that raises after its write. The
API is one job at a time: the runner waits for each job. `Redeploy` forgets the
job and may change the policy, `SwapSource` replaces a source object, `LatePut`
lets R2 apply what a dead process had sent. The simplifications stand at the
head of the module.

**DetectorBatchService** follows both sides. A lane's call is `Call`, one `Put` for
each round of the loop that queues its parts, one `Result` for each future it reads,
and `Returns` or `Raises`; `start` is how far it has queued, `read` and `results` how
far it has read, and `answer` how its last call ended. The thread is at `take`
(blocking for the first request), `gather` (one request more, added or held),
`return` (`PutBack` of the held one to the tail; lanes may queue in between), `infer`
(the detector's answer or exception), `resolve` (one future after the other, by
`SetResult` with the next slice or by `SetException`), and `EndBatch` is the finally
block. `max_wait` is left out: gathering may stop at any moment. Of the counters the
model keeps what they lack, `uncounted`: the frames of a batch whose lanes may have
been answered while the thread has not counted it.

**JobService** gives each job the program counter of its `_run`: `fetch`, `lock`
(waiting for the processing lock), `process`, `record`, `report`, `clean`,
`fail`. `Begin` is the pool starting the oldest queued job on a free worker.
`FetchFails` and `ProcessRaises` are the inner except block, which makes an error
result of the exception; `ReportFails` and `CleanFails` end in the outer one.
`Fetch` stands for a whole download into `.partial` and its rename, `Process` for
the video's processing up to the last image moved into place. `Restart` loses
the table, the pool and the workers, and keeps the job directories. `status` and
`report` only read: `ApiJobs` is what they return.

**RunController** follows one item by `task`, which names what the thread that has
it does next: `selected` and `queued` in the main thread, `heading` to `landed` in
`R2Store.download`, `fetched`, then `claiming` to `cleared` in `_process_one` and
`_upload_processed`, and `conflict` or `failure` until the main thread has
recorded an exception. `phase` is where the main thread is: `Start` selects
items, `Pack` puts the first selected one into a cohort and `Packed` ends `_cohorts`;
cohorts are attempted as a whole, then downloaded, then judged, and leaving a pool
joins it. A size is a set of bytes, an item and a place in it, so that the bytes of
some items are the size of a set. `partial` is
the download's temporary file, `file` what has its final name. An upload is one
step with the outcomes `R2Store` allows, the lost answer included (`Uploads`).
`Crash` ends all threads at any point; `Start` takes up what the journal says, with
or without retry_only. The head of the module lists what is simplified: one
process, whole journal records, an evidence image per item, the detector of a
static model.

**Rules, PolicyChecks** are operators. `ApiRules` are the rules `_job` derives from a
policy, `CheckOutcomes` what `PolicyEvaluator` says, `LegacyOutcome` what the batch
runner makes of it.

The conversions between fractions and percentages are those of floating point.
`Float` lists the floats from zero up by bit pattern, each as a multiple of the least
one above zero; doubles are one such table (2^-1074 is then 1), the run has another.
`Nearest` is what an operation does after its exact result: it rounds to the nearest
float, ties to the even pattern. `Fraction` is the division by 100 of
`processing.py:109`, `Percent` the multiplication of `processing.py:191`. As in doubles,
`Percent[Fraction[limit]]` need not be `limit`: of the whole percentages 7, 14, 28, 29
and 55 to 58 come back as something else (0.07 * 100 is 7.000000000000001, 0.57 * 100 is
56.99999999999999), and at other limits a fraction next to the limit comes back as the
limit itself. Three simplifications: a result beyond the greatest float stays there
instead of becoming infinite, a mean or a quantile is rounded once where numpy
interpolates in a few operations, and negative floats do not occur.

**VideoMeasures, VideoProcessor, EvidenceSelector.** A picture is a record of what
the numeric code would find in it: luminance, sharpness, the camera's place and
angle, the pose of hands, points at which the detector sees a hand in the frame or
only in a crop. Times are ticks. `Decode` adds a frame to the chunk, `Inspect` is
the first loop of `process_chunk` for one frame, `Detect` the batch with its crops,
`Observe` the second loop for one hand sample, `Measure` everything from
`qualify_idle_runs` to the intervals. `Corrupt` stands for a probe or a decoder that
fails at any point. Bootstrap intervals and the repetition score are any value they
can take. A run of a series is found the way the code does, by a scan that one FALSE
after the series closes; `kept` is what the caller does with a closed run
(`qualify_idle_runs` keeps the long ones). Statistics speak of the places of a series
that have a value: the mean counts the ones, an order statistic is the value with a
given number of values before it, which is what sorting finds. A crop has a place in
the batch; `Mapping` says which frame and corner it was cut at, as the code's list of
that name does. Five assumptions say what the schemas say of a job's thresholds and
periods; `TileAssumption` adds that the four crops of a frame meet, which
`_tile_crops` can miss by a row or a column when the configured overlap is zero.

## What is checked

Every run is `tlc -config <cfg> <module>`; all of them check deadlock except
`journal`, whose file is bounded, `service`, whose job ids are used up when every
job has ended, and `video`, which ends with the file.

| run | instance | shows |
|---|---|---|
| `r2store` | 2 writers, 2 keys, 2 contents | `DoneMeansStored`, `NeverOverwritten`, and that the exchange implements `WriteOnce` |
| `journal` | 2 items, 3 writes | the fold implements `Ledger`; `UnreadableForever` |
| `runner` | 1 item, 2 policies, 1 crash, 1 torn record, 1 redeploy, fairness | `PublishedUnderPinnedPolicy`, `AttemptBudget`, `LocalKeptUntilPublished`, `ImplementsLifecycle`, `SettlesUnlessWedged` |
| `runner_items` | 2 items, 1 crash | `ReportCoversBatch`, `TerminalIsFinal` |
| `runner_source` | 1 item, an image with 2 digests, 2 source swaps, 1 crash | `FreedIsPublished`, `EvidenceResolves`, `PublishedFromDeclaredSource` |
| `detectors` | 2 lanes, 2 calls of up to 3 frames, batches of 2, fairness | `BatchFits`, `WaitingIsServed`, `StatsLagOneBatch`, `ImplementsDetector`, `CallsAndThreadEnd` |
| `service` | 2 jobs of up to 2 videos, 2 workers, 1 restart, fairness | `CompleteMeansReported`, `OneVideoAtATime`, `SourcesKeptUntilReported`, `ImplementsJobs`, `JobsEnd` |
| `controller` | 3 items, staging for 2, 2 download workers, 2 lanes, 2 attempts, 1 crash, 1 failure, 1 source swap, fairness | `StagedIsDeclared`, `StagingBounded`, `ReleasedIsPublished`, `LanesOwnDetectors`, `ItemsEnd` |
| `video` | files of up to 5 frames of 5 kinds in chunks of 2, hand samples every 5 ticks of frames every 4, floats of 6 bits, limits of 68, 50, 3, 20 and 20 % | `SeriesExact`, `RunsExact`, `EvidenceExact`, `FailureShown`, `RoutesAgree`, `ReasonsExplain` |

Three properties need an exception the code makes necessary, and say so:
`PublishedFromDeclaredSource` allows a same-sized object that was swapped in and
out around the fetch, `PublishedUnderPinnedPolicy` an API whose policy changed
during a run, `AttemptBudget` one attempt more for every crash. Two more bounds
were found while stating the properties and are written into them:
`StagingBounded` counts the items at work, since items of a cohort that failed keep
their files on the disk while the next one is downloaded; and `RunsExact` lets an
idle interval reach into the sample after it, because an interval ends one *first*
gap after its last sample and gaps differ when the two rates do not divide.
Floats make two more. `RoutesAgree` and `ReasonsExplain` let rules and checks part where a
measurement, or an end of its interval, is on the limit, either as the check or as the
rule has the two (`OnLimit`): with hands in 57 % of the frames asked for and an interval
that begins at 0.57, the rule passes and the check does not; with a shift of 0.07 and at
most 7 % the check fails and the rule passes, so the runner publishes a reason the rules
do not have. What is checked without the exception is that neither route rejects a
measurement that keeps the limits in exact arithmetic (`Meets`), and with it that nothing
but such a measurement parts the routes. `FailureShown` leaves out the one failure that has no
image for this reason, a shift that is its rule's limit and whose percentage rounds up
over the check's. The limits of 68 and 3 % of the run are of both kinds in its format:
measurements that part the routes in either direction occur. No double is judged
differently by the two routes under the limits of `policies/standard.yaml`
(60, 50, 3, 20 and 20 %); the exception is for other policies.

`VerdictsAgree` has an asymmetry too: a video without clearly visible hands may be
BAD by the rules and only UNCERTAIN by the checks, which do not judge idling then.

Three runs end in a violation on purpose. Each checks a sentence of the
documentation against what the code does:

* `attempts_doc`: RUNBOOK promises quarantine "at the manifest's maximum-attempt
  limit". An attempt the process dies in is counted but never compared with the
  limit.
* `conflict_doc`: RUNBOOK makes conflicts terminal and everything else
  retryable. A PUT that botocore re-sends is refused because of its own first
  copy, and the item ends in conflict with itself.
* `failed_video_doc`: RUNBOOK makes other failures retryable. A video the API
  failed to fetch is an ERROR *result* of a COMPLETE job, which is published and
  freed.

**Bounds.** `MaxFaults`, `MaxTears`, `MaxSwaps` and `MaxDeploys` count what the
environment may do over the whole life of a run directory; reruns themselves are
not bounded. One crash and one failed upload already produce every pair of
"journaled but not stored" and "stored but not journaled"; two swaps are the
shortest way around both source checks; two items are enough for the skip list,
the order of items and a report over a mixed batch, and items share nothing else
(their keys differ and the runner takes them one after the other). Attempts are
bounded by `MaxAttempts` (2: a first failure and a last). For the detector, two
lanes with calls of three frames and batches of two give every case of the
gathering loop: full batch, misfit, sentinel, split call.
For the service, two videos show a job between its first and its last result and
two jobs on two workers meet at the processing lock; jobs share nothing but the
lock and the pool, and a job that waits for a busy pool only waits longer.
For the controller, three items of one size in two cohorts show an item left over
from a failed cohort beside the next one and a pool with more items than threads;
one crash, one failure and one swap can meet at any two steps of an item. For
videos, five frames in chunks of two give full and short chunks, a hand clock that
misses frames, its samples on either side of a chunk's end, idle runs and black
windows that begin, end or fill the file, and ties among evidence; the five kinds
of pictures are a hand at rest, a moved one found in two crops only, a turned and a
shoved camera and a covered lens.

**Fairness.** The runner's own steps are weakly fair (the process runs); the
API's steps are weakly fair (its executor works on a queued job); the operator
repeats the command (`WF` of `Launch`); and `SF` of `Start` says that an API that
is asked again and again is ready at some time. `Interrupt`, `Redeploy` and
`SwapSource` are never fair and bounded, so that a run is interrupted finitely
often. Lanes and the batching thread are threads of one process and weakly fair;
the finite number of calls is that videos end. Without that bound a request can
be put back for ever: three lanes suffice, two of which keep the queue filled
with requests smaller than a batch.
The service's pool starts queued jobs and its threads run (`WF` of `Begin` and of
each job's `Work`); that includes that a fetch and the processing of a video end,
which the code leaves to socket timeouts and to the decoder. A freed
`threading.Lock` need not go to who waited longest, and weak fairness does not
say so either: `JobsEnd` holds because each job takes the lock finitely often.
The controller's threads run (`WF` of `ControllerStep`) and the operator repeats the
ordinary command (`SF` of `Start(FALSE)`: runs with retry_only, which pass over
interrupted items, may come between). It is stated for manifests whose items fit
the staging area; a larger one stops every run before its first item.

## What is proved

TLAPS checks these for every number of items, attempts, writers, keys, contents,
lanes, frames and every bound on faults. Every invariant the passing runs check is a
theorem, and so is every property about steps and every refinement; what is left to
TLC alone is liveness. One theorem, `FailuresAlwaysShown`, has hypotheses beyond the
constants' assumptions, because without them it is false.

*R2Store* (`R2StoreProofs`). The inductive invariant adds one fact to the types:
a call in `verify` has its bytes at its key. It needs no more because nothing
overwrites (`CreateOnly`), so what was once stored stays (`DoneIsStored`). The
refinement (`WriteOnceImplemented`) maps the three inner phases to "pending".

*BatchRunner, safety* (`BatchRunnerProofs`). `FreedStaysPublished` says that the
journal never claims an upload R2 does not hold. It is not inductive by itself:
between the PUT's return and the journal append the claim exists only in the
process. `IInv` adds that the upload under way of an item's result is that of
`product` (`SendingIsProduct`), that at `uploaded`, `clearing` and `freeing` the
product is stored (`UploadedIsStored`), and R2Store's own invariant. The types
carry more than types: an item is under way exactly at the item points and has a
result from `rechecking` on.

*ProgressJournal* (`ProgressJournalProofs`). The file is a sequence of writes and the
ledger a record per item. `LedgerImplemented` shows that one more write moves the
fold over the lines exactly as `Recorded` moves the ledger. What the lines of a
file are is a definition over sets of places, so that one more write touches the last
line only, and a line that has become illegible stays so (`UnreadableStays`).

*BatchRunner, retries* (`BatchRunnerProofs`). `AttemptsBounded`: an item that is
under way has at most `MaxAttempts + faults` attempts, and one that is waiting
to be taken up, with a status a failure left, has used fewer; a crash is the one
step that breaks the second and adds a fault. `TerminalStays` follows because
the items still to do are never ones that ended (`WorkIsOpen`).

*BatchRunner, what is at R2* (`BatchPublishProofs`). Four properties of the bucket
(`PolicyPinned`, `SourceDeclared`, `EvidenceComplete`, `ReportComplete`) share one
invariant. None is inductive, because a dead process's PUT may still arrive: so
`EverySound` says of every object at R2, of every late PUT and of the upload under
way that it is what may stand at its key, and `SoundStays` that no step takes that
away: the directory's policy is written once, swaps are only counted up, evidence is
never overwritten, and a batch whose report exists is not taken up again. The rest of
the invariant follows the attempt that makes the next result: the policy it runs
under (`RunPinned`), the bytes it saw (`SourceSeen`), the images it sent
(`EvidenceSent`).

*BatchRunner, the lifecycle* (`BatchPublishProofs`). `Recorded` says that a journal
that can be read is in step with the attempt under way, and one that cannot has
stopped for good. With it `LocalKept` follows, and every step of the runner is a step
of the RUNBOOK's lifecycle or none (`LifecycleImplemented`): a journal append moves one
item, a PUT, on time or late, fills one empty key.

*JobService* (`JobServiceProofs`). `CompletedIsReported` looks at a job that has
ended; its invariant says of a job at each step how many results it has
(`Counted`), that the sources it must remove are the ones on disk, that earlier
evidence is still there and that the report is the results (`OnDisk`), and that
a job is queued once (`QueuedOnce`), without which two workers would share it.
`LockHeld` ties the lock to the one job in `process` (`OneAtATime`);
`SourcesKept` is an action property from the same invariant, and `JobsImplemented` the
refinement of `ApiJobs`: most steps change nothing a client can ask for, and the
others are one step of one job; a restart forgets them all.

*DetectorBatchService* (`DetectorProofs`). `WaitingIsServed` says that a part of a call
without an answer is in one place. By itself it says nothing of what the place holds,
so the invariant adds what a request is of (`PieceInv`: the frames of its part, its
call's or an earlier one's), how far each lane has queued and read (`LaneInv`), what
the thread has in each phase (`PhaseInv`), and that the offset is the number of frames
of the resolved requests (`AlignInv`), so that a slice is the detections of its own
request. A call that ended with an exception leaves requests behind, whose futures
nobody reads: a request counts for a call only if its call number is the current one.
`DetectorImplemented` maps a lane's call to asking and its answer to being answered.

*RunController* (`RunControllerProofs`). One invariant, `IInv`, gives three
theorems. `Bytewise` follows the declared bytes through the temporary file, the
staged file and the bucket: a file of the right size can be reused without a look
at its ETag (`StagedStaysDeclared`) only because the conditional GET puts no other
bytes into the temporary file and only a rename gives it its name. `Published` says
at each step what the thread has published before it (`ReleasedStaysPublished`),
and `DetectorInv` that the first detector is either unclaimed or one lane's
(`DetectorsNotShared`), for which leaving a pool must find no item under way.

`StagingStaysBounded` needs what packing one item at a time keeps: cohorts are apart,
each within the limit, and the items at work are among those of the first one
(`CohortInv`); `LeftInv` adds that without a crash only a failed item leaves a file
behind.

*The two judges* (`VideoProofs`). Of the floats the proofs use only that they
increase, so they hold for doubles. What they rest on is in three lemmas about a
table of floats. A rounded value is a float with no float nearer (`NearestFound`), so
rounding never moves a value across a float (`NearestKeeps`); a limit is a float, so a
fraction above it in exact arithmetic has a percentage at or above it, and a rule's
threshold on the other side or equal to it (`Converted`); off the limit, the two comparisons
are then the same (`OffTheLimit`). For every such table, every policy and every
measurement a decodable video can have (a float for every signal, intervals whose ends
are in order), `RoutesAlwaysAgree` and `ReasonsAlwaysAgree` prove by
cases over the nine rules what the `video` run checks of its measurements
(`RoutesAgree`, `ReasonsExplain`). That `process_video` only makes such measurements
follows from `SeriesInv` and what the statistics return (`RoutesAgreed`,
`ReasonsExplained`).

*Videos* (`VideoProofs`). The first invariant, `SeriesInv`, describes the middle of a
file: the frames inspected and those still in the chunk make up the video
(`FrameInv`); the k-th hand sample is the first frame at or after the k-th beat, and
the next beat is not yet due (`ClockInv`); work and hands taken together are those
samples, each with the one before it, and what was found in them is what their frames
show (`SampleInv`, `FoundInv`). `SeriesAlwaysExact` reads it at the end. That crops
lose nothing (`DetectExact`) rests on their covering the frame (`CropsCover`) and on a
place belonging to one crop (`AheadApart`).
The second, `EvidenceInv`, says what the images are of at any moment of the two
passes: of what the inspected frames and the observed samples offer. Adding a set of
offers of one time to the images of others is one lemma (`KeptExact`), and later
passes only offer later times to each reason, which is why the first worst image stays.
The third, `MeasuredInv`, is small: a measured result is computed from the series. What
runs are is in the lemmas about them: `RunsExactly` (a scan returns the maximal runs
that are kept, in order and apart, including one at the end), `QualifiedExact`,
`IdleIntervalsExact` and `BlackIntervalsExact`. The gaps of hand samples differ when
the two rates do not divide; `HandTimes` proves that two gaps together are never
shorter than the first one, which is what keeps idle intervals apart.

*Failures and their images* (`VideoProofs`). `FailuresAlwaysShown` needs all three. A
check or a rule fails on a statistic of a whole series, an image is kept for a single
frame or sample, so each statistic has to be traced back to one: a mean above zero has
a one behind it and a mean below the whole something else (`MeanWitness`), a quantile
above a limit a value above it (`QuantileWitness`), though it is interpolated, and a
bootstrap interval ends at the statistic of values of the series (`IntervalWitness`).
A black window has a black frame in it, a sample qualified as idle was observed idle
(`RunsOfSeries`); that sample was shown to the selector (`SeriesInv`), and a reason
something was shown for has an image (`OffersShown`, from `EvidenceInv`). `CheckShown`
leads a failed check of the API back to the reason it is shown for, and through the
conversion of its measurement to the selector's own threshold.

The hypotheses are `black_window_fraction` above 0 (an API job leaves it at 0.90), a
policy that asks for hands in at most all frames (`minimum_percent` is at most 100), and
for a controller's job that each rule is `Evident`: on the reason's own measurement and
no stricter than the threshold the selector shows by, with a threshold that is a float. The API's rules are
(`ApiRulesEvident`) and the default ones of `schemas.py:139` have that form. A fraction of
0 calls a video covered that has no dark frame to show, and a job whose shake rule is
stricter than its camera's shake threshold may fail with no image: the schemas allow
both.

Facts about a scan, a rank or the least of a set are inductions over a series. They
are proved without an induction theorem, by looking at the least place where the
statement fails (`NatLeast`), which the recursive definition then excludes.

Assumptions: a frame's period is no longer than the hand samples' and thresholds are
integers as the schemas bound them; the crops of a frame meet; a request names at
least one video and there is at least one worker;
`AbsentIsNothing` and `ForeignIsNotOurs` keep "no object" and
"somebody else's object" apart from what the runner writes, and `PartialIsNoPolicy` a
hash that was cut short apart from a whole one; `MaxAttempts` is in
1..5 as the schema has it; there is at least one item; bounds are naturals;
a manifest names an item once and items have a size; `NoneAssumption` keeps "no
object" apart from items, copies and results; floats increase from zero, and 1.0
and the limits of a policy are floats.

Model-checked only: everything about liveness (`SettlesUnlessWedged`,
`CallsAndThreadEnd`, `JobsEnd`, `ItemsEnd`), which is out of the prover's reach.

## Not modelled

Pixel arithmetic and inference (`detector.py`'s engines, `inference.py`, the inside
of `camera.py`) have no interleaving and no small discrete instance; the models take
their results as part of a picture. The replicates of the bootstrap, the spectrum of
speeds, `_good_probability` and the hours a report sums from it are left out, as is
the suppression of overlapping boxes. HTTP routing and authentication hold no state;
the fetcher's redirects and address checks turn on DNS and URL syntax; the system
monitor's samples are only quoted in a report; the CLI, deployment and scripts parse
arguments and print. Two processes in one run directory are excluded by the
operator's procedure, not by the code. Wall-clock time is left out: presigned URLs
that expire and polling or fetching without a deadline are assumed away or are
hazards without a property.

Met on the way and left without a property: a second `run()` on the same
`RunController` would find its detector closed and the monitor's stop event set (the
CLI makes a new one each time); a video that the controller cannot decode is GOOD if
its job has neither a rule on `camera.corrupt` nor one its zero measures violate; a covered clip shorter than the window of
`black_intervals` is never reported as covered.

`PROJECT.json` lists every part with its reason.

## Plan

In this order; groups 1 to 9 are done.

1. `R2Store`, `ProgressJournal` with their promises; `BatchRunner` on top; the
   invariants of publishing and their proofs.
2. `DetectorBatchService`.
3. Retry and end-state theorems of the runner.
4. `JobService`: QCService's job table, its workers, locks and files, with
   restarts, and its theorems.
5. `RunController`: cohorts, the two pools, reuse of downloads, retry_only,
   crashes in every state, and its theorems.
6. `Rules`, `PolicyChecks`, `EvidenceSelector`, `VideoMeasures` and `VideoProcessor`,
   and the theorems about the two judges.
7. The proofs about what the runner leaves at R2 and about its lifecycle.
8. The proofs of the journal, the detector service, the controller's staging, the
   service's refinement and everything measured of a video.
9. `FailureShown` for the rules of an API job, and those of a controller's that the
   selector knows of.
10. Models still worth having: two runners in one run directory, the fetcher's
   redirects, `RunController` over the shared detector.
