-------------------------- MODULE BatchPublishProofs --------------------------
(***************************************************************************)
(* What is at R2 under the keys of a batch, for every manifest and any     *)
(* number of runs, crashes, source swaps and API restarts: results judged  *)
(* under one policy from the declared bytes, with their evidence, and a    *)
(* report that covers them all.                                            *)
(*                                                                         *)
(* Each of these says something of a bucket that other calls can still     *)
(* fill.  The invariant therefore says it of every object on its way to    *)
(* the bucket too, and of the attempt that makes the next one.             *)
(***************************************************************************)
EXTENDS BatchRunnerProofs

\* What a result must be to stand at the key of item i...
Judged(c) ==
    /\ c.policy = frozenPolicy \/ policyMoved
    /\ c.verdict = "judged" => c.seen = "declared" \/ (c.seen = "sameSize" /\ swaps >= 2)

EvidenceStored(i, c) ==
    \A a \in ArtifactIds : c.evidence[a] # Absent =>
        objects[EvidenceKey(i, a)] = c.evidence[a]

Vouched(i, c) == c \in Results /\ Judged(c) /\ EvidenceStored(i, c)

\* ... and a report: it quotes the results of a batch no run will touch again.
Covers(c) ==
    /\ \A i \in Items : Status(i) = "freed" /\ c.items[i] = Published(i)
    /\ todo = {} /\ item = 0

Sound(k, c) ==
    /\ \A i \in Items : k = ResultKey(i) => Vouched(i, c)
    /\ k = ReportKey => Covers(c)

\* Stored, sent late by a process that is gone, or being sent.
EverySound ==
    /\ \A k \in Keys : objects[k] # Absent =>
           \/ Sound(k, objects[k])
           \/ objects[k] = Foreign /\ k # ReportKey
    /\ \A put \in late : Sound(put[1], put[2])
    /\ upload[Runner].key \in Keys => Sound(upload[Runner].key, upload[Runner].content)

\* A run works under the policy of its directory.
RunPinned ==
    /\ pc = "pinning" => frozenPolicy = Partial
    /\ pc \in {"reading", "next", "publishing"} \cup ItemPoints => frozenPolicy = runPolicy
    /\ pc \notin {"down", "freezing", "starting"} => backend = runPolicy \/ policyMoved
    /\ job.state \in {"queued", "complete", "error"} =>
           job.policy = frozenPolicy \/ policyMoved
    /\ product # Absent => product.policy = frozenPolicy \/ policyMoved

\* Other bytes than the declared ones were seen only if somebody put them there,
\* and put the declared ones back since if those are there now.
Swapped(seen, now) ==
    seen \in {"sameSize", "otherSize"} => swaps >= 1 /\ (now = "declared" => swaps >= 2)

SourceSeen ==
    /\ \A i \in Items : source[i] # "declared" => swaps >= 1
    /\ item = 0 => job.seen = "nothing"
    /\ item \in Items => Swapped(job.seen, source[item])
    /\ job.verdict = "judged" => job.seen # "nothing"
    /\ product # Absent /\ product.verdict = "judged" => product.seen # "nothing"
    /\ pc = "rechecking" => Swapped(product.seen, source[item])
    /\ pc \in {"evidence", "sending"} =>
           product.seen # "otherSize" /\ (product.seen = "sameSize" => swaps >= 2)

\* The evidence that is no longer left to send is stored.
EvidenceSent ==
    /\ pc \in {"evidence", "sending"} =>
           \A a \in ArtifactIds : product.evidence[a] # Absent /\ a \notin left =>
               objects[EvidenceKey(item, a)] = product.evidence[a]
    /\ pc = "sending" =>
           \A a \in ArtifactIds : SentKey = EvidenceKey(item, a) =>
               upload[Runner].content = product.evidence[a]

PublishInv ==
    /\ EverySound
    /\ RunPinned
    /\ SourceSeen
    /\ EvidenceSent

------------------------------------------------------------------------------
(* What is sound stays sound. *)

LEMMA PolicyStays ==
    ASSUME IInv, RunPinned, [Next]_vars
    PROVE  /\ frozenPolicy' = frozenPolicy \/ frozenPolicy \notin Policies
           /\ policyMoved => policyMoved'
           /\ swaps \in Nat /\ swaps' \in {swaps, swaps + 1}
<1>1. frozenPolicy' = frozenPolicy \/ frozenPolicy \notin Policies
  <2>1. CASE DirActions
    BY <2>1, AbsentIsNothing, PartialIsNoPolicy
       DEF DirActions, Launch, FreezeJob, Start, PinPolicy, Recheck, RemoveLocal, RunPinned
  <2>2. CASE UNCHANGED dirVars
    BY <2>2 DEF dirVars
  <2>3. QED
    BY <2>1, <2>2, DirFrame
<1>2. policyMoved => policyMoved'
  BY WorldFrame, Zenon
     DEF WorldActions, Redeploy, SwapSource, Interrupt, FreedUnsynced, spentVars
<1>3. swaps' \in {swaps, swaps + 1}
  BY WorldFrame DEF WorldActions, Redeploy, SwapSource, Interrupt, FreedUnsynced, spentVars
<1>4. QED
  BY <1>1, <1>2, <1>3 DEF IInv, TypeOK, WorldTypeOK

LEMMA VouchedStays ==
    ASSUME IInv, RunPinned, [Next]_vars, NEW i \in Items, NEW c, Vouched(i, c)
    PROVE  Vouched(i, c)'
<1>1. c \in Results /\ c.policy \in Policies
  BY DEF Vouched, Results
<1>2. Judged(c)'
  BY <1>1, PolicyStays DEF Vouched, Judged
<1>3. EvidenceStored(i, c)'
  BY <1>1, StepStoreIInv, KeysTyped DEF Vouched, EvidenceStored, EvidenceKey
<1>4. QED
  BY <1>1, <1>2, <1>3 DEF Vouched

\* A batch with a report is never taken up again.
LEMMA CoversStays ==
    ASSUME IInv, RetryInv, [Next]_vars, NEW c, Covers(c)
    PROVE  Covers(c)'
<1>1. todo = {} /\ item = 0
  BY DEF Covers
<1>2. UNCHANGED latest /\ todo' = {} /\ item' = 0
  <2>1. CASE ReadJournal
    BY <2>1, <1>1 DEF ReadJournal, ToRun, Skipped, Covers, journalVars, attemptVars
  <2>2. CASE Interrupt
    BY <2>2 DEF Interrupt, ProcessOver, AttemptOver, journalVars
  <2>3. CASE Untouched
    BY <2>3, <1>1 DEF Untouched
  <2>4. ~(Attempt \/ JournalUpload \/ JournalFreed \/ FreedUnsynced \/ RecordFailure
          \/ FailureUnreadable)
    BY <1>1 DEF Attempt, JournalUpload, JournalFreed, FreedUnsynced, RecordFailure,
                FailureUnreadable, IInv, TypeOK, ProcessTypeOK, ItemPoints
  <2>5. QED
    BY <2>1, <2>2, <2>3, <2>4, RetryFrame DEF RetryActions
<1>3. \A i \in Items : objects'[ResultKey(i)] = objects[ResultKey(i)]
  <2> TAKE i \in Items
  <2>1. objects[ResultKey(i)] # Absent
    BY DEF Covers, IInv, FreedIsPublished, Published
  <2>2. QED
    BY <2>1, StepStoreIInv, KeysTyped
<1>4. QED
  BY <1>2, <1>3 DEF Covers, Status, Published, ResultKey

LEMMA SoundStays ==
    ASSUME IInv, RetryInv, RunPinned, [Next]_vars, NEW k, NEW c, Sound(k, c)
    PROVE  Sound(k, c)'
<1>1. ASSUME NEW i \in Items, k = ResultKey(i) PROVE Vouched(i, c)'
  BY <1>1, VouchedStays DEF Sound
<1>2. ASSUME k = ReportKey PROVE Covers(c)'
  BY <1>2, CoversStays DEF Sound
<1>3. QED
  BY <1>1, <1>2 DEF Sound, ResultKey, ReportKey

------------------------------------------------------------------------------
(* Whatever reaches the bucket is sound. *)

\* What a step can bring to R2, or onto the way there, was already being sent.
OnItsWay(k, c) ==
    \/ k = upload[Runner].key /\ c = upload[Runner].content
    \/ <<k, c>> \in late

LEMMA NothingNewStored ==
    ASSUME IInv, [Next]_vars
    PROVE  /\ \A k \in Keys : objects'[k] # objects[k] => OnItsWay(k, objects'[k])
           /\ \A put \in late' : put[1] \in Keys /\ OnItsWay(put[1], put[2])
<1> SUFFICES /\ \A k \in Keys : objects'[k] # objects[k] => OnItsWay(k, objects'[k])
             /\ \A put \in late' : OnItsWay(put[1], put[2])
  BY StepStoreIInv DEF Store!TypeOK
<1>0. \A put \in late : OnItsWay(put[1], put[2])
  BY DEF OnItsWay, IInv, TypeOK, Store!TypeOK
<1> USE DEF IInv, TypeOK, Store!TypeOK
<1>1. CASE UploadStep
  <2>1. Store!Exchange(Runner)
    BY <1>1 DEF UploadStep
  <2>2. CASE Store!PutAccepted(Runner) \/ Store!PutResponseLost(Runner)
    BY <1>0, <2>2 DEF Store!PutAccepted, Store!PutResponseLost, Store!Target, OnItsWay
  <2>3. CASE Store!PutFails(Runner)
    BY <1>0, <2>3 DEF Store!PutFails, Store!Phase, Store!Target, OnItsWay
  <2>4. CASE UNCHANGED <<objects, late>>
    BY <1>0, <2>4
  <2>5. QED
    BY <2>1, <2>2, <2>3, <2>4
       DEF Store!Exchange, Store!HeadFound, Store!HeadMissing, Store!HeadFails,
           Store!PutRefused, Store!Verify
<1>2. CASE Interrupt
  BY <1>0, <1>2 DEF Interrupt, storeVars, Store!Die, Store!Phase, Store!Target, OnItsWay
<1>3. CASE LatePut
  BY <1>0, <1>3 DEF LatePut, Store!LateArrival, OnItsWay
<1>4. CASE UNCHANGED <<objects, late>>
  BY <1>0, <1>4
<1>5. UploadEvidence \/ UploadResult \/ UploadReturns \/ UploadRaises \/ PublishReport
      \/ PublishEnds => UNCHANGED <<objects, late>>
  BY DEF UploadEvidence, UploadResult, UploadReturns, UploadRaises, PublishReport,
         PublishEnds, Store!Begin, Store!Return
<1>6. QED
  BY <1>1, <1>2, <1>3, <1>4, <1>5, StoreFrame DEF StoreActions, storeVars

\* A call keeps what it sends, or is over, or begins.
LEMMA CallKept ==
    ASSUME IInv, [Next]_vars, upload'[Runner].key \in Keys
    PROVE  \/ UploadEvidence \/ UploadResult \/ PublishReport
           \/ /\ upload'[Runner].key = upload[Runner].key
              /\ upload'[Runner].content = upload[Runner].content
<1>1. CASE UploadStep
  BY <1>1, ExchangeKeepsCall DEF UploadStep
<1>2. CASE Store!Return(Runner) \/ Store!Die(Runner)
  BY <1>2, AbsentIsNothing DEF Store!Return, Store!Die, Store!NoUpload, IInv, TypeOK,
                               Store!TypeOK
<1>3. CASE UNCHANGED upload
  BY <1>3
<1>4. UploadReturns \/ UploadRaises \/ PublishEnds \/ Interrupt
      => Store!Return(Runner) \/ Store!Die(Runner) \/ UNCHANGED upload
  BY DEF UploadReturns, UploadRaises, PublishEnds, Interrupt, storeVars
<1>5. LatePut => UNCHANGED upload
  BY DEF LatePut, Store!LateArrival
<1>6. QED
  BY <1>1, <1>2, <1>3, <1>4, <1>5, StoreFrame DEF StoreActions, storeVars

LEMMA BegunIsSound ==
    ASSUME IInv, RetryInv, PublishInv, UploadEvidence \/ UploadResult \/ PublishReport
    PROVE  Sound(upload'[Runner].key, upload'[Runner].content)
<1>1. CASE UploadEvidence
  <2>1. PICK a \in left : Store!Begin(Runner, EvidenceKey(item, a), product.evidence[a])
    BY <1>1 DEF UploadEvidence
  <2>2. upload'[Runner].key = EvidenceKey(item, a)
    BY <2>1, BegunCall
  <2>3. QED
    BY <2>2 DEF Sound, EvidenceKey, ResultKey, ReportKey
<1>2. CASE UploadResult
  <2>1. upload'[Runner].key = ResultKey(item) /\ upload'[Runner].content = product
    BY <1>2, BegunCall DEF UploadResult
  <2>2. product \in Results /\ product # Absent /\ item \in Items
    BY <1>2, AbsentIsNothing
       DEF UploadResult, IInv, TypeOK, ProcessTypeOK, ItemPoints, Contents
  <2>3. Judged(product)
    <3>1. product.policy = frozenPolicy \/ policyMoved
      BY <2>2 DEF PublishInv, RunPinned
    <3>2. product.seen # "otherSize" /\ (product.seen = "sameSize" => swaps >= 2)
      BY <1>2 DEF UploadResult, PublishInv, SourceSeen
    <3>3. product.verdict = "judged" => product.seen # "nothing"
      BY <2>2 DEF PublishInv, SourceSeen
    <3>4. product.seen \in Sources \cup {"nothing"}
      BY <2>2 DEF Results
    <3>5. QED
      BY <3>1, <3>2, <3>3, <3>4 DEF Judged, Sources
  <2>4. EvidenceStored(item, product)
    BY <1>2 DEF UploadResult, EvidenceUploaded, PublishInv, EvidenceSent, EvidenceStored
  <2>5. Vouched(item, product)
    BY <2>2, <2>3, <2>4 DEF Vouched
  <2>6. QED
    BY <2>1, <2>5 DEF Sound, ResultKey, ReportKey
<1>3. CASE PublishReport
  <2>1. upload'[Runner].key = ReportKey /\ upload'[Runner].content = Report
    BY <1>3, BegunCall DEF PublishReport
  <2>2. todo = {} /\ item = 0
    BY <1>3 DEF PublishReport, IInv, TypeOK, ProcessTypeOK, ItemPoints
  <2>3. \A i \in Items : Status(i) = "freed" /\ Report.items[i] = Published(i)
    BY <1>3 DEF PublishReport, Complete, FreedItems, Report, Published
  <2>4. QED
    BY <2>1, <2>2, <2>3 DEF Sound, Covers, ResultKey, ReportKey
<1>4. QED
  BY <1>1, <1>2, <1>3

LEMMA WayIsSound ==
    ASSUME EverySound, NEW k \in Keys, NEW c, OnItsWay(k, c)
    PROVE  Sound(k, c)
<1>1. CASE k = upload[Runner].key /\ c = upload[Runner].content
  BY <1>1 DEF EverySound
<1>2. CASE <<k, c>> \in late
  <2>1. PICK put : put = <<k, c>>
    OBVIOUS
  <2>2. Sound(put[1], put[2])
    BY <1>2, <2>1 DEF EverySound
  <2>3. QED
    BY <2>1, <2>2
<1>3. QED
  BY <1>1, <1>2 DEF OnItsWay

LEMMA StepEverySound ==
    ASSUME IInv, RetryInv, PublishInv, [Next]_vars
    PROVE  EverySound'
<1> USE DEF PublishInv
<1>1. ASSUME NEW k \in Keys, objects'[k] # Absent
      PROVE  Sound(k, objects[k])' \/ (objects'[k] = Foreign /\ k # ReportKey)
  <2> SUFFICES ASSUME ~(objects'[k] = Foreign /\ k # ReportKey)
               PROVE  Sound(k, objects[k])'
    OBVIOUS
  <2>1. PICK c : c = objects'[k]
    OBVIOUS
  <2>2. objects[k] = c \/ OnItsWay(k, c)
    BY <2>1, NothingNewStored
  <2>3. Sound(k, c)
    BY <1>1, <2>1, <2>2, WayIsSound DEF EverySound
  <2>4. Sound(k, c)'
    BY <2>3, SoundStays
  <2>5. QED
    BY <2>1, <2>4 DEF Sound, Vouched, Judged, EvidenceStored, Covers, Status, Published
<1>2. ASSUME NEW put \in late' PROVE Sound(put[1], put[2])'
  <2>1. Sound(put[1], put[2])
    BY <1>2, NothingNewStored, WayIsSound
  <2>2. QED
    BY <2>1, SoundStays
<1>3. ASSUME upload'[Runner].key \in Keys
      PROVE  Sound(upload[Runner].key, upload[Runner].content)'
  <2>1. PICK k, c : k = upload'[Runner].key /\ c = upload'[Runner].content
    OBVIOUS
  <2>2. Sound(k, c)
    BY <1>3, <2>1, CallKept, BegunIsSound DEF EverySound
  <2>3. Sound(k, c)'
    BY <2>2, SoundStays
  <2>4. QED
    BY <2>1, <2>3 DEF Sound, Vouched, Judged, EvidenceStored, Covers, Status, Published
<1>4. QED
  BY <1>1, <1>2, <1>3 DEF EverySound

------------------------------------------------------------------------------
(* A run works under the policy of its directory. *)

\* Steps that neither start nor end a run, nor take it from one point to another.
Elsewhere == UploadStep \/ ApiStep \/ Redeploy \/ SwapSource \/ LatePut \/ LaunchRefused
             \/ UNCHANGED vars

LEMMA ElsewhereFrame ==
    Elsewhere => UNCHANGED <<pc, runPolicy, todo, attemptVars, journalVars, dirVars>>
  BY DEF Elsewhere, UploadStep, ApiStep, ApiFetch, ApiComplete, ApiVideoFails, ApiJobFails,
         ApiUnchanged, Redeploy, SwapSource, LatePut, LaunchRefused, vars

Ending == NotReady \/ PolicyRefused \/ JournalUnreadable \/ FailureUnreadable \/ ReportPartial
          \/ CollectFails \/ PublishEnds \/ Interrupt

LEMMA EndingFrame == Ending => pc' = "down" /\ item' = 0 /\ product' = Absent /\ job' = NoJob
  BY DEF Ending, NotReady, PolicyRefused, JournalUnreadable, FailureUnreadable, ReportPartial,
         CollectFails, PublishEnds, Interrupt, ProcessOver, AttemptOver

\* Every other step of the process.
Working == ReadJournal \/ PublishReport \/ (ItemStep /\ ~FailureUnreadable)

LEMMA StepKinds ==
    [Next]_vars => \/ Launch \/ FreezeJob \/ Start \/ PinPolicy
                   \/ Working \/ Ending \/ Elsewhere
  BY DEF Next, RunnerStep, StartStep, EndStep, Working, Ending, Elsewhere

RunPoints == {"reading", "next", "publishing"} \cup ItemPoints

LEMMA WorkingFrame ==
    ASSUME IInv, Working
    PROVE  /\ pc \in RunPoints /\ pc' \in RunPoints
           /\ UNCHANGED <<frozenPolicy, runPolicy, backend, policyMoved, source, swaps>>
  BY DEF IInv, TypeOK, ProcessTypeOK, Working, RunPoints, ItemPoints, ItemStep, dirVars,
         apiVars, spentVars, attemptVars, ReadJournal,
         PublishReport, Attempt, CheckSource, Submit, PollComplete, PollError, Recheck,
         UploadEvidence, UploadResult, UploadReturns, UploadRaises, JournalUpload,
         RemoveLocal, JournalFreed, FreedUnsynced, StepRaises, RecordFailure, Raise, AfterUpload

LEMMA StepRunPolicy ==
    ASSUME IInv, RunPinned, [Next]_vars
    PROVE  /\ pc' = "pinning" => frozenPolicy' = Partial
           /\ pc' \in RunPoints => frozenPolicy' = runPolicy'
           /\ pc' \notin {"down", "freezing", "starting"} => backend' = runPolicy' \/ policyMoved'
<1> USE DEF RunPinned, RunPoints, ItemPoints
<1>1. CASE Launch \/ FreezeJob
  BY <1>1 DEF Launch, FreezeJob
<1>2. CASE Start
  BY <1>2 DEF Start, PolicyAccepted, apiVars
<1>3. CASE PinPolicy
  BY <1>3 DEF PinPolicy, apiVars, spentVars
<1>4. CASE Working
  BY <1>4, WorkingFrame
<1>5. CASE Ending
  BY <1>5, EndingFrame
<1>6. CASE Elsewhere
  <2>1. UNCHANGED <<pc, runPolicy, frozenPolicy>>
    BY <1>6, ElsewhereFrame DEF dirVars
  <2>2. backend' # backend => policyMoved' \/ pc = "down"
    BY WorldFrame, <1>6, Zenon
       DEF WorldActions, Redeploy, SwapSource, Interrupt, FreedUnsynced, apiVars
  <2>3. policyMoved => policyMoved'
    BY PolicyStays
  <2>4. QED
    BY <2>1, <2>2, <2>3
<1>7. QED
  BY <1>1, <1>2, <1>3, <1>4, <1>5, <1>6, StepKinds

LEMMA StepProductPolicy ==
    ASSUME IInv, RunPinned, [Next]_vars, product' # Absent
    PROVE  product'.policy = frozenPolicy' \/ policyMoved'
<1>1. CASE PollComplete
  <2>1. product'.policy = job.policy /\ job.state = "complete"
    BY <1>1 DEF PollComplete
  <2>2. job.policy \in Policies /\ (job.policy = frozenPolicy \/ policyMoved)
    BY <2>1 DEF RunPinned, IInv, TypeOK, WorldTypeOK
  <2>3. QED
    BY <2>1, <2>2, PolicyStays
<1>2. CASE UNCHANGED product
  <2>1. product.policy = frozenPolicy \/ policyMoved
    BY <1>2 DEF RunPinned
  <2>2. product.policy \in Policies
    BY <1>2 DEF IInv, TypeOK, ProcessTypeOK, Results
  <2>3. QED
    BY <1>2, <2>1, <2>2, PolicyStays
<1>3. Launch \/ FreezeJob \/ Start \/ PinPolicy \/ Elsewhere => UNCHANGED product
  BY ElsewhereFrame DEF Launch, FreezeJob, Start, PinPolicy, attemptVars
<1>4. Working => PollComplete \/ UNCHANGED product \/ product' = Absent
  BY DEF Working, ItemStep, ReadJournal, PublishReport, attemptVars, AttemptOver,
         Attempt, CheckSource, Submit, PollError, Recheck, UploadEvidence, UploadResult,
         UploadReturns, UploadRaises, JournalUpload, RemoveLocal, JournalFreed, FreedUnsynced,
         StepRaises, RecordFailure
<1>5. QED
  BY <1>1, <1>2, <1>3, <1>4, EndingFrame, StepKinds

LEMMA StepJobPolicy ==
    ASSUME IInv, RunPinned, [Next]_vars, job'.state \in {"queued", "complete", "error"}
    PROVE  job'.policy = frozenPolicy' \/ policyMoved'
<1>1. CASE Submit
  <2>1. job'.policy = backend /\ UNCHANGED <<frozenPolicy, policyMoved>>
    BY <1>1 DEF Submit, Queued, dirVars, spentVars
  <2>2. frozenPolicy = runPolicy /\ (backend = runPolicy \/ policyMoved)
    BY <1>1 DEF Submit, RunPinned, ItemPoints
  <2>3. QED
    BY <2>1, <2>2
<1>2. CASE ApiStep \/ UNCHANGED job
  <2>1. job'.policy = job.policy /\ job.state \in {"queued", "complete", "error"}
    BY <1>2 DEF ApiStep, ApiFetch, ApiComplete, ApiVideoFails, ApiJobFails, IInv, TypeOK,
                WorldTypeOK, Jobs
  <2>2. job.policy \in Policies /\ (job.policy = frozenPolicy \/ policyMoved)
    BY <2>1 DEF RunPinned, IInv, TypeOK, WorldTypeOK
  <2>3. QED
    BY <2>1, <2>2, PolicyStays
<1>3. CASE Redeploy \/ job' = NoJob
  BY <1>3, NoJobTyped DEF Redeploy
<1>4. QED
  BY <1>1, <1>2, <1>3, JobFrame DEF JobActions, JobKept

LEMMA StepRunPinned == ASSUME IInv, RunPinned, [Next]_vars PROVE RunPinned'
<1>1. /\ pc' = "pinning" => frozenPolicy' = Partial
      /\ pc' \in {"reading", "next", "publishing"} \cup ItemPoints => frozenPolicy' = runPolicy'
      /\ pc' \notin {"down", "freezing", "starting"} => backend' = runPolicy' \/ policyMoved'
  BY StepRunPolicy DEF RunPoints
<1>2. product' # Absent => product'.policy = frozenPolicy' \/ policyMoved'
  BY StepProductPolicy
<1>3. job'.state \in {"queued", "complete", "error"} =>
          job'.policy = frozenPolicy' \/ policyMoved'
  BY StepJobPolicy
<1>4. QED
  BY <1>1, <1>2, <1>3 DEF RunPinned, ItemPoints

------------------------------------------------------------------------------
(* The bytes a result was judged from. *)

LEMMA StepSwaps ==
    ASSUME IInv, SourceSeen, [Next]_vars, NEW i \in Items
    PROVE  /\ source'[i] # "declared" => swaps' >= 1
           /\ source'[i] = "declared" /\ source[i] # "declared" => swaps' >= 2
           /\ swaps \in Nat /\ swaps' \in Nat /\ swaps' >= swaps
<1> USE DEF IInv, TypeOK, WorldTypeOK
<1>1. CASE SwapSource
  BY <1>1 DEF SwapSource, SourceSeen
<1>2. CASE UNCHANGED <<source, swaps>>
  BY <1>2 DEF SourceSeen
<1>3. SwapSource \/ UNCHANGED <<source, swaps>>
  BY WorldFrame DEF WorldActions, Redeploy, Interrupt, FreedUnsynced, spentVars
<1>4. QED
  BY <1>1, <1>2, <1>3

\* Seeing other bytes than the declared ones keeps having been a swap or two.
LEMMA SwappedStays ==
    ASSUME IInv, SourceSeen, [Next]_vars, item \in Items, NEW seen,
           Swapped(seen, source[item])
    PROVE  seen \in {"sameSize", "otherSize"} =>
               swaps' >= 1 /\ (source'[item] = "declared" => swaps' >= 2)
  BY StepSwaps DEF Swapped

\* What a fetch sees of the source is a swap if it is not the declared object.
LEMMA SeenNowIsSwap ==
    ASSUME IInv, SourceSeen, NEW i \in Items
    PROVE  Swapped(source[i], source[i])
  BY DEF Swapped, SourceSeen, IInv, TypeOK, WorldTypeOK

LEMMA ItemFrame ==
    ASSUME IInv, [Next]_vars
    PROVE  \/ UNCHANGED item
           \/ Attempt
           \/ item' = 0 /\ job' = NoJob
<1>1. Launch \/ FreezeJob \/ Start \/ PinPolicy \/ Elsewhere => UNCHANGED item
  BY ElsewhereFrame DEF Launch, FreezeJob, Start, PinPolicy, attemptVars
<1>2. Working => Attempt \/ UNCHANGED item \/ (item' = 0 /\ job' = NoJob)
  BY DEF Working, ItemStep, ReadJournal, PublishReport, attemptVars, AttemptOver,
         CheckSource, Submit, PollComplete, PollError, Recheck, UploadEvidence, UploadResult,
         UploadReturns, UploadRaises, JournalUpload, RemoveLocal, JournalFreed, FreedUnsynced,
         StepRaises, RecordFailure
<1>3. QED
  BY <1>1, <1>2, EndingFrame, StepKinds

LEMMA StepJobSeen ==
    ASSUME IInv, SourceSeen, [Next]_vars
    PROVE  /\ item' = 0 => job'.seen = "nothing"
           /\ item' \in Items => Swapped(job.seen, source[item])'
           /\ job'.verdict = "judged" => job'.seen # "nothing"
<1> USE DEF Swapped
<1>1. CASE job' \in {NoJob, LostJob} \/ Submit
  BY <1>1 DEF NoJob, LostJob, Submit, Queued
<1>2. CASE ApiStep
  <2>1. item \in Items /\ UNCHANGED <<item, source, swaps>>
    BY <1>2, ApiJobTyped
       DEF ApiStep, ApiFetch, ApiComplete, ApiVideoFails, ApiJobFails, ApiUnchanged,
           attemptVars, spentVars, IInv, TypeOK, WorldTypeOK, ProcessTypeOK, ItemPoints
  <2>2. item # 0
    BY <2>1, ZeroIsNoItem
  <2>3. job'.seen \in {job.seen, source[item], "nothing"}
    BY <1>2 DEF ApiStep, ApiFetch, ApiComplete, ApiVideoFails, ApiJobFails, IInv, TypeOK,
                WorldTypeOK, Jobs
  <2>4. Swapped(source[item], source[item]) /\ Swapped(job.seen, source[item])
    BY <2>1, SeenNowIsSwap DEF SourceSeen
  <2>5. job'.verdict = "judged" => job'.seen # "nothing"
    <3>1. CASE ApiFetch
      BY <2>1, <3>1 DEF ApiFetch, IInv, TypeOK, WorldTypeOK, Jobs, Sources
    <3>2. CASE ApiComplete
      BY <3>2 DEF ApiComplete, IInv, TypeOK, WorldTypeOK, Jobs
    <3>3. CASE ApiVideoFails \/ ApiJobFails
      BY <3>3 DEF ApiVideoFails, ApiJobFails, SourceSeen, IInv, TypeOK, WorldTypeOK, Jobs
    <3>4. QED
      BY <1>2, <3>1, <3>2, <3>3 DEF ApiStep
  <2>6. QED
    BY <2>1, <2>2, <2>3, <2>4, <2>5
<1>3. CASE UNCHANGED job
  <2>1. CASE Attempt
    BY <1>3, <2>1 DEF Attempt, SourceSeen, IInv, TypeOK, ProcessTypeOK, ItemPoints
  <2>2. CASE item' = 0 /\ job' = NoJob
    BY <2>2, ZeroIsNoItem DEF NoJob
  <2>3. CASE UNCHANGED item
    BY <1>3, <2>3, SwappedStays DEF SourceSeen
  <2>4. QED
    BY <2>1, <2>2, <2>3, ItemFrame
<1>4. QED
  BY <1>1, <1>2, <1>3, JobFrame DEF JobActions, JobKept, Redeploy

\* The size is compared and the source looked at again after the verdict.
LEMMA StepProductSeen ==
    ASSUME IInv, SourceSeen, [Next]_vars
    PROVE  /\ product' # Absent /\ product'.verdict = "judged" => product'.seen # "nothing"
           /\ pc' = "rechecking" => Swapped(product.seen, source[item])'
           /\ pc' \in {"evidence", "sending"} =>
                  product'.seen # "otherSize" /\ (product'.seen = "sameSize" => swaps' >= 2)
<1> USE DEF Swapped
<1>1. CASE PollComplete
  <2>1. item \in Items /\ UNCHANGED <<item, source, swaps>> /\ pc' = "rechecking"
        /\ product'.seen = job.seen /\ product'.verdict = job.verdict
    BY <1>1 DEF PollComplete, spentVars, IInv, TypeOK, ProcessTypeOK, ItemPoints
  <2>2. QED
    BY <2>1 DEF SourceSeen
<1>2. CASE Recheck
  <2>1. UNCHANGED <<item, source, swaps, product>> /\ pc' # "rechecking" /\ pc' # "sending"
        /\ pc = "rechecking"
    BY <1>2 DEF Recheck, Raise, spentVars
  <2>2. pc' = "evidence" => product.seen # "otherSize" /\ source[item] = "declared"
    BY <1>2 DEF Recheck, Raise, SourceHeld
  <2>3. QED
    BY <2>1, <2>2 DEF SourceSeen
<1>3. CASE UploadEvidence \/ UploadResult \/ UploadReturns
  <2>1. /\ pc \in {"evidence", "sending"} /\ pc' # "rechecking"
        /\ UNCHANGED <<product, swaps>>
    BY <1>3 DEF UploadEvidence, UploadResult, UploadReturns, attemptVars, spentVars, AfterUpload
  <2>2. QED
    BY <2>1 DEF SourceSeen
<1>4. CASE Elsewhere
  <2>1. UNCHANGED <<pc, item, product>>
    BY <1>4, ElsewhereFrame DEF attemptVars
  <2>2. pc \in {"rechecking", "evidence", "sending"} => item \in Items
    BY DEF IInv, TypeOK, ProcessTypeOK, ItemPoints
  <2>3. pc = "rechecking" => Swapped(product.seen, source[item])'
    BY <2>1, <2>2, SwappedStays DEF SourceSeen
  <2>4. pc \in {"evidence", "sending"} =>
            product.seen # "otherSize" /\ (product.seen = "sameSize" => swaps' >= 2)
    BY <2>2, StepSwaps DEF SourceSeen
  <2>5. QED
    BY <2>1, <2>3, <2>4 DEF SourceSeen
<1>5. CASE pc' \notin {"rechecking", "evidence", "sending"} /\ product' \in {product, Absent}
  BY <1>5 DEF SourceSeen
<1>6. Launch \/ FreezeJob \/ Start \/ PinPolicy \/ Ending
      => pc' \notin {"rechecking", "evidence", "sending"} /\ product' \in {product, Absent}
  BY EndingFrame DEF Launch, FreezeJob, Start, PinPolicy, attemptVars
<1>7. Working => \/ PollComplete \/ Recheck \/ UploadEvidence \/ UploadResult \/ UploadReturns
                 \/ /\ pc' \notin {"rechecking", "evidence", "sending"}
                    /\ product' \in {product, Absent}
  BY DEF Working, ItemStep, ReadJournal, PublishReport, attemptVars, AttemptOver, Raise,
         Attempt, CheckSource, Submit, PollError, UploadRaises, JournalUpload, RemoveLocal,
         JournalFreed, FreedUnsynced, StepRaises, RecordFailure
<1>8. QED
  BY <1>1, <1>2, <1>3, <1>4, <1>5, <1>6, <1>7, StepKinds

LEMMA StepSourceSeen == ASSUME IInv, SourceSeen, [Next]_vars PROVE SourceSeen'
<1>1. \A i \in Items : source'[i] # "declared" => swaps' >= 1
  BY StepSwaps
<1>2. QED
  BY <1>1, StepJobSeen, StepProductSeen DEF SourceSeen, Swapped

------------------------------------------------------------------------------
(* The evidence of the attempt under way. *)

\* An artifact that upload_create_only returned for is at its key.
LEMMA ReturnedIsStored ==
    ASSUME IInv, EvidenceSent, UploadReturns,
           NEW a \in ArtifactIds, SentKey = EvidenceKey(item, a)
    PROVE  objects[EvidenceKey(item, a)] = product.evidence[a]
<1>1. pc = "sending" /\ Returned
  BY DEF UploadReturns
<1>2. objects[SentKey] = upload[Runner].content
  BY <1>1, UploadTyped
     DEF IInv, P!VerifyingMeansStored, P!Phase, P!Stored, P!Target, Returned, Store!Phase,
         SentKey
<1>3. QED
  BY <1>1, <1>2 DEF EvidenceSent

LEMMA StepEvidenceStored ==
    ASSUME IInv, EvidenceSent, [Next]_vars, pc' \in {"evidence", "sending"},
           NEW a \in ArtifactIds, product'.evidence[a] # Absent, a \notin left'
    PROVE  objects'[EvidenceKey(item', a)] = product'.evidence[a]
<1>1. CASE Recheck
  BY <1>1 DEF Recheck, Raise
<1>2. CASE UploadReturns
  <2>1. UNCHANGED <<objects, item, product>> /\ pc = "sending"
        /\ left' = {b \in left : SentKey # EvidenceKey(item, b)}
    BY <1>2 DEF UploadReturns, Store!Return
  <2>2. CASE a \in left
    BY <1>2, <2>1, <2>2, ReturnedIsStored
  <2>3. CASE a \notin left
    BY <2>1, <2>3 DEF EvidenceSent
  <2>4. QED
    BY <2>2, <2>3
<1>3. CASE pc \in {"evidence", "sending"} /\ UNCHANGED <<item, product, left>>
  <2>1. item \in Items
    BY <1>3 DEF IInv, TypeOK, ProcessTypeOK, ItemPoints
  <2>2. objects[EvidenceKey(item, a)] = product.evidence[a]
    BY <1>3 DEF EvidenceSent
  <2>3. QED
    BY <1>3, <2>1, <2>2, StepStoreIInv, KeysTyped
<1>4. Elsewhere => UNCHANGED <<pc, item, product, left>>
  BY ElsewhereFrame DEF attemptVars
<1>5. ~Launch /\ ~FreezeJob /\ ~Start /\ ~PinPolicy /\ ~Ending
  BY EndingFrame DEF Launch, FreezeJob, Start, PinPolicy
<1>6. Working => \/ Recheck \/ UploadReturns
                 \/ pc \in {"evidence", "sending"} /\ UNCHANGED <<item, product, left>>
  BY DEF Working, ItemStep, ReadJournal, PublishReport, attemptVars, AttemptOver, Raise,
         Attempt, CheckSource, Submit, PollComplete, PollError, UploadEvidence, UploadResult,
         UploadRaises, JournalUpload, RemoveLocal, JournalFreed, FreedUnsynced, StepRaises,
         RecordFailure
<1>7. QED
  BY <1>1, <1>2, <1>3, <1>4, <1>5, <1>6, StepKinds

LEMMA StepSentContent ==
    ASSUME IInv, EvidenceSent, [Next]_vars, pc' = "sending",
           NEW a \in ArtifactIds, SentKey' = EvidenceKey(item', a)
    PROVE  upload'[Runner].content = product'.evidence[a]
<1>1. CASE UploadEvidence
  <2>1. PICK b \in left : Store!Begin(Runner, EvidenceKey(item, b), product.evidence[b])
    BY <1>1 DEF UploadEvidence
  <2>2. SentKey' = EvidenceKey(item, b) /\ upload'[Runner].content = product.evidence[b]
        /\ UNCHANGED <<item, product>>
    BY <1>1, <2>1, BegunCall DEF SentKey, UploadEvidence, attemptVars
  <2>3. QED
    BY <2>2 DEF EvidenceKey
<1>2. CASE UploadResult
  <2>1. SentKey' = ResultKey(item)
    BY <1>2, BegunCall DEF SentKey, UploadResult
  <2>2. QED
    BY <2>1, KeysDistinct
<1>3. CASE pc = "sending" /\ UNCHANGED <<item, product>> /\ UploadStep
  BY <1>3, ExchangeKeepsCall DEF UploadStep, EvidenceSent, SentKey
<1>4. CASE pc = "sending" /\ UNCHANGED <<item, product>> /\ UNCHANGED upload
  BY <1>4 DEF EvidenceSent, SentKey
<1>5. QED
  BY <1>1, <1>2, <1>3, <1>4, SendingFrame

LEMMA StepEvidenceSent == ASSUME IInv, EvidenceSent, [Next]_vars PROVE EvidenceSent'
  BY StepEvidenceStored, StepSentContent DEF EvidenceSent, EvidenceKey, SentKey

------------------------------------------------------------------------------
(* The invariant, and what it says of the bucket. *)

LEMMA InitPublish == Init => PublishInv
<1> SUFFICES ASSUME Init PROVE PublishInv
  OBVIOUS
<1>1. EverySound
  <2>1. \A k \in Keys : objects[k] # Absent => objects[k] = Foreign /\ k # ReportKey
    BY DEF Init, ResultKey, ReportKey
  <2>2. late = {} /\ upload[Runner].key \notin Keys
    BY AbsentIsNothing DEF Init, Store!NoUpload
  <2>3. QED
    BY <2>1, <2>2 DEF EverySound
<1>2. RunPinned
  BY DEF Init, RunPinned, NoJob, ItemPoints
<1>3. SourceSeen
  BY ZeroIsNoItem DEF Init, SourceSeen, NoJob
<1>4. EvidenceSent
  BY DEF Init, EvidenceSent
<1>5. QED
  BY <1>1, <1>2, <1>3, <1>4 DEF PublishInv

LEMMA PublishHolds == Spec => [](Inv /\ PublishInv)
<1>1. Init => Inv /\ PublishInv
  BY InitIInv, InitRetry, InitPublish DEF Inv
<1>2. Inv /\ PublishInv /\ [Next]_vars => (Inv /\ PublishInv)'
  <2> SUFFICES ASSUME Inv, PublishInv, [Next]_vars PROVE (Inv /\ PublishInv)'
    OBVIOUS
  <2>1. Inv'
    BY StepIInv, StepRetry DEF Inv
  <2>2. PublishInv'
    BY StepEverySound, StepRunPinned, StepSourceSeen, StepEvidenceSent
       DEF Inv, PublishInv
  <2>3. QED
    BY <2>1, <2>2
<1>3. QED
  BY <1>1, <1>2, PTL DEF Spec

LEMMA OwnIsVouched ==
    ASSUME PublishInv, NEW i \in Items, Own(i)
    PROVE  Vouched(i, Published(i))
  BY KeysTyped DEF PublishInv, EverySound, Sound, Own, Published

\* The results of a run directory were judged under its policy, unless the API
\* changed its policy in the middle of a run (_freeze_policy).
THEOREM PolicyPinned == Spec => []PublishedUnderPinnedPolicy
<1>1. PublishInv => PublishedUnderPinnedPolicy
  BY OwnIsVouched DEF PublishedUnderPinnedPolicy, Vouched, Judged
<1>2. QED
  BY <1>1, PublishHolds, PTL

\* A published verdict is about the declared bytes; only a same-sized object
\* that was swapped in and out again can be taken for them
\* (_assert_source_identity, twice).
THEOREM SourceDeclared == Spec => []PublishedFromDeclaredSource
<1>1. PublishInv => PublishedFromDeclaredSource
  BY OwnIsVouched DEF PublishedFromDeclaredSource, Vouched, Judged
<1>2. QED
  BY <1>1, PublishHolds, PTL

\* The evidence of a published result is at R2, as the result describes it
\* (_upload_item sends every artifact first).
THEOREM EvidenceComplete == Spec => []EvidenceResolves
<1>1. PublishInv => EvidenceResolves
  BY OwnIsVouched DEF EvidenceResolves, Vouched, EvidenceStored
<1>2. QED
  BY <1>1, PublishHolds, PTL

\* A report at R2 covers the whole manifest and still agrees with the journal
\* and the published results, however often the command is repeated and however
\* late its PUT arrives (run() uploads a complete report only).
THEOREM ReportComplete == Spec => []ReportCoversBatch
<1>1. PublishInv => ReportCoversBatch
  BY KeysTyped DEF PublishInv, EverySound, Sound, Covers, ReportCoversBatch
<1>2. QED
  BY <1>1, PublishHolds, PTL

------------------------------------------------------------------------------
(* The lifecycle of the RUNBOOK (ItemLifecycle): a batch implements it, and its
   local copies outlive that lifecycle's uploads. *)

AttemptPoints == {"checking", "submitting", "polling", "rechecking", "evidence", "sending",
                  "uploaded"}

\* A journal that can be read is in step with the attempt under way.  One that
\* cannot has stopped there: no later record is legible.
Recorded ==
    Journal!Readable =>
        /\ pc \in AttemptPoints => Status(item) = "attempting"
        /\ pc \in {"clearing", "freeing"} => Status(item) = "result_uploaded"
        /\ pc = "failed" => Status(item) \in {"attempting", "result_uploaded", "freed"}
        /\ pc = "failed" /\ cause = "conflict" => Status(item) # "freed"

------------------------------------------------------------------------------
LEMMA StoppedStaysStopped ==
    ASSUME IInv, [Next]_vars, Journal!Readable'
    PROVE  Journal!Readable
<1>1. JournalActions => \E i, s, d : Journaled(i, s, d)
  BY DEF JournalActions, Attempt, JournalUpload, JournalFreed, FreedUnsynced, RecordFailure
<1>2. QED
  BY <1>1, JournalFrame DEF Journaled, Journal!Record, Journal!Readable, journalVars

\* What an item's own step records.
LEMMA ItemRecord ==
    ASSUME IInv, pc \in ItemPoints, NEW s \in Statuses, NEW d \in Results \cup {Absent},
           Journaled(item, s, d), Journal!Readable'
    PROVE  latest'[item].status = s
  BY RecordCases DEF IInv, TypeOK, ProcessTypeOK

LEMMA StepRecorded == ASSUME IInv, Recorded, [Next]_vars PROVE Recorded'
<1> SUFFICES ASSUME Journal!Readable', pc' \in ItemPoints
             PROVE  /\ pc' \in AttemptPoints => latest'[item'].status = "attempting"
                    /\ pc' \in {"clearing", "freeing"} =>
                           latest'[item'].status = "result_uploaded"
                    /\ pc' = "failed" =>
                           latest'[item'].status \in {"attempting", "result_uploaded", "freed"}
                    /\ pc' = "failed" /\ cause' = "conflict" => latest'[item'].status # "freed"
  BY DEF Recorded, Status, AttemptPoints, ItemPoints, Journal!Readable
<1> USE DEF AttemptPoints
<1>1. Journal!Readable
  BY StoppedStaysStopped
<1>2. CASE Attempt
  <2>1. Min(todo) \in Items
    BY <1>2, NextItem DEF Attempt, IInv, TypeOK, ProcessTypeOK
  <2>2. Journaled(Min(todo), "attempting", Absent) /\ item' = Min(todo) /\ pc' = "checking"
    BY <1>2 DEF Attempt
  <2>3. QED
    BY <2>1, <2>2, RecordCases DEF Statuses
<1>3. CASE JournalUpload
  BY <1>3, ItemRecord
     DEF JournalUpload, attemptVars, Statuses, ItemPoints, IInv, TypeOK, ProcessTypeOK
<1>4. CASE FreedUnsynced
  BY <1>4, ItemRecord
     DEF FreedUnsynced, Raise, Statuses, ItemPoints, IInv, TypeOK, ProcessTypeOK
<1>5. CASE UNCHANGED <<latest, item, pc, cause>>
  BY <1>1, <1>5 DEF Recorded, Status
<1>6. CASE /\ UNCHANGED <<latest, item>>
           /\ pc \in AttemptPoints /\ pc' \in AttemptPoints \cup {"failed"}
  BY <1>1, <1>6 DEF Recorded, Status
<1>7. CASE /\ UNCHANGED <<latest, item>>
           /\ pc \in {"clearing", "freeing"}
           /\ pc' = "freeing" \/ (pc' = "failed" /\ cause' = "failure")
  BY <1>1, <1>7 DEF Recorded, Status
<1>8. RemoveLocal => /\ UNCHANGED <<latest, item>>
                     /\ pc = "clearing" /\ pc' = "freeing"
  BY DEF RemoveLocal, journalVars, attemptVars
<1>9. StepRaises => /\ UNCHANGED <<latest, item>>
                    /\ pc \in AttemptPoints \/ pc \in {"clearing", "freeing"}
                    /\ pc' = "failed" /\ cause' = "failure"
  BY DEF StepRaises, Raise, journalVars, ItemPoints
<1>10. CheckSource \/ Submit \/ PollComplete \/ PollError \/ Recheck \/ UploadEvidence
       \/ UploadResult \/ UploadReturns \/ UploadRaises
       => /\ UNCHANGED <<latest, item>>
          /\ pc \in AttemptPoints /\ pc' \in AttemptPoints \cup {"failed"}
  BY DEF CheckSource, Submit, PollComplete, PollError, Recheck, UploadEvidence, UploadResult,
         UploadReturns, UploadRaises, Raise, AfterUpload, journalVars, attemptVars
<1>11. ~Launch /\ ~FreezeJob /\ ~Start /\ ~PinPolicy /\ ~Ending
       /\ ~ReadJournal /\ ~PublishReport /\ ~JournalFreed /\ ~RecordFailure
  BY EndingFrame
     DEF Launch, FreezeJob, Start, PinPolicy, ReadJournal, PublishReport, JournalFreed,
         RecordFailure, ItemPoints
<1>12. Elsewhere => UNCHANGED <<latest, item, pc, cause>>
  BY ElsewhereFrame DEF journalVars, attemptVars
<1>13. QED
  BY <1>2, <1>3, <1>4, <1>5, <1>6, <1>7, <1>8, <1>9, <1>10, <1>11, <1>12, StepKinds
     DEF Working, ItemStep

LifecycleInv == Inv /\ PublishInv /\ Recorded

LEMMA RecordedHolds == Spec => []LifecycleInv
<1>1. Init => Recorded
  BY DEF Init, Recorded, AttemptPoints
<1>2. Inv /\ Recorded /\ [Next]_vars => Recorded'
  BY StepRecorded DEF Inv
<1>3. QED
  BY <1>1, <1>2, PublishHolds, PTL DEF Spec, LifecycleInv

------------------------------------------------------------------------------
(* The local copy. *)

LEMMA RemovalIsSafe ==
    ASSUME IInv, Recorded, [Next]_vars, NEW i \in Items, local[i], ~local'[i]
    PROVE  /\ i = item
           /\ product # Absent /\ Published(i) = product
           /\ health = "whole" => Status(i) = "result_uploaded"
<1>1. RemoveLocal
  BY DirFrame DEF DirActions, dirVars, Launch, FreezeJob, Start, PinPolicy, Recheck, IInv,
                  TypeOK, DirTypeOK
<1>2. pc = "clearing" /\ i = item
  BY <1>1 DEF RemoveLocal, IInv, TypeOK, DirTypeOK
<1>3. product \in Results /\ product # Absent
  BY <1>2, AbsentIsNothing DEF IInv, TypeOK, ProcessTypeOK, Contents
<1>4. QED
  BY <1>2, <1>3 DEF IInv, UploadedIsStored, Recorded, Journal!Readable

\* The directory of an item is removed only once its result is at R2 and, in a
\* journal that is whole, recorded (_upload_item).
THEOREM LocalKept == Spec => LocalKeptUntilPublished
<1> DEFINE Safe == \A i \in Items : local[i] /\ ~local'[i] =>
                       /\ i = item
                       /\ product # Absent /\ Published(i) = product
                       /\ health = "whole" => Status(i) = "result_uploaded"
<1>1. LifecycleInv /\ [Next]_vars => [Safe]_vars
  BY RemovalIsSafe DEF LifecycleInv, Inv
<1>2. QED
  BY <1>1, RecordedHolds, PTL DEF Spec, LocalKeptUntilPublished

------------------------------------------------------------------------------
(* The refinement: every step is a step of the lifecycle or none. *)

\* The mapping of BatchRunner's INSTANCE.
StatusMap == [i \in Items |-> Status(i)]
PublishedMap == [i \in Items |-> objects[ResultKey(i)]]

Become(i, s) == StatusMap' = [StatusMap EXCEPT ![i] = s] /\ UNCHANGED PublishedMap

\* A journal append changes the status of one item, or of none.
LEMMA JournaledMaps ==
    ASSUME IInv, UNCHANGED objects, NEW i \in Items, NEW s \in Statuses,
           NEW d \in Results \cup {Absent}, Journaled(i, s, d)
    PROVE  \/ UNCHANGED <<StatusMap, PublishedMap>>
           \/ Journal!Readable /\ Become(i, s)
<1>1. UNCHANGED PublishedMap
  BY DEF PublishedMap
<1>2. CASE UNCHANGED latest
  BY <1>1, <1>2 DEF StatusMap, Status
<1>3. CASE health = "whole" /\ latest'[i].status = s
           /\ \A j \in Items \ {i} : latest'[j] = latest[j]
  <2>1. \A j \in Items : latest'[j].status = [StatusMap EXCEPT ![i] = s][j]
    BY <1>3 DEF StatusMap, Status
  <2>2. StatusMap' = [StatusMap EXCEPT ![i] = s]
    BY <2>1 DEF StatusMap, Status
  <2>3. QED
    BY <1>1, <1>3, <2>2 DEF Become, Journal!Readable
<1>4. QED
  BY <1>2, <1>3, RecordCases

\* A step of the bucket fills one empty key and leaves the journal alone.
LEMMA ObjectsMove ==
    ASSUME IInv, [Next]_vars
    PROVE  \/ UNCHANGED objects
           \/ /\ UNCHANGED journalVars
              /\ \E k \in Keys, c \in Contents :
                     objects[k] = Absent /\ objects' = [objects EXCEPT ![k] = c]
<1> USE DEF IInv, TypeOK, Store!TypeOK
<1>1. CASE UploadStep
  <2>1. Store!Exchange(Runner) /\ UNCHANGED journalVars
    BY <1>1 DEF UploadStep
  <2>2. CASE Store!PutAccepted(Runner) \/ Store!PutResponseLost(Runner)
    <3>1. /\ objects[upload[Runner].key] = Absent
          /\ objects' = [objects EXCEPT ![upload[Runner].key] = upload[Runner].content]
      BY <2>2 DEF Store!PutAccepted, Store!PutResponseLost, Store!Target, Store!Admitted
    <3>2. upload[Runner].key \in Keys /\ upload[Runner].content \in Contents
      BY <2>2 DEF Store!PutAccepted, Store!PutResponseLost, Store!Phase
    <3>3. QED
      BY <2>1, <3>1, <3>2
  <2>3. QED
    BY <2>1, <2>2
       DEF Store!Exchange, Store!HeadFound, Store!HeadMissing, Store!HeadFails,
           Store!PutRefused, Store!PutFails, Store!Verify
<1>2. CASE LatePut
  <2>1. PICK put \in late : Store!LateArrival(put[1], put[2])
    BY <1>2 DEF LatePut
  <2>2. put[1] \in Keys /\ put[2] \in Contents
    OBVIOUS
  <2>3. QED
    BY <1>2, <2>1, <2>2 DEF LatePut, Store!LateArrival, Store!Admitted
<1>3. UploadEvidence \/ UploadResult \/ UploadReturns \/ UploadRaises \/ PublishReport
      \/ PublishEnds \/ Interrupt => UNCHANGED objects
  BY DEF UploadEvidence, UploadResult, UploadReturns, UploadRaises, PublishReport,
         PublishEnds, Interrupt, storeVars, Store!Begin, Store!Return, Store!Die
<1>4. QED
  BY <1>1, <1>2, <1>3, StoreFrame DEF StoreActions, storeVars

LEMMA FillMaps ==
    ASSUME IInv, UNCHANGED journalVars, NEW k \in Keys, NEW c \in Contents,
           objects[k] = Absent, objects' = [objects EXCEPT ![k] = c]
    PROVE  [Lifecycle!Next]_(Lifecycle!vars)
<1>1. UNCHANGED StatusMap
  BY DEF StatusMap, Status, journalVars
<1>2. CASE \E i \in Items : k = ResultKey(i)
  <2>1. PICK i \in Items : k = ResultKey(i)
    BY <1>2
  <2>2. \A j \in Items : PublishedMap'[j] = [PublishedMap EXCEPT ![i] = c][j]
    BY <2>1, KeysTyped, ResultKeyInjective
       DEF PublishedMap, IInv, TypeOK, Store!TypeOK, ResultKey
  <2>3. PublishedMap' = [PublishedMap EXCEPT ![i] = c]
    BY <2>2 DEF PublishedMap, ResultKey
  <2>4. PublishedMap[i] = Absent /\ PublishedMap'[i] = c
    BY <2>1, <2>3 DEF PublishedMap
  <2>5. Lifecycle!Publish(i)
    BY <1>1, <2>3, <2>4 DEF Lifecycle!Publish, PublishedMap, StatusMap
  <2>6. QED
    BY <2>5 DEF Lifecycle!Next
<1>3. CASE ~\E i \in Items : k = ResultKey(i)
  <2>1. \A i \in Items : objects'[ResultKey(i)] = objects[ResultKey(i)]
    BY <1>3, KeysTyped DEF IInv, TypeOK, Store!TypeOK
  <2>2. UNCHANGED PublishedMap
    BY <2>1 DEF PublishedMap, ResultKey
  <2>3. QED
    BY <1>1, <2>2 DEF Lifecycle!vars, PublishedMap, StatusMap
<1>4. QED
  BY <1>2, <1>3

\* What the record of an attempt allows the lifecycle to do.
LEMMA RecordMaps ==
    ASSUME IInv, NEW i \in Items, NEW s, Become(i, s),
           \/ s = "attempting" /\ Status(i) \notin Terminal
           \/ s = "result_uploaded" /\ Status(i) = "attempting" /\ Published(i) # Absent
           \/ s = "freed" /\ Status(i) = "result_uploaded"
           \/ /\ s \in {"failed-retryable", "conflict", "quarantined"}
              /\ Status(i) \in {"attempting", "result_uploaded"}
           \/ /\ s \in {"failed-retryable", "quarantined"}
              /\ Status(i) = "freed" /\ Published(i) # Absent
    PROVE  Lifecycle!Next
<1>1. StatusMap[i] = Status(i) /\ PublishedMap[i] = Published(i)
  BY DEF StatusMap, PublishedMap, Published
<1>2. Lifecycle!Become(i, s)
  BY DEF Become, Lifecycle!Become, StatusMap, PublishedMap
<1>3. \/ Lifecycle!Attempt(i) \/ Lifecycle!Confirm(i) \/ Lifecycle!Free(i)
      \/ \E t \in {"failed-retryable", "conflict", "quarantined"} : Lifecycle!Fail(i, t)
      \/ \E t \in {"failed-retryable", "quarantined"} : Lifecycle!Retract(i, t)
  BY <1>1, <1>2
     DEF Lifecycle!Attempt, Lifecycle!Confirm, Lifecycle!Free, Lifecycle!Fail,
         Lifecycle!Retract, Lifecycle!Terminal, Terminal, StatusMap, PublishedMap
<1>4. QED
  BY <1>3 DEF Lifecycle!Next

LEMMA JournalMaps ==
    ASSUME LifecycleInv, JournalActions
    PROVE  [Lifecycle!Next]_(Lifecycle!vars)
<1> USE DEF LifecycleInv, Inv, IInv, TypeOK, ProcessTypeOK, ItemPoints
<1> DEFINE Maps(i, s) == \/ UNCHANGED <<StatusMap, PublishedMap>>
                         \/ Journal!Readable /\ Become(i, s)
<1>1. UNCHANGED <<StatusMap, PublishedMap>> => [Lifecycle!Next]_(Lifecycle!vars)
  BY DEF Lifecycle!vars, StatusMap, PublishedMap
<1>2. CASE Attempt
  <2>1. Min(todo) \in todo /\ Min(todo) \in Items
    BY <1>2, NextItem DEF Attempt
  <2>2. Maps(Min(todo), "attempting")
    BY <1>2, <2>1, JournaledMaps DEF Attempt, Statuses, storeVars
  <2>3. Journal!Readable => Status(Min(todo)) \notin Terminal
    BY <2>1 DEF RetryInv, WorkIsOpen
  <2>4. QED
    BY <1>1, <2>1, <2>2, <2>3, RecordMaps
<1>3. CASE JournalUpload
  <2>1. Maps(item, "result_uploaded") /\ item \in Items /\ product # Absent
    BY <1>3, JournaledMaps, AbsentIsNothing DEF JournalUpload, Statuses, storeVars, Contents
  <2>2. /\ Journal!Readable => Status(item) = "attempting"
        /\ Published(item) # Absent
    BY <1>3, <2>1 DEF JournalUpload, Recorded, AttemptPoints, UploadedIsStored
  <2>3. QED
    BY <1>1, <2>1, <2>2, RecordMaps
<1>4. CASE JournalFreed \/ FreedUnsynced
  <2>1. Maps(item, "freed") /\ item \in Items
    BY <1>4, JournaledMaps DEF JournalFreed, FreedUnsynced, Statuses, storeVars
  <2>2. Journal!Readable => Status(item) = "result_uploaded"
    BY <1>4 DEF JournalFreed, FreedUnsynced, Recorded
  <2>3. QED
    BY <1>1, <2>1, <2>2, RecordMaps
<1>5. CASE RecordFailure
  <2>1. FailureStatus \in {"failed-retryable", "conflict", "quarantined"}
        /\ (FailureStatus = "conflict" => cause = "conflict")
    BY DEF FailureStatus
  <2>2. Maps(item, FailureStatus) /\ item \in Items
    BY <1>5, <2>1, JournaledMaps DEF RecordFailure, Statuses, storeVars
  <2>3. Journal!Readable =>
            /\ Status(item) \in {"attempting", "result_uploaded", "freed"}
            /\ cause = "conflict" => Status(item) # "freed"
    BY <1>5 DEF RecordFailure, Recorded
  <2>4. Status(item) = "freed" => Published(item) # Absent
    BY <2>2 DEF FreedIsPublished
  <2>5. QED
    BY <1>1, <2>1, <2>2, <2>3, <2>4, RecordMaps
<1>6. QED
  BY <1>2, <1>3, <1>4, <1>5 DEF JournalActions

LEMMA StepImplements == LifecycleInv /\ [Next]_vars => [Lifecycle!Next]_(Lifecycle!vars)
<1> SUFFICES ASSUME LifecycleInv, [Next]_vars PROVE [Lifecycle!Next]_(Lifecycle!vars)
  OBVIOUS
<1>1. CASE JournalActions
  BY <1>1, JournalMaps
<1>2. CASE UNCHANGED journalVars /\ UNCHANGED objects
  BY <1>2 DEF journalVars, Status, Lifecycle!vars
<1>3. CASE UNCHANGED journalVars /\ ~UNCHANGED objects
  BY <1>3, ObjectsMove, FillMaps DEF LifecycleInv, Inv
<1>4. QED
  BY <1>1, <1>2, <1>3, JournalFrame

\* The runner, whatever it crashes in, repeats or loses track of, takes its items
\* through the lifecycle the RUNBOOK promises its operator.
THEOREM LifecycleImplemented == Spec => ImplementsLifecycle
<1>1. Init => Lifecycle!Init
  <2> SUFFICES ASSUME Init PROVE Lifecycle!Init
    OBVIOUS
  <2>1. \A i \in Items : Status(i) = "none"
    BY DEF Init, Journal!Init, Journal!NoEvent, Status
  <2>2. \A i \in Items : objects[ResultKey(i)] \in Contents \cup {Absent}
    BY KeysTyped DEF Init, Contents
  <2>3. QED
    BY <2>1, <2>2 DEF Lifecycle!Init
<1>2. QED
  BY <1>1, StepImplements, RecordedHolds, PTL DEF Spec, Lifecycle!Spec, ImplementsLifecycle
==============================================================================
