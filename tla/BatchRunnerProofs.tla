-------------------------- MODULE BatchRunnerProofs --------------------------
(***************************************************************************)
(* What a batch guarantees for every manifest, attempt limit and budget of *)
(* crashes, torn records, source swaps and API restarts.                   *)
(***************************************************************************)
EXTENDS BatchRunner, NaturalsInduction, WellFoundedInduction, TLAPS

P == INSTANCE R2StoreProofs WITH Writers <- {Runner}

\* The step's own attempt is what is being sent under the item's result key...
SendingIsProduct ==
    pc = "sending" /\ SentKey = ResultKey(item) => upload[Runner].content = product

\* ... and what R2 holds there from the upload's return until the item is freed.
UploadedIsStored ==
    pc \in {"uploaded", "clearing", "freeing"} => Published(item) = product

\* FreedIsPublished is not inductive: the journal repeats what the process
\* believes, so the belief has to be part of the invariant.
IInv ==
    /\ TypeOK
    /\ P!VerifyingMeansStored
    /\ SendingIsProduct
    /\ UploadedIsStored
    /\ FreedIsPublished

------------------------------------------------------------------------------
(* Keys and contents. *)

LEMMA KeysTyped ==
    /\ ReportKey \in Keys
    /\ \A i \in Items : ResultKey(i) \in Keys
    /\ \A i \in Items, a \in ArtifactIds : EvidenceKey(i, a) \in Keys
  BY DEF Keys

LEMMA KeysDistinct ==
    ASSUME NEW i, NEW j, NEW a
    PROVE  ResultKey(i) # EvidenceKey(j, a) /\ ResultKey(i) # ReportKey
  BY DEF ResultKey, EvidenceKey, ReportKey

LEMMA ResultKeyInjective ==
    ASSUME NEW i, NEW j, ResultKey(i) = ResultKey(j)
    PROVE  i = j
  BY DEF ResultKey

LEMMA StoreAssumption == P!AbsentIsNoObject
  BY AbsentIsNothing DEF P!AbsentIsNoObject

------------------------------------------------------------------------------
(* Which variables a step can touch. *)

StoreActions ==
    UploadEvidence \/ UploadResult \/ UploadStep \/ UploadReturns \/ UploadRaises
    \/ PublishReport \/ PublishEnds \/ Interrupt \/ LatePut

LEMMA StoreFrame == [Next]_vars => StoreActions \/ UNCHANGED storeVars
  BY DEF Next, vars, StoreActions, RunnerStep, StartStep, ItemStep, EndStep, ApiStep,
         Launch, LaunchRefused, FreezeJob, NotReady, Start, PolicyRefused, PinPolicy,
         ReadJournal, JournalUnreadable, Attempt, CheckSource, Submit, PollComplete,
         PollError, Recheck, JournalUpload, RemoveLocal, JournalFreed, FreedUnsynced,
         StepRaises,
         RecordFailure, FailureUnreadable, ReportPartial, CollectFails, ApiUnchanged,
         ApiFetch, ApiComplete, ApiVideoFails, ApiJobFails, Redeploy, SwapSource

JournalActions == Attempt \/ JournalUpload \/ JournalFreed \/ FreedUnsynced \/ RecordFailure

LEMMA JournalFrame == [Next]_vars => JournalActions \/ UNCHANGED journalVars
  BY DEF Next, vars, JournalActions, RunnerStep, StartStep, ItemStep, EndStep, ApiStep,
         Launch, LaunchRefused, FreezeJob, NotReady, Start, PolicyRefused, PinPolicy,
         ReadJournal, JournalUnreadable, CheckSource, Submit, PollComplete,
         PollError, Recheck, UploadEvidence, UploadResult, UploadStep, UploadReturns,
         UploadRaises, RemoveLocal, StepRaises, FailureUnreadable, ReportPartial,
         PublishReport, CollectFails, PublishEnds, Interrupt, ApiUnchanged,
         ApiFetch, ApiComplete, ApiVideoFails, ApiJobFails, Redeploy, SwapSource, LatePut

DirActions == Launch \/ FreezeJob \/ Start \/ PinPolicy \/ Recheck \/ RemoveLocal

LEMMA DirFrame == [Next]_vars => DirActions \/ UNCHANGED dirVars
  BY DEF Next, vars, DirActions, RunnerStep, StartStep, ItemStep, EndStep, ApiStep,
         LaunchRefused, NotReady, PolicyRefused,
         ReadJournal, JournalUnreadable, Attempt, CheckSource, Submit, PollComplete,
         PollError, UploadEvidence, UploadResult, UploadStep, UploadReturns,
         UploadRaises, JournalUpload, JournalFreed, FreedUnsynced, StepRaises, RecordFailure,
         FailureUnreadable, ReportPartial,
         PublishReport, CollectFails, PublishEnds, Interrupt, ApiUnchanged,
         ApiFetch, ApiComplete, ApiVideoFails, ApiJobFails, Redeploy, SwapSource, LatePut

------------------------------------------------------------------------------
(* The batch uses R2 by the rules of R2Store. *)

LEMMA BeginIsStoreStep ==
    ASSUME NEW k \in Keys, NEW c \in Contents, Store!Begin(Runner, k, c)
    PROVE  P!Next
  BY DEF Store!Begin, Store!NoUpload, P!Begin, P!NoUpload, P!Next

LEMMA ExchangeIsStoreStep ==
    ASSUME Store!Exchange(Runner)
    PROVE  P!Exchange(Runner)
  BY DEF Store!Exchange, Store!HeadFound, Store!HeadMissing, Store!HeadFails,
         Store!PutAccepted, Store!PutResponseLost, Store!PutRefused, Store!PutFails,
         Store!Verify, Store!Phase, Store!Stored, Store!Target, Store!MoveTo, Store!Admitted,
         P!Exchange, P!HeadFound, P!HeadMissing, P!HeadFails,
         P!PutAccepted, P!PutResponseLost, P!PutRefused, P!PutFails,
         P!Verify, P!Phase, P!Stored, P!Target, P!MoveTo, P!Admitted

LEMMA ReturnIsStoreStep ==
    ASSUME Store!Return(Runner)
    PROVE  P!Return(Runner)
  BY DEF Store!Return, Store!Phase, Store!NoUpload, P!Return, P!Phase, P!NoUpload

LEMMA DieIsStoreStep ==
    ASSUME Store!Die(Runner)
    PROVE  P!Die(Runner)
  BY DEF Store!Die, Store!Phase, Store!Target, Store!NoUpload,
         P!Die, P!Phase, P!Target, P!NoUpload

LEMMA LateIsStoreStep ==
    ASSUME NEW k, NEW c, Store!LateArrival(k, c)
    PROVE  P!LateArrival(k, c)
  BY DEF Store!LateArrival, Store!Admitted, P!LateArrival, P!Admitted

\* Every item of a complete batch has a result of this batch at R2, so the
\* report built from them is one.
LEMMA ReportTyped ==
    ASSUME IInv, pc = "next", Complete
    PROVE  Report \in Contents
<1>1. \A i \in Items : objects[ResultKey(i)] \in Results
  <2> TAKE i \in Items
  <2>1. Status(i) = "freed"
    BY DEF Complete, FreedItems
  <2>2. latest[i].detail # Absent /\ objects[ResultKey(i)] = latest[i].detail
    BY <2>1 DEF IInv, FreedIsPublished, Published
  <2>3. latest[i].detail \in Results \cup {Absent}
    BY DEF IInv, TypeOK, Journal!TypeOK, Journal!Event, Journal!NoEvent
  <2>4. QED
    BY <2>2, <2>3
<1>2. runPolicy \in Policies
  BY DEF IInv, TypeOK, ProcessTypeOK
<1>3. Report \in Reports
  BY <1>1, <1>2 DEF Report, Reports
<1>4. QED
  BY <1>3 DEF Contents

LEMMA StepIsStoreStep == IInv /\ [Next]_vars => [P!Next]_(P!vars)
<1> SUFFICES ASSUME IInv, [Next]_vars PROVE [P!Next]_(P!vars)
  OBVIOUS
<1>1. CASE UploadEvidence
  <2>1. PICK a \in left : Store!Begin(Runner, EvidenceKey(item, a), product.evidence[a])
    BY <1>1 DEF UploadEvidence
  <2>2. item \in Items
    BY <1>1 DEF UploadEvidence, IInv, TypeOK, ProcessTypeOK, ItemPoints
  <2>3. a \in ArtifactIds /\ product \in Results /\ product.evidence[a] # Absent
    BY <1>1, AbsentIsNothing
       DEF UploadEvidence, IInv, TypeOK, ProcessTypeOK, Contents
  <2>4. product.evidence[a] \in Contents
    BY <2>3 DEF Results, Contents
  <2>5. QED
    BY <2>1, <2>2, <2>3, <2>4, KeysTyped, BeginIsStoreStep
<1>2. CASE UploadResult
  <2>1. item \in Items /\ product \in Results
    BY <1>2 DEF UploadResult, IInv, TypeOK, ProcessTypeOK, ItemPoints
  <2>2. QED
    BY <1>2, <2>1, KeysTyped, BeginIsStoreStep DEF UploadResult, Contents
<1>3. CASE UploadStep
  BY <1>3, ExchangeIsStoreStep DEF UploadStep, P!Next
<1>4. CASE UploadReturns \/ UploadRaises \/ PublishEnds
  BY <1>4, ReturnIsStoreStep DEF UploadReturns, UploadRaises, PublishEnds, P!Next
<1>5. CASE PublishReport
  BY <1>5, ReportTyped, KeysTyped, BeginIsStoreStep DEF PublishReport
<1>6. CASE Interrupt
  BY <1>6, DieIsStoreStep DEF Interrupt, P!Next, P!vars, storeVars
<1>7. CASE LatePut
  <2>1. PICK put \in late : Store!LateArrival(put[1], put[2])
    BY <1>7 DEF LatePut
  <2>2. put[1] \in Keys /\ put[2] \in Contents
    BY DEF IInv, TypeOK, Store!TypeOK
  <2>3. QED
    BY <2>1, <2>2, LateIsStoreStep DEF P!Next
<1>8. CASE UNCHANGED storeVars
  BY <1>8 DEF storeVars, P!vars
<1>9. QED
  BY <1>1, <1>2, <1>3, <1>4, <1>5, <1>6, <1>7, <1>8, StoreFrame DEF StoreActions

LEMMA StoreIInv == IInv => P!IInv
  BY DEF IInv, TypeOK, P!IInv, P!TypeOK, Store!TypeOK, P!Phases, Store!Phases

\* The invariant of R2Store, and what it says of the bucket, carry over.
LEMMA StepStoreIInv ==
    ASSUME IInv, [Next]_vars
    PROVE  /\ Store!TypeOK'
           /\ P!VerifyingMeansStored'
           /\ \A k \in Keys : objects[k] # Absent => objects'[k] = objects[k]
<1>1. P!IInv'
  BY StoreIInv, StepIsStoreStep, StoreAssumption, P!StepIInv
<1>2. \A k \in Keys : objects[k] # Absent => objects'[k] = objects[k]
  BY StoreIInv, StepIsStoreStep, StoreAssumption, P!StepKeepsObjects DEF P!IInv
<1>3. QED
  BY <1>1, <1>2 DEF P!IInv, P!TypeOK, Store!TypeOK, P!Phases, Store!Phases

------------------------------------------------------------------------------
(* Type correctness of the journal, the run directory and the process. *)

LEMMA JournaledTyped ==
    ASSUME Journal!TypeOK, tears \in Nat,
           NEW i \in Items, NEW s \in Statuses, NEW d \in Results \cup {Absent},
           Journaled(i, s, d)
    PROVE  Journal!TypeOK' /\ tears' \in Nat
<1>1. PICK end \in Journal!Endings :
            Journal!Record(i, s, d, end)
            /\ tears' = IF end = "newline" THEN tears ELSE tears + 1
  BY DEF Journaled
<1>2. tears' \in Nat
  BY <1>1
<1>3. CASE Journal!Recorded(i, s, d)
  <2>1. latest' \in [Items -> Journal!Event \cup {Journal!NoEvent}]
    BY <1>3 DEF Journal!Recorded, Journal!TypeOK, Journal!Event
  <2>2. attempts' \in [Items -> Nat]
    BY <1>3 DEF Journal!Recorded, Journal!TypeOK
  <2>3. health' \in Journal!Health
    BY <1>1 DEF Journal!Record, Journal!Health
  <2>4. QED
    BY <1>2, <2>1, <2>2, <2>3 DEF Journal!TypeOK
<1>4. CASE ~Journal!Recorded(i, s, d)
  BY <1>1, <1>2, <1>4 DEF Journal!Record, Journal!TypeOK, Journal!Health
<1>5. QED
  BY <1>3, <1>4

\* Items are taken in the manifest's order, one at a time.
LEMMA NextItem == ASSUME todo \subseteq Items, todo # {} PROVE Min(todo) \in todo
<1>1. todo \subseteq Nat
  BY NumItemsAssumption DEF Items
<1>2. \E x \in todo : \A y \in todo : x <= y
  <2>1. PICK n \in todo : TRUE
    OBVIOUS
  <2>2. IsWellFoundedOn(OpToRel(<, Nat), Nat)
    BY NatLessThanWellFounded
  <2>3. PICK x \in todo : \A y \in todo : ~(<<y, x>> \in OpToRel(<, Nat))
    BY <1>1, <2>1, <2>2, WFMin
  <2>4. \A y \in todo : ~(y < x)
    BY <1>1, <2>3 DEF OpToRel
  <2>5. QED
    BY <1>1, <2>4
<1>3. QED
  BY <1>2 DEF Min

LEMMA ZeroIsNoItem == 0 \notin Items
  BY NumItemsAssumption DEF Items

LEMMA StepJournalTyped ==
    ASSUME IInv, [Next]_vars PROVE Journal!TypeOK' /\ tears' \in Nat
<1> USE DEF IInv, TypeOK, ProcessTypeOK, ItemPoints
<1>1. CASE Attempt
  <2>1. Min(todo) \in Items
    BY <1>1, NextItem DEF Attempt
  <2>2. QED
    BY <1>1, <2>1, JournaledTyped DEF Attempt, Statuses
<1>2. CASE JournalUpload
  BY <1>2, JournaledTyped DEF JournalUpload, Statuses
<1>3. CASE JournalFreed \/ FreedUnsynced
  BY <1>3, JournaledTyped DEF JournalFreed, FreedUnsynced, Statuses
<1>4. CASE RecordFailure
  <2>1. FailureStatus \in Statuses
    BY DEF FailureStatus, Statuses
  <2>2. QED
    BY <1>4, <2>1, JournaledTyped DEF RecordFailure
<1>5. CASE UNCHANGED journalVars
  BY <1>5 DEF journalVars, Journal!TypeOK
<1>6. QED
  BY <1>1, <1>2, <1>3, <1>4, <1>5, JournalFrame DEF JournalActions

LEMMA StepDirTyped == ASSUME IInv, [Next]_vars PROVE DirTypeOK'
<1> USE DEF IInv, TypeOK, DirTypeOK
<1>1. CASE Launch
  BY <1>1 DEF Launch
<1>2. CASE FreezeJob
  BY <1>2 DEF FreezeJob
<1>3. CASE Start
  BY <1>3 DEF Start
<1>4. CASE PinPolicy
  BY <1>4 DEF PinPolicy, ProcessTypeOK
<1>5. CASE Recheck
  BY <1>5 DEF Recheck
<1>6. CASE RemoveLocal
  BY <1>6 DEF RemoveLocal
<1>7. CASE UNCHANGED dirVars
  BY <1>7 DEF dirVars
<1>8. QED
  BY <1>1, <1>2, <1>3, <1>4, <1>5, <1>6, <1>7, DirFrame DEF DirActions

LEMMA ProcessOverTyped == ASSUME ProcessOver PROVE ProcessTypeOK'
  BY DEF ProcessOver, AttemptOver, ProcessTypeOK, ProcessPoints, ItemPoints

LEMMA StartProcessTyped == ASSUME IInv, Launch \/ StartStep PROVE ProcessTypeOK'
<1> USE DEF IInv, TypeOK, ProcessTypeOK, ProcessPoints, ItemPoints
<1>1. CASE Launch
  BY <1>1 DEF Launch, attemptVars
<1>2. CASE FreezeJob
  BY <1>2 DEF FreezeJob, attemptVars
<1>3. CASE Start
  BY <1>3 DEF Start, attemptVars, WorldTypeOK
<1>4. CASE PinPolicy
  BY <1>4 DEF PinPolicy, attemptVars
<1>5. CASE ReadJournal
  BY <1>5 DEF ReadJournal, ToRun, attemptVars
<1>6. CASE NotReady \/ PolicyRefused \/ JournalUnreadable
  BY <1>6, ProcessOverTyped DEF NotReady, PolicyRefused, JournalUnreadable
<1>7. QED
  BY <1>1, <1>2, <1>3, <1>4, <1>5, <1>6 DEF StartStep

LEMMA ResultTyped == ASSUME IInv, job.state = "complete"
                     PROVE  [kind |-> "result", job |-> jobs, policy |-> job.policy,
                             seen |-> job.seen, verdict |-> job.verdict,
                             evidence |-> job.evidence] \in Results
  BY DEF IInv, TypeOK, WorldTypeOK, Jobs, Results

LEMMA ItemProcessTyped == ASSUME IInv, ItemStep PROVE ProcessTypeOK'
<1> USE DEF IInv, TypeOK, ProcessTypeOK, ProcessPoints, ItemPoints
<1>1. CASE Attempt
  <2>1. Min(todo) \in todo
    BY <1>1, NextItem DEF Attempt
  <2>2. Min(todo) \in Items /\ Min(todo) # 0
    BY <2>1, ZeroIsNoItem
  <2>3. item' \in Items /\ item' # 0 /\ todo' \subseteq Items /\ pc' = "checking"
    BY <1>1, <2>2 DEF Attempt
  <2>4. left = {} /\ UNCHANGED <<runPolicy, product, left, cause>>
    BY <1>1 DEF Attempt
  <2>5. runPolicy \in Policies
    BY <1>1 DEF Attempt
  <2>6. QED
    BY <2>3, <2>4, <2>5
<1>2. CASE CheckSource
  BY <1>2 DEF CheckSource, Raise
<1>3. CASE Submit
  BY <1>3 DEF Submit, attemptVars
<1>4. CASE PollComplete
  <2>1. product' \in Results /\ pc = "polling" /\ pc' = "rechecking"
        /\ UNCHANGED <<runPolicy, todo, item, left, cause>>
    BY <1>4, ResultTyped DEF PollComplete
  <2>2. left = {}
    BY <1>4, <2>1
  <2>3. QED
    BY <2>1, <2>2
<1>5. CASE PollError
  BY <1>5 DEF PollError, Raise
<1>6. CASE Recheck
  <2>1. product \in Results /\ product # Absent
    BY <1>6, AbsentIsNothing DEF Recheck, Contents
  <2>2. QED
    BY <1>6, <2>1 DEF Recheck, Raise
<1>7. CASE UploadEvidence \/ UploadResult
  BY <1>7 DEF UploadEvidence, UploadResult, attemptVars
<1>8. CASE UploadReturns
  BY <1>8 DEF UploadReturns, AfterUpload
<1>9. CASE UploadRaises
  BY <1>9 DEF UploadRaises, Raise
<1>10. CASE JournalUpload
  BY <1>10 DEF JournalUpload, attemptVars
<1>11. CASE RemoveLocal
  BY <1>11 DEF RemoveLocal, attemptVars
<1>12. CASE JournalFreed \/ RecordFailure
  BY <1>12 DEF JournalFreed, RecordFailure, AttemptOver
<1>13. CASE StepRaises \/ FreedUnsynced
  BY <1>13 DEF StepRaises, FreedUnsynced, Raise
<1>14. CASE FailureUnreadable
  BY <1>14, ProcessOverTyped DEF FailureUnreadable
<1>15. QED
  BY <1>1, <1>2, <1>3, <1>4, <1>5, <1>6, <1>7, <1>8, <1>9, <1>10, <1>11, <1>12, <1>13,
     <1>14 DEF ItemStep

processVars == <<pc, runPolicy, todo, attemptVars>>

LEMMA StepProcessTyped == ASSUME IInv, [Next]_vars PROVE ProcessTypeOK'
<1>1. CASE Launch \/ StartStep
  BY <1>1, StartProcessTyped
<1>2. CASE ItemStep
  BY <1>2, ItemProcessTyped
<1>3. CASE PublishReport
  BY <1>3 DEF PublishReport, IInv, TypeOK, ProcessTypeOK, ProcessPoints, ItemPoints,
              attemptVars
<1>4. CASE ReportPartial \/ CollectFails \/ PublishEnds \/ Interrupt
  BY <1>4, ProcessOverTyped DEF ReportPartial, CollectFails, PublishEnds, Interrupt
<1>5. CASE UploadStep \/ ApiStep \/ Redeploy \/ SwapSource \/ LatePut \/ LaunchRefused
           \/ UNCHANGED vars
  <2>1. UNCHANGED processVars
    BY <1>5 DEF UploadStep, ApiStep, ApiFetch, ApiComplete, ApiVideoFails, ApiJobFails,
                ApiUnchanged, Redeploy, SwapSource, LatePut, LaunchRefused, vars, processVars
  <2>2. QED
    BY <2>1 DEF IInv, TypeOK, ProcessTypeOK, processVars, attemptVars
<1>6. QED
  BY <1>1, <1>2, <1>3, <1>4, <1>5 DEF Next, RunnerStep, EndStep
------------------------------------------------------------------------------
(* Type correctness of the API and of the bounds. *)

\* The API's job, apart from who waits for it.
JobTypeOK ==
    /\ job \in Jobs
    /\ job.state \in {"queued", "complete", "error"} => job.policy \in Policies
    /\ job.state = "complete" => job.verdict # "none"
    /\ jobs \in Nat

LEMMA NoJobTyped ==
    /\ NoJob \in Jobs
    /\ NoJob.state = "none"
    /\ LostJob \in Jobs
    /\ LostJob.state = "lost"
  BY DEF NoJob, LostJob, NoEvidence, Jobs


JobActions == Submit \/ ApiStep \/ Redeploy

JobKept == UNCHANGED <<job, jobs>> \/ (job' = NoJob /\ UNCHANGED jobs)

LEMMA JobFrame == [Next]_vars => JobActions \/ JobKept
<1>1. StartStep => JobKept
  BY DEF JobKept, StartStep, apiVars, FreezeJob, NotReady, Start, PolicyRefused, PinPolicy,
         ReadJournal, JournalUnreadable, ProcessOver, AttemptOver
<1>2. ItemStep => JobActions \/ JobKept
  BY DEF JobKept, JobActions, ItemStep, apiVars, Attempt, CheckSource, PollComplete,
         PollError, Recheck, UploadEvidence, UploadResult, UploadReturns, UploadRaises,
         JournalUpload, RemoveLocal, JournalFreed, FreedUnsynced, StepRaises, RecordFailure,
         FailureUnreadable, AttemptOver, ProcessOver
<1>3. EndStep \/ UploadStep => JobKept
  BY DEF JobKept, EndStep, apiVars, UploadStep, ReportPartial, PublishReport, CollectFails,
         PublishEnds, AttemptOver, ProcessOver
<1>4. Launch \/ LaunchRefused \/ Interrupt \/ SwapSource \/ LatePut \/ UNCHANGED vars
      => JobKept
  BY DEF JobKept, vars, apiVars, Launch, LaunchRefused, Interrupt, SwapSource, LatePut,
         AttemptOver, ProcessOver
<1>5. QED
  BY <1>1, <1>2, <1>3, <1>4 DEF Next, RunnerStep, JobActions

LEMMA ApiJobTyped == ASSUME IInv, ApiStep PROVE JobTypeOK' /\ job.state = "queued"
<1> USE DEF IInv, TypeOK, WorldTypeOK, JobTypeOK, Jobs, ApiUnchanged
<1>1. CASE ApiFetch
  <2>1. item \in Items
    BY <1>1 DEF ApiFetch, ProcessTypeOK, ItemPoints
  <2>2. source[item] \in Sources
    BY <2>1
  <2>3. QED
    BY <1>1, <2>2 DEF ApiFetch
<1>2. CASE ApiComplete
  BY <1>2 DEF ApiComplete
<1>3. CASE ApiVideoFails
  BY <1>3 DEF ApiVideoFails
<1>4. CASE ApiJobFails
  BY <1>4 DEF ApiJobFails
<1>5. QED
  BY <1>1, <1>2, <1>3, <1>4 DEF ApiStep

LEMMA StepJobTyped == ASSUME IInv, [Next]_vars PROVE JobTypeOK'
<1> USE DEF IInv, TypeOK, WorldTypeOK, JobTypeOK
<1>1. CASE Submit
  <2>1. job' = Queued(backend) /\ jobs' = jobs + 1
    BY <1>1 DEF Submit
  <2>2. Queued(backend) \in Jobs /\ Queued(backend).policy = backend
        /\ Queued(backend).state = "queued"
    BY DEF Queued, NoEvidence, Jobs
  <2>3. QED
    BY <2>1, <2>2
<1>2. CASE ApiStep
  BY <1>2, ApiJobTyped
<1>3. CASE Redeploy
  BY <1>3, NoJobTyped DEF Redeploy
<1>4. CASE JobKept
  BY <1>4, NoJobTyped DEF JobKept
<1>5. QED
  BY <1>1, <1>2, <1>3, <1>4, JobFrame DEF JobActions

\* A job that is still queued has somebody polling it, or who just gave up.
LEMMA StepJobAwaited ==
    ASSUME IInv, [Next]_vars, job'.state = "queued"
    PROVE  pc' = "polling" \/ pc' = "failed"
<1> USE DEF IInv, TypeOK, WorldTypeOK
<1>1. CASE Submit
  BY <1>1 DEF Submit
<1>2. CASE ApiStep
  BY <1>2, ApiJobTyped DEF ApiStep, ApiFetch, ApiComplete, ApiVideoFails, ApiJobFails,
                           ApiUnchanged
<1>3. CASE Redeploy
  BY <1>3, NoJobTyped DEF Redeploy
<1>4. CASE job' = NoJob
  BY <1>4, NoJobTyped
<1>5. CASE UNCHANGED job /\ ~JobActions
  <2>1. pc \in {"polling", "failed"}
    BY <1>5
  <2>2. job' # NoJob
    BY NoJobTyped
  <2>3. CASE PollComplete \/ PollError
    BY <1>5, <2>3 DEF PollComplete, PollError
  <2>4. CASE StepRaises
    BY <2>4 DEF StepRaises, Raise
  <2>5. CASE ~PollComplete /\ ~PollError /\ ~StepRaises
    <3>1. UNCHANGED pc
      BY <1>5, <2>1, <2>2, <2>5
         DEF Next, vars, JobActions, RunnerStep, StartStep, ItemStep, EndStep,
             Launch, LaunchRefused, FreezeJob, NotReady, Start, PolicyRefused, PinPolicy,
             ReadJournal, JournalUnreadable, Attempt, CheckSource,
             Recheck, UploadEvidence, UploadResult, UploadStep, UploadReturns,
             UploadRaises, JournalUpload, RemoveLocal, JournalFreed, FreedUnsynced,
             RecordFailure,
             FailureUnreadable, ReportPartial, PublishReport, CollectFails, PublishEnds,
             Interrupt, SwapSource, LatePut, AttemptOver, ProcessOver
    <3>2. QED
      BY <2>1, <3>1
  <2>6. QED
    BY <2>3, <2>4, <2>5
<1>6. QED
  BY <1>1, <1>2, <1>3, <1>4, <1>5, JobFrame DEF JobActions, JobKept

WorldActions == Redeploy \/ SwapSource \/ Interrupt \/ FreedUnsynced

LEMMA WorldFrame ==
    [Next]_vars => WorldActions \/ UNCHANGED <<source, backend, spentVars>>
  BY DEF Next, vars, apiVars, WorldActions, RunnerStep, StartStep, ItemStep, EndStep,
         Launch, LaunchRefused, FreezeJob, NotReady, Start, PolicyRefused, PinPolicy,
         ReadJournal, JournalUnreadable, Attempt, CheckSource, Submit, PollComplete,
         PollError, Recheck, UploadEvidence, UploadResult, UploadStep, UploadReturns,
         UploadRaises, JournalUpload, RemoveLocal, JournalFreed, StepRaises, RecordFailure,
         FailureUnreadable, ReportPartial, PublishReport, CollectFails, PublishEnds,
         ApiStep, ApiFetch, ApiComplete, ApiVideoFails, ApiJobFails, ApiUnchanged, LatePut

LEMMA StepWorldTyped == ASSUME IInv, [Next]_vars PROVE WorldTypeOK'
<1>1. /\ (source \in [Items -> Sources])'
      /\ (backend \in Policies)'
      /\ (faults \in Nat /\ swaps \in Nat /\ deploys \in Nat)'
      /\ (policyMoved \in BOOLEAN)'
  <2> USE DEF IInv, TypeOK, WorldTypeOK
  <2>1. CASE Redeploy
    BY <2>1 DEF Redeploy
  <2>2. CASE SwapSource
    BY <2>2 DEF SwapSource, apiVars
  <2>3. CASE Interrupt \/ FreedUnsynced
    BY <2>3 DEF Interrupt, FreedUnsynced, apiVars
  <2>4. CASE UNCHANGED <<source, backend, spentVars>>
    BY <2>4 DEF spentVars
  <2>5. QED
    BY <2>1, <2>2, <2>3, <2>4, WorldFrame DEF WorldActions
<1>2. QED
  BY <1>1, StepJobTyped, StepJobAwaited DEF WorldTypeOK, JobTypeOK

LEMMA StepTypeOK == ASSUME IInv, [Next]_vars PROVE TypeOK'
  BY StepStoreIInv, StepJournalTyped, StepDirTyped, StepProcessTyped, StepWorldTyped
     DEF TypeOK
------------------------------------------------------------------------------
(* From the upload to the journal. *)

UploadedPoints == {"uploaded", "clearing", "freeing"}

LEMMA SendingFrame ==
    ASSUME [Next]_vars, pc' = "sending"
    PROVE  \/ UploadEvidence
           \/ UploadResult
           \/ /\ pc = "sending"
              /\ UNCHANGED <<item, product>>
              /\ UploadStep \/ UNCHANGED upload
<1>1. ~StartStep /\ ~EndStep /\ ~Launch /\ ~Interrupt
  BY DEF StartStep, EndStep, FreezeJob, NotReady, Start, PolicyRefused, PinPolicy,
         ReadJournal, JournalUnreadable, ReportPartial, PublishReport, CollectFails,
         PublishEnds, Launch, Interrupt, ProcessOver
<1>2. ItemStep => UploadEvidence \/ UploadResult
  BY DEF ItemStep, Attempt, CheckSource, Submit, PollComplete, PollError, Recheck,
         UploadReturns, UploadRaises, JournalUpload, RemoveLocal, JournalFreed, FreedUnsynced,
         StepRaises, RecordFailure, FailureUnreadable, ProcessOver, Raise, AfterUpload
<1>3. ApiStep \/ Redeploy \/ SwapSource \/ LatePut \/ LaunchRefused \/ UNCHANGED vars
      => UNCHANGED <<pc, item, product, upload>>
  BY DEF ApiStep, ApiFetch, ApiComplete, ApiVideoFails, ApiJobFails, ApiUnchanged, Redeploy,
         SwapSource, LatePut, LaunchRefused, vars, attemptVars, storeVars, Store!LateArrival
<1>4. UploadStep => pc = "sending" /\ UNCHANGED <<item, product>>
  BY DEF UploadStep, attemptVars
<1>5. QED
  BY <1>1, <1>2, <1>3, <1>4 DEF Next, RunnerStep

LEMMA UploadedFrame ==
    ASSUME [Next]_vars, pc' \in UploadedPoints
    PROVE  UploadReturns \/ (pc \in UploadedPoints /\ UNCHANGED <<item, product>>)
<1> USE DEF UploadedPoints
<1>1. ~StartStep /\ ~EndStep /\ ~Launch /\ ~Interrupt
  BY DEF StartStep, EndStep, FreezeJob, NotReady, Start, PolicyRefused, PinPolicy,
         ReadJournal, JournalUnreadable, ReportPartial, PublishReport, CollectFails,
         PublishEnds, Launch, Interrupt, ProcessOver
<1>2. ItemStep => UploadReturns \/ JournalUpload \/ RemoveLocal
  BY DEF ItemStep, Attempt, CheckSource, Submit, PollComplete, PollError, Recheck,
         UploadEvidence, UploadResult, UploadRaises, JournalFreed, FreedUnsynced, StepRaises,
         RecordFailure, FailureUnreadable, ProcessOver, Raise
<1>3. JournalUpload \/ RemoveLocal => pc \in UploadedPoints /\ UNCHANGED <<item, product>>
  BY DEF JournalUpload, RemoveLocal, attemptVars
<1>4. UploadStep \/ ApiStep \/ Redeploy \/ SwapSource \/ LatePut \/ LaunchRefused
      \/ UNCHANGED vars => UNCHANGED <<pc, item, product>>
  BY DEF UploadStep, ApiStep, ApiFetch, ApiComplete, ApiVideoFails, ApiJobFails,
         ApiUnchanged, Redeploy, SwapSource, LatePut, LaunchRefused, vars, attemptVars
<1>5. QED
  BY <1>1, <1>2, <1>3, <1>4 DEF Next, RunnerStep

LEMMA UploadTyped ==
    ASSUME IInv
    PROVE  /\ upload \in [{Runner} -> [phase : P!Phases, key : Keys \cup {Absent},
                                       content : Contents \cup {Absent}]]
           /\ P!IInv
  BY StoreIInv DEF P!IInv, P!TypeOK

\* While it is under way, a call keeps its key and its content.
LEMMA ExchangeKeepsCall ==
    ASSUME IInv, Store!Exchange(Runner)
    PROVE  /\ upload'[Runner].key = upload[Runner].key
           /\ upload'[Runner].content = upload[Runner].content
  BY UploadTyped
     DEF Store!Exchange, Store!HeadFound, Store!HeadMissing, Store!HeadFails,
         Store!PutAccepted, Store!PutResponseLost, Store!PutRefused, Store!PutFails,
         Store!Verify, Store!MoveTo

LEMMA BegunCall ==
    ASSUME IInv, NEW k, NEW c, Store!Begin(Runner, k, c)
    PROVE  upload'[Runner].key = k /\ upload'[Runner].content = c
  BY UploadTyped DEF Store!Begin

LEMMA StepSending == ASSUME IInv, [Next]_vars PROVE SendingIsProduct'
<1> SUFFICES ASSUME pc' = "sending", SentKey' = ResultKey(item)'
             PROVE  upload'[Runner].content = product'
  BY DEF SendingIsProduct
<1>1. CASE UploadEvidence
  <2>1. PICK a \in left : Store!Begin(Runner, EvidenceKey(item, a), product.evidence[a])
    BY <1>1 DEF UploadEvidence
  <2>2. SentKey' = EvidenceKey(item, a) /\ UNCHANGED item
    BY <1>1, <2>1, BegunCall DEF SentKey, UploadEvidence, attemptVars
  <2>3. QED
    BY <2>2, KeysDistinct DEF ResultKey, EvidenceKey
<1>2. CASE UploadResult
  BY <1>2, BegunCall DEF UploadResult, attemptVars
<1>3. CASE pc = "sending" /\ UNCHANGED <<item, product>> /\ UploadStep
  BY <1>3, ExchangeKeepsCall DEF UploadStep, IInv, SendingIsProduct, SentKey, ResultKey
<1>4. CASE pc = "sending" /\ UNCHANGED <<item, product>> /\ UNCHANGED upload
  BY <1>4 DEF IInv, SendingIsProduct, SentKey, ResultKey
<1>5. QED
  BY <1>1, <1>2, <1>3, <1>4, SendingFrame

LEMMA StepUploaded == ASSUME IInv, [Next]_vars PROVE UploadedIsStored'
<1> SUFFICES ASSUME pc' \in UploadedPoints
             PROVE  objects'[ResultKey(item')] = product'
  BY DEF UploadedIsStored, UploadedPoints, Published, ResultKey
<1>1. CASE UploadReturns
  <2>1. pc = "sending" /\ Returned /\ UNCHANGED <<objects, item, product>>
    BY <1>1 DEF UploadReturns, Store!Return
  <2>2. SentKey = ResultKey(item)
    BY <1>1 DEF UploadReturns, AfterUpload, UploadedPoints
  <2>3. objects[SentKey] = upload[Runner].content
    BY <2>1, UploadTyped
       DEF IInv, P!VerifyingMeansStored, P!Phase, P!Stored, P!Target, Returned,
           Store!Phase, SentKey
  <2>4. upload[Runner].content = product
    BY <2>1, <2>2 DEF IInv, SendingIsProduct
  <2>5. QED
    BY <2>1, <2>2, <2>3, <2>4
<1>2. CASE pc \in UploadedPoints /\ UNCHANGED <<item, product>>
  <2>1. objects[ResultKey(item)] = product
    BY <1>2 DEF IInv, UploadedIsStored, UploadedPoints, Published
  <2>2. product # Absent /\ item \in Items
    BY <1>2, AbsentIsNothing
       DEF IInv, TypeOK, ProcessTypeOK, UploadedPoints, ItemPoints, Contents
  <2>3. QED
    BY <1>2, <2>1, <2>2, StepStoreIInv, KeysTyped
<1>3. QED
  BY <1>1, <1>2, UploadedFrame

\* What the journal gains is what the process believes.
LEMMA RecordedEvent ==
    ASSUME IInv, NEW i \in Items, NEW s \in Statuses, NEW d \in Results \cup {Absent},
           Journaled(i, s, d)
    PROVE  \A j \in Items : latest'[j] = latest[j]
               \/ (j = i /\ latest'[j].status = s /\ latest'[j].detail = d)
<1>1. PICK end \in Journal!Endings : Journal!Record(i, s, d, end)
  BY DEF Journaled
<1>2. CASE Journal!Recorded(i, s, d)
  BY <1>2 DEF Journal!Recorded, IInv, TypeOK, Journal!TypeOK
<1>3. CASE UNCHANGED latest
  BY <1>3
<1>4. QED
  BY <1>1, <1>2, <1>3 DEF Journal!Record

LEMMA StepFreed == ASSUME IInv, [Next]_vars PROVE FreedIsPublished'
<1> SUFFICES ASSUME NEW i \in Items, latest'[i].status \in {"result_uploaded", "freed"}
             PROVE  latest'[i].detail # Absent /\ objects'[ResultKey(i)] = latest'[i].detail
  BY DEF FreedIsPublished, Status, Published, ResultKey
<1>1. CASE latest'[i] = latest[i]
  <2>1. latest[i].detail # Absent /\ objects[ResultKey(i)] = latest[i].detail
    BY <1>1 DEF IInv, FreedIsPublished, Status, Published
  <2>2. QED
    BY <1>1, <2>1, StepStoreIInv, KeysTyped
<1>2. CASE latest'[i] # latest[i]
  <2>1. JournalActions
    BY <1>2, JournalFrame DEF journalVars
  <2>2. ~Attempt
    <3>1. SUFFICES ASSUME Attempt PROVE FALSE
      OBVIOUS
    <3>2. Min(todo) \in Items
      BY <3>1, NextItem DEF Attempt, IInv, TypeOK, ProcessTypeOK
    <3>3. Journaled(Min(todo), "attempting", Absent)
      BY <3>1 DEF Attempt
    <3>4. latest'[i].status = "attempting"
      BY <1>2, <3>2, <3>3, RecordedEvent DEF Statuses
    <3>5. QED
      BY <3>4
  <2>3. ~RecordFailure
    <3>1. SUFFICES ASSUME RecordFailure PROVE FALSE
      OBVIOUS
    <3>2. item \in Items
      BY <3>1 DEF RecordFailure, IInv, TypeOK, ProcessTypeOK, ItemPoints
    <3>3. Journaled(item, FailureStatus, Absent) /\ FailureStatus \in Statuses
      BY <3>1 DEF RecordFailure, FailureStatus, Statuses
    <3>4. latest'[i].status = FailureStatus
      BY <1>2, <3>2, <3>3, RecordedEvent
    <3>5. QED
      BY <3>4 DEF FailureStatus
  <2>4. pc \in {"uploaded", "freeing"} /\ item \in Items /\ UNCHANGED objects
        /\ (Journaled(item, "result_uploaded", product) \/ Journaled(item, "freed", product))
    BY <2>1, <2>2, <2>3
       DEF JournalActions, JournalUpload, JournalFreed, FreedUnsynced, storeVars, IInv, TypeOK,
           ProcessTypeOK, ItemPoints
  <2>5. product \in Results
    BY <2>4 DEF IInv, TypeOK, ProcessTypeOK
  <2>6. i = item /\ latest'[i].detail = product
    BY <1>2, <2>4, <2>5, RecordedEvent DEF Statuses
  <2>7. product # Absent /\ objects[ResultKey(item)] = product
    BY <2>4, <2>5, AbsentIsNothing DEF IInv, UploadedIsStored, Published, Contents
  <2>8. QED
    BY <2>4, <2>6, <2>7
<1>3. QED
  BY <1>1, <1>2
------------------------------------------------------------------------------
(* The invariant of a batch. *)

LEMMA InitIInv == Init => IInv
<1> SUFFICES ASSUME Init PROVE IInv
  OBVIOUS
<1>1. Foreign \in Contents
  BY DEF Contents
<1>2. Store!TypeOK
  BY <1>1 DEF Init, Store!TypeOK, Store!NoUpload, Store!Phases
<1>3. Journal!TypeOK /\ tears \in Nat
  BY DEF Init, Journal!Init, Journal!TypeOK, Journal!Health
<1>4. DirTypeOK
  BY DEF Init, DirTypeOK
<1>5. ProcessTypeOK
  BY DEF Init, ProcessTypeOK, ProcessPoints, ItemPoints
<1>6. WorldTypeOK
  BY NoJobTyped DEF Init, WorldTypeOK, Sources
<1>7. P!VerifyingMeansStored
  BY DEF Init, P!VerifyingMeansStored, P!Phase, Store!NoUpload
<1>8. SendingIsProduct /\ UploadedIsStored
  BY DEF Init, SendingIsProduct, UploadedIsStored
<1>9. FreedIsPublished
  BY DEF Init, FreedIsPublished, Status, Journal!Init, Journal!NoEvent
<1>10. QED
  BY <1>2, <1>3, <1>4, <1>5, <1>6, <1>7, <1>8, <1>9 DEF IInv, TypeOK

LEMMA StepIInv == IInv /\ [Next]_vars => IInv'
  BY StepTypeOK, StepStoreIInv, StepSending, StepUploaded, StepFreed DEF IInv

THEOREM IInvHolds == Spec => []IInv
  BY InitIInv, StepIInv, PTL DEF Spec

\* Every reachable state is of the declared types: among them, that an item is
\* under way exactly between its "attempting" record and its failure or release,
\* and that its result is complete when it is uploaded (_run_item).
THEOREM TypeCorrect == Spec => []TypeOK
<1>1. IInv => TypeOK
  BY DEF IInv
<1>2. QED
  BY <1>1, IInvHolds, PTL

\* The journal never claims an upload R2 does not hold with the journaled
\* digest, whatever crashed, was retried, arrived late or was torn
\* (_upload_item, journal.append, upload_create_only).
THEOREM FreedStaysPublished == Spec => []FreedIsPublished
<1>1. IInv => FreedIsPublished
  BY DEF IInv
<1>2. QED
  BY <1>1, IInvHolds, PTL

------------------------------------------------------------------------------
(* Retries: an item that is over stays over, and crashes are the only thing that
   buys an item more attempts than the manifest allows. *)

\* The snapshot a run works from agrees with the journal: a readable journal
\* calls no item over that is still to be run, or being run and has not failed.
WorkIsOpen ==
    Journal!Readable =>
        \A i \in Items :
            i \in todo \/ (i = item /\ pc # "failed") => Status(i) \notin Terminal

\* An item that may be run again has an attempt left, not counting those that
\* crashes kept from being recorded.
AttemptLeft ==
    Journal!Readable =>
        \A i \in Items : i # item /\ Status(i) \notin Terminal =>
            attempts[i] < MaxAttempts + faults

RetryInv ==
    /\ item \notin todo
    /\ WorkIsOpen
    /\ AttemptBudget
    /\ AttemptLeft
------------------------------------------------------------------------------
RetryActions == Attempt \/ ReadJournal \/ JournalUpload \/ JournalFreed \/ FreedUnsynced
                \/ RecordFailure \/ FailureUnreadable \/ Interrupt

\* All that any other step does to the work list is to drop it.
Untouched ==
    /\ UNCHANGED <<latest, attempts, health, faults, item>>
    /\ todo' \in {todo, {}}
    /\ pc = "failed" => pc' = "failed"

LEMMA EndedUntouched ==
    ASSUME IInv, pc \notin ItemPoints, ProcessOver, UNCHANGED <<journalVars, faults>>
    PROVE  Untouched
  BY DEF IInv, TypeOK, ProcessTypeOK, ProcessOver, AttemptOver, journalVars, Untouched,
         ItemPoints

LEMMA RetryFrame == ASSUME IInv, [Next]_vars PROVE RetryActions \/ Untouched
<1>1. StartStep => ReadJournal \/ Untouched
  <2>1. FreezeJob \/ Start \/ PinPolicy => Untouched
    BY DEF FreezeJob, Start, PinPolicy, Untouched, journalVars, attemptVars, spentVars
  <2>2. NotReady \/ PolicyRefused \/ JournalUnreadable => Untouched
    BY EndedUntouched DEF NotReady, PolicyRefused, JournalUnreadable, ItemPoints, spentVars
  <2>3. QED
    BY <2>1, <2>2 DEF StartStep
<1>2. ItemStep => RetryActions \/ Untouched
  BY DEF ItemStep, RetryActions, CheckSource, Submit, PollComplete, PollError, Recheck,
         UploadEvidence, UploadResult, UploadReturns, UploadRaises, RemoveLocal, StepRaises,
         Untouched, journalVars, attemptVars, spentVars
<1>3. EndStep => Untouched
  <2>1. PublishReport => Untouched
    BY DEF PublishReport, Untouched, journalVars, attemptVars, spentVars
  <2>2. ReportPartial \/ CollectFails \/ PublishEnds => Untouched
    BY EndedUntouched DEF ReportPartial, CollectFails, PublishEnds, ItemPoints, spentVars
  <2>3. QED
    BY <2>1, <2>2 DEF EndStep
<1>4. UploadStep \/ ApiStep \/ Redeploy \/ SwapSource \/ LatePut \/ Launch \/ LaunchRefused
      \/ UNCHANGED vars => Untouched
  BY DEF UploadStep, ApiStep, ApiFetch, ApiComplete, ApiVideoFails, ApiJobFails,
         ApiUnchanged, Redeploy, SwapSource, LatePut, Launch, LaunchRefused, vars, Untouched,
         journalVars, attemptVars, spentVars
<1>5. QED
  BY <1>1, <1>2, <1>3, <1>4 DEF Next, RunnerStep, RetryActions

\* A record is of one item, and only a whole journal takes it.
LEMMA RecordCases ==
    ASSUME IInv, NEW i \in Items, NEW s \in Statuses, NEW d \in Results \cup {Absent},
           Journaled(i, s, d)
    PROVE  \/ ~Journal!Readable' /\ UNCHANGED <<latest, attempts>>
           \/ /\ health = "whole"
              /\ latest'[i].status = s
              /\ attempts'[i] = IF s = "attempting" THEN attempts[i] + 1 ELSE attempts[i]
              /\ \A j \in Items \ {i} :
                     latest'[j] = latest[j] /\ attempts'[j] = attempts[j]
<1>1. PICK end \in Journal!Endings : Journal!Record(i, s, d, end)
  BY DEF Journaled
<1>2. CASE Journal!Recorded(i, s, d) /\ health = "whole"
  BY <1>2 DEF Journal!Recorded, IInv, TypeOK, Journal!TypeOK
<1>3. CASE health' = "broken" /\ UNCHANGED <<latest, attempts>>
  BY <1>3 DEF Journal!Readable
<1>4. QED
  BY <1>1, <1>2, <1>3 DEF Journal!Record
------------------------------------------------------------------------------
LEMMA CountsTyped ==
    ASSUME IInv
    PROVE  /\ MaxAttempts \in Nat \ {0}
           /\ faults \in Nat
           /\ attempts \in [Items -> Nat]
           /\ todo \subseteq Items
           /\ item \in Items \cup {0}
           /\ 0 \notin Items
  BY MaxAttemptsAssumption, ZeroIsNoItem
     DEF IInv, TypeOK, Journal!TypeOK, WorldTypeOK, ProcessTypeOK

LEMMA AttemptRetry == ASSUME IInv, RetryInv, Attempt PROVE RetryInv'
<1> DEFINE i == Min(todo)
<1> USE DEF RetryInv
<1>1. /\ i \in todo /\ i \in Items
      /\ Journaled(i, "attempting", Absent)
      /\ item' = i /\ todo' = todo \ {i} /\ UNCHANGED faults
      /\ item \notin Items
  BY NextItem, CountsTyped
     DEF Attempt, spentVars, IInv, TypeOK, ProcessTypeOK, ItemPoints
<1>2. i # item
  BY <1>1
<1> HIDE DEF i
<1>3. CASE ~Journal!Readable' /\ UNCHANGED <<latest, attempts>>
  BY <1>1, <1>3 DEF WorkIsOpen, AttemptBudget, AttemptLeft
<1>4. CASE /\ health = "whole"
           /\ latest'[i].status = "attempting"
           /\ attempts'[i] = attempts[i] + 1
           /\ \A j \in Items \ {i} : latest'[j] = latest[j] /\ attempts'[j] = attempts[j]
  <2>1. Journal!Readable
    BY <1>4 DEF Journal!Readable
  <2>2. attempts[i] < MaxAttempts + faults
    BY <1>1, <1>2, <2>1 DEF WorkIsOpen, AttemptLeft
  <2>3. AttemptBudget'
    BY <1>1, <1>4, <2>2, CountsTyped DEF AttemptBudget
  <2>4. WorkIsOpen'
    BY <1>1, <1>4, <2>1 DEF WorkIsOpen, Status, Terminal
  <2>5. AttemptLeft'
    BY <1>1, <1>4, <2>1 DEF AttemptLeft, Status
  <2>6. QED
    BY <1>1, <2>3, <2>4, <2>5
<1>5. QED
  BY <1>1, <1>3, <1>4, RecordCases DEF Statuses

\* A record that ends the attempt leaves the item over, or with an attempt left.
LEMMA RecordRetry ==
    ASSUME IInv, RetryInv, item \in Items, UNCHANGED todo, faults' \in {faults, faults + 1},
           NEW s \in Statuses \ {"attempting"}, NEW d \in Results \cup {Absent},
           Journaled(item, s, d),
           \/ item' = item /\ (s \notin Terminal \/ pc' = "failed")
           \/ item' = 0 /\ (s \in Terminal \/ attempts[item] < MaxAttempts)
    PROVE  RetryInv'
<1> USE DEF RetryInv
<1>1. item' \notin todo'
  BY CountsTyped
<1>2. CASE ~Journal!Readable' /\ UNCHANGED <<latest, attempts>>
  BY <1>1, <1>2, CountsTyped DEF WorkIsOpen, AttemptBudget, AttemptLeft
<1>3. CASE /\ health = "whole"
           /\ latest'[item].status = s
           /\ attempts'[item] = attempts[item]
           /\ \A j \in Items \ {item} :
                  latest'[j] = latest[j] /\ attempts'[j] = attempts[j]
  <2>1. Journal!Readable
    BY <1>3 DEF Journal!Readable
  <2>2. AttemptBudget'
    BY <1>3, CountsTyped DEF AttemptBudget
  <2>3. WorkIsOpen'
    BY <1>3, <2>1, CountsTyped DEF WorkIsOpen, Status
  <2>4. AttemptLeft'
    BY <1>3, <2>1, CountsTyped DEF AttemptLeft, Status
  <2>5. QED
    BY <1>1, <2>2, <2>3, <2>4
<1>4. QED
  BY <1>2, <1>3, RecordCases

LEMMA StepRetry == ASSUME IInv, RetryInv, [Next]_vars PROVE RetryInv'
<1> USE DEF RetryInv
<1>1. CASE Attempt
  BY <1>1, AttemptRetry
<1>2. CASE ReadJournal
  <2>1. /\ UNCHANGED <<latest, attempts, health, faults, item>>
        /\ todo' = ToRun
        /\ item \notin Items
    BY <1>2, CountsTyped DEF ReadJournal, journalVars, attemptVars, spentVars, IInv, TypeOK,
                ProcessTypeOK, ItemPoints
  <2>2. \A i \in todo' : i \in Items /\ Status(i) \notin Terminal
    BY <2>1 DEF ToRun, Skipped, Terminal
  <2>3. QED
    BY <2>1, <2>2 DEF WorkIsOpen, AttemptBudget, AttemptLeft, Status, Journal!Readable
<1>3. CASE JournalUpload
  BY <1>3, RecordRetry
     DEF JournalUpload, Statuses, Terminal, attemptVars, spentVars, IInv, TypeOK, ProcessTypeOK,
         ItemPoints
<1>4. CASE JournalFreed
  BY <1>4, RecordRetry
     DEF JournalFreed, Statuses, Terminal, AttemptOver, spentVars, IInv, TypeOK,
         ProcessTypeOK, ItemPoints
<1>5. CASE FreedUnsynced
  BY <1>5, RecordRetry
     DEF FreedUnsynced, Raise, Statuses, IInv, TypeOK, ProcessTypeOK, ItemPoints
<1>6. CASE RecordFailure
  <2>1. FailureStatus \in Statuses \ {"attempting"}
    BY DEF FailureStatus, Statuses
  <2>2. item \in Items /\ UNCHANGED <<todo, faults>> /\ item' = 0
        /\ Journaled(item, FailureStatus, Absent)
    BY <1>6 DEF RecordFailure, AttemptOver, spentVars, IInv, TypeOK, ProcessTypeOK, ItemPoints
  <2>3. FailureStatus \in Terminal \/ attempts[item] < MaxAttempts
    BY <2>2, CountsTyped DEF FailureStatus, Terminal
  <2>4. QED
    BY <2>1, <2>2, <2>3, RecordRetry
<1>7. CASE FailureUnreadable
  BY <1>7, CountsTyped
     DEF FailureUnreadable, ProcessOver, AttemptOver, journalVars, spentVars, WorkIsOpen,
         AttemptBudget, AttemptLeft, Journal!Readable
<1>8. CASE Interrupt
  <2>1. /\ UNCHANGED <<latest, attempts, health>>
        /\ faults' = faults + 1 /\ item' = 0 /\ todo' = {}
    BY <1>8 DEF Interrupt, ProcessOver, AttemptOver, journalVars
  <2>2. QED
    BY <2>1, CountsTyped DEF WorkIsOpen, AttemptBudget, AttemptLeft, Status
<1>9. CASE Untouched
  BY <1>9 DEF Untouched, WorkIsOpen, AttemptBudget, AttemptLeft, Status, Journal!Readable
<1>10. QED
  BY <1>1, <1>2, <1>3, <1>4, <1>5, <1>6, <1>7, <1>8, <1>9, RetryFrame DEF RetryActions
LEMMA InitRetry == Init => RetryInv
<1> SUFFICES ASSUME Init PROVE RetryInv
  OBVIOUS
<1>1. IInv
  BY InitIInv
<1>2. /\ \A i \in Items : attempts[i] = 0 /\ Status(i) = "none"
      /\ item = 0 /\ todo = {} /\ faults = 0
  BY DEF Init, Journal!Init, Journal!NoEvent, Status
<1>3. QED
  BY <1>1, <1>2, CountsTyped
     DEF RetryInv, WorkIsOpen, AttemptBudget, AttemptLeft, Terminal

Inv == IInv /\ RetryInv

LEMMA InvHolds == Spec => []Inv
<1>1. Init => Inv
  BY InitIInv, InitRetry DEF Inv
<1>2. Inv /\ [Next]_vars => Inv'
  BY StepIInv, StepRetry DEF Inv
<1>3. QED
  BY <1>1, <1>2, PTL DEF Spec

\* Crashes alone let an item go beyond max_attempts, one attempt for each of
\* them: no other failure, and no restart, is repeated for free (_run_item).
THEOREM AttemptsBounded == Spec => []AttemptBudget
<1>1. Inv => AttemptBudget
  BY DEF Inv, RetryInv
<1>2. QED
  BY <1>1, InvHolds, PTL

\* A freed, conflicting or quarantined item has its last record: no later run
\* of the directory takes it up again (run() skips it).
THEOREM TerminalStays == Spec => TerminalIsFinal
<1> DEFINE Kept == \A i \in Items : Status(i) \in Terminal /\ ~(i = item /\ pc = "failed") =>
                       latest'[i] = latest[i]
<1>1. Inv /\ [Next]_vars => [Kept]_vars
  <2> SUFFICES ASSUME Inv, [Next]_vars, NEW i \in Items, Status(i) \in Terminal,
                      ~(i = item /\ pc = "failed"), latest'[i] # latest[i]
               PROVE  FALSE
    OBVIOUS
  <2>1. JournalActions
    BY JournalFrame DEF journalVars
  <2>2. CASE Attempt
    <3>1. Min(todo) \in todo /\ Min(todo) \in Items
      BY <2>2, NextItem, CountsTyped DEF Attempt, Inv
    <3>2. Journaled(Min(todo), "attempting", Absent)
      BY <2>2 DEF Attempt
    <3>3. i = Min(todo) /\ Journal!Readable
      BY <3>1, <3>2, RecordCases DEF Inv, Statuses, Journal!Readable
    <3>4. QED
      BY <3>1, <3>3 DEF Inv, RetryInv, WorkIsOpen
  <2>3. CASE ~Attempt
    <3>1. item \in Items /\ product \in Results \cup {Absent}
      BY <2>1, <2>3 DEF JournalActions, JournalUpload, JournalFreed, FreedUnsynced,
                        RecordFailure, Inv, IInv, TypeOK, ProcessTypeOK, ItemPoints
    <3>2. \E s \in Statuses, d \in Results \cup {Absent} : Journaled(item, s, d)
      <4>1. FailureStatus \in Statuses
        BY DEF FailureStatus, Statuses
      <4>2. QED
        BY <2>1, <2>3, <3>1, <4>1
           DEF JournalActions, JournalUpload, JournalFreed, FreedUnsynced, RecordFailure,
               Statuses
    <3>3. i = item /\ Journal!Readable
      BY <3>1, <3>2, RecordCases DEF Inv, Journal!Readable
    <3>4. QED
      BY <3>3 DEF Inv, RetryInv, WorkIsOpen
  <2>4. QED
    BY <2>2, <2>3
<1>2. QED
  BY <1>1, InvHolds, PTL DEF Spec, TerminalIsFinal
==============================================================================
