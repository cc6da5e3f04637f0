--------------------------- MODULE JobServiceProofs ---------------------------
(***************************************************************************)
(* Proofs about JobService, for any jobs, videos, workers and restarts.    *)
(*                                                                         *)
(* CompleteMeansReported looks at a job that has ended; what makes it true *)
(* are facts about the worker that brings it there: how many results it    *)
(* has at each step, that the files it must remove are the ones on disk,   *)
(* and that no job is run twice, which rests on the pool's queue.          *)
(***************************************************************************)
EXTENDS JobService, TLAPS

\* A job waits in the pool's queue once at most.
QueuedOnce ==
    /\ \A n \in 1..Len(queue) : pc[queue[n]] = "queued"
    /\ \A m, n \in 1..Len(queue) : queue[m] = queue[n] => m = n

LockHeld == \A j \in Jobs : pc[j] = "process" <=> lock = j

\* Before a worker has the job.
Fresh(j) ==
    /\ ~made[j] => pc[j] = "none" /\ staged[j] = {} /\ report[j] = <<>>
    /\ pc[j] \in {"none", "submitting", "queued"} => results[j] = <<>> /\ sources[j] = {}
    /\ pc[j] \in {"submitting", "queued"} => staged[j] = {}

\* How far the worker is with the job's videos.
Counted(j) ==
    /\ pc[j] \in Steps \cup {"queued"} => videos[j] \in 1..MaxVideos
    /\ pc[j] \in {"fetch", "lock", "process"} => Len(results[j]) < videos[j]
    /\ pc[j] = "record" => Len(results[j]) <= videos[j]
    /\ pc[j] \in {"report", "clean"} => Len(results[j]) = videos[j]

\* What the worker knows of the job's directory.
OnDisk(j) ==
    /\ pc[j] \in Steps \ {"fail"} => staged[j] = sources[j]
    /\ \A v \in 1..Len(results[j]) : results[j][v].evidence => v \in images[j]
    /\ pc[j] = "clean" => report[j] = results[j]

Ended(j) ==
    state[j] = "complete" =>
        /\ pc[j] = "ended"
        /\ Len(report[j]) = videos[j]
        /\ \A v \in 1..Len(report[j]) : report[j][v].evidence => v \in images[j]
        /\ staged[j] = {}

JobInv == \A j \in Jobs : Fresh(j) /\ Counted(j) /\ OnDisk(j) /\ Ended(j)

IInv == TypeOK /\ QueuedOnce /\ LockHeld /\ JobInv

LEMMA InitIInv == Init => IInv
  BY MaxVideosAssumption, NoJobIsNoJob
     DEF Init, IInv, TypeOK, QueuedOnce, LockHeld, JobInv, Fresh, Counted, OnDisk, Ended, Steps

LEMMA StepTypeOK == IInv /\ [Next]_vars => TypeOK'
<1> SUFFICES ASSUME IInv, [Next]_vars PROVE TypeOK'
  OBVIOUS
<1> USE MaxVideosAssumption DEF IInv, TypeOK, JobInv, Counted, Steps, GoTo
<1>1. ASSUME NEW j \in Jobs, CreateJob(j) PROVE TypeOK'
  BY <1>1 DEF CreateJob, tableVars
<1>2. ASSUME NEW j \in Jobs, NEW n \in 1..MaxVideos, Enqueue(j, n) PROVE TypeOK'
  BY <1>2 DEF Enqueue, diskVars
<1>3. ASSUME Begin PROVE TypeOK'
  <2>1. Head(queue) \in Jobs /\ Tail(queue) \in Seq(Jobs)
    BY <1>3 DEF Begin
  <2>2. QED
    BY <1>3, <2>1 DEF Begin, diskVars
<1>4. ASSUME NEW j \in Jobs, Work(j) PROVE TypeOK'
  <2>1. Current(j) \in 1..MaxVideos \/ pc[j] \notin {"fetch", "process"}
    BY DEF Current
  <2>2. CASE Fetch(j)
    BY <2>1, <2>2 DEF Fetch, tableVars
  <2>3. CASE FetchFails(j) \/ ProcessRaises(j)
    <3>1. Error \in Result
      BY DEF Error, Result
    <3>2. results' \in [Jobs -> Seq(Result)]
      <4>1. results' = [results EXCEPT ![j] = Append(results[j], Error)]
        BY <2>3 DEF FetchFails, ProcessRaises
      <4>2. Append(results[j], Error) \in Seq(Result)
        <5> HIDE DEF TypeOK
        <5>1. results[j] \in Seq(Result)
          BY DEF TypeOK
        <5>2. QED
          BY <3>1, <5>1
      <4>3. QED
        BY <4>1, <4>2
    <3>3. images' \in [Jobs -> SUBSET (1..MaxVideos)]
      <4>1. CASE FetchFails(j)
        BY <4>1 DEF FetchFails, diskVars
      <4>2. CASE ProcessRaises(j)
        <5>1. Current(j) \in 1..MaxVideos
          BY <2>1, <4>2 DEF ProcessRaises
        <5>2. images' \in {images, [images EXCEPT ![j] = images[j] \cup {Current(j)}]}
          BY <4>2 DEF ProcessRaises
        <5> HIDE DEF TypeOK
        <5>3. images \in [Jobs -> SUBSET (1..MaxVideos)]
          BY DEF TypeOK
        <5>4. QED
          BY <5>1, <5>2, <5>3
      <4>3. QED
        BY <2>3, <4>1, <4>2
    <3>4. QED
      BY <2>3, <3>2, <3>3 DEF FetchFails, ProcessRaises, tableVars, diskVars
  <2>4. CASE Acquire(j)
    BY <2>4 DEF Acquire, tableVars, diskVars
  <2>5. CASE Process(j)
    BY <2>1, <2>5, SMTT(30) DEF Process, tableVars
  <2>6. CASE Record(j)
    BY <2>6, SMTT(30) DEF Record, diskVars
  <2>7. CASE WriteReport(j)
    BY <2>7 DEF WriteReport, tableVars
  <2>8. CASE ReportFails(j) \/ CleanFails(j)
    BY <2>8 DEF ReportFails, CleanFails, tableVars, diskVars
  <2>9. CASE Clean(j)
    BY <2>9 DEF Clean, tableVars
  <2>10. CASE Complete(j) \/ Fail(j)
    BY <2>10 DEF Complete, Fail, diskVars
  <2>11. QED
    BY <1>4, <2>2, <2>3, <2>4, <2>5, <2>6, <2>7, <2>8, <2>9, <2>10 DEF Work
<1>5. CASE Restart
  BY <1>5 DEF Restart, diskVars
<1>6. CASE UNCHANGED vars
  BY <1>6 DEF vars, tableVars, diskVars
<1>7. QED
  BY <1>1, <1>2, <1>3, <1>4, <1>5, <1>6 DEF Next, Submit

LEMMA StepLockHeld == IInv /\ [Next]_vars => LockHeld'
<1> SUFFICES ASSUME IInv, [Next]_vars PROVE LockHeld'
  OBVIOUS
<1> USE NoJobIsNoJob DEF IInv, TypeOK, LockHeld, Steps, GoTo
<1>1. ASSUME NEW j \in Jobs, Submit(j) PROVE LockHeld'
  <2>1. pc[j] # "process"
    BY <1>1 DEF Submit, CreateJob, Enqueue, JobInv, Fresh
  <2>2. QED
    BY <1>1, <2>1 DEF Submit, CreateJob, Enqueue
<1>2. ASSUME Begin PROVE LockHeld'
  <2>1. Head(queue) \in Jobs /\ pc[Head(queue)] # "process"
    BY <1>2, SMTT(30) DEF Begin, QueuedOnce
  <2>2. QED
    BY <1>2, <2>1 DEF Begin
<1>3. ASSUME NEW j \in Jobs, Work(j) PROVE LockHeld'
  <2>1. CASE Acquire(j)
    BY <2>1 DEF Acquire, LockFree
  <2>2. CASE Process(j) \/ ProcessRaises(j)
    BY <2>2 DEF Process, ProcessRaises
  <2>3. CASE ~Acquire(j) /\ ~Process(j) /\ ~ProcessRaises(j)
    <3>1. lock' = lock /\ pc[j] # "process" /\ pc'[j] # "process"
      BY <1>3, <2>3 DEF Work, Fetch, FetchFails, Record, WriteReport, ReportFails, Clean,
                        CleanFails, Complete, Fail
    <3>2. \A k \in Jobs \ {j} : pc'[k] = pc[k]
      BY <1>3, <2>3 DEF Work, Fetch, FetchFails, Record, WriteReport, ReportFails, Clean,
                        CleanFails, Complete, Fail
    <3>3. QED
      BY <3>1, <3>2
  <2>4. QED
    BY <2>1, <2>2, <2>3
<1>4. CASE Restart
  BY <1>4 DEF Restart
<1>5. CASE UNCHANGED vars
  BY <1>5 DEF vars
<1>6. QED
  BY <1>1, <1>2, <1>3, <1>4, <1>5 DEF Next

\* Elements of a queue.
LEMMA QueuedJobs ==
    ASSUME NEW q \in Seq(Jobs) PROVE \A n \in 1..Len(q) : q[n] \in Jobs
OBVIOUS

LEMMA StepQueuedOnce == IInv /\ [Next]_vars => QueuedOnce'
<1> SUFFICES ASSUME IInv, [Next]_vars PROVE QueuedOnce'
  OBVIOUS
<1>a. queue \in Seq(Jobs) /\ \A n \in 1..Len(queue) : queue[n] \in Jobs
  BY QueuedJobs DEF IInv, TypeOK
<1>b. pc = [k \in Jobs |-> pc[k]]
  BY DEF IInv, TypeOK
<1>c. /\ \A n \in 1..Len(queue) : pc[queue[n]] = "queued"
      /\ \A m, n \in 1..Len(queue) : queue[m] = queue[n] => m = n
  BY DEF IInv, QueuedOnce
<1>1. ASSUME NEW j \in Jobs, CreateJob(j) PROVE QueuedOnce'
  <2>1. pc[j] = "none"
    BY <1>1 DEF CreateJob, IInv, JobInv, Fresh
  <2>2. queue' = queue /\ \A k \in Jobs \ {j} : pc'[k] = pc[k]
    BY <1>1, <1>b DEF CreateJob, GoTo
  <2>3. QED
    BY <1>a, <1>c, <2>1, <2>2 DEF QueuedOnce
<1>2. ASSUME NEW j \in Jobs, NEW n \in 1..MaxVideos, Enqueue(j, n) PROVE QueuedOnce'
  <2>1. pc[j] = "submitting" /\ pc'[j] = "queued" /\ \A k \in Jobs \ {j} : pc'[k] = pc[k]
    BY <1>2, <1>b DEF Enqueue, GoTo
  <2>2. /\ Len(queue') = Len(queue) + 1
        /\ \A m \in 1..Len(queue) : queue'[m] = queue[m]
        /\ queue'[Len(queue) + 1] = j
    BY <1>2, <1>a DEF Enqueue
  <2>3. Len(queue) \in Nat
    BY <1>a
  <2>4. QED
    BY <1>a, <1>c, <2>1, <2>2, <2>3 DEF QueuedOnce
<1>3. ASSUME Begin PROVE QueuedOnce'
  <2>1. /\ Len(queue) \in Nat \ {0}
        /\ Head(queue) = queue[1]
        /\ Len(queue') = Len(queue) - 1
        /\ \A n \in 1..Len(queue') : queue'[n] = queue[n + 1]
    BY <1>3, <1>a DEF Begin
  <2>2. \A n \in 1..Len(queue') : queue'[n] \in Jobs /\ queue'[n] # queue[1]
    <3>1. TAKE n \in 1..Len(queue')
    <3>2. n + 1 \in 1..Len(queue) /\ 1 \in 1..Len(queue) /\ n + 1 # 1
      BY <2>1
    <3>3. queue'[n] = queue[n + 1]
      BY <2>1
    <3>4. QED
      BY <1>a, <1>c, <3>2, <3>3
  <2>3. \A k \in Jobs \ {queue[1]} : pc'[k] = pc[k]
    BY <1>3, <1>b, <2>1 DEF Begin, GoTo
  <2>4. \A n \in 1..Len(queue') : n + 1 \in 1..Len(queue) /\ queue'[n] = queue[n + 1]
    BY <2>1
  <2>5. \A n \in 1..Len(queue') : pc'[queue'[n]] = "queued"
    BY <1>c, <2>2, <2>3, <2>4
  <2>6. ASSUME NEW m \in 1..Len(queue'), NEW n \in 1..Len(queue'), queue'[m] = queue'[n]
        PROVE  m = n
    <3>1. m + 1 = n + 1
      BY <1>c, <2>4, <2>6
    <3>2. QED
      BY <2>1, <3>1
  <2>7. QED
    BY <2>5, <2>6 DEF QueuedOnce
<1>4. ASSUME NEW j \in Jobs, Work(j) PROVE QueuedOnce'
  <2>1. queue' = queue
    BY <1>4 DEF Work, Fetch, FetchFails, Acquire, Process, ProcessRaises, Record,
                WriteReport, ReportFails, Clean, CleanFails, Complete, Fail
  <2>2. pc[j] # "queued"
    BY <1>4 DEF Work, Fetch, FetchFails, Acquire, Process, ProcessRaises, Record,
                WriteReport, ReportFails, Clean, CleanFails, Complete, Fail
  <2>3. \A k \in Jobs \ {j} : pc'[k] = pc[k]
    BY <1>4, <1>b DEF Work, Fetch, FetchFails, Acquire, Process, ProcessRaises, Record, GoTo,
                WriteReport, ReportFails, Clean, CleanFails, Complete, Fail
  <2>4. QED
    BY <1>a, <1>c, <2>1, <2>2, <2>3 DEF QueuedOnce
<1>5. CASE Restart
  BY <1>5 DEF Restart, QueuedOnce
<1>6. CASE UNCHANGED vars
  BY <1>6, <1>c DEF vars, QueuedOnce
<1>7. QED
  BY <1>1, <1>2, <1>3, <1>4, <1>5, <1>6 DEF Next, Submit

\* A step of one job leaves what is said of the others alone.
JobVarsOf(j) == <<state[j], videos[j], pc[j], results[j], sources[j], made[j], staged[j],
                  images[j], report[j]>>

LEMMA OthersKeep ==
    ASSUME NEW k \in Jobs, Fresh(k) /\ Counted(k) /\ OnDisk(k) /\ Ended(k),
           JobVarsOf(k)' = JobVarsOf(k)
    PROVE  (Fresh(k) /\ Counted(k) /\ OnDisk(k) /\ Ended(k))'
BY DEF JobVarsOf, Fresh, Counted, OnDisk, Ended

LEMMA SubmitJobInv ==
    ASSUME IInv, NEW j \in Jobs, Submit(j) PROVE JobInv'
<1> USE DEF IInv, TypeOK, JobInv, GoTo
<1>1. \A k \in Jobs \ {j} : JobVarsOf(k)' = JobVarsOf(k)
  BY DEF Submit, CreateJob, Enqueue, JobVarsOf, tableVars, diskVars
<1>2. (Fresh(j) /\ Counted(j) /\ OnDisk(j) /\ Ended(j))'
  <2>1. CASE CreateJob(j)
    BY <2>1 DEF CreateJob, tableVars, Fresh, Counted, OnDisk, Ended, Steps
  <2>2. ASSUME NEW n \in 1..MaxVideos, Enqueue(j, n)
        PROVE (Fresh(j) /\ Counted(j) /\ OnDisk(j) /\ Ended(j))'
    BY <2>2 DEF Enqueue, diskVars, Fresh, Counted, OnDisk, Ended, Steps
  <2>3. QED
    BY <2>1, <2>2 DEF Submit
<1>3. QED
  BY <1>1, <1>2, OthersKeep

LEMMA BeginJobInv ==
    ASSUME IInv, Begin PROVE JobInv'
<1>1. PICK j \in Jobs : j = Head(queue) /\ pc[j] = "queued"
  <2>1. queue \in Seq(Jobs) /\ queue # <<>>
    BY DEF IInv, TypeOK, Begin
  <2>2. Head(queue) = queue[1] /\ 1 \in 1..Len(queue) /\ Head(queue) \in Jobs
    BY <2>1
  <2>3. QED
    BY <2>2 DEF IInv, QueuedOnce
<1>2. /\ state' = [state EXCEPT ![j] = "running"]
      /\ pc' = [pc EXCEPT ![j] = "fetch"]
      /\ UNCHANGED <<videos, results, sources, made, staged, images, report>>
  BY <1>1 DEF Begin, GoTo, diskVars
<1>3. /\ state'[j] = "running" /\ pc'[j] = "fetch"
      /\ \A k \in Jobs \ {j} : state'[k] = state[k] /\ pc'[k] = pc[k]
  <2>1. state = [k \in Jobs |-> state[k]] /\ pc = [k \in Jobs |-> pc[k]]
    BY DEF IInv, TypeOK
  <2>2. QED
    BY <1>2, <2>1
<1>4. \A k \in Jobs \ {j} : JobVarsOf(k)' = JobVarsOf(k)
  BY <1>2, <1>3 DEF JobVarsOf
<1>5. Fresh(j) /\ Counted(j) /\ OnDisk(j) /\ Ended(j)
  BY DEF IInv, JobInv
<1>6. (Fresh(j) /\ Counted(j) /\ OnDisk(j) /\ Ended(j))'
  <2>1. results[j] = <<>> /\ sources[j] = {} /\ staged[j] = {} /\ made[j]
    BY <1>1, <1>5 DEF Fresh, IInv, TypeOK
  <2>2. videos[j] \in 1..MaxVideos /\ Len(results[j]) = 0
    BY <1>1, <1>5, <2>1 DEF Counted
  <2>3. /\ results'[j] = results[j] /\ sources'[j] = sources[j] /\ videos'[j] = videos[j]
        /\ made'[j] = made[j] /\ staged'[j] = staged[j]
    BY <1>2
  <2>4. Fresh(j)' /\ Ended(j)'
    BY <1>3, <2>1, <2>3 DEF Fresh, Ended
  <2>5. Counted(j)'
    BY <1>3, <2>2, <2>3, MaxVideosAssumption DEF Counted
  <2>6. OnDisk(j)'
    BY <1>3, <2>1, <2>2, <2>3 DEF OnDisk
  <2>7. QED
    BY <2>4, <2>5, <2>6
<1>7. QED
  BY <1>4, <1>6, OthersKeep DEF IInv, JobInv

LEMMA WorkJobInv ==
    ASSUME IInv, NEW j \in Jobs, Work(j) PROVE JobInv'
<1> USE DEF GoTo
<1>t. /\ state = [k \in Jobs |-> state[k]] /\ pc = [k \in Jobs |-> pc[k]]
      /\ results = [k \in Jobs |-> results[k]] /\ sources = [k \in Jobs |-> sources[k]]
      /\ staged = [k \in Jobs |-> staged[k]] /\ images = [k \in Jobs |-> images[k]]
      /\ report = [k \in Jobs |-> report[k]]
  BY DEF IInv, TypeOK
<1>i. Fresh(j) /\ Counted(j) /\ OnDisk(j) /\ Ended(j)
  BY DEF IInv, JobInv
<1>r. results[j] \in Seq(Result) /\ Len(results[j]) \in Nat /\ videos[j] \in Nat
  BY DEF IInv, TypeOK
<1>w. /\ pc[j] \in Steps /\ state[j] # "complete" /\ made[j]
      /\ videos' = videos /\ made' = made
  BY <1>i DEF Fresh, Ended, Work, Fetch, FetchFails, Acquire, Process, ProcessRaises, Record, Steps,
     WriteReport, ReportFails, Clean, CleanFails, Complete, Fail, tableVars, diskVars
<1>1. \A k \in Jobs \ {j} : JobVarsOf(k)' = JobVarsOf(k)
  BY <1>t DEF JobVarsOf, Work, Fetch, FetchFails, Acquire, Process, ProcessRaises, Record,
     WriteReport, ReportFails, Clean, CleanFails, Complete, Fail, tableVars, diskVars
\* A result is added: the video's evidence is on disk, and the earlier results'.
<1>a. ASSUME NEW r \in Result,
             results' = [results EXCEPT ![j] = Append(results[j], r)],
             pc' = [pc EXCEPT ![j] = "record"],
             images[j] \subseteq images'[j],
             r.evidence => Current(j) \in images'[j],
             pc[j] \in {"fetch", "process"},
             state' = state, sources' = sources, staged' = staged, report' = report
      PROVE  (Fresh(j) /\ Counted(j) /\ OnDisk(j) /\ Ended(j))'
  <2>1. /\ results'[j] = Append(results[j], r) /\ pc'[j] = "record"
        /\ videos'[j] = videos[j] /\ made'[j] = made[j] /\ state'[j] = state[j]
        /\ staged'[j] = staged[j] /\ sources'[j] = sources[j]
    BY <1>a, <1>t, <1>w
  <2>2. /\ Len(results'[j]) = Len(results[j]) + 1
        /\ \A v \in 1..Len(results[j]) : results'[j][v] = results[j][v]
        /\ results'[j][Len(results[j]) + 1] = r
    BY <1>r, <2>1
  <2>3. Fresh(j)' /\ Ended(j)'
    BY <1>w, <2>1 DEF Fresh, Ended
  <2>4. Counted(j)'
    BY <1>a, <1>i, <1>r, <2>1, <2>2 DEF Counted, Steps
  <2>5. ASSUME NEW v \in 1..Len(results'[j]), results'[j][v].evidence PROVE v \in images'[j]
    <3>1. v \in 1..Len(results[j]) \/ v = Len(results[j]) + 1
      BY <1>r, <2>2
    <3>2. QED
      BY <1>a, <1>i, <2>2, <2>5, <3>1 DEF OnDisk, Current
  <2>6. OnDisk(j)'
    BY <1>a, <1>i, <2>1, <2>5 DEF OnDisk, Steps
  <2>7. QED
    BY <2>3, <2>4, <2>6
<1>s. SUFFICES (Fresh(j) /\ Counted(j) /\ OnDisk(j) /\ Ended(j))'
  BY <1>1, OthersKeep DEF IInv, JobInv
<1>2. CASE Fetch(j)
  <2>1. /\ pc[j] = "fetch" /\ pc'[j] = "lock"
        /\ \E v : sources'[j] = sources[j] \cup {v} /\ staged'[j] = staged[j] \cup {v}
        /\ videos'[j] = videos[j] /\ made'[j]
        /\ state'[j] = state[j] /\ results'[j] = results[j]
        /\ images'[j] = images[j] /\ report'[j] = report[j]
    BY <1>t, <1>w, <1>2 DEF Fetch, tableVars
  <2>2. Fresh(j)' /\ Ended(j)'
    BY <1>i, <1>w, <2>1 DEF Fresh, Ended, Steps
  <2>3. Counted(j)'
    BY <1>i, <1>r, <1>w, <2>1 DEF Counted, Steps
  <2>4. OnDisk(j)'
    BY <1>i, <1>w, <2>1 DEF OnDisk, Steps
  <2>5. QED
    BY <2>2, <2>3, <2>4
<1>3. CASE FetchFails(j) \/ ProcessRaises(j)
  <2>1. Error \in Result /\ ~Error.evidence
    BY DEF Error, Result
  <2>2. images[j] \subseteq images'[j]
    BY <1>3, <1>t DEF FetchFails, ProcessRaises, diskVars
  <2>3. /\ results' = [results EXCEPT ![j] = Append(results[j], Error)]
        /\ pc' = [pc EXCEPT ![j] = "record"]
        /\ pc[j] \in {"fetch", "process"}
        /\ state' = state /\ sources' = sources /\ staged' = staged /\ report' = report
    BY <1>3 DEF FetchFails, ProcessRaises, tableVars, diskVars
  <2>4. QED
    BY <1>a, <2>1, <2>2, <2>3
<1>4. CASE Acquire(j)
  <2>1. /\ pc[j] = "lock" /\ pc'[j] = "process" /\ videos'[j] = videos[j] /\ made'[j]
        /\ state'[j] = state[j] /\ results'[j] = results[j]
        /\ sources'[j] = sources[j] /\ staged'[j] = staged[j]
        /\ images'[j] = images[j] /\ report'[j] = report[j]
    BY <1>t, <1>w, <1>4 DEF Acquire, tableVars, diskVars
  <2>2. Fresh(j)' /\ Ended(j)'
    BY <1>i, <1>w, <2>1 DEF Fresh, Ended, Steps
  <2>3. Counted(j)'
    BY <1>i, <1>r, <1>w, <2>1 DEF Counted, Steps
  <2>4. OnDisk(j)'
    BY <1>i, <1>w, <2>1 DEF OnDisk, Steps
  <2>5. QED
    BY <2>2, <2>3, <2>4
<1>5. CASE Process(j)
  <2>1. PICK r \in Result :
            /\ results' = [results EXCEPT ![j] = Append(results[j], r)]
            /\ images' = IF r.evidence THEN [images EXCEPT ![j] = images[j] \cup {Current(j)}]
                         ELSE images
    BY <1>5 DEF Process
  <2>2. images[j] \subseteq images'[j] /\ (r.evidence => Current(j) \in images'[j])
    BY <2>1, <1>t
  <2>3. /\ pc' = [pc EXCEPT ![j] = "record"]
        /\ pc[j] \in {"fetch", "process"}
        /\ state' = state /\ sources' = sources /\ staged' = staged /\ report' = report
    BY <1>5 DEF Process, tableVars
  <2>4. QED
    BY <1>a, <2>1, <2>2, <2>3
<1>6. CASE Record(j)
  <2>1. /\ pc[j] = "record" /\ pc'[j] = IF AllVideos(j) THEN "report" ELSE "fetch"
        /\ videos'[j] = videos[j] /\ made'[j]
        /\ state'[j] = state[j] /\ results'[j] = results[j]
        /\ sources'[j] = sources[j] /\ staged'[j] = staged[j]
        /\ images'[j] = images[j] /\ report'[j] = report[j]
    BY <1>t, <1>w, <1>6 DEF Record, diskVars
  <2>2. Fresh(j)' /\ Ended(j)'
    BY <1>i, <1>w, <2>1 DEF Fresh, Ended, Steps
  <2>3. Counted(j)'
    BY <1>i, <1>r, <1>w, <2>1 DEF Counted, Steps, AllVideos
  <2>4. OnDisk(j)'
    BY <1>i, <1>w, <2>1 DEF OnDisk, Steps
  <2>5. QED
    BY <2>2, <2>3, <2>4
<1>7. CASE WriteReport(j)
  <2>1. /\ pc[j] = "report" /\ pc'[j] = "clean" /\ videos'[j] = videos[j] /\ made'[j]
        /\ report'[j] = results[j]
        /\ state'[j] = state[j] /\ results'[j] = results[j]
        /\ sources'[j] = sources[j] /\ staged'[j] = staged[j]
        /\ images'[j] = images[j]
    BY <1>t, <1>w, <1>7 DEF WriteReport, tableVars
  <2>2. Fresh(j)' /\ Ended(j)'
    BY <1>i, <1>w, <2>1 DEF Fresh, Ended, Steps
  <2>3. Counted(j)'
    BY <1>i, <1>r, <1>w, <2>1 DEF Counted, Steps
  <2>4. OnDisk(j)'
    BY <1>i, <1>w, <2>1 DEF OnDisk, Steps
  <2>5. QED
    BY <2>2, <2>3, <2>4
<1>8. CASE ReportFails(j) \/ CleanFails(j)
  <2>1. /\ pc'[j] = "fail" /\ videos'[j] = videos[j] /\ made'[j]
        /\ state'[j] = state[j] /\ results'[j] = results[j]
        /\ sources'[j] = sources[j] /\ staged'[j] = staged[j]
        /\ images'[j] = images[j] /\ report'[j] = report[j]
    BY <1>t, <1>w, <1>8 DEF ReportFails, CleanFails, tableVars, diskVars
  <2>2. Fresh(j)' /\ Ended(j)'
    BY <1>i, <1>w, <2>1 DEF Fresh, Ended, Steps
  <2>3. Counted(j)'
    BY <1>i, <1>r, <1>w, <2>1 DEF Counted, Steps
  <2>4. OnDisk(j)'
    BY <1>i, <1>w, <2>1 DEF OnDisk, Steps
  <2>5. QED
    BY <2>2, <2>3, <2>4
<1>9. CASE Clean(j)
  <2>1. /\ pc[j] = "clean" /\ pc'[j] = pc[j] /\ videos'[j] = videos[j] /\ made'[j]
        /\ \E v : sources'[j] = sources[j] \ {v} /\ staged'[j] = staged[j] \ {v}
        /\ state'[j] = state[j] /\ results'[j] = results[j]
        /\ images'[j] = images[j] /\ report'[j] = report[j]
    BY <1>t, <1>w, <1>9 DEF Clean, tableVars
  <2>2. Fresh(j)' /\ Ended(j)'
    BY <1>i, <1>w, <2>1 DEF Fresh, Ended, Steps
  <2>3. Counted(j)'
    BY <1>i, <1>r, <1>w, <2>1 DEF Counted, Steps
  <2>4. OnDisk(j)'
    BY <1>i, <1>w, <2>1 DEF OnDisk, Steps
  <2>5. QED
    BY <2>2, <2>3, <2>4
<1>10. CASE Complete(j)
  <2>1. /\ state'[j] = "complete" /\ pc'[j] = "ended"
        /\ videos'[j] = videos[j] /\ made'[j] /\ images'[j] = images[j]
        /\ results'[j] = results[j] /\ report'[j] = report[j] /\ staged'[j] = staged[j]
    BY <1>t, <1>w, <1>10 DEF Complete, diskVars
  <2>2. /\ pc[j] = "clean" /\ report[j] = results[j] /\ Len(results[j]) = videos[j]
        /\ staged[j] = {}
    BY <1>i, <1>10 DEF Complete, Counted, OnDisk, Steps
  <2>3. Fresh(j)' /\ Counted(j)'
    BY <1>i, <2>1 DEF Fresh, Counted, Steps
  <2>4. OnDisk(j)'
    BY <1>i, <2>1 DEF OnDisk, Steps
  <2>5. Ended(j)'
    BY <1>i, <2>1, <2>2 DEF Ended, OnDisk
  <2>6. QED
    BY <2>3, <2>4, <2>5
<1>11. CASE Fail(j)
  <2>1. /\ state'[j] = "error"
        /\ pc'[j] = "ended" /\ videos'[j] = videos[j] /\ made'[j]
        /\ results'[j] = results[j] /\ sources'[j] = sources[j]
        /\ staged'[j] = staged[j] /\ images'[j] = images[j]
        /\ report'[j] = report[j]
    BY <1>t, <1>w, <1>11 DEF Fail, diskVars
  <2>2. Fresh(j)' /\ Ended(j)'
    BY <1>i, <1>w, <2>1 DEF Fresh, Ended, Steps
  <2>3. Counted(j)'
    BY <1>i, <1>r, <1>w, <2>1 DEF Counted, Steps
  <2>4. OnDisk(j)'
    BY <1>i, <1>w, <2>1 DEF OnDisk, Steps
  <2>5. QED
    BY <2>2, <2>3, <2>4
<1>12. QED
  BY <1>2, <1>3, <1>4, <1>5, <1>6, <1>7, <1>8, <1>9, <1>10, <1>11
     DEF Work

LEMMA RestartJobInv ==
    ASSUME IInv, Restart PROVE JobInv'
BY DEF IInv, TypeOK, JobInv, Restart, diskVars, Fresh, Counted, OnDisk, Ended, Steps

LEMMA StepJobInv == IInv /\ [Next]_vars => JobInv'
<1>1. ASSUME IInv, UNCHANGED vars PROVE JobInv'
  BY <1>1 DEF vars, tableVars, diskVars, IInv, JobInv, Fresh, Counted, OnDisk, Ended
<1>2. QED
  BY <1>1, SubmitJobInv, BeginJobInv, WorkJobInv, RestartJobInv DEF Next

\* The invariant the theorems rest on: the facts about the table, the pool and
\* the workers of QCService hold at every step of submit and _run.
THEOREM IInvHolds == Spec => []IInv
<1>1. IInv /\ [Next]_vars => IInv'
  BY StepTypeOK, StepQueuedOnce, StepLockHeld, StepJobInv DEF IInv
<1>2. QED
  BY InitIInv, <1>1, PTL DEF Spec

\* The job table, the workers' variables and the job directories keep their
\* types: in particular completed_videos never exceeds the request's videos.
THEOREM TypeCorrect == Spec => []TypeOK
<1>1. IInv => TypeOK
  BY DEF IInv
<1>2. QED
  BY <1>1, IInvHolds, PTL

\* COMPLETE is only said of a job whose report has a result for every video and
\* the evidence it names, and whose sources are gone (_run sets the state last).
THEOREM CompletedIsReported == Spec => []CompleteMeansReported
<1>1. IInv => CompleteMeansReported
  BY DEF IInv, JobInv, Ended, CompleteMeansReported
<1>2. QED
  BY <1>1, IInvHolds, PTL

\* _processing_lock: two workers are never in processor.process at once.
THEOREM OneAtATime == Spec => []OneVideoAtATime
<1>1. IInv => OneVideoAtATime
  BY DEF IInv, LockHeld, OneVideoAtATime
<1>2. QED
  BY <1>1, IInvHolds, PTL

\* A step of _run that removes a source finds the job's report written.
THEOREM SourcesKept == Spec => SourcesKeptUntilReported
<1> DEFINE Kept == \A j \in Jobs : staged[j] \subseteq staged'[j] \/ report[j] # <<>>
<1>1. ASSUME IInv, [Next]_vars PROVE Kept
  <2>1. ASSUME NEW j \in Jobs, Clean(j) PROVE Kept
    <3>1. report[j] = results[j] /\ Len(results[j]) = videos[j] /\ videos[j] \in 1..MaxVideos
      BY <2>1, <1>1 DEF Clean, IInv, JobInv, OnDisk, Counted, Steps
    <3>2. report[j] # <<>>
      BY <3>1
    <3>3. \A k \in Jobs \ {j} : staged'[k] = staged[k]
      BY <2>1, <1>1 DEF Clean, IInv, TypeOK
    <3>4. QED
      BY <3>2, <3>3
  <2>2. ASSUME NEW j \in Jobs, Fetch(j) PROVE Kept
    BY <1>1, <2>2 DEF Fetch, IInv, TypeOK
  <2>3. CASE staged' = staged
    BY <2>3
  <2>4. QED
    BY <1>1, <2>1, <2>2, <2>3
    DEF Next, Submit, CreateJob, Enqueue, Begin, Restart, Work, FetchFails, Acquire, Process,
        ProcessRaises, Record, WriteReport, ReportFails, CleanFails, Complete, Fail, diskVars, vars
<1>2. QED
  BY <1>1, IInvHolds, PTL DEF Spec, SourcesKeptUntilReported
------------------------------------------------------------------------------
(* The service implements ApiJobs. *)

\* What the table says of a job and what its worker has done of it.
Progressed(j) ==
    /\ pc[j] \in {"none", "submitting"} => state[j] = "unknown" /\ completed[j] = 0
    /\ pc[j] = "queued" => state[j] = "queued" /\ completed[j] = 0
    /\ pc[j] \in Steps => state[j] = "running"
    /\ pc[j] \in {"fetch", "lock", "process", "report", "clean"} =>
           completed[j] = Len(results[j])
    /\ pc[j] = "record" => Len(results[j]) = completed[j] + 1

ProgressInv == \A j \in Jobs : Progressed(j)

TableVarsOf(j) == <<state[j], completed[j], pc[j], results[j]>>

LEMMA OthersProgress ==
    ASSUME NEW k \in Jobs, Progressed(k), TableVarsOf(k)' = TableVarsOf(k)
    PROVE  Progressed(k)'
BY DEF TableVarsOf, Progressed

LEMMA InitProgress == Init => ProgressInv
  BY DEF Init, ProgressInv, Progressed, Steps

\* A step of job j leaves the table's other entries alone.
LEMMA TableFrame ==
    ASSUME IInv, NEW j \in Jobs, Submit(j) \/ Work(j), NEW k \in Jobs \ {j}
    PROVE  TableVarsOf(k)' = TableVarsOf(k)
<1> USE DEF IInv, TypeOK, TableVarsOf, GoTo, tableVars
<1>1. CASE Submit(j)
  BY <1>1 DEF Submit, CreateJob, Enqueue
<1>2. CASE Fetch(j) \/ FetchFails(j) \/ Acquire(j) \/ Record(j) \/ WriteReport(j)
           \/ ReportFails(j)
  BY <1>2 DEF Fetch, FetchFails, Acquire, Record, WriteReport, ReportFails
<1>3. CASE Process(j) \/ ProcessRaises(j)
  BY <1>3 DEF Process, ProcessRaises
<1>4. CASE Clean(j) \/ CleanFails(j) \/ Complete(j) \/ Fail(j)
  BY <1>4 DEF Clean, CleanFails, Complete, Fail
<1> QED
  BY <1>1, <1>2, <1>3, <1>4 DEF Work

LEMMA OwnProgress ==
    ASSUME IInv, NEW j \in Jobs, Progressed(j), Submit(j) \/ Work(j)
    PROVE  Progressed(j)'
<1> USE DEF IInv, TypeOK, GoTo, tableVars, Steps, Progressed
<1>1. CASE CreateJob(j)
  BY <1>1 DEF CreateJob, JobInv, Fresh
<1>2. CASE \E n \in 1..MaxVideos : Enqueue(j, n)
  BY <1>2 DEF Enqueue
<1>3. CASE Fetch(j) \/ Acquire(j)
  BY <1>3 DEF Fetch, Acquire
<1>4. ASSUME NEW r \in Result, pc[j] \in {"fetch", "process"},
             results' = [results EXCEPT ![j] = Append(@, r)],
             pc' = [pc EXCEPT ![j] = "record"], UNCHANGED tableVars
      PROVE  Progressed(j)'
  <2>1. results[j] \in Seq(Result)
    OBVIOUS
  <2>2. Len(results'[j]) = Len(results[j]) + 1
    BY <1>4, <2>1
  <2> QED
    BY <1>4, <2>2
<1>5. CASE FetchFails(j) \/ ProcessRaises(j)
  <2>1. Error \in Result
    BY DEF Error, Result
  <2> QED
    BY <1>4, <1>5, <2>1 DEF FetchFails, ProcessRaises
<1>6. CASE Process(j)
  BY <1>4, <1>6 DEF Process
<1>7. CASE Record(j)
  BY <1>7 DEF Record
<1>8. CASE WriteReport(j) \/ ReportFails(j)
  BY <1>8 DEF WriteReport, ReportFails
<1>9. CASE Clean(j) \/ CleanFails(j) \/ Complete(j) \/ Fail(j)
  BY <1>9 DEF Clean, CleanFails, Complete, Fail
<1> QED
  BY <1>1, <1>2, <1>3, <1>5, <1>6, <1>7, <1>8, <1>9 DEF Submit, Work

\* The job the pool starts next.
LEMMA FirstQueued ==
    ASSUME IInv, queue # <<>>
    PROVE  Head(queue) \in Jobs /\ pc[Head(queue)] = "queued"
<1>1. queue \in Seq(Jobs)
  BY DEF IInv, TypeOK
<1>2. Head(queue) = queue[1] /\ 1 \in 1..Len(queue) /\ Head(queue) \in Jobs
  BY <1>1
<1> QED
  BY <1>2 DEF IInv, QueuedOnce

LEMMA StepProgress ==
    ASSUME IInv, ProgressInv, [Next]_vars
    PROVE  ProgressInv'
<1>1. ASSUME NEW j \in Jobs, Submit(j) \/ Work(j) PROVE ProgressInv'
  BY <1>1, TableFrame, OwnProgress, OthersProgress DEF ProgressInv
<1>2. CASE Begin
  <2>1. /\ Head(queue) \in Jobs /\ pc[Head(queue)] = "queued"
        /\ results[Head(queue)] = <<>>
    BY <1>2, FirstQueued DEF Begin, IInv, JobInv, Fresh
  <2>2. /\ state' = [state EXCEPT ![Head(queue)] = "running"]
        /\ pc' = [pc EXCEPT ![Head(queue)] = "fetch"]
        /\ completed' = completed /\ results' = results
    BY <1>2 DEF Begin, GoTo
  <2> QED
    BY <2>1, <2>2 DEF ProgressInv, Progressed, IInv, TypeOK, Steps
<1>3. CASE Restart
  BY <1>3 DEF Restart, ProgressInv, Progressed, Steps
<1>4. CASE UNCHANGED vars
  BY <1>4 DEF vars, tableVars, ProgressInv, Progressed
<1> QED
  BY <1>1, <1>2, <1>3, <1>4 DEF Next

\* What the client sees, as the INSTANCE of JobService maps it.
PhaseMap == [j \in Jobs |-> PhaseOf(state[j])]

AnswerMap == [j \in Jobs |-> IF state[j] = "complete" THEN report[j] ELSE <<>>]

\* A job whose state is set shows that state, and no other job shows anything new.
LEMMA StateMaps ==
    ASSUME IInv, NEW j \in Jobs, NEW s \in {"queued", "running", "complete", "error"},
           state[j] # "complete", state' = [state EXCEPT ![j] = s], report' = report
    PROVE  /\ PhaseMap' = [PhaseMap EXCEPT ![j] = PhaseOf(s)]
           /\ AnswerMap' = [AnswerMap EXCEPT ![j] = IF s = "complete" THEN report[j] ELSE <<>>]
           /\ s # "complete" => AnswerMap' = AnswerMap
  BY DEF IInv, TypeOK, PhaseMap, AnswerMap

\* A report is written of a job nobody calls complete yet.
LEMMA UnansweredMap ==
    ASSUME IInv, NEW j \in Jobs, state[j] # "complete", state' = state,
           \A k \in Jobs \ {j} : report'[k] = report[k]
    PROVE  AnswerMap' = AnswerMap /\ PhaseMap' = PhaseMap
  BY DEF AnswerMap, PhaseMap

LEMMA StepImplements ==
    ASSUME IInv, ProgressInv, [Next]_vars
    PROVE  [Promise!Next]_(Promise!vars)
<1> DEFINE Same == PhaseMap' = PhaseMap /\ AnswerMap' = AnswerMap /\ UNCHANGED <<videos, completed>>
<1>s. Same => UNCHANGED Promise!vars
  BY DEF Promise!vars, PhaseMap, AnswerMap
<1>q. UNCHANGED <<state, report>> => PhaseMap' = PhaseMap /\ AnswerMap' = AnswerMap
  BY DEF PhaseMap, AnswerMap
<1> HIDE DEF Same
<1>1. ASSUME NEW j \in Jobs, CreateJob(j) PROVE Same
  BY <1>1, <1>q DEF CreateJob, tableVars, Same
<1>2. ASSUME NEW j \in Jobs, NEW n \in 1..MaxVideos, Enqueue(j, n) PROVE Promise!Accept(j, n)
  <2>1. state[j] = "unknown"
    BY <1>2 DEF Enqueue, ProgressInv, Progressed
  <2>2. /\ state' = [state EXCEPT ![j] = "queued"] /\ report' = report
        /\ videos' = [videos EXCEPT ![j] = n] /\ completed' = completed
    BY <1>2 DEF Enqueue, diskVars
  <2>3. PhaseMap' = [PhaseMap EXCEPT ![j] = "working"] /\ AnswerMap' = AnswerMap
    BY <2>1, <2>2, StateMaps DEF PhaseOf
  <2>4. PhaseMap[j] = "unknown"
    BY <2>1 DEF PhaseMap, PhaseOf
  <2> QED
    BY <2>2, <2>3, <2>4 DEF Promise!Accept, PhaseMap, AnswerMap
<1>3. CASE Begin
  <2>1. Head(queue) \in Jobs /\ state[Head(queue)] = "queued"
    BY <1>3, FirstQueued DEF Begin, ProgressInv, Progressed
  <2>2. /\ state' = [state EXCEPT ![Head(queue)] = "running"] /\ report' = report
        /\ videos' = videos /\ completed' = completed
    BY <1>3 DEF Begin, diskVars
  <2>3. /\ PhaseMap' = [PhaseMap EXCEPT ![Head(queue)] = "working"]
        /\ AnswerMap' = AnswerMap
    BY <2>1, <2>2, StateMaps DEF PhaseOf
  <2>4. PhaseMap[Head(queue)] = "working"
    BY <2>1 DEF PhaseMap, PhaseOf
  <2>5. PhaseMap' = PhaseMap
    BY <2>3, <2>4 DEF PhaseMap
  <2> QED
    BY <1>s, <2>2, <2>3, <2>5 DEF Same
<1>4. ASSUME NEW j \in Jobs, Work(j)
      PROVE  Same \/ Promise!Advance(j) \/ Promise!Fail(j)
             \/ \E n \in 1..MaxVideos : \E r \in [1..n -> Result] : Promise!Answer(j, r)
  <2>1. pc[j] \in Steps /\ state[j] = "running"
    BY <1>4 DEF ProgressInv, Progressed, Steps, Work, Fetch, FetchFails, Acquire, Process,
       ProcessRaises, Record, WriteReport, ReportFails, Clean, CleanFails, Complete, Fail
  <2>2. PhaseMap[j] = "working"
    BY <2>1 DEF PhaseMap, PhaseOf
  <2>3. CASE Record(j)
    <3>1. /\ Len(results[j]) = completed[j] + 1
          /\ Len(results[j]) <= videos[j]
          /\ completed[j] \in Nat /\ videos[j] \in Nat
      BY <2>3 DEF Record, ProgressInv, Progressed, IInv, TypeOK, JobInv, Counted
    <3>2. /\ completed' = [completed EXCEPT ![j] = @ + 1]
          /\ UNCHANGED <<state, report, videos>>
      BY <2>3, <3>1 DEF Record, diskVars
    <3>3. completed[j] < videos[j]
      BY <3>1
    <3> QED
      BY <1>q, <2>2, <3>2, <3>3 DEF Promise!Advance, PhaseMap, AnswerMap
  <2>4. CASE WriteReport(j)
    <3>1. \A k \in Jobs \ {j} : report'[k] = report[k]
      BY <2>4 DEF WriteReport, IInv, TypeOK
    <3> QED
      BY <2>1, <2>4, <3>1, UnansweredMap DEF WriteReport, tableVars, Same
  <2>5. CASE Complete(j)
    <3>1. /\ report[j] = results[j] /\ Len(results[j]) = videos[j]
          /\ completed[j] = videos[j] /\ videos[j] \in 1..MaxVideos
          /\ report[j] \in Seq(Result)
      BY <2>5 DEF Complete, ProgressInv, Progressed, IInv, TypeOK, JobInv, Counted, OnDisk, Steps
    <3>2. /\ state' = [state EXCEPT ![j] = "complete"] /\ report' = report
          /\ videos' = videos /\ completed' = completed
      BY <2>5 DEF Complete, diskVars
    <3>3. /\ PhaseMap' = [PhaseMap EXCEPT ![j] = "complete"]
          /\ AnswerMap' = [AnswerMap EXCEPT ![j] = report[j]]
      BY <2>1, <3>2, StateMaps DEF PhaseOf
    <3>4. Len(report[j]) = videos[j] /\ report[j] \in [1..videos[j] -> Result]
      BY <3>1
    <3>5. PICK r \in [1..videos[j] -> Result] : r = report[j]
      BY <3>4
    <3>6. Promise!Answer(j, r)
      BY <2>2, <3>1, <3>2, <3>3, <3>4, <3>5 DEF Promise!Answer, PhaseMap, AnswerMap
    <3> QED
      BY <3>1, <3>5, <3>6
  <2>6. CASE Fail(j)
    <3>1. /\ state' = [state EXCEPT ![j] = "error"] /\ report' = report
          /\ videos' = videos /\ completed' = completed
      BY <2>6 DEF Fail, diskVars
    <3>2. PhaseMap' = [PhaseMap EXCEPT ![j] = "error"] /\ AnswerMap' = AnswerMap
      BY <2>1, <3>1, StateMaps DEF PhaseOf
    <3> QED
      BY <2>2, <3>1, <3>2 DEF Promise!Fail, PhaseMap, AnswerMap
  <2>7. CASE UNCHANGED <<state, report, videos, completed>>
    BY <1>q, <2>7 DEF Same
  <2> QED
    BY <1>4, <2>3, <2>4, <2>5, <2>6, <2>7
       DEF Work, Fetch, FetchFails, Acquire, Process, ProcessRaises, ReportFails, Clean,
           CleanFails, tableVars, diskVars
<1>5. CASE Restart
  BY <1>5 DEF Restart, Promise!Next, Promise!Forget, PhaseOf
<1>6. ASSUME UNCHANGED vars PROVE Same
  BY <1>6, <1>q DEF vars, tableVars, diskVars, Same
<1> QED
  BY <1>s, <1>1, <1>2, <1>3, <1>4, <1>5, <1>6 DEF Next, Submit, Promise!Next

\* A client sees each accepted job answered at most once, with one result for each
\* of its videos, its progress counted up one by one to their number, or an error,
\* for any number of jobs, videos, workers and restarts (submit, _run).
THEOREM JobsImplemented == Spec => ImplementsJobs
<1>1. Init => Promise!Init
  BY DEF Init, Promise!Init, PhaseOf
<1>2. ProgressInv /\ IInv /\ [Next]_vars => ProgressInv'
  BY StepProgress
<1>3. ProgressInv /\ IInv /\ [Next]_vars => [Promise!Next]_(Promise!vars)
  BY StepImplements
<1> QED
  BY <1>1, <1>2, <1>3, InitProgress, IInvHolds, PTL DEF Spec, ImplementsJobs, Promise!Spec
==============================================================================
