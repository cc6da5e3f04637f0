------------------------- MODULE DetectorBatchService -------------------------
(***************************************************************************)
(* qc_pipeline/detector.py: DetectorBatchService, the thread that owns a   *)
(* detector and coalesces the frames of several videos into one batch.     *)
(*                                                                         *)
(* detect_batch() cuts a call into requests of at most max_batch_size      *)
(* frames, queues them and waits for their futures.  The thread takes one  *)
(* request, gathers more until the batch is full or max_wait has passed,   *)
(* and puts back at the tail what does not fit.  close() queues None,      *)
(* which ends the thread.                                                  *)
(*                                                                         *)
(* A frame is the caller and the frame's place in the call; the detector   *)
(* names the frame each detection list is of, or raises.  Time is left     *)
(* out: the wait for more requests may end at any moment.  Of the counters *)
(* of stats, what _frames has yet to count is kept.  The frames of a batch *)
(* are flattened as they are gathered; their number is frame_count.        *)
(***************************************************************************)
EXTENDS Naturals, Sequences

CONSTANTS Callers,     \* video lanes
          MaxBatch,    \* max_batch_size
          MaxFrames,   \* bound: frames of one call
          MaxCalls,    \* bound: calls of one lane, as a video has finitely many frames
          None,        \* what close() queues
          Pending,     \* a future that is not set
          Raised       \* a future that holds an exception

ASSUME MaxBatchAssumption == MaxBatch \in Nat \ {0}

ASSUME BoundAssumption == MaxFrames \in Nat /\ MaxCalls \in Nat

VARIABLES queue,      \* self._queue
          asked,      \* asked[c]: frames of the call c is in
          busy,       \* callers inside detect_batch
          calls,      \* calls[c]: calls c has made
          start,      \* start[c]: frames of the call that were cut into requests
          future,     \* future[c][p]: the future of request p of the call
          read,       \* read[c]: futures of the call whose result c has
          results,    \* results[c]: the detections they gave
          answer,     \* answer[c]: how the last call of c ended
          pc,         \* the thread: "take", "gather", "return", "infer", "resolve" or "stopped"
          requests,   \* the requests of the batch
          flattened,  \* their frames
          held,       \* <<r>>: r was taken and is to be put back
          detections, \* what the detector made of the batch
          resolved,   \* requests of the batch whose future is set
          offset,     \* detections given to them
          uncounted,  \* frames the detector was given, less self._frames
          closed      \* close() was called

askVars == <<asked, busy, calls, start>>
resultVars == <<read, results, answer>>
batchVars == <<requests, flattened, held>>
detectorVars == <<detections, resolved, offset, uncounted>>
vars == <<queue, askVars, future, resultVars, pc, batchVars, detectorVars, closed>>

Frame == Callers \X Nat

Frames(c, n) == [k \in 1..n |-> <<c, k>>]

Smaller(a, b) == IF a < b THEN a ELSE b

Request == [caller : Callers, call : Nat, part : Nat, frames : Seq(Frame)]

ASSUME NoneAssumption == None \notin Request

ASSUME OutcomeAssumption ==
    /\ Pending # Raised
    /\ Pending \notin Seq(Frame)
    /\ Raised \notin Seq(Frame)

TypeOK ==
    /\ queue \in Seq(Request \cup {None})
    /\ asked \in [Callers -> 0..MaxFrames]
    /\ busy \subseteq Callers
    /\ calls \in [Callers -> 0..MaxCalls]
    /\ start \in [Callers -> 0..MaxFrames]
    /\ future \in [Callers -> Seq({Pending, Raised} \cup Seq(Frame))]
    /\ read \in [Callers -> Nat]
    /\ results \in [Callers -> Seq(Frame)]
    /\ answer \in [Callers -> {Raised} \cup Seq(Frame)]
    /\ pc \in {"take", "gather", "return", "infer", "resolve", "stopped"}
    /\ requests \in Seq(Request)
    /\ flattened \in Seq(Frame)
    /\ held \in Seq(Request \cup {None})
    /\ detections \in {Raised} \cup Seq(Frame)
    /\ resolved \in Nat
    /\ offset \in Nat
    /\ uncounted \in Nat
    /\ closed \in BOOLEAN

Init ==
    /\ queue = <<>>
    /\ asked = [c \in Callers |-> 0]
    /\ busy = {}
    /\ calls = [c \in Callers |-> 0]
    /\ start = [c \in Callers |-> 0]
    /\ future = [c \in Callers |-> <<>>]
    /\ read = [c \in Callers |-> 0]
    /\ results = [c \in Callers |-> <<>>]
    /\ answer = [c \in Callers |-> <<>>]
    /\ pc = "take"
    /\ requests = <<>>
    /\ flattened = <<>>
    /\ held = <<>>
    /\ detections = <<>>
    /\ resolved = 0
    /\ offset = 0
    /\ uncounted = 0
    /\ closed = FALSE

------------------------------------------------------------------------------
(* detect_batch *)

\* RunController closes the service after the lanes have ended.
Call(c, n) ==
    /\ ~closed
    /\ c \notin busy
    /\ calls[c] < MaxCalls
    /\ calls' = [calls EXCEPT ![c] = @ + 1]
    /\ busy' = busy \cup {c}
    /\ asked' = [asked EXCEPT ![c] = n]
    /\ start' = [start EXCEPT ![c] = 0]
    /\ future' = [future EXCEPT ![c] = <<>>]
    /\ read' = [read EXCEPT ![c] = 0]
    /\ results' = [results EXCEPT ![c] = <<>>]
    /\ UNCHANGED <<queue, answer, pc, batchVars, detectorVars, closed>>

\* One round of range(0, len(frames), max_batch_size).
Put(c) ==
    /\ c \in busy
    /\ start[c] < asked[c]
    /\ LET stop == Smaller(start[c] + MaxBatch, asked[c])
       IN /\ queue' = Append(queue,
                             [caller |-> c, call |-> calls[c], part |-> Len(future[c]) + 1,
                              frames |-> SubSeq(Frames(c, asked[c]), start[c] + 1, stop)])
          /\ start' = [start EXCEPT ![c] = stop]
    /\ future' = [future EXCEPT ![c] = Append(@, Pending)]
    /\ UNCHANGED <<asked, busy, calls, resultVars, pc, batchVars, detectorVars, closed>>

AllPut(c) == c \in busy /\ start[c] = asked[c]

\* future.result(), future by future.
Result(c) ==
    /\ AllPut(c)
    /\ read[c] < Len(future[c])
    /\ future[c][read[c] + 1] \notin {Pending, Raised}
    /\ read' = [read EXCEPT ![c] = @ + 1]
    /\ results' = [results EXCEPT ![c] = @ \o future[c][read[c] + 1]]
    /\ UNCHANGED <<queue, askVars, future, answer, pc, batchVars, detectorVars, closed>>

Returns(c) ==
    /\ AllPut(c)
    /\ read[c] = Len(future[c])
    /\ busy' = busy \ {c}
    /\ answer' = [answer EXCEPT ![c] = results[c]]
    /\ UNCHANGED <<queue, asked, calls, start, future, read, results, pc, batchVars,
                   detectorVars, closed>>

\* The first exception is raised, although later requests of the call may still
\* be queued.
Raises(c) ==
    /\ AllPut(c)
    /\ read[c] < Len(future[c])
    /\ future[c][read[c] + 1] = Raised
    /\ busy' = busy \ {c}
    /\ answer' = [answer EXCEPT ![c] = Raised]
    /\ UNCHANGED <<queue, asked, calls, start, future, read, results, pc, batchVars,
                   detectorVars, closed>>

Caller(c) ==
    \/ \E n \in 0..MaxFrames : Call(c, n)
    \/ Put(c)
    \/ Result(c)
    \/ Returns(c)
    \/ Raises(c)

Close ==
    /\ ~closed
    /\ busy = {}
    /\ closed' = TRUE
    /\ queue' = Append(queue, None)
    /\ UNCHANGED <<askVars, future, resultVars, pc, batchVars, detectorVars>>

------------------------------------------------------------------------------
(* _run *)

Take ==
    /\ pc = "take"
    /\ queue # <<>>
    /\ queue' = Tail(queue)
    /\ \/ /\ Head(queue) = None
          /\ pc' = "stopped"
          /\ UNCHANGED <<requests, flattened>>
       \/ /\ Head(queue) # None
          /\ pc' = "gather"
          /\ requests' = <<Head(queue)>>
          /\ flattened' = Head(queue).frames
    /\ UNCHANGED <<askVars, future, resultVars, held, detectorVars, closed>>

AlwaysFits(r) == r # None

Fits(r) == r # None /\ Len(flattened) + Len(r.frames) <= MaxBatch

\* One more request leaves the queue: into the batch, or to be put back.
Gather ==
    /\ pc = "gather"
    /\ Len(flattened) < MaxBatch
    /\ queue # <<>>
    /\ queue' = Tail(queue)
    /\ \/ /\ Fits(Head(queue))
          /\ requests' = Append(requests, Head(queue))
          /\ flattened' = flattened \o Head(queue).frames
          /\ UNCHANGED <<pc, held>>
       \/ /\ ~Fits(Head(queue))
          /\ held' = <<Head(queue)>>
          /\ pc' = "return"
          /\ UNCHANGED <<requests, flattened>>
    /\ UNCHANGED <<askVars, future, resultVars, detectorVars, closed>>

ReturnedUnlessStop == IF held = <<None>> THEN queue ELSE queue \o held

MisfitDropped == IF held = <<None>> THEN queue \o held ELSE queue

\* None, or a request that does not fit, goes to the tail, behind what the
\* lanes have queued meanwhile.
Returned == queue \o held

PutBack ==
    /\ pc = "return"
    /\ queue' = Returned
    /\ held' = <<>>
    /\ pc' = "infer"
    /\ UNCHANGED <<askVars, future, resultVars, requests, flattened, detectorVars, closed>>

\* The batch is full, the deadline has passed or the queue stayed empty.
StopGathering ==
    /\ pc = "gather"
    /\ pc' = "infer"
    /\ UNCHANGED <<queue, askVars, future, resultVars, batchVars, detectorVars, closed>>

\* detector.detect_batch(flattened) returns or raises.
Infer ==
    /\ pc = "infer"
    /\ pc' = "resolve"
    /\ detections' \in {flattened, Raised}
    /\ uncounted' = uncounted + Len(flattened)
    /\ UNCHANGED <<queue, askVars, future, resultVars, batchVars, resolved, offset, closed>>

SliceFromStart(r) == SubSeq(detections, 1, Len(r.frames))

\* detections[offset:stop]
Slice(r) == SubSeq(detections, offset + 1, offset + Len(r.frames))

Awaited(r) == r.caller \in busy /\ r.call = calls[r.caller]

\* The call of a request may have ended already: nobody reads its future.
Resolve(r, outcome) ==
    /\ resolved' = resolved + 1
    /\ future' = IF Awaited(r) THEN [future EXCEPT ![r.caller][r.part] = outcome] ELSE future
    /\ UNCHANGED <<queue, askVars, resultVars, pc, batchVars, detections, uncounted, closed>>

Unresolved == pc = "resolve" /\ resolved < Len(requests)

\* request.future.set_result(...) of the next request of the batch.
SetResult ==
    /\ Unresolved
    /\ detections # Raised
    /\ LET r == requests[resolved + 1]
       IN /\ Resolve(r, Slice(r))
          /\ offset' = offset + Len(r.frames)

\* request.future.set_exception(error)
SetException ==
    /\ Unresolved
    /\ detections = Raised
    /\ Resolve(requests[resolved + 1], Raised)
    /\ UNCHANGED offset

\* The batch is counted when it gave detections only.
CountedUnlessRaised == IF detections = Raised THEN 0 ELSE Len(flattened)

Counted == Len(flattened)

\* The finally block, after its callers were woken.
EndBatch ==
    /\ pc = "resolve"
    /\ resolved = Len(requests)
    /\ pc' = "take"
    /\ requests' = <<>> /\ flattened' = <<>> /\ detections' = <<>>
    /\ resolved' = 0 /\ offset' = 0
    /\ uncounted' = uncounted - Counted
    /\ UNCHANGED <<queue, askVars, future, resultVars, held, closed>>

Thread ==
    \/ Take
    \/ Gather
    \/ PutBack
    \/ StopGathering
    \/ Infer
    \/ SetResult
    \/ SetException
    \/ EndBatch

\* The threads have ended: nothing is left to do.
Finished == closed /\ pc = "stopped" /\ UNCHANGED vars

Next == (\E c \in Callers : Caller(c)) \/ Close \/ Thread \/ Finished

Spec == Init /\ [][Next]_vars

\* Lanes and the thread keep running; the run ends with close().
Fairness ==
    /\ \A c \in Callers : WF_vars(Put(c) \/ Result(c) \/ Returns(c) \/ Raises(c))
    /\ WF_vars(Thread)
    /\ WF_vars(Close)

FairSpec == Spec /\ Fairness

------------------------------------------------------------------------------
(* Properties. *)

\* A batch never exceeds what the engine was built for, although it is filled
\* from requests of any size (max_batch_size).
BatchFits == Len(flattened) <= MaxBatch

\* provenance (controller.py:310) reads the counters while the thread may be between
\* waking the last lane and counting its batch: they miss that batch at most, also
\* when it raised, and nothing is missing once the thread has stopped.
StatsLagOneBatch ==
    /\ uncounted = IF pc = "resolve" THEN Len(flattened) ELSE 0
    /\ uncounted <= MaxBatch

\* The requests of the batch that are not answered, the one being put back, and
\* the queue.
Outstanding == SubSeq(requests, resolved + 1, Len(requests)) \o held \o queue

Places(c, p) ==
    {i \in 1..Len(Outstanding) :
        LET r == Outstanding[i]
        IN r # None /\ r.caller = c /\ r.call = calls[c] /\ r.part = p}

\* A request somebody waits for is in one place only, the queue, the put-back or
\* the batch, until its future is set: none is lost or served twice.
WaitingIsServed ==
    \A c \in busy : \A p \in 1..Len(future[c]) :
        IF future[c][p] = Pending
          THEN \E i \in Places(c, p) : Places(c, p) = {i}
          ELSE Places(c, p) = {}

\* Each lane gets the detections of its own frames in their order, or an
\* exception: batching is invisible.
Seen == INSTANCE BatchDetector

ImplementsDetector == Seen!Spec

\* No lane waits forever in future.result(), although requests behind its own may
\* overtake one that is put back: the lanes make finitely many calls.  close() ends
\* the thread, also when None was taken by a batch that was being gathered.
CallsAndThreadEnd ==
    /\ \A c \in Callers : c \in busy ~> c \notin busy
    /\ closed ~> pc = "stopped"
==============================================================================
