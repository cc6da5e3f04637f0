---------------------------- MODULE VideoProcessor ----------------------------
(***************************************************************************)
(* qc_pipeline/processor.py (process_video) with media.py: one video,      *)
(* decoded frame by frame, inspected and searched for hands chunk by       *)
(* chunk, measured when the decoder has ended.                             *)
(*                                                                         *)
(* The detector's hands are points of the frame; boxes, scores and the     *)
(* suppression of overlapping boxes are abstracted to the set of points,   *)
(* in which a hand found in two crops counts once.                         *)
(***************************************************************************)
EXTENDS VideoMeasures

CONSTANTS
    Pictures,           \* what an analysed frame of the file may show
    FrameLimit,         \* bound: analysed frames of a file
    ChunkFrames,        \* job.sampling.chunk_frames
    TileFallback,       \* job.detector.tile_fallback
    Width, Height, TileWidth, TileHeight,   \* of a frame, and of a crop of it
    EvidenceSpeed,      \* job.motion.repetition_evidence_min_speed
    Stride,             \* repetition_stride
    JobRules,           \* job.rules
    NoImage, Nothing

ASSUME ChunkAssumption ==
    /\ {ChunkFrames, Stride} \subseteq Nat \ {0}
    /\ FrameLimit \in Nat
    /\ TileFallback \in BOOLEAN

\* The four crops of a frame meet (with no overlap at all, _tile_crops may round the
\* middle column or row away).
ASSUME TileAssumption ==
    /\ {Width, Height, TileWidth, TileHeight} \subseteq Nat \ {0}
    /\ TileWidth <= Width /\ Width <= 2 * TileWidth
    /\ TileHeight <= Height /\ Height <= 2 * TileHeight

Points == (0..(Width - 1)) \X (0..(Height - 1))

ASSUME PictureAssumption ==
    Pictures \subseteq [luminance : Int, entropy : Int, laplacian : Int, clipped : Int,
                       textured : BOOLEAN, place : Int, angle : Int, pose : Int, bench : Int,
                       large : SUBSET Points, small : SUBSET Points]

Samples == [time : Nat, frame : Pictures]

ASSUME NothingAssumption ==
    /\ Nothing \notin Samples
    /\ NoImage \notin [time : Int, score : Int]

VARIABLES
    video,          \* the pictures decoded so far
    stream,         \* the decoder: "unknown", "open", "clean" or "broken"
    phase,
    chunk,          \* samples decoded and not inspected yet
    work, found,    \* hand_work, and its detections
    flags,          \* the flags of qualities, one a frame
    moves,          \* translations and rotations, one a pair of hand samples
    previousHand, nextHandTime,
    hands,          \* hand_timestamps, hand_visible, raw_idle, hand_speeds
    images,         \* the EvidenceSelector
    result

chunkVars == <<chunk, work, found>>
frameVars == <<flags, moves, previousHand, nextHandTime>>
vars == <<video, stream, phase, chunkVars, frameVars, hands, images, result>>

Evidence == INSTANCE EvidenceSelector

\* The rules' reasons that come with images, and the one of the hand speed.
EvidenceReasons == DOMAIN CheckOfReason \cup {"hand-speed"}

Init ==
    /\ video = <<>>
    /\ stream = "unknown"
    /\ phase = "probe"
    /\ chunk = <<>>
    /\ work = <<>>
    /\ found = <<>>
    /\ flags = <<>>
    /\ moves = <<>>
    /\ previousHand = Nothing
    /\ nextHandTime = 0
    /\ hands = <<>>
    /\ images = [reason \in EvidenceReasons |-> Evidence!NoImages]
    /\ result = Nothing

------------------------------------------------------------------------------
(* The decoder. *)

\* _corrupt_result: what was inspected so far is forgotten.
Corrupt ==
    /\ result' = [signals |-> [signal \in Signals |-> IF signal = "corrupt" THEN 1 ELSE 0],
                  intervals |-> [hands |-> [low |-> 0, high |-> 0],
                                 speed |-> [low |-> 0, high |-> 0],
                                 idle |-> [low |-> 0, high |-> One]],
                  idleRuns |-> <<>>, blackRuns |-> <<>>]
    /\ images' = [reason \in EvidenceReasons |-> Evidence!NoImages]
    /\ phase' = "done"
    /\ UNCHANGED <<video, chunkVars, frameVars, hands>>

Probe ==
    /\ phase = "probe"
    /\ \/ /\ stream' = "open"
          /\ phase' = "decode"
          /\ UNCHANGED <<video, chunkVars, frameVars, hands, images, result>>
       \/ stream' = "broken" /\ Corrupt

\* One raw frame; a full chunk is processed before the next one is read.
Decode(picture) ==
    /\ phase = "decode"
    /\ Len(video) < FrameLimit
    /\ video' = Append(video, picture)
    /\ chunk' = Append(chunk, [time |-> FramePeriod * Len(video), frame |-> picture])
    /\ phase' = IF Len(chunk') >= ChunkFrames THEN "inspect" ELSE "decode"
    /\ UNCHANGED <<stream, work, found, frameVars, hands, images, result>>

\* The pipe ends and ffmpeg returns 0; the last chunk may be short.
EndOfStream ==
    /\ phase = "decode"
    /\ video # <<>>
    /\ stream' = "clean"
    /\ phase' = IF chunk = <<>> THEN "measure" ELSE "inspect"
    /\ UNCHANGED <<video, chunkVars, frameVars, hands, images, result>>

\* A truncated frame, a return code, or no frame at all.
BrokenStream ==
    /\ phase = "decode"
    /\ stream' = "broken"
    /\ Corrupt

------------------------------------------------------------------------------
(* process_chunk: frames. *)

FlagsOf(f) == [black |-> Blackish(f), blurry |-> Blurry(f), exposure |-> ExposureBad(f)]

Elapsed(prior, sample) == Max({sample.time - prior.time, HandPeriod})

\* The thresholds an API job gets from the policy (VideoProcessor._job).
ShakeTranslation == Fraction[Policy["translation"]]
ShakeRotation == Policy["rotation"]

\* The reasons a frame, and its motion since the last hand sample, is shown for.
ShownByFrame(f, motion) ==
    {reason \in {"black-covered", "blur-warning", "exposure-warning", "translation-shake",
                 "rotation-shake"} :
        CASE reason = "black-covered"     -> Blackish(f)
          [] reason = "blur-warning"      -> Blurry(f)
          [] reason = "exposure-warning"  -> ExposureBad(f)
          [] reason = "translation-shake" -> motion.translation > ShakeTranslation
          [] reason = "rotation-shake"    -> motion.rotation > ShakeRotation}

FrameScores(f, motion) ==
    [reason \in ShownByFrame(f, motion) |->
        CASE reason = "black-covered"     -> Darkness(f)
          [] reason = "blur-warning"      -> Camera.blurLaplacian - f.laplacian
          [] reason = "exposure-warning"  -> f.clipped
          [] reason = "translation-shake" -> motion.translation
          [] reason = "rotation-shake"    -> motion.rotation]

NoMotion == [translation |-> 0, rotation |-> 0]

\* A plausible slip: the clock restarts at the sample, and drifts.
NextDueFromSample(time) == time + HandPeriod

NextDue(time) == nextHandTime + HandPeriod

\* One frame of the chunk; every so often it is a hand sample as well.
Inspect ==
    /\ phase = "inspect"
    /\ LET sample == Head(chunk)
           due == sample.time >= nextHandTime
           moved == due /\ previousHand # Nothing
           motion == IF moved THEN Motion(previousHand.frame, sample.frame,
                                          Elapsed(previousHand, sample))
                     ELSE NoMotion
       IN /\ flags' = Append(flags, FlagsOf(sample.frame))
          /\ images' = Evidence!Add(images, sample.time, FrameScores(sample.frame, motion))
          /\ moves' = IF moved THEN Append(moves, motion) ELSE moves
          /\ IF due
             THEN /\ work' = Append(work, [sample |-> sample, prior |-> previousHand])
                  /\ previousHand' = sample
                  /\ nextHandTime' = NextDue(sample.time)
             ELSE UNCHANGED <<work, previousHand, nextHandTime>>
    /\ chunk' = Tail(chunk)
    /\ phase' = IF Tail(chunk) = <<>> THEN "detect" ELSE phase
    /\ UNCHANGED <<video, stream, found, hands, result>>

------------------------------------------------------------------------------
(* detect_with_fallback: crops of all frames without hands, as one batch. *)

Shifted(point, offset) == <<point[1] + offset[1], point[2] + offset[2]>>

\* _tile_crops: the corners of the four crops.
Corners == <<<<0, 0>>, <<Width - TileWidth, 0>>, <<0, Height - TileHeight>>,
             <<Width - TileWidth, Height - TileHeight>>>>

\* What the detector sees in a crop, in the crop's own coordinates.
HandsInCrop(f, corner) ==
    {<<point[1] - corner[1], point[2] - corner[2]>> :
        point \in {p \in f.small : /\ p[1] \in corner[1]..(corner[1] + TileWidth - 1)
                                   /\ p[2] \in corner[2]..(corner[2] + TileHeight - 1)}}

\* The crops of the batch, by place: the frame and the corner each was cut at.  Only
\* frames without hands are cut, four crops each, one frame after the other.
Mapping(frames) ==
    LET Cut == {n \in DOMAIN frames : frames[n].large = {}}
        Place(n, c) == 4 * Cardinality({m \in Cut : m < n}) + c
    IN [place \in {Place(n, c) : n \in Cut, c \in 1..4} |->
            CHOOSE crop \in Cut \X (1..4) : place = Place(crop[1], crop[2])]

DetectWithFallback(frames) ==
    LET mapping == IF TileFallback THEN Mapping(frames) ELSE <<>>
        Corner(place) == Corners[mapping[place][2]]
        tiles == [place \in DOMAIN mapping |->
                    HandsInCrop(frames[mapping[place][1]], Corner(place))]
    IN [n \in DOMAIN frames |->
            frames[n].large \cup
            UNION {{Shifted(point, Corner(place)) : point \in tiles[place]} :
                    place \in {p \in DOMAIN mapping : mapping[p][1] = n}}]

AfterChunk == IF stream = "open" THEN "decode" ELSE "measure"

Detect ==
    /\ phase = "detect"
    /\ found' = DetectWithFallback([n \in DOMAIN work |-> work[n].sample.frame])
    /\ phase' = IF work = <<>> THEN AfterChunk ELSE "observe"
    /\ UNCHANGED <<video, stream, chunk, work, frameVars, hands, images, result>>

------------------------------------------------------------------------------
(* process_chunk: hand samples. *)

\* Without a prior sample a hand is taken to be at work, and no hand for unknown.
Observed(sample, prior, detections) ==
    [time |-> sample.time,
     visible |-> IF detections = {} THEN 0 ELSE 1,
     idle |-> CASE prior # Nothing -> Inactive(prior.frame, sample.frame, detections)
                [] prior = Nothing /\ detections # {} -> 0
                [] OTHER -> Missing,
     speed |-> IF prior = Nothing THEN Missing
               ELSE HandSpeed(prior.frame, sample.frame, Elapsed(prior, sample), detections)]

\* speed_limit, of the one rule on the hand speed: infinite without it.
TooFast(speed) == \E rule \in JobRules : rule.signal = "speed" /\ speed > rule.threshold

ShownByHands(hand, count) ==
    {reason \in {"hands-visible", "extended-idle", "hand-speed", "repetitive-motion"} :
        CASE reason = "hands-visible"     -> hand.visible = 0
          [] reason = "extended-idle"     -> hand.idle = 1
          [] reason = "hand-speed"        -> hand.speed # Missing /\ TooFast(hand.speed)
          [] reason = "repetitive-motion" -> /\ hand.speed # Missing
                                             /\ hand.speed >= EvidenceSpeed
                                             /\ count % Stride = 0}

HandScores(hand, count, stillness) ==
    [reason \in ShownByHands(hand, count) |->
        CASE reason = "hands-visible" -> One
          [] reason = "extended-idle" -> stillness
          [] OTHER                    -> hand.speed]

\* 1 - activity
Stillness(prior, f) == One - Max({HandActivity(prior, f), WorkspaceActivity(prior, f)})

Observe ==
    /\ phase = "observe"
    /\ LET sample == Head(work).sample
           prior == Head(work).prior
           hand == Observed(sample, prior, Head(found))
           stillness == IF prior = Nothing THEN 0 ELSE Stillness(prior.frame, sample.frame)
       IN /\ hands' = Append(hands, hand)
          /\ images' = Evidence!Add(images, sample.time,
                                    HandScores(hand, Len(hands'), stillness))
    /\ work' = Tail(work)
    /\ found' = Tail(found)
    /\ phase' = IF Tail(work) = <<>> THEN AfterChunk ELSE phase
    /\ UNCHANGED <<video, stream, chunk, frameVars, result>>

------------------------------------------------------------------------------
(* Statistics, signals and intervals. *)

Column(series, field) == [n \in DOMAIN series |-> series[n][field]]

Share(field) == Mean([n \in DOMAIN flags |-> IF flags[n][field] THEN 1 ELSE 0])

Shake(field) == IF moves = <<>> THEN 0 ELSE P95(Column(moves, field))

FrameTimes == [n \in DOMAIN flags |-> FramePeriod * (n - 1)]

Measure ==
    /\ phase = "measure"
    /\ \E seen \in Estimates(Column(hands, "visible"), "mean"),
          idling \in Estimates(QualifiedIdle(Column(hands, "time"), Column(hands, "idle")), "mean"),
          speed \in Estimates(Column(hands, "speed"), "p95"),
          repetition \in RepetitionScores(Column(hands, "speed")) :
        LET blackRuns == BlackIntervals(FrameTimes, Column(flags, "black"))
        IN result' =
            [signals |->
                [hands |-> seen.point, speed |-> speed.point, idle |-> idling.point,
                 repetition |-> repetition, corrupt |-> 0,
                 covered |-> IF blackRuns = <<>> THEN 0 ELSE 1,
                 blurry |-> Share("blurry"), exposure |-> Share("exposure"),
                 translation |-> Shake("translation"), rotation |-> Shake("rotation")],
             intervals |->
                [hands |-> seen.interval, speed |-> speed.interval, idle |-> idling.interval],
             idleRuns |-> IdleIntervals(Column(hands, "time"), Column(hands, "idle")),
             blackRuns |-> blackRuns]
    /\ phase' = "done"
    /\ UNCHANGED <<video, stream, chunkVars, frameVars, hands, images>>

\* controller.py, _upload_processed: the images a result is published with.
NotPassed(outcomes) == {rule.id : rule \in {r \in DOMAIN outcomes : outcomes[r] # "pass"}}

Next == \/ Probe \/ EndOfStream \/ BrokenStream \/ Inspect \/ Detect \/ Observe \/ Measure
        \/ \E picture \in Pictures : Decode(picture)

Spec == Init /\ [][Next]_vars

------------------------------------------------------------------------------
(* Properties. *)

Measured == phase = "done" /\ result.signals["corrupt"] = 0

\* The frames at or after the k-th beat of the hand clock, and the first of them.
FramesFrom(k) == {n \in 1..Len(video) : FramePeriod * (n - 1) >= HandPeriod * (k - 1)}

HandFrames == {k \in 1..Len(video) : FramesFrom(k) # {}}

HandFrame(k) == Min(FramesFrom(k))

HandPicture(k) == video[HandFrame(k)]

HandGap(k) == Max({FramePeriod * (HandFrame(k) - HandFrame(k - 1)), HandPeriod})

HandMotion(k) == Motion(HandPicture(k - 1), HandPicture(k), HandGap(k))

Found(f) == f.large \cup (IF TileFallback /\ f.large = {} THEN f.small ELSE {})

\* However the frames fall into chunks, measurements are made of a whole file and
\* its series are those of its frames: the hand clock (processor.py:256) keeps its
\* beat and its predecessor across chunks, detections of crops (processor.py:92) come
\* back to their frame and place, and a gap in the hands is never taken for idling.
SeriesExact ==
    /\ phase = "observe" => \A n \in DOMAIN found : found[n] = Found(work[n].sample.frame)
    /\ Measured =>
        /\ stream = "clean"
        /\ flags = [n \in DOMAIN video |-> FlagsOf(video[n])]
        /\ DOMAIN hands = HandFrames
        /\ moves = [n \in 1..(Len(hands) - 1) |-> HandMotion(n + 1)]
        /\ \A k \in HandFrames :
            /\ hands[k].time = FramePeriod * (HandFrame(k) - 1)
            /\ hands[k].visible = 1 <=> Found(HandPicture(k)) # {}
            /\ hands[k].idle = Missing <=> hands[k].visible = 0
            /\ hands[k].idle = 1 =>
                k > 1 /\ HandActivity(HandPicture(k - 1), HandPicture(k)) < Idle.handActivity
            /\ hands[k].speed # Missing => k > 1 /\ hands[k].visible = 1

\* A sample counts as idle when it lies in some stretch of idle samples that lasts;
\* the camera is covered when some whole window is black; the intervals reported for
\* either are apart and in order, and those of idling cover the idle samples and at
\* most the sample after them, a step being the first gap's (camera.py:182, 215).
RunsExact ==
    Measured =>
        LET t == Column(hands, "time")
            raw == Column(hands, "idle")
            Idling(a, b) == /\ \A k \in a..b : raw[k] = 1
                            /\ t[b] + (IF Len(t) > 1 THEN t[2] - t[1] ELSE Idle.minRun) - t[a]
                                    >= Idle.minRun
            Black(a) == 100 * Cardinality({n \in a..(a + Camera.blackWindow - 1) :
                                            Blackish(video[n])})
                            >= Camera.blackFraction * Camera.blackWindow
            InOrder(runs) == \A m, n \in DOMAIN runs : m < n => runs[m][2] <= runs[n][1]
        IN /\ \A k \in DOMAIN hands : QualifiedIdle(t, raw)[k] = 1 <=>
                \E a \in 1..k, b \in k..Len(t) : Idling(a, b)
           /\ \A k \in DOMAIN hands :
                LET Reported(j) == \E n \in DOMAIN result.idleRuns :
                                    /\ result.idleRuns[n][1] <= t[j]
                                    /\ t[j] < result.idleRuns[n][2]
                IN /\ QualifiedIdle(t, raw)[k] = 1 => Reported(k)
                   /\ Reported(k) => \E j \in {k - 1, k} \cap DOMAIN hands :
                                        QualifiedIdle(t, raw)[j] = 1
           /\ result.signals["covered"] = 1 <=>
                \E a \in 1..(Len(video) - Camera.blackWindow + 1) : Black(a)
           /\ InOrder(result.idleRuns) /\ InOrder(result.blackRuns)

\* What a video of these frames has to show for a reason, by time and score.
Offers(reason) ==
    LET At(k) == FramePeriod * (HandFrame(k) - 1)
        Frames(Is(_), Score(_)) ==
            {<<FramePeriod * (n - 1), Score(video[n])>> :
                n \in {m \in 1..Len(video) : Is(video[m])}}
        AtHands(Is(_), Score(_)) ==
            {<<At(k), Score(k)>> : k \in {j \in DOMAIN hands : Is(j)}}
    IN CASE reason = "black-covered" -> Frames(Blackish, Darkness)
         [] reason = "blur-warning" ->
                Frames(Blurry, LAMBDA f : Camera.blurLaplacian - f.laplacian)
         [] reason = "exposure-warning" -> Frames(ExposureBad, LAMBDA f : f.clipped)
         [] reason = "translation-shake" ->
                AtHands(LAMBDA k : k > 1 /\ HandMotion(k).translation > ShakeTranslation,
                        LAMBDA k : HandMotion(k).translation)
         [] reason = "rotation-shake" ->
                AtHands(LAMBDA k : k > 1 /\ HandMotion(k).rotation > ShakeRotation,
                        LAMBDA k : HandMotion(k).rotation)
         [] reason = "hands-visible" ->
                AtHands(LAMBDA k : Found(HandPicture(k)) = {}, LAMBDA k : One)
         [] reason = "extended-idle" ->
                AtHands(LAMBDA k : hands[k].idle = 1,
                        LAMBDA k : Stillness(HandPicture(k - 1), HandPicture(k)))
         [] reason = "hand-speed" ->
                AtHands(LAMBDA k : hands[k].speed # Missing /\ TooFast(hands[k].speed),
                        LAMBDA k : hands[k].speed)
         [] reason = "repetitive-motion" ->
                AtHands(LAMBDA k : /\ hands[k].speed # Missing /\ hands[k].speed >= EvidenceSpeed
                                   /\ k % Stride = 0,
                        LAMBDA k : hands[k].speed)

\* The images kept are those of the first, the last and the first of the worst frames
\* of the file, though frames and hand samples are shown in two passes over a chunk
\* and a result that turns out corrupt keeps none.
EvidenceExact ==
    /\ Measured => \A reason \in EvidenceReasons :
        LET offers == Offers(reason)
            when == {offer[1] : offer \in offers}
            worst == Max({offer[2] : offer \in offers})
            kept == images[reason]
        IN IF offers = {} THEN kept = Evidence!NoImages
           ELSE /\ kept.first.time = Min(when)
                /\ kept.last.time = Max(when)
                /\ kept.worst = [time |-> Min({offer[1] : offer \in {o \in offers : o[2] = worst}}),
                                 score |-> worst]
    /\ phase = "done" /\ ~Measured =>
        Evidence!Selected(images, EvidenceReasons) = {}

\* A failed check of an API job, and a failed rule of the controller's, comes with an
\* image (processing.py:214, controller.py:168 choose them by name); only repetition,
\* which is shown at intervals, and corruption may fail with nothing to show, and a
\* camera whose shift is its rule's limit, that the check's percentage rounds up over its
\* own, while its turning keeps the limit.
FailureShown ==
    Measured =>
        /\ LET outcomes == ByPolicy(result.signals, result.intervals)
               shown == Evidence!Selected(images, ArtifactReasons(outcomes))
           IN \A check \in Checks \cup Warnings :
                /\ outcomes[check] = "fail"
                /\ check # "repetitive_motion"
                /\ check = "camera_steadiness" =>
                        \/ result.signals["translation"] # ShakeTranslation
                        \/ result.signals["rotation"] > ShakeRotation
                => \E image \in shown : CheckOfReason[image[1]] = check
        /\ LET outcomes == Outcomes(JobRules, result.signals, result.intervals)
               shown == Evidence!Selected(images, NotPassed(outcomes))
           IN \A rule \in JobRules :
                outcomes[rule] = "fail" /\ rule.id # "repetitive-motion" =>
                    \E image \in shown : image[1] = rule.id

\* The API throws away the verdict process_video reached by the rules and judges the
\* same measurements by its checks (processing.py:73): both accept a video that keeps the
\* limits, and accept the same videos unless a measurement is on its limit, where
\* fraction * 100 and percent / 100 (processing.py:109, 191) round apart.  The
\* measurements are ones that VideoProofs has this of for every policy.
RoutesAgree ==
    Measured => /\ Measurement(result.signals, result.intervals)
                /\ VerdictsAgree(result.signals, result.intervals)

\* A rejected video says why, in the API's report, in the runner's translation of it
\* and in the controller's result, and the translation's reasons are the rules' but for
\* one whose measurement is on its limit.
ReasonsExplain == Measured => ReasonsAgree(result.signals, result.intervals)

==============================================================================
