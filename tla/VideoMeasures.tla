----------------------------- MODULE VideoMeasures -----------------------------
(***************************************************************************)
(* The functions process_video is built from: what two frames say of       *)
(* motion and idling (camera.py), the runs of a series (camera.py,         *)
(* statistics.py), and the statistics of a series (statistics.py).         *)
(*                                                                         *)
(* Time is counted in ticks.  Pixel arithmetic is abstracted to what a     *)
(* frame record says of its picture:                                       *)
(*   luminance, entropy, laplacian, clipped   the four values of           *)
(*                       frame_quality                                     *)
(*   textured            there are features to track                       *)
(*   place, angle        of the camera                                     *)
(*   pose, bench         of the hands, and of the workspace                *)
(*   large, small        where the detector sees hands: in the whole frame,*)
(*                       and only in a crop that contains the point        *)
(* Booleans of a series are 0 and 1.  The bootstrap's replicates are       *)
(* pseudo-random; here its interval is any pair of the values it can give. *)
(***************************************************************************)
EXTENDS PolicyChecks, SequencesExt, FiniteSetsExt

CONSTANTS
    Camera,             \* job.camera: its thresholds
    Idle,               \* job.idle: minRun (ticks) and the two activity fractions
    FramePeriod,        \* ticks between analysed frames
    HandPeriod,         \* ticks of hand_period
    TicksPerSecond,
    RepetitionSamples,  \* speeds in a row from which repetition can be found
    Missing             \* None in a series

\* analysis_fps is the larger of the two rates.
ASSUME PeriodAssumption ==
    /\ {FramePeriod, HandPeriod, TicksPerSecond, RepetitionSamples} \subseteq Nat \ {0}
    /\ FramePeriod <= HandPeriod
ASSUME MissingAssumption == Missing \notin Int
ASSUME ThresholdAssumption ==
    /\ {Camera.blackMean, Camera.entropy, Camera.blurLaplacian, Idle.handActivity}
        \subseteq Int
    /\ {Camera.blackWindow, Idle.minRun} \subseteq Nat \ {0}

------------------------------------------------------------------------------
(* camera.py: frames. *)

Blackish(f) == f.luminance <= Camera.blackMean \/ f.entropy <= Camera.entropy

\* How far below its threshold the darker of the two measures is, both scaled alike.
Darkness(f) ==
    Max({(Camera.blackMean - f.luminance) * Max({Camera.entropy, 1}),
         (Camera.entropy - f.entropy) * Max({Camera.blackMean, 1})})

Blurry(f) == f.laplacian < Camera.blurLaplacian

ExposureBad(f) == f.clipped >= Camera.clippedPixels

\* stabilized_motion: without features in both frames the camera is taken to be still.
Motion(prior, f, dt) ==
    IF prior.textured /\ f.textured
    THEN [translation |-> Distance(prior.place, f.place),
          rotation |-> (Distance(prior.angle, f.angle) * TicksPerSecond) \div dt]
    ELSE [translation |-> 0, rotation |-> 0]

HandActivity(prior, f) == Distance(prior.pose, f.pose)

WorkspaceActivity(prior, f) == Distance(prior.bench, f.bench)

\* idle_observation: nothing is known of idling without hands.
Inactive(prior, f, detections) ==
    IF detections = {} THEN Missing
    ELSE IF \/ HandActivity(prior, f) >= Idle.handActivity
            \/ WorkspaceActivity(prior, f) >= Idle.workspaceActivity
         THEN 0 ELSE 1

HandSpeed(prior, f, dt, detections) ==
    IF detections # {} /\ prior.textured /\ f.textured
    THEN (Distance(prior.pose, f.pose) * TicksPerSecond) \div dt
    ELSE Missing

------------------------------------------------------------------------------
(* Runs of a series. *)

NoRuns == [start |-> 0, runs |-> <<>>]

\* One step of the scan: the first FALSE after a run closes it, and of the runs closed
\* those in "kept" are kept.
Scanned(flags, kept, scan, i) ==
    IF i <= Len(flags) /\ flags[i]
    THEN [scan EXCEPT !.start = IF @ = 0 THEN i ELSE @]
    ELSE [start |-> 0,
          runs |-> IF scan.start # 0 /\ <<scan.start, i - 1>> \in kept
                   THEN Append(scan.runs, <<scan.start, i - 1>>) ELSE scan.runs]

Scan(flags, kept) ==
    LET scan[i \in 0..(Len(flags) + 1)] ==
            IF i = 0 THEN NoRuns ELSE Scanned(flags, kept, scan[i - 1], i)
    IN scan

\* A plausible slip: the scan ends with the series and drops a run that reaches its end.
RunsBeforeEnd(flags, kept) == Scan(flags, kept)[Len(flags)].runs

\* The scan of qualify_idle_runs, black_intervals and temporal_repetition_score: one
\* FALSE is put after the series, so that a run at its end is closed like the others.
RunsOf(flags, kept) == Scan(flags, kept)[Len(flags) + 1].runs

Stretches(series) == (DOMAIN series) \X (DOMAIN series)

\* qualify_idle_runs: a run lasts until one step after its last sample, a step being
\* the time between the first two.
Step(times) == IF Len(times) > 1 THEN times[2] - times[1] ELSE Idle.minRun

Lasts(times, run) == times[run[2]] + Step(times) - times[run[1]] >= Idle.minRun

LongRuns(times, idle) ==
    RunsOf([i \in DOMAIN idle |-> idle[i] = 1], {run \in Stretches(idle) : Lasts(times, run)})

QualifiedIdle(times, idle) ==
    [i \in DOMAIN idle |->
        CASE idle[i] = Missing -> Missing
          [] \E run \in Range(LongRuns(times, idle)) : i \in run[1]..run[2] -> 1
          [] OTHER -> 0]

IdleIntervals(times, idle) ==
    [n \in DOMAIN LongRuns(times, idle) |->
        LET run == LongRuns(times, idle)[n] IN <<times[run[1]], times[run[2]] + Step(times)>>]

\* black_intervals: the frames of the whole windows that are black enough.
EnoughBlack(black, window) ==
    100 * Cardinality({i \in window : black[i]}) >= Camera.blackFraction * Cardinality(window)

BlackWindows(black) ==
    {window \in {a..(a + Camera.blackWindow - 1) : a \in DOMAIN black} :
        window \subseteq DOMAIN black /\ EnoughBlack(black, window)}

BlackIntervals(times, black) ==
    LET runs == RunsOf([i \in DOMAIN black |-> \E window \in BlackWindows(black) : i \in window],
                       Stretches(black))
    IN [n \in DOMAIN runs |-> <<times[runs[n][1]], times[runs[n][2]] + FramePeriod>>]

------------------------------------------------------------------------------
(* statistics.py *)

\* Where a series has values; their order does not matter to the statistics.
Valid(series) == {i \in DOMAIN series : series[i] # Missing}

\* The mean of a series of zeros and ones.
Mean(series) ==
    Nearest(One * Cardinality({i \in Valid(series) : series[i] = 1}), Cardinality(Valid(series)))

\* The value with k values before it in order.
OrderStatistic(series, k) ==
    CHOOSE v \in {series[i] : i \in Valid(series)} :
        /\ Cardinality({i \in Valid(series) : series[i] < v}) <= k
        /\ Cardinality({i \in Valid(series) : series[i] <= v}) > k

\* np.quantile(values, 0.95), between the two order statistics nearest to it.
P95(series) ==
    LET last == Cardinality(Valid(series)) - 1
        position == 95 * last
        below == OrderStatistic(series, position \div 100)
        above == OrderStatistic(series, Min({position \div 100 + 1, last}))
    IN Nearest(100 * below + (above - below) * (position % 100), 100)

\* summarize
Summary(statistic, series) == IF statistic = "mean" THEN Mean(series) ELSE P95(series)

\* temporal_block_bootstrap: the point and the intervals it may come with, which lie
\* between the least and the greatest value.
Estimates(series, statistic) ==
    LET values == {series[i] : i \in Valid(series)}
        point == Summary(statistic, series)
        ends == {Summary(statistic, <<v>>) : v \in {Min(values), Max(values)}} \cup {point}
    IN IF values = {}
       THEN {[point |-> 0, interval |-> [low |-> 0, high |-> One]]}
       ELSE {[point |-> point, interval |-> interval] :
                interval \in {r \in [low : ends, high : ends] : r.low <= r.high}}

\* temporal_repetition_score: a longest run of speeds, long enough and not changing
\* evenly, may correlate with itself or not.
Longest(series) ==
    LET runs == RunsOf([i \in DOMAIN series |-> series[i] # Missing], Stretches(series))
        length(run) == run[2] - run[1]
    IN IF runs = <<>> THEN <<>>
       ELSE LET n == Min({n \in DOMAIN runs :
                            \A m \in DOMAIN runs : length(runs[m]) <= length(runs[n])})
            IN SubSeq(series, runs[n][1], runs[n][2])

RepetitionScores(speeds) ==
    LET run == Longest(speeds)
        changes == {run[i + 1] - run[i] : i \in 1..(Len(run) - 1)}
    IN IF Len(run) >= RepetitionSamples /\ Cardinality(changes) > 1 THEN {0, One} ELSE {0}
==============================================================================
