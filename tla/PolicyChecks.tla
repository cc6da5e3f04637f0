----------------------------- MODULE PolicyChecks -----------------------------
(***************************************************************************)
(* A video is judged twice from the same measurements: by the job's rules  *)
(* (qc_pipeline/rules.py, on fractions) and by the policy's checks         *)
(* (fgate/checks.py, on percentages), whose outcomes the batch runner      *)
(* turns back into rule results (fgate/batch.py).  This module has the     *)
(* checks, the rules the API derives from a policy, and the way back.      *)
(*                                                                         *)
(* Both convert between fractions and percentages in floating point, where *)
(* 0.57 * 100 < 57 and 7 / 100 * 100 > 7.  A float is a whole multiple of  *)
(* the least one above zero, and stands here for that whole number: doubles*)
(* are the instance with 2^-1074 for 1.  An operation is exact and then    *)
(* rounded to the nearest float.                                           *)
(***************************************************************************)
EXTENDS Rules

CONSTANTS
    Float,          \* the floats from zero up, by bit pattern
    LastPattern,    \* the pattern of the greatest
    One,            \* the float 1.0
    Policy          \* the limits of the policy

Patterns == 0..LastPattern

ASSUME FloatAssumption ==
    /\ LastPattern \in Nat
    /\ Float \in [Patterns -> Nat]
    /\ Float[0] = 0
    /\ \A i, j \in Patterns : i < j => Float[i] < Float[j]

Floats == {Float[i] : i \in Patterns}

Distance(a, b) == IF a >= b THEN a - b ELSE b - a

\* The float nearest to n / d, of two the one with an even pattern; beyond the greatest
\* it stays there.
Nearest(n, d) ==
    LET Off(i) == Distance(d * Float[i], n)
    IN Float[CHOOSE i \in Patterns :
                \A j \in {i - 1, i + 1} \cap Patterns :
                    Off(i) < Off(j) \/ (Off(i) = Off(j) /\ i % 2 = 0)]

Limits == {"hands", "idle", "translation", "rotation", "repetition", "blurry", "exposure"}

Percentages == {"hands", "idle", "translation", "blurry", "exposure"}

ASSUME OneAssumption == One \in Floats \ {0}
ASSUME PolicyAssumption == Policy \in [Limits -> Floats]

\* The signals of process_video; "hands" is hand.visibility_fraction, "speed" is
\* hand.motion_speed_p95, and so on.
Signals == {"hands", "speed", "idle", "repetition", "corrupt", "covered", "blurry", "exposure",
            "translation", "rotation"}

Checks == {"camera_covered", "hands_visible", "worker_idle", "camera_steadiness",
           "repetitive_motion"}

Warnings == {"blurry", "bad_exposure"}

------------------------------------------------------------------------------
(* processing.py: the rules of an API job, and the checks' view of its result. *)

Fraction == [percent \in Floats |-> Nearest(percent, 100)]

Percent == [fraction \in Floats |-> Nearest(100 * fraction, 1)]

Rule(id, signal, operator, threshold, reject) ==
    [id |-> id, signal |-> signal, operator |-> operator, threshold |-> threshold,
     reject |-> reject]

\* VideoProcessor._job
ApiRules ==
    {Rule("hands-visible", "hands", ">=", Fraction[Policy["hands"]], TRUE),
     Rule("extended-idle", "idle", "<=", Fraction[Policy["idle"]], TRUE),
     Rule("repetitive-motion", "repetition", "<=", Policy["repetition"], TRUE),
     Rule("corrupt-video", "corrupt", "==", 0, TRUE),
     Rule("black-covered", "covered", "==", 0, TRUE),
     Rule("blur-warning", "blurry", "<=", Fraction[Policy["blurry"]], FALSE),
     Rule("exposure-warning", "exposure", "<=", Fraction[Policy["exposure"]], FALSE),
     Rule("translation-shake", "translation", "<=", Fraction[Policy["translation"]], TRUE),
     Rule("rotation-shake", "rotation", "<=", Policy["rotation"], TRUE)}

\* VideoProcessor._context
Context(signals, intervals) ==
    [measured |-> [limit \in Limits |->
                    IF limit \in Percentages THEN Percent[signals[limit]] ELSE signals[limit]],
     intervals |-> [limit \in {"hands", "idle"} |->
                    [low |-> Percent[intervals[limit].low],
                     high |-> Percent[intervals[limit].high]]],
     covered |-> signals["covered"] = 1]

------------------------------------------------------------------------------
(* checks.py *)

Within(context, limit) == context.measured[limit] <= Policy[limit]

PassIf(holds) == IF holds THEN "pass" ELSE "fail"

\* _minimum_outcome and _maximum_outcome
MinimumOutcome(interval, limit) ==
    IF interval.low >= limit THEN "pass"
    ELSE IF interval.high < limit THEN "fail" ELSE "uncertain"

\* A plausible slip: the limit itself is over the limit.
MaximumOutcomeBelow(interval, limit) ==
    IF interval.high < limit THEN "pass"
    ELSE IF interval.low >= limit THEN "fail" ELSE "uncertain"

MaximumOutcome(interval, limit) ==
    IF interval.high <= limit THEN "pass"
    ELSE IF interval.low > limit THEN "fail" ELSE "uncertain"

Covered(context) == PassIf(~context.covered)

HandsVisible(context) == MinimumOutcome(context.intervals["hands"], Policy["hands"])

WorkerIdle(context) == MaximumOutcome(context.intervals["idle"], Policy["idle"])

Steadiness(context) == PassIf(Within(context, "translation") /\ Within(context, "rotation"))

\* What a check finds if it is asked.
Evaluated(context, check) ==
    CASE check = "camera_covered"    -> Covered(context)
      [] check = "hands_visible"     -> HandsVisible(context)
      [] check = "worker_idle"       -> WorkerIdle(context)
      [] check = "camera_steadiness" -> Steadiness(context)
      [] check = "repetitive_motion" -> PassIf(Within(context, "repetition"))
      [] check = "blurry"            -> PassIf(Within(context, "blurry"))
      [] check = "bad_exposure"      -> PassIf(Within(context, "exposure"))

\* A covered camera leaves the hands and the warnings unasked; hands that are not
\* clearly there leave idling and repetition unasked.
Asked(context, check) ==
    \/ check \in {"camera_covered", "camera_steadiness"}
    \/ Covered(context) = "pass" /\ check \in Warnings \cup {"hands_visible"}
    \/ Covered(context) = "pass" /\ HandsVisible(context) = "pass"

\* PolicyEvaluator.evaluate
CheckOutcomes(context) ==
    [check \in Checks \cup Warnings |->
        IF Asked(context, check) THEN Evaluated(context, check) ELSE "not_applicable"]

PolicyVerdict(outcomes) ==
    IF \E check \in Checks : outcomes[check] = "fail" THEN "bad"
    ELSE IF \E check \in Checks : outcomes[check] = "uncertain" THEN "uncertain" ELSE "good"

------------------------------------------------------------------------------
(* Evidence reasons of the failed checks (processing.py, _ARTIFACT_CHECKS), and the *)
(* runner's rule results (batch.py, _legacy_result).                                *)

ShakeReasons == {"translation-shake", "rotation-shake"}

CheckOfReason ==
    [reason \in {"black-covered", "hands-visible", "extended-idle", "translation-shake",
                 "rotation-shake", "repetitive-motion", "blur-warning", "exposure-warning"} |->
        CASE reason = "black-covered"     -> "camera_covered"
          [] reason = "hands-visible"     -> "hands_visible"
          [] reason = "extended-idle"     -> "worker_idle"
          [] reason = "repetitive-motion" -> "repetitive_motion"
          [] reason = "blur-warning"      -> "blurry"
          [] reason = "exposure-warning"  -> "bad_exposure"
          [] reason \in ShakeReasons      -> "camera_steadiness"]

\* A plausible slip: one reason a check, as the rule results have it without the split.
ArtifactReasonsByOne(outcomes) ==
    {reason \in DOMAIN CheckOfReason \ {"rotation-shake"} :
        outcomes[CheckOfReason[reason]] = "fail"}

\* The reasons whose images an API result comes with.
ArtifactReasons(outcomes) ==
    {reason \in DOMAIN CheckOfReason : outcomes[CheckOfReason[reason]] = "fail"}

\* _legacy_rules without the steadiness check's split.
LegacyUnsplit(context, reason) == CheckOutcomes(context)[CheckOfReason[reason]]

\* _legacy_rules: a rule has its check's outcome, but the steadiness check is two rules,
\* each with the limit of its own measurement.
LegacyOutcome(context, reason) ==
    CASE reason = "translation-shake" -> PassIf(Within(context, "translation"))
      [] reason = "rotation-shake"    -> PassIf(Within(context, "rotation"))
      [] reason \notin ShakeReasons   -> CheckOutcomes(context)[CheckOfReason[reason]]

LegacyReasons(context) ==
    {reason \in DOMAIN CheckOfReason : LegacyOutcome(context, reason) = "fail"}

------------------------------------------------------------------------------
(* What the two judgements of one video have to do with each other. *)

\* What process_video hands to the rules and the checks of a file that can be decoded.
Measurement(signals, intervals) ==
    /\ signals \in [Signals -> Nat]
    /\ \A s \in Signals \ {"covered"} : signals[s] \in Floats
    /\ signals["covered"] \in {0, 1}
    /\ signals["corrupt"] = 0
    /\ intervals \in [{"hands", "speed", "idle"} -> [low : Floats, high : Floats]]
    /\ \A s \in {"hands", "speed", "idle"} : intervals[s].low <= intervals[s].high

ByRules(signals, intervals) == Outcomes(ApiRules, signals, intervals)

ByPolicy(signals, intervals) == CheckOutcomes(Context(signals, intervals))

Limited == {"hands-visible", "extended-idle", "translation-shake", "blur-warning",
            "exposure-warning"}

\* The reasons whose measurement is on the limit, as the check or as the rule has the
\* two: there the rounding of the conversions may set rule and check apart.
OnLimit(signals, intervals) ==
    LET On(value, limit) == Percent[value] = Policy[limit] \/ value = Fraction[Policy[limit]]
        EndOn(limit) == On(intervals[limit].low, limit) \/ On(intervals[limit].high, limit)
    IN {reason \in Limited :
            CASE reason = "hands-visible"     -> EndOn("hands")
              [] reason = "extended-idle"     -> EndOn("idle")
              [] reason = "translation-shake" -> On(signals["translation"], "translation")
              [] reason = "blur-warning"      -> On(signals["blurry"], "blurry")
              [] reason = "exposure-warning"  -> On(signals["exposure"], "exposure")}

\* The measurements keep every limit of a rejecting reason, in exact arithmetic.
Meets(signals, intervals) ==
    /\ signals["covered"] = 0
    /\ 100 * intervals["hands"].low >= Policy["hands"]
    /\ 100 * intervals["idle"].high <= Policy["idle"]
    /\ 100 * signals["translation"] <= Policy["translation"]
    /\ signals["rotation"] <= Policy["rotation"]
    /\ signals["repetition"] <= Policy["repetition"]

\* The rules and the checks both accept a video that keeps the limits, whatever is
\* rounded.  Unless a rejecting measurement is on its limit, they accept the same videos,
\* and the rules reject what the checks reject; a video only the rules reject has hands
\* that are not clearly there, which the checks hold against nothing else.
VerdictsAgree(signals, intervals) ==
    LET rules == RulesVerdict(ByRules(signals, intervals))
        checks == PolicyVerdict(ByPolicy(signals, intervals))
    IN /\ Meets(signals, intervals) => rules = "good" /\ checks = "good"
       /\ OnLimit(signals, intervals) \subseteq {"blur-warning", "exposure-warning"} =>
            /\ rules = "good" <=> checks = "good"
            /\ checks = "bad" => rules = "bad"
            /\ rules = "bad" /\ checks # "bad" =>
                 ByPolicy(signals, intervals)["hands_visible"] = "uncertain"

\* Every rejection names a rejecting reason, on both ways; the runner's reasons are
\* the rules' own, but for one whose measurement is on its limit; and the probability of
\* a good video, which the hours of a report are counted with, is zero when a rule
\* outside the bootstrap rejects.
ReasonsAgree(signals, intervals) ==
    LET rules == ByRules(signals, intervals)
        legacy == LegacyReasons(Context(signals, intervals))
        rejecting == {rule.id : rule \in {r \in ApiRules : r.reject}}
    IN /\ RulesVerdict(rules) # "good" => Reasons(rules) \cap rejecting # {}
       /\ RulesVerdict(rules) = "good" => Reasons(rules) \cap rejecting = {}
       /\ PolicyVerdict(ByPolicy(signals, intervals)) = "bad" <=> legacy \cap rejecting # {}
       /\ legacy \ OnLimit(signals, intervals) \subseteq Reasons(rules)
       /\ RulesVerdict(rules) = "good" => GlobalRejectsGood(ApiRules, signals)
==============================================================================
