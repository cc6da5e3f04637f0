----------------------------- MODULE VideoProofs -----------------------------
(***************************************************************************)
(* A measured file is measured exactly, whatever its chunks, for all files *)
(* and all values of the constants:                                        *)
(*   - the two judgements of it agree, for every policy and any floats,    *)
(*     unless it is on a limit, and say why it is rejected;                *)
(*   - SeriesInv, inductive: the frames inspected so far, the beats of the *)
(*     hand clock among them, and the hand samples taken at those beats;   *)
(*   - EvidenceInv, inductive with it: the images kept of each reason are  *)
(*     the first, the last and the first of the worst of what was shown;   *)
(*   - MeasuredInv: the rest of a result is computed from those series, so *)
(*     runs are exact and a failure has an image of what made it fail.     *)
(***************************************************************************)
EXTENDS VideoProcessor, FiniteSetTheorems, SequenceTheorems, TLAPS

(* Floats and rounding. *)

LEMMA NatLeast ==
    ASSUME NEW U \in SUBSET Nat, U # {}
    PROVE  \E b \in U : \A m \in U : b <= m
<1>1. IsWellFoundedOn(OpToRel(<, Nat), Nat)
  BY NatLessThanWellFounded
<1>2. PICK b \in U : \A m \in U : ~(<<m, b>> \in OpToRel(<, Nat))
  BY <1>1, WFMin
<1>3. b \in Nat /\ \A m \in U : m \in Nat /\ ~(m < b)
  BY <1>2 DEF OpToRel
<1>4. \A m \in U : b <= m
  BY <1>3
<1> QED
  BY <1>4

LEMMA FloatsTyped ==
    /\ Floats \subseteq Nat
    /\ 0 \in Floats
    /\ One \in Floats /\ One \in Nat \ {0}
    /\ \A limit \in Limits : Policy[limit] \in Floats /\ Policy[limit] \in Nat
<1>1. Floats \subseteq Nat /\ 0 \in Floats
  BY FloatAssumption DEF Floats, Patterns
<1> QED
  BY <1>1, OneAssumption, PolicyAssumption

\* The nearest pattern, with the tie between two of them broken, exists.
LEMMA NearestFound ==
    ASSUME NEW n \in Int, NEW d \in Nat \ {0}
    PROVE  \E i \in Patterns : \A j \in {i - 1, i + 1} \cap Patterns :
            \/ Distance(d * Float[i], n) < Distance(d * Float[j], n)
            \/ Distance(d * Float[i], n) = Distance(d * Float[j], n) /\ i % 2 = 0
<1> DEFINE Off(i) == Distance(d * Float[i], n)
           Offs == {Off(i) : i \in Patterns}
<1>1. \A i \in Patterns : Off(i) \in Nat
  <2> SUFFICES ASSUME NEW i \in Patterns PROVE Off(i) \in Nat
    OBVIOUS
  <2>1. d * Float[i] \in Int
    BY FloatAssumption
  <2> QED
    BY <2>1 DEF Distance
<1> HIDE DEF Off
<1>2. Offs \in SUBSET Nat /\ Offs # {}
  <2>1. 0 \in Patterns
    BY FloatAssumption DEF Patterns
  <2> QED
    BY <1>1, <2>1
<1>3. PICK least \in Offs : \A m \in Offs : least <= m
  <2> HIDE DEF Offs
  <2> QED
    BY <1>2, NatLeast
<1>4. PICK i \in Patterns : \A j \in Patterns : Off(i) <= Off(j)
  BY <1>3
<1>5. i \in Int /\ \A j \in Patterns : j \in Int
  BY FloatAssumption DEF Patterns
<1>6. CASE \A j \in {i - 1, i + 1} \cap Patterns : Off(i) < Off(j) \/ i % 2 = 0
  <2>1. \A j \in {i - 1, i + 1} \cap Patterns : Off(i) < Off(j) \/ (Off(i) = Off(j) /\ i % 2 = 0)
    BY <1>1, <1>4, <1>6
  <2> QED
    BY <2>1 DEF Off
<1>7. CASE \E k \in {i - 1, i + 1} \cap Patterns : ~(Off(i) < Off(k)) /\ i % 2 # 0
  <2>1. PICK k \in {i - 1, i + 1} \cap Patterns : ~(Off(i) < Off(k)) /\ i % 2 # 0
    BY <1>7
  <2>2. Off(k) = Off(i) /\ k % 2 = 0
    BY <1>1, <1>4, <1>5, <2>1
  <2>3. \A j \in {k - 1, k + 1} \cap Patterns : Off(k) < Off(j) \/ (Off(k) = Off(j) /\ k % 2 = 0)
    BY <1>1, <1>4, <2>1, <2>2
  <2> QED
    BY <2>1, <2>3 DEF Off
<1> QED
  BY <1>6, <1>7

\* Rounding keeps to the side of a float that it comes from: past it, the float would be
\* the nearer one.
LEMMA NearestKeeps ==
    ASSUME NEW n \in Int, NEW d \in Nat \ {0}
    PROVE  /\ Nearest(n, d) \in Floats /\ Nearest(n, d) \in Nat
           /\ \A f \in Floats : d * f <= n => f <= Nearest(n, d)
           /\ \A f \in Floats : n <= d * f => Nearest(n, d) <= f
<1> DEFINE Off(i) == Distance(d * Float[i], n)
           IsNearest(i) == \A j \in {i - 1, i + 1} \cap Patterns :
                                Off(i) < Off(j) \/ (Off(i) = Off(j) /\ i % 2 = 0)
           i == CHOOSE i \in Patterns : IsNearest(i)
<1>1. i \in Patterns /\ IsNearest(i)
  BY NearestFound
<1>2. Nearest(n, d) = Float[i]
  BY DEF Nearest
<1>3. \A j \in Patterns : Float[j] \in Nat /\ j \in Int
  BY FloatAssumption DEF Patterns
<1> HIDE DEF i
\* A pattern between i and that of f, if there is one, has a float between theirs.
<1>4. ASSUME NEW k \in Patterns, d * Float[k] <= n, Float[i] < Float[k] PROVE FALSE
  <2>1. i < k
    BY <1>1, <1>3, <1>4, FloatAssumption
  <2>2. i + 1 \in Patterns /\ i + 1 <= k
    BY <1>1, <1>3, <2>1, FloatAssumption DEF Patterns
  <2>3. Float[i] < Float[i + 1] /\ Float[i + 1] <= Float[k]
    BY <1>1, <1>3, <2>2, FloatAssumption
  <2>4. d * Float[i] < d * Float[i + 1] /\ d * Float[i + 1] <= d * Float[k]
    <3> DEFINE a == Float[i]
               b == Float[i + 1]
               c == Float[k]
    <3>1. a \in Nat /\ b \in Nat /\ c \in Nat /\ a < b /\ b <= c
      BY <1>1, <1>3, <2>2, <2>3
    <3> HIDE DEF a, b, c
    <3>2. \A x, y \in Nat : x < y => d * x < d * y
      OBVIOUS
    <3>3. d * a < d * b /\ d * b <= d * c
      BY <3>1, <3>2
    <3> QED
      BY <3>3 DEF a, b, c
  <2>5. d * Float[i] \in Int /\ d * Float[i + 1] \in Int /\ d * Float[k] \in Int
    BY <1>1, <1>3, <2>2
  <2>6. Off(i + 1) < Off(i) /\ Off(i + 1) \in Nat /\ Off(i) \in Nat
    BY <1>4, <2>4, <2>5 DEF Distance
  <2> HIDE DEF Off
  <2>7. Off(i) < Off(i + 1) \/ Off(i) = Off(i + 1)
    BY <1>1, <2>2
  <2> QED
    BY <2>6, <2>7
<1>5. ASSUME NEW k \in Patterns, n <= d * Float[k], Float[k] < Float[i] PROVE FALSE
  <2>1. k < i
    BY <1>1, <1>3, <1>5, FloatAssumption
  <2>2. i - 1 \in Patterns /\ k <= i - 1
    BY <1>1, <1>3, <2>1, FloatAssumption DEF Patterns
  <2>3. Float[i - 1] < Float[i] /\ Float[k] <= Float[i - 1]
    BY <1>1, <1>3, <2>2, FloatAssumption
  <2>4. d * Float[i - 1] < d * Float[i] /\ d * Float[k] <= d * Float[i - 1]
    <3> DEFINE a == Float[k]
               b == Float[i - 1]
               c == Float[i]
    <3>1. a \in Nat /\ b \in Nat /\ c \in Nat /\ b < c /\ a <= b
      BY <1>1, <1>3, <2>2, <2>3
    <3> HIDE DEF a, b, c
    <3>2. \A x, y \in Nat : x < y => d * x < d * y
      OBVIOUS
    <3>3. d * b < d * c /\ d * a <= d * b
      BY <3>1, <3>2
    <3> QED
      BY <3>3 DEF a, b, c
  <2>5. d * Float[i] \in Int /\ d * Float[i - 1] \in Int /\ d * Float[k] \in Int
    BY <1>1, <1>3, <2>2
  <2>6. Off(i - 1) < Off(i) /\ Off(i - 1) \in Nat /\ Off(i) \in Nat
    BY <1>5, <2>4, <2>5 DEF Distance
  <2> HIDE DEF Off
  <2>7. Off(i) < Off(i - 1) \/ Off(i) = Off(i - 1)
    BY <1>1, <2>2
  <2> QED
    BY <2>6, <2>7
<1>6. Float[i] \in Floats /\ Float[i] \in Nat
  BY <1>1, <1>3 DEF Floats
<1>7. \A f \in Floats : d * f <= n => f <= Float[i]
  BY <1>3, <1>4, <1>6 DEF Floats
<1>8. \A f \in Floats : n <= d * f => Float[i] <= f
  BY <1>3, <1>5, <1>6 DEF Floats
<1> QED
  BY <1>2, <1>6, <1>7, <1>8

\* A measurement and a limit in percent come out of their conversions on the sides they
\* had, if not on the limit itself.
LEMMA Converted ==
    ASSUME NEW v \in Floats, NEW limit \in Floats
    PROVE  /\ Percent[v] \in Nat /\ Fraction[limit] \in Floats /\ Fraction[limit] \in Nat
           /\ 100 * v >= limit => Percent[v] >= limit /\ v >= Fraction[limit]
           /\ 100 * v <= limit => Percent[v] <= limit /\ v <= Fraction[limit]
<1>1. v \in Nat /\ limit \in Nat
  BY FloatsTyped
<1>2. Percent[v] = Nearest(100 * v, 1) /\ Fraction[limit] = Nearest(limit, 100)
  BY DEF Percent, Fraction
<1>3. /\ Nearest(100 * v, 1) \in Nat
      /\ 1 * limit <= 100 * v => limit <= Nearest(100 * v, 1)
      /\ 100 * v <= 1 * limit => Nearest(100 * v, 1) <= limit
  BY <1>1, NearestKeeps
<1>4. /\ Nearest(limit, 100) \in Nat /\ Nearest(limit, 100) \in Floats
      /\ 100 * v <= limit => v <= Nearest(limit, 100)
      /\ limit <= 100 * v => Nearest(limit, 100) <= v
  BY <1>1, NearestKeeps
<1> QED
  BY <1>1, <1>2, <1>3, <1>4

LEMMA OffTheLimit ==
    ASSUME NEW v \in Floats, NEW limit \in Floats, Percent[v] # limit, v # Fraction[limit]
    PROVE  /\ Percent[v] >= limit <=> v >= Fraction[limit]
           /\ Percent[v] <= limit <=> v <= Fraction[limit]
<1>1. v \in Nat /\ limit \in Nat
  BY FloatsTyped
<1>2. 100 * v <= limit \/ 100 * v >= limit
  BY <1>1
<1> QED
  BY <1>1, <1>2, Converted

------------------------------------------------------------------------------
(* The two judges. *)

\* What the evidence selector is told of the camera's motion.
LEMMA ShakeLimits ==
    /\ ShakeTranslation \in Floats /\ ShakeRotation \in Floats
    /\ ShakeTranslation \in Nat /\ ShakeRotation \in Nat
<1>1. Policy["translation"] \in Floats /\ Policy["rotation"] \in Floats
  BY FloatsTyped DEF Limits
<1>2. Fraction[Policy["translation"]] \in Floats
  BY <1>1, Converted
<1> QED
  BY <1>1, <1>2, FloatsTyped DEF ShakeTranslation, ShakeRotation

\* The rules by name.
HandsRule == Rule("hands-visible", "hands", ">=", Fraction[Policy["hands"]], TRUE)
IdleRule == Rule("extended-idle", "idle", "<=", Fraction[Policy["idle"]], TRUE)
RepetitionRule == Rule("repetitive-motion", "repetition", "<=", Policy["repetition"], TRUE)
CorruptRule == Rule("corrupt-video", "corrupt", "==", 0, TRUE)
CoveredRule == Rule("black-covered", "covered", "==", 0, TRUE)
BlurRule == Rule("blur-warning", "blurry", "<=", Fraction[Policy["blurry"]], FALSE)
ExposureRule == Rule("exposure-warning", "exposure", "<=", Fraction[Policy["exposure"]], FALSE)
TranslationRule ==
    Rule("translation-shake", "translation", "<=", Fraction[Policy["translation"]], TRUE)
RotationRule == Rule("rotation-shake", "rotation", "<=", Policy["rotation"], TRUE)

Rejects == {HandsRule, IdleRule, RepetitionRule, CorruptRule, CoveredRule, TranslationRule,
            RotationRule}

LEMMA RulesNamed ==
    /\ ApiRules = Rejects \cup {BlurRule, ExposureRule}
    /\ \A rule \in Rejects : rule.reject
    /\ ~BlurRule.reject /\ ~ExposureRule.reject
<1>1. ApiRules = Rejects \cup {BlurRule, ExposureRule}
  BY DEF ApiRules, Rejects, HandsRule, IdleRule, RepetitionRule, CorruptRule, CoveredRule,
         BlurRule, ExposureRule, TranslationRule, RotationRule
<1>2. /\ HandsRule.reject /\ IdleRule.reject /\ RepetitionRule.reject /\ CorruptRule.reject
      /\ CoveredRule.reject /\ TranslationRule.reject /\ RotationRule.reject
      /\ ~BlurRule.reject /\ ~ExposureRule.reject
  BY DEF Rule, HandsRule, IdleRule, RepetitionRule, CorruptRule, CoveredRule, BlurRule,
         ExposureRule, TranslationRule, RotationRule
<1> QED
  BY <1>1, <1>2 DEF Rejects

\* A rule finds of the fractions what its check finds of the percentages.
LEMMA RuleOutcomes ==
    ASSUME NEW signals, NEW intervals, Measurement(signals, intervals)
    PROVE  LET Out(rule) == IntervalOutcome(rule, signals, intervals)
               Keeps(limit) == signals[limit] <= Fraction[Policy[limit]]
           IN /\ Out(HandsRule) = MinimumOutcome(intervals["hands"], Fraction[Policy["hands"]])
              /\ Out(IdleRule) = MaximumOutcome(intervals["idle"], Fraction[Policy["idle"]])
              /\ Out(RepetitionRule) = PassIf(signals["repetition"] <= Policy["repetition"])
              /\ Out(CorruptRule) = "pass"
              /\ Out(CoveredRule) = PassIf(signals["covered"] = 0)
              /\ Out(BlurRule) = PassIf(Keeps("blurry"))
              /\ Out(ExposureRule) = PassIf(Keeps("exposure"))
              /\ Out(TranslationRule) = PassIf(Keeps("translation"))
              /\ Out(RotationRule) = PassIf(signals["rotation"] <= Policy["rotation"])
<1> DEFINE Out(rule) == IntervalOutcome(rule, signals, intervals)
<1>a. \A s \in Signals : signals[s] \in Nat
  BY FloatsTyped DEF Measurement
<1>b. DOMAIN intervals = {"hands", "speed", "idle"}
  BY DEF Measurement
<1>c. \A s \in {"hands", "idle"} : /\ intervals[s].low \in Nat
                                   /\ intervals[s].high \in Nat
                                   /\ intervals[s].low <= intervals[s].high
  BY FloatsTyped DEF Measurement
<1>t. \A limit \in Percentages : Fraction[Policy[limit]] \in Nat
  BY FloatsTyped, Converted DEF Percentages, Limits
\* A ceiling on a signal without an interval.
<1>d. ASSUME NEW id, NEW s \in Signals \ {"hands", "speed", "idle"}, NEW t \in Nat, NEW b
      PROVE  Out(Rule(id, s, "<=", t, b)) = PassIf(signals[s] <= t)
  <2>1. Range95(Rule(id, s, "<=", t, b), signals, intervals) =
            [low |-> signals[s], high |-> signals[s]]
    BY <1>b DEF Range95, Rule
  <2> QED
    BY <1>a, <2>1 DEF IntervalOutcome, Compare, Rule, Floors, PassIf
<1>e. ASSUME NEW id, NEW s \in Signals, NEW b
      PROVE  Out(Rule(id, s, "==", 0, b)) = PassIf(signals[s] = 0)
  <2>1. Range95(Rule(id, s, "==", 0, b), signals, intervals) =
            [low |-> signals[s], high |-> signals[s]]
    BY DEF Range95, Rule
  <2> QED
    BY <2>1 DEF IntervalOutcome, Compare, Rule, Floors, PassIf
<1>1. Out(HandsRule) = MinimumOutcome(intervals["hands"], Fraction[Policy["hands"]])
  <2>1. Range95(HandsRule, signals, intervals) = intervals["hands"]
    BY <1>b DEF HandsRule, Range95, Rule
  <2>2. HandsRule.operator = ">=" /\ HandsRule.threshold = Fraction[Policy["hands"]]
    BY DEF HandsRule, Rule
  <2>3. Out(HandsRule) = IF intervals["hands"].low >= Fraction[Policy["hands"]] THEN "pass"
                         ELSE IF intervals["hands"].high >= Fraction[Policy["hands"]]
                              THEN "uncertain" ELSE "fail"
    BY <2>1, <2>2 DEF IntervalOutcome, Compare, Floors
  <2>4. intervals["hands"].high \in Nat /\ Fraction[Policy["hands"]] \in Nat
    BY <1>c, <1>t DEF Percentages
  <2> QED
    BY <2>3, <2>4 DEF MinimumOutcome
<1>2. Out(IdleRule) = MaximumOutcome(intervals["idle"], Fraction[Policy["idle"]])
  <2>1. Range95(IdleRule, signals, intervals) = intervals["idle"]
    BY <1>b DEF IdleRule, Range95, Rule
  <2>2. IdleRule.operator = "<=" /\ IdleRule.threshold = Fraction[Policy["idle"]]
    BY DEF IdleRule, Rule
  <2>3. Out(IdleRule) = IF intervals["idle"].high <= Fraction[Policy["idle"]] THEN "pass"
                        ELSE IF intervals["idle"].low <= Fraction[Policy["idle"]]
                             THEN "uncertain" ELSE "fail"
    BY <2>1, <2>2 DEF IntervalOutcome, Compare, Floors
  <2>4. intervals["idle"].low \in Nat /\ Fraction[Policy["idle"]] \in Nat
    BY <1>c, <1>t DEF Percentages
  <2> QED
    BY <2>3, <2>4 DEF MaximumOutcome
<1>3. /\ Out(RepetitionRule) = PassIf(signals["repetition"] <= Policy["repetition"])
      /\ Out(RotationRule) = PassIf(signals["rotation"] <= Policy["rotation"])
  BY <1>d, FloatsTyped DEF RepetitionRule, RotationRule, Signals, Limits
<1>4. Out(CorruptRule) = "pass"
  BY <1>e, ZenonT(40) DEF CorruptRule, Measurement, PassIf, Signals
<1>5. Out(CoveredRule) = PassIf(signals["covered"] = 0)
  BY <1>e DEF CoveredRule, Signals
<1>6. ASSUME NEW limit \in {"blurry", "exposure", "translation"}, NEW id, NEW b
      PROVE  Out(Rule(id, limit, "<=", Fraction[Policy[limit]], b)) =
                PassIf(signals[limit] <= Fraction[Policy[limit]])
  <2>1. limit \in Percentages /\ limit \in Signals \ {"hands", "speed", "idle"}
    BY DEF Percentages, Signals
  <2> QED
    BY <1>d, <1>t, <2>1
<1>7. /\ Out(BlurRule) = PassIf(signals["blurry"] <= Fraction[Policy["blurry"]])
      /\ Out(ExposureRule) = PassIf(signals["exposure"] <= Fraction[Policy["exposure"]])
      /\ Out(TranslationRule) = PassIf(signals["translation"] <= Fraction[Policy["translation"]])
  BY <1>6 DEF BlurRule, ExposureRule, TranslationRule
<1> QED
  BY <1>1, <1>2, <1>3, <1>4, <1>5, <1>7

\* What the checks compare with the limits.
LEMMA ContextTaken ==
    ASSUME NEW signals, NEW intervals, Measurement(signals, intervals)
    PROVE  LET context == Context(signals, intervals)
           IN /\ \A limit \in {"blurry", "exposure", "translation"} :
                    Within(context, limit) <=> Percent[signals[limit]] <= Policy[limit]
              /\ \A limit \in {"repetition", "rotation"} :
                    Within(context, limit) <=> signals[limit] <= Policy[limit]
              /\ Covered(context) = PassIf(signals["covered"] = 0)
              /\ \A limit \in {"hands", "idle"} :
                    /\ context.intervals[limit].low = Percent[intervals[limit].low]
                    /\ context.intervals[limit].high = Percent[intervals[limit].high]
<1>1. signals["covered"] = 0 \/ signals["covered"] = 1
  BY DEF Measurement
<1>2. Covered(Context(signals, intervals)) = PassIf(~(signals["covered"] = 1))
  BY DEF Covered, Context
<1>3. \A limit \in {"hands", "idle"} :
        /\ Context(signals, intervals).intervals[limit].low = Percent[intervals[limit].low]
        /\ Context(signals, intervals).intervals[limit].high = Percent[intervals[limit].high]
  BY DEF Context
<1>4. \A limit \in Limits : Context(signals, intervals).measured[limit] =
            IF limit \in Percentages THEN Percent[signals[limit]] ELSE signals[limit]
  BY DEF Context
<1>5. Covered(Context(signals, intervals)) = PassIf(signals["covered"] = 0)
  BY <1>1, <1>2 DEF PassIf
<1> HIDE DEF Context
<1> QED
  BY <1>3, <1>4, <1>5 DEF Within, Limits, Percentages

\* Rule and check find the same, unless the measurement is on the limit.
LEMMA JudgesAgree ==
    ASSUME NEW signals, NEW intervals, Measurement(signals, intervals)
    PROVE  LET context == Context(signals, intervals)
               Out(rule) == IntervalOutcome(rule, signals, intervals)
               Off(reason) == reason \notin OnLimit(signals, intervals)
           IN /\ Off("hands-visible") => Out(HandsRule) = HandsVisible(context)
              /\ Off("extended-idle") => Out(IdleRule) = WorkerIdle(context)
              /\ Out(RepetitionRule) = PassIf(Within(context, "repetition"))
              /\ Out(CorruptRule) = "pass"
              /\ Out(CoveredRule) = Covered(context)
              /\ Off("blur-warning") => Out(BlurRule) = PassIf(Within(context, "blurry"))
              /\ Off("exposure-warning") =>
                    Out(ExposureRule) = PassIf(Within(context, "exposure"))
              /\ Off("translation-shake") =>
                    Out(TranslationRule) = PassIf(Within(context, "translation"))
              /\ Out(RotationRule) = PassIf(Within(context, "rotation"))
<1> DEFINE context == Context(signals, intervals)
           Out(rule) == IntervalOutcome(rule, signals, intervals)
           Off(reason) == reason \notin OnLimit(signals, intervals)
           OffAt(value, limit) == /\ Percent[value] # Policy[limit]
                                  /\ value # Fraction[Policy[limit]]
<1>a. \A s \in Signals \ {"covered"} : signals[s] \in Floats
  BY DEF Measurement
<1>b. \A s \in {"hands", "idle"} : intervals[s].low \in Floats /\ intervals[s].high \in Floats
  BY DEF Measurement
<1>c. /\ Off("hands-visible") =>
            OffAt(intervals["hands"].low, "hands") /\ OffAt(intervals["hands"].high, "hands")
      /\ Off("extended-idle") =>
            OffAt(intervals["idle"].low, "idle") /\ OffAt(intervals["idle"].high, "idle")
      /\ Off("translation-shake") => OffAt(signals["translation"], "translation")
      /\ Off("blur-warning") => OffAt(signals["blurry"], "blurry")
      /\ Off("exposure-warning") => OffAt(signals["exposure"], "exposure")
  BY DEF OnLimit, Limited
<1>d. \A limit \in Percentages : /\ Policy[limit] \in Floats /\ Policy[limit] \in Nat
                                 /\ Fraction[Policy[limit]] \in Nat
  BY FloatsTyped, Converted DEF Percentages, Limits
<1> HIDE DEF Off
<1>1. ASSUME Off("hands-visible") PROVE Out(HandsRule) = HandsVisible(context)
  <2> DEFINE low == intervals["hands"].low
             high == intervals["hands"].high
             limit == Policy["hands"]
  <2>1. /\ low \in Floats /\ high \in Floats /\ limit \in Floats
        /\ Percent[low] # limit /\ low # Fraction[limit]
        /\ Percent[high] # limit /\ high # Fraction[limit]
    BY <1>1, <1>b, <1>c, <1>d DEF Percentages
  <2>2. /\ HandsVisible(context) = IF Percent[low] >= limit THEN "pass"
                                   ELSE IF Percent[high] < limit THEN "fail" ELSE "uncertain"
        /\ Out(HandsRule) = IF low >= Fraction[limit] THEN "pass"
                            ELSE IF high < Fraction[limit] THEN "fail" ELSE "uncertain"
    BY ContextTaken, RuleOutcomes DEF HandsVisible, MinimumOutcome
  <2> HIDE DEF low, high, limit
  <2>3. /\ Percent[low] >= limit <=> low >= Fraction[limit]
        /\ Percent[high] >= limit <=> high >= Fraction[limit]
    BY <2>1, OffTheLimit
  <2>4. /\ Percent[high] \in Nat /\ limit \in Nat /\ high \in Nat /\ Fraction[limit] \in Nat
    BY <2>1, FloatsTyped, Converted
  <2> QED
    BY <2>2, <2>3, <2>4
<1>2. ASSUME Off("extended-idle") PROVE Out(IdleRule) = WorkerIdle(context)
  <2> DEFINE low == intervals["idle"].low
             high == intervals["idle"].high
             limit == Policy["idle"]
  <2>1. /\ low \in Floats /\ high \in Floats /\ limit \in Floats
        /\ Percent[low] # limit /\ low # Fraction[limit]
        /\ Percent[high] # limit /\ high # Fraction[limit]
    BY <1>2, <1>b, <1>c, <1>d DEF Percentages
  <2>2. /\ WorkerIdle(context) = IF Percent[high] <= limit THEN "pass"
                                 ELSE IF Percent[low] > limit THEN "fail" ELSE "uncertain"
        /\ Out(IdleRule) = IF high <= Fraction[limit] THEN "pass"
                           ELSE IF low > Fraction[limit] THEN "fail" ELSE "uncertain"
    BY ContextTaken, RuleOutcomes DEF WorkerIdle, MaximumOutcome
  <2> HIDE DEF low, high, limit
  <2>3. /\ Percent[low] <= limit <=> low <= Fraction[limit]
        /\ Percent[high] <= limit <=> high <= Fraction[limit]
    BY <2>1, OffTheLimit
  <2>4. /\ Percent[low] \in Nat /\ limit \in Nat /\ low \in Nat /\ Fraction[limit] \in Nat
    BY <2>1, FloatsTyped, Converted
  <2> QED
    BY <2>2, <2>3, <2>4
<1>3. /\ Out(RepetitionRule) = PassIf(Within(context, "repetition"))
      /\ Out(RotationRule) = PassIf(Within(context, "rotation"))
  <2>1. /\ Within(context, "repetition") = (signals["repetition"] <= Policy["repetition"])
        /\ Within(context, "rotation") = (signals["rotation"] <= Policy["rotation"])
    BY ContextTaken DEF Within
  <2> QED
    BY <2>1, RuleOutcomes
<1>4. ASSUME NEW limit \in {"blurry", "exposure", "translation"}, OffAt(signals[limit], limit)
      PROVE  PassIf(signals[limit] <= Fraction[Policy[limit]]) = PassIf(Within(context, limit))
  <2>1. signals[limit] \in Floats /\ Policy[limit] \in Floats
    BY <1>a, <1>d DEF Signals, Percentages
  <2>2. Percent[signals[limit]] <= Policy[limit] <=> signals[limit] <= Fraction[Policy[limit]]
    BY <1>4, <2>1, OffTheLimit
  <2>3. Within(context, limit) <=> Percent[signals[limit]] <= Policy[limit]
    BY ContextTaken
  <2> QED
    BY <2>2, <2>3 DEF PassIf
<1>5. Out(CorruptRule) = "pass" /\ Out(CoveredRule) = Covered(context)
  BY ContextTaken, RuleOutcomes
<1> HIDE DEF context, OffAt
<1>6. /\ Off("blur-warning") => Out(BlurRule) = PassIf(Within(context, "blurry"))
      /\ Off("exposure-warning") => Out(ExposureRule) = PassIf(Within(context, "exposure"))
      /\ Off("translation-shake") =>
            Out(TranslationRule) = PassIf(Within(context, "translation"))
  BY <1>4, <1>c, RuleOutcomes
<1> QED
  BY <1>1, <1>2, <1>3, <1>5, <1>6 DEF context, Off

\* A video that keeps the limits keeps every rule and every check.
LEMMA LimitsKept ==
    ASSUME NEW signals, NEW intervals, Measurement(signals, intervals),
           Meets(signals, intervals)
    PROVE  LET context == Context(signals, intervals)
           IN /\ \A rule \in Rejects : IntervalOutcome(rule, signals, intervals) = "pass"
              /\ Covered(context) = "pass" /\ HandsVisible(context) = "pass"
              /\ WorkerIdle(context) = "pass"
              /\ \A limit \in {"repetition", "translation", "rotation"} : Within(context, limit)
<1> DEFINE context == Context(signals, intervals)
           Out(rule) == IntervalOutcome(rule, signals, intervals)
<1>1. /\ intervals["hands"].low \in Floats /\ intervals["idle"].high \in Floats
      /\ signals["translation"] \in Floats
  BY DEF Measurement, Signals
<1>2. Policy["hands"] \in Floats /\ Policy["idle"] \in Floats /\ Policy["translation"] \in Floats
  BY FloatsTyped DEF Limits
<1>3. /\ Percent[intervals["hands"].low] >= Policy["hands"]
      /\ intervals["hands"].low >= Fraction[Policy["hands"]]
      /\ Percent[intervals["idle"].high] <= Policy["idle"]
      /\ intervals["idle"].high <= Fraction[Policy["idle"]]
      /\ Percent[signals["translation"]] <= Policy["translation"]
      /\ signals["translation"] <= Fraction[Policy["translation"]]
  BY <1>1, <1>2, Converted DEF Meets
<1>4. /\ signals["covered"] = 0 /\ signals["repetition"] <= Policy["repetition"]
      /\ signals["rotation"] <= Policy["rotation"]
  BY DEF Meets
<1>5. /\ Out(HandsRule) = "pass" /\ Out(IdleRule) = "pass" /\ Out(RepetitionRule) = "pass"
      /\ Out(CorruptRule) = "pass" /\ Out(CoveredRule) = "pass" /\ Out(RotationRule) = "pass"
      /\ Out(TranslationRule) = "pass"
  <2> HIDE DEF Out
  <2> QED
    BY <1>3, <1>4, RuleOutcomes DEF Out, MinimumOutcome, MaximumOutcome, PassIf
<1>6. /\ Covered(context) = "pass" /\ HandsVisible(context) = "pass"
      /\ WorkerIdle(context) = "pass"
  <2> HIDE DEF context
  <2> QED
    BY <1>3, <1>4, ContextTaken
       DEF context, HandsVisible, WorkerIdle, MinimumOutcome, MaximumOutcome, PassIf
<1>7. \A limit \in {"repetition", "translation", "rotation"} : Within(context, limit)
  <2> HIDE DEF context
  <2> QED
    BY <1>3, <1>4, ContextTaken DEF context
<1> QED
  BY <1>5, <1>6, <1>7 DEF Rejects

\* The rules that reject, in the terms of the checks.
LEMMA RejectingFound ==
    ASSUME NEW signals, NEW intervals, Measurement(signals, intervals),
           OnLimit(signals, intervals) \subseteq {"blur-warning", "exposure-warning"},
           NEW outcome \in {"fail", "uncertain"}
    PROVE  LET context == Context(signals, intervals)
           IN Rejecting(ByRules(signals, intervals), outcome) # {} <=>
                \/ HandsVisible(context) = outcome
                \/ WorkerIdle(context) = outcome
                \/ PassIf(Within(context, "repetition")) = outcome
                \/ Covered(context) = outcome
                \/ PassIf(Within(context, "translation")) = outcome
                \/ PassIf(Within(context, "rotation")) = outcome
<1> DEFINE Out(rule) == IntervalOutcome(rule, signals, intervals)
<1>1. /\ DOMAIN ByRules(signals, intervals) = ApiRules
      /\ \A rule \in ApiRules : ByRules(signals, intervals)[rule] = Out(rule)
  BY DEF ByRules, Outcomes
<1>2. Rejecting(ByRules(signals, intervals), outcome) # {} <=>
            \E rule \in ApiRules : rule.reject /\ Out(rule) = outcome
  BY <1>1 DEF Rejecting
<1>3. (\E rule \in ApiRules : rule.reject /\ Out(rule) = outcome) <=>
            \E rule \in Rejects : Out(rule) = outcome
  BY RulesNamed
<1>4. (\E rule \in Rejects : Out(rule) = outcome) <=>
            \/ Out(HandsRule) = outcome \/ Out(IdleRule) = outcome
            \/ Out(RepetitionRule) = outcome \/ Out(CorruptRule) = outcome
            \/ Out(CoveredRule) = outcome \/ Out(TranslationRule) = outcome
            \/ Out(RotationRule) = outcome
  BY DEF Rejects
<1> HIDE DEF Out
<1>5. /\ "hands-visible" \notin OnLimit(signals, intervals)
      /\ "extended-idle" \notin OnLimit(signals, intervals)
      /\ "translation-shake" \notin OnLimit(signals, intervals)
  OBVIOUS
<1>6. "pass" # outcome
  OBVIOUS
<1> QED
  BY <1>2, <1>3, <1>4, <1>5, <1>6, JudgesAgree DEF Out

\* What the policy asks, and what it finds.
LEMMA ChecksFound ==
    ASSUME NEW signals, NEW intervals,
           NEW outcome \in {"fail", "uncertain"}
    PROVE  LET context == Context(signals, intervals)
           IN (\E check \in Checks : ByPolicy(signals, intervals)[check] = outcome) <=>
                \/ Covered(context) = outcome
                \/ Steadiness(context) = outcome
                \/ Covered(context) = "pass" /\ HandsVisible(context) = outcome
                \/ /\ Covered(context) = "pass" /\ HandsVisible(context) = "pass"
                   /\ \/ WorkerIdle(context) = outcome
                      \/ PassIf(Within(context, "repetition")) = outcome
<1> DEFINE context == Context(signals, intervals)
           Finding(check) == IF Asked(context, check) THEN Evaluated(context, check)
                           ELSE "not_applicable"
<1>1. \A check \in Checks : ByPolicy(signals, intervals)[check] = Finding(check)
  BY DEF ByPolicy, CheckOutcomes
<1> HIDE DEF context
<1>2. Finding("camera_covered") = Covered(context)
  BY DEF Asked, Evaluated
<1>3. Finding("camera_steadiness") = Steadiness(context)
  BY DEF Asked, Evaluated
<1>4. Finding("hands_visible") = IF Covered(context) = "pass" THEN HandsVisible(context)
                               ELSE "not_applicable"
  BY DEF Asked, Evaluated
<1>5. Finding("worker_idle") =
        IF Covered(context) = "pass" /\ HandsVisible(context) = "pass" THEN WorkerIdle(context)
        ELSE "not_applicable"
  BY DEF Asked, Evaluated, Warnings
<1>6. Finding("repetitive_motion") =
        IF Covered(context) = "pass" /\ HandsVisible(context) = "pass"
        THEN PassIf(Within(context, "repetition")) ELSE "not_applicable"
  BY DEF Asked, Evaluated, Warnings
<1> HIDE DEF Finding
<1>7. (\E check \in Checks : Finding(check) = outcome) <=>
            \/ Finding("camera_covered") = outcome \/ Finding("hands_visible") = outcome
            \/ Finding("worker_idle") = outcome \/ Finding("camera_steadiness") = outcome
            \/ Finding("repetitive_motion") = outcome
  BY DEF Checks
<1>8. "not_applicable" # outcome
  OBVIOUS
<1>9. (\E check \in Checks : Finding(check) = outcome) <=>
                \/ Covered(context) = outcome
                \/ Steadiness(context) = outcome
                \/ Covered(context) = "pass" /\ HandsVisible(context) = outcome
                \/ /\ Covered(context) = "pass" /\ HandsVisible(context) = "pass"
                   /\ \/ WorkerIdle(context) = outcome
                      \/ PassIf(Within(context, "repetition")) = outcome
  BY <1>2, <1>3, <1>4, <1>5, <1>6, <1>7, <1>8
<1> QED
  BY <1>1, <1>9 DEF context

\* Off the limits the rules and the checks come to the same verdict, but for unclear hands.
LEMMA VerdictsOffLimits ==
    ASSUME NEW signals, NEW intervals, Measurement(signals, intervals),
           OnLimit(signals, intervals) \subseteq {"blur-warning", "exposure-warning"}
    PROVE  LET rules == RulesVerdict(ByRules(signals, intervals))
               checks == PolicyVerdict(ByPolicy(signals, intervals))
           IN /\ rules = "good" <=> checks = "good"
              /\ checks = "bad" => rules = "bad"
              /\ rules = "bad" /\ checks # "bad" =>
                    ByPolicy(signals, intervals)["hands_visible"] = "uncertain"
<1> DEFINE context == Context(signals, intervals)
           rules == RulesVerdict(ByRules(signals, intervals))
           checks == PolicyVerdict(ByPolicy(signals, intervals))
           Failing == \/ HandsVisible(context) = "fail" \/ WorkerIdle(context) = "fail"
                      \/ ~Within(context, "repetition") \/ Covered(context) = "fail"
                      \/ ~Within(context, "translation") \/ ~Within(context, "rotation")
           Unclear == HandsVisible(context) = "uncertain" \/ WorkerIdle(context) = "uncertain"
           Steady == Within(context, "translation") /\ Within(context, "rotation")
           Refused == \/ Covered(context) = "fail" \/ ~Steady
                      \/ Covered(context) = "pass" /\ HandsVisible(context) = "fail"
                      \/ /\ Covered(context) = "pass" /\ HandsVisible(context) = "pass"
                         /\ \/ WorkerIdle(context) = "fail"
                            \/ ~Within(context, "repetition")
           Doubted == \/ Covered(context) = "pass" /\ HandsVisible(context) = "uncertain"
                      \/ /\ Covered(context) = "pass" /\ HandsVisible(context) = "pass"
                         /\ WorkerIdle(context) = "uncertain"
<1>1. /\ \A b \in BOOLEAN : PassIf(b) = "fail" <=> ~b
      /\ \A b \in BOOLEAN : PassIf(b) \in {"pass", "fail"}
  BY DEF PassIf
<1>2. \A limit \in Limits : Within(context, limit) \in BOOLEAN
  BY DEF Within
<1>3. /\ Covered(context) \in {"pass", "fail"}
      /\ HandsVisible(context) \in {"pass", "fail", "uncertain"}
      /\ WorkerIdle(context) \in {"pass", "fail", "uncertain"}
  BY DEF Covered, PassIf, HandsVisible, WorkerIdle, MinimumOutcome, MaximumOutcome
<1>4. Steadiness(context) = IF Steady THEN "pass" ELSE "fail"
  BY DEF Steadiness, PassIf
<1>5. /\ Rejecting(ByRules(signals, intervals), "fail") # {} <=> Failing
      /\ Rejecting(ByRules(signals, intervals), "uncertain") # {} <=> Unclear
  <2> HIDE DEF context
  <2>1. \A limit \in {"repetition", "translation", "rotation"} :
            /\ PassIf(Within(context, limit)) = "fail" <=> ~Within(context, limit)
            /\ PassIf(Within(context, limit)) # "uncertain"
    BY <1>1, <1>2 DEF Limits
  <2> QED
    BY <1>3, <2>1, RejectingFound DEF context
<1>6. /\ (\E check \in Checks : ByPolicy(signals, intervals)[check] = "fail") <=> Refused
      /\ (\E check \in Checks : ByPolicy(signals, intervals)[check] = "uncertain") <=> Doubted
  <2> HIDE DEF context
  <2>1. /\ PassIf(Within(context, "repetition")) = "fail" <=> ~Within(context, "repetition")
        /\ PassIf(Within(context, "repetition")) # "uncertain"
    BY <1>1, <1>2 DEF Limits
  <2> QED
    BY <1>3, <1>4, <2>1, ChecksFound DEF context
<1>7. ByPolicy(signals, intervals)["hands_visible"] =
        IF Covered(context) = "pass" THEN HandsVisible(context) ELSE "not_applicable"
  BY DEF ByPolicy, CheckOutcomes, Checks, Asked, Evaluated
<1>8. /\ rules = IF Failing THEN "bad" ELSE IF Unclear THEN "uncertain" ELSE "good"
      /\ checks = IF Refused THEN "bad" ELSE IF Doubted THEN "uncertain" ELSE "good"
  BY <1>5, <1>6 DEF RulesVerdict, PolicyVerdict
<1> HIDE DEF context, rules, checks
<1>9. /\ rules = "good" <=> checks = "good"
      /\ checks = "bad" => rules = "bad"
      /\ rules = "bad" /\ checks # "bad" =>
            Covered(context) = "pass" /\ HandsVisible(context) = "uncertain"
  BY <1>3, <1>8
<1> QED
  BY <1>7, <1>9 DEF context, rules, checks

\* The API throws away what the rules say of a video and keeps what its checks say: for
\* every policy and every measurement both accept a video that keeps the limits, and off
\* the limits both accept the same videos, and only unclear hands come between a rule's
\* rejection and the checks'.
THEOREM RoutesAlwaysAgree ==
    ASSUME NEW signals, NEW intervals, Measurement(signals, intervals)
    PROVE  VerdictsAgree(signals, intervals)
<1> DEFINE context == Context(signals, intervals)
<1>1. ASSUME Meets(signals, intervals)
      PROVE  /\ RulesVerdict(ByRules(signals, intervals)) = "good"
             /\ PolicyVerdict(ByPolicy(signals, intervals)) = "good"
  <2>1. \A rule \in Rejects : IntervalOutcome(rule, signals, intervals) = "pass"
    BY <1>1, LimitsKept
  <2>2. /\ Rejecting(ByRules(signals, intervals), "fail") = {}
        /\ Rejecting(ByRules(signals, intervals), "uncertain") = {}
    <3>1. \A rule \in ApiRules : rule.reject => ByRules(signals, intervals)[rule] = "pass"
      BY <2>1, RulesNamed DEF ByRules, Outcomes
    <3>2. DOMAIN ByRules(signals, intervals) = ApiRules
      BY DEF ByRules, Outcomes
    <3> QED
      BY <3>1, <3>2 DEF Rejecting
  <2>3. /\ Covered(context) = "pass" /\ HandsVisible(context) = "pass"
        /\ WorkerIdle(context) = "pass" /\ Steadiness(context) = "pass"
        /\ PassIf(Within(context, "repetition")) = "pass"
    BY <1>1, LimitsKept DEF Steadiness, PassIf
  <2>4. \A outcome \in {"fail", "uncertain"} :
            ~(\E check \in Checks : ByPolicy(signals, intervals)[check] = outcome)
    <3> SUFFICES ASSUME NEW outcome \in {"fail", "uncertain"}
                 PROVE  ~(\E check \in Checks : ByPolicy(signals, intervals)[check] = outcome)
      OBVIOUS
    <3>1. "pass" # outcome
      OBVIOUS
    <3> HIDE DEF context
    <3> QED
      BY <2>3, <3>1, ChecksFound DEF context
  <2> QED
    BY <2>2, <2>4 DEF RulesVerdict, PolicyVerdict
<1>2. OnLimit(signals, intervals) \subseteq {"blur-warning", "exposure-warning"} =>
        LET rules == RulesVerdict(ByRules(signals, intervals))
            checks == PolicyVerdict(ByPolicy(signals, intervals))
        IN /\ rules = "good" <=> checks = "good"
           /\ checks = "bad" => rules = "bad"
           /\ rules = "bad" /\ checks # "bad" =>
                 ByPolicy(signals, intervals)["hands_visible"] = "uncertain"
  BY VerdictsOffLimits
<1> QED
  BY <1>1, <1>2 DEF VerdictsAgree

RejectIds == {"hands-visible", "extended-idle", "repetitive-motion", "corrupt-video",
              "black-covered", "translation-shake", "rotation-shake"}

LEMMA IdsNamed ==
    /\ HandsRule.id = "hands-visible"
    /\ IdleRule.id = "extended-idle"
    /\ RepetitionRule.id = "repetitive-motion"
    /\ CorruptRule.id = "corrupt-video"
    /\ CoveredRule.id = "black-covered"
    /\ TranslationRule.id = "translation-shake"
    /\ RotationRule.id = "rotation-shake"
    /\ BlurRule.id = "blur-warning"
    /\ ExposureRule.id = "exposure-warning"
  BY DEF Rule, HandsRule, IdleRule, RepetitionRule, CorruptRule, CoveredRule, BlurRule,
         ExposureRule, TranslationRule, RotationRule

LEMMA RejectIdsNamed == {rule.id : rule \in {r \in ApiRules : r.reject}} = RejectIds
<1>1. {r \in ApiRules : r.reject} = Rejects
  BY RulesNamed
<1>2. {rule.id : rule \in Rejects} = RejectIds
  BY IdsNamed DEF Rejects, RejectIds
<1> QED
  BY <1>1, <1>2

\* What the runner makes of the checks' outcomes.
LEMMA LegacyFound ==
    ASSUME NEW context
    PROVE  /\ LegacyOutcome(context, "black-covered") = Covered(context)
           /\ LegacyOutcome(context, "hands-visible") =
                IF Covered(context) = "pass" THEN HandsVisible(context) ELSE "not_applicable"
           /\ LegacyOutcome(context, "extended-idle") =
                IF Covered(context) = "pass" /\ HandsVisible(context) = "pass"
                THEN WorkerIdle(context) ELSE "not_applicable"
           /\ LegacyOutcome(context, "repetitive-motion") =
                IF Covered(context) = "pass" /\ HandsVisible(context) = "pass"
                THEN PassIf(Within(context, "repetition")) ELSE "not_applicable"
           /\ LegacyOutcome(context, "blur-warning") =
                IF Covered(context) = "pass" THEN PassIf(Within(context, "blurry"))
                ELSE "not_applicable"
           /\ LegacyOutcome(context, "exposure-warning") =
                IF Covered(context) = "pass" THEN PassIf(Within(context, "exposure"))
                ELSE "not_applicable"
           /\ LegacyOutcome(context, "translation-shake") = PassIf(Within(context, "translation"))
           /\ LegacyOutcome(context, "rotation-shake") = PassIf(Within(context, "rotation"))
<1> DEFINE Finding(check) == IF Asked(context, check) THEN Evaluated(context, check)
                           ELSE "not_applicable"
<1>1. \A check \in Checks \cup Warnings : CheckOutcomes(context)[check] = Finding(check)
  BY DEF CheckOutcomes
<1>2. /\ CheckOfReason["black-covered"] = "camera_covered"
      /\ CheckOfReason["hands-visible"] = "hands_visible"
      /\ CheckOfReason["extended-idle"] = "worker_idle"
      /\ CheckOfReason["repetitive-motion"] = "repetitive_motion"
      /\ CheckOfReason["blur-warning"] = "blurry"
      /\ CheckOfReason["exposure-warning"] = "bad_exposure"
  BY DEF CheckOfReason, ShakeReasons
<1>3. \A reason \in DOMAIN CheckOfReason \ ShakeReasons :
        LegacyOutcome(context, reason) = CheckOutcomes(context)[CheckOfReason[reason]]
  BY DEF LegacyOutcome, ShakeReasons, CheckOfReason
<1>4. /\ LegacyOutcome(context, "translation-shake") = PassIf(Within(context, "translation"))
      /\ LegacyOutcome(context, "rotation-shake") = PassIf(Within(context, "rotation"))
  BY DEF LegacyOutcome, ShakeReasons
<1>5. DOMAIN CheckOfReason \ ShakeReasons =
        {"black-covered", "hands-visible", "extended-idle", "repetitive-motion", "blur-warning",
         "exposure-warning"}
  BY DEF CheckOfReason, ShakeReasons
<1>6. /\ Finding("camera_covered") = Covered(context)
      /\ Finding("hands_visible") =
            IF Covered(context) = "pass" THEN HandsVisible(context) ELSE "not_applicable"
      /\ Finding("blurry") =
            IF Covered(context) = "pass" THEN PassIf(Within(context, "blurry"))
            ELSE "not_applicable"
      /\ Finding("bad_exposure") =
            IF Covered(context) = "pass" THEN PassIf(Within(context, "exposure"))
            ELSE "not_applicable"
  BY DEF Asked, Evaluated, Warnings
<1>7. /\ Finding("worker_idle") =
            IF Covered(context) = "pass" /\ HandsVisible(context) = "pass"
            THEN WorkerIdle(context) ELSE "not_applicable"
      /\ Finding("repetitive_motion") =
            IF Covered(context) = "pass" /\ HandsVisible(context) = "pass"
            THEN PassIf(Within(context, "repetition")) ELSE "not_applicable"
  BY DEF Asked, Evaluated, Warnings
<1>8. {"camera_covered", "hands_visible", "worker_idle", "repetitive_motion", "blurry",
       "bad_exposure"} \subseteq Checks \cup Warnings
  BY DEF Checks, Warnings
<1> HIDE DEF Finding
<1>9. /\ LegacyOutcome(context, "black-covered") = Finding("camera_covered")
      /\ LegacyOutcome(context, "hands-visible") = Finding("hands_visible")
      /\ LegacyOutcome(context, "extended-idle") = Finding("worker_idle")
      /\ LegacyOutcome(context, "repetitive-motion") = Finding("repetitive_motion")
      /\ LegacyOutcome(context, "blur-warning") = Finding("blurry")
      /\ LegacyOutcome(context, "exposure-warning") = Finding("bad_exposure")
  <2>1. \A reason \in DOMAIN CheckOfReason \ ShakeReasons :
            CheckOfReason[reason] \in Checks \cup Warnings =>
                LegacyOutcome(context, reason) = Finding(CheckOfReason[reason])
    BY <1>1, <1>3
  <2> QED
    BY <1>2, <1>5, <1>8, <2>1
<1> QED
  BY <1>4, <1>6, <1>7, <1>9

\* Every rejection has its reasons, the runner's reasons are the rules' own unless the
\* measurement is on its limit, and the hours of good video count no video that a rule rejects.
THEOREM ReasonsAlwaysAgree ==
    ASSUME NEW signals, NEW intervals, Measurement(signals, intervals)
    PROVE  ReasonsAgree(signals, intervals)
<1> DEFINE context == Context(signals, intervals)
           rules == ByRules(signals, intervals)
           legacy == LegacyReasons(context)
           Out(rule) == IntervalOutcome(rule, signals, intervals)
           L(reason) == LegacyOutcome(context, reason)
<1>1. /\ DOMAIN rules = ApiRules
      /\ \A rule \in ApiRules : rules[rule] = Out(rule)
  BY DEF Outcomes, ByRules
<1>2. Rejecting(rules, "fail") \cup Rejecting(rules, "uncertain") \subseteq Rejects
  BY <1>1, RulesNamed DEF Rejecting
<1>3. \A rule \in Rejects : rule.id \in RejectIds
  BY IdsNamed DEF Rejects, RejectIds
<1>4. RulesVerdict(rules) # "good" => Reasons(rules) \cap RejectIds # {}
  <2>1. CASE Rejecting(rules, "fail") # {}
    <3>1. PICK rule \in ApiRules : rule \in Rejects /\ rules[rule] = "fail"
      BY <1>1, <1>2, <2>1, RulesNamed DEF Rejecting
    <3>2. rule.id \in Reasons(rules)
      BY <1>1, <3>1 DEF Reasons
    <3> QED
      BY <1>3, <3>1, <3>2
  <2>2. CASE Rejecting(rules, "fail") = {} /\ Rejecting(rules, "uncertain") # {}
    <3>1. PICK rule \in Rejects : rule \in Rejecting(rules, "uncertain")
      BY <1>2, <2>2
    <3>2. rule.id \in Reasons(rules)
      BY <2>2, <3>1 DEF Reasons
    <3> QED
      BY <1>3, <3>1, <3>2
  <2> QED
    BY <2>1, <2>2 DEF RulesVerdict
<1>5. RulesVerdict(rules) = "good" => Reasons(rules) \cap RejectIds = {}
  <2> SUFFICES ASSUME RulesVerdict(rules) = "good" PROVE Reasons(rules) \cap RejectIds = {}
    OBVIOUS
  <2>1. Rejecting(rules, "fail") = {} /\ Rejecting(rules, "uncertain") = {}
    BY DEF RulesVerdict
  <2>2. Reasons(rules) = {rule.id : rule \in {r \in ApiRules : rules[r] = "fail"}}
    BY <1>1, <2>1 DEF Reasons
  <2>3. {r \in ApiRules : rules[r] = "fail"} \subseteq {BlurRule, ExposureRule}
    BY <1>1, <2>1, RulesNamed DEF Rejecting
  <2>4. BlurRule.id \notin RejectIds /\ ExposureRule.id \notin RejectIds
    BY IdsNamed DEF RejectIds
  <2> QED
    BY <2>2, <2>3, <2>4
<1>6. DOMAIN CheckOfReason = {"black-covered", "hands-visible", "extended-idle",
        "translation-shake", "rotation-shake", "repetitive-motion", "blur-warning",
        "exposure-warning"}
  BY DEF CheckOfReason
<1>7. PolicyVerdict(ByPolicy(signals, intervals)) = "bad" <=> legacy \cap RejectIds # {}
  <2> HIDE DEF context
  <2>1. PolicyVerdict(ByPolicy(signals, intervals)) = "bad" <=>
            \E check \in Checks : ByPolicy(signals, intervals)[check] = "fail"
    BY DEF PolicyVerdict
  <2>2. legacy \cap RejectIds # {} <=>
            \/ L("black-covered") = "fail" \/ L("hands-visible") = "fail"
            \/ L("extended-idle") = "fail" \/ L("translation-shake") = "fail"
            \/ L("rotation-shake") = "fail" \/ L("repetitive-motion") = "fail"
    <3> HIDE DEF L
    <3>1. legacy = {reason \in DOMAIN CheckOfReason : L(reason) = "fail"}
      BY DEF LegacyReasons, L
    <3> HIDE DEF legacy
    <3> QED
      BY <1>6, <3>1 DEF RejectIds
  <2>3. Steadiness(context) = "fail" <=>
            \/ PassIf(Within(context, "translation")) = "fail"
            \/ PassIf(Within(context, "rotation")) = "fail"
    BY DEF Steadiness, PassIf
  <2>4. "not_applicable" # "fail"
    OBVIOUS
  <2> QED
    BY <2>1, <2>2, <2>3, <2>4, ChecksFound, LegacyFound DEF context
<1>8. legacy \ OnLimit(signals, intervals) \subseteq Reasons(rules)
  <2>1. \A rule \in ApiRules : Out(rule) = "fail" => rule.id \in Reasons(rules)
    BY <1>1 DEF Reasons
  <2>2. \A rule \in {HandsRule, IdleRule, RepetitionRule, CoveredRule, BlurRule, ExposureRule,
                     TranslationRule, RotationRule} : rule \in ApiRules
    BY RulesNamed DEF Rejects
  <2> DEFINE Off(reason) == reason \notin OnLimit(signals, intervals)
  <2> HIDE DEF context, Out, rules, Off
  <2>3. /\ L("black-covered") = "fail" => Out(CoveredRule) = "fail"
        /\ Off("hands-visible") /\ L("hands-visible") = "fail" => Out(HandsRule) = "fail"
        /\ Off("extended-idle") /\ L("extended-idle") = "fail" => Out(IdleRule) = "fail"
        /\ L("repetitive-motion") = "fail" => Out(RepetitionRule) = "fail"
        /\ Off("blur-warning") /\ L("blur-warning") = "fail" => Out(BlurRule) = "fail"
        /\ Off("exposure-warning") /\ L("exposure-warning") = "fail" =>
                Out(ExposureRule) = "fail"
        /\ Off("translation-shake") /\ L("translation-shake") = "fail" =>
                Out(TranslationRule) = "fail"
        /\ L("rotation-shake") = "fail" => Out(RotationRule) = "fail"
    BY JudgesAgree, LegacyFound DEF context, Out, Off
  <2>4. \A reason \in DOMAIN CheckOfReason :
            L(reason) = "fail" /\ Off(reason) => reason \in Reasons(rules)
    <3> HIDE DEF L
    <3> QED
      BY <1>6, <2>1, <2>2, <2>3, IdsNamed
  <2> QED
    BY <2>4 DEF LegacyReasons, Off
<1>9. RulesVerdict(rules) = "good" => GlobalRejectsGood(ApiRules, signals)
  <2> SUFFICES ASSUME RulesVerdict(rules) = "good",
                      NEW rule \in ApiRules, rule.reject, rule.signal \notin {"hands", "idle"}
               PROVE  Compare(signals[rule.signal], rule.operator, rule.threshold)
    BY DEF GlobalRejectsGood
  <2>1. Rejecting(rules, "fail") = {} /\ Rejecting(rules, "uncertain") = {}
    BY DEF RulesVerdict
  <2>2. Out(rule) # "fail"
    BY <1>1, <2>1 DEF Rejecting
  <2>3. Out(rule) # "uncertain"
    BY <1>1, <2>1 DEF Rejecting
  <2>4. rule.signal # "speed"
    BY RulesNamed
       DEF Rejects, Rule, HandsRule, IdleRule, RepetitionRule, CorruptRule, CoveredRule,
           TranslationRule, RotationRule
  <2>5. Range95(rule, signals, intervals) =
            [low |-> signals[rule.signal], high |-> signals[rule.signal]]
    BY <2>4 DEF Range95, Measurement
  <2> QED
    BY <2>2, <2>3, <2>5 DEF IntervalOutcome
<1> QED
  BY <1>4, <1>5, <1>7, <1>8, <1>9, RejectIdsNamed DEF ReasonsAgree

------------------------------------------------------------------------------
(* The least and the greatest of a finite set of integers. *)

\* A greater element has more elements at or below it.
Rank(S, x) == Cardinality({y \in S : y <= x})

LEMMA RankGrows ==
    ASSUME NEW S \in SUBSET Int, IsFiniteSet(S), NEW x \in S, NEW y \in S, x < y
    PROVE  /\ Rank(S, x) \in Nat /\ Rank(S, y) \in Nat
           /\ Rank(S, x) < Rank(S, y) /\ Rank(S, y) <= Cardinality(S)
<1> DEFINE Below(z) == {w \in S : w <= z}
<1>1. \A z \in S : IsFiniteSet(Below(z)) /\ Cardinality(Below(z)) <= Cardinality(S)
  <2> SUFFICES ASSUME NEW z \in S
               PROVE  IsFiniteSet(Below(z)) /\ Cardinality(Below(z)) <= Cardinality(S)
    OBVIOUS
  <2>1. Below(z) \in SUBSET S
    OBVIOUS
  <2> HIDE DEF Below
  <2> QED
    BY <2>1, FS_Subset
<1>2. Below(x) \cup {y} \in SUBSET Below(y) /\ y \notin Below(x)
  <2>1. x \in Int /\ y \in Int /\ \A w \in S : w \in Int
    OBVIOUS
  <2>2. \A w \in S : w <= x => w <= y
    BY <2>1
  <2>3. y <= y /\ ~(y <= x)
    BY <2>1
  <2> QED
    BY <2>2, <2>3
<1> HIDE DEF Below
<1>3. Cardinality(Below(x) \cup {y}) = Cardinality(Below(x)) + 1
  BY <1>1, <1>2, FS_AddElement
<1>4. Cardinality(Below(x) \cup {y}) <= Cardinality(Below(y))
  BY <1>1, <1>2, FS_Subset
<1>5. Cardinality(Below(x)) \in Nat /\ Cardinality(Below(y)) \in Nat
  BY <1>1, FS_CardinalityType
<1>6. Rank(S, x) = Cardinality(Below(x)) /\ Rank(S, y) = Cardinality(Below(y))
  BY DEF Rank, Below
<1> QED
  BY <1>1, <1>3, <1>4, <1>5, <1>6

LEMMA RankTyped ==
    ASSUME NEW S \in SUBSET Int, IsFiniteSet(S), NEW x \in S
    PROVE  Rank(S, x) \in Nat /\ Rank(S, x) <= Cardinality(S) /\ Cardinality(S) \in Nat
<1>1. {y \in S : y <= x} \in SUBSET S
  OBVIOUS
<1> QED
  BY <1>1, FS_Subset, FS_CardinalityType DEF Rank

LEMMA MaxExact ==
    ASSUME NEW S \in SUBSET Int, IsFiniteSet(S), S # {}
    PROVE  Max(S) \in S /\ \A y \in S : y <= Max(S)
<1> DEFINE U == {Cardinality(S) - Rank(S, x) : x \in S}
<1>1. U \in SUBSET Nat /\ U # {}
  <2>1. ASSUME NEW x \in S PROVE Cardinality(S) - Rank(S, x) \in Nat
    <3>1. Rank(S, x) \in Nat /\ Rank(S, x) <= Cardinality(S) /\ Cardinality(S) \in Nat
      BY RankTyped
    <3> QED
      BY <3>1
  <2> QED
    BY <2>1
<1>2. PICK b \in U : \A m \in U : b <= m
  <2> HIDE DEF U
  <2> QED
    BY <1>1, NatLeast
<1>3. PICK x \in S : b = Cardinality(S) - Rank(S, x)
  OBVIOUS
<1>4. \A y \in S : y <= x
  <2>a. \A y \in S : y \in Int /\ x \in Int
    OBVIOUS
  <2> SUFFICES ASSUME NEW y \in S, x < y PROVE FALSE
    BY <2>a
  <2>1. b <= Cardinality(S) - Rank(S, y)
    BY <1>2
  <2>2. Rank(S, x) < Rank(S, y)
    BY RankGrows
  <2> QED
    BY <1>3, <2>1, <2>2, RankTyped
<1>5. \E z \in S : \A y \in S : z >= y
  BY <1>4
<1>6. Max(S) \in S /\ \A y \in S : Max(S) >= y
  BY <1>5 DEF Max
<1> QED
  BY <1>6

LEMMA MinExact ==
    ASSUME NEW S \in SUBSET Int, IsFiniteSet(S), S # {}
    PROVE  Min(S) \in S /\ \A y \in S : Min(S) <= y
<1> DEFINE U == {Rank(S, x) : x \in S}
<1>1. U \in SUBSET Nat /\ U # {}
  <2>1. ASSUME NEW x \in S PROVE Rank(S, x) \in Nat
    BY RankTyped
  <2> QED
    BY <2>1
<1>2. PICK b \in U : \A m \in U : b <= m
  <2> HIDE DEF U
  <2> QED
    BY <1>1, NatLeast
<1>3. PICK x \in S : b = Rank(S, x)
  OBVIOUS
<1>4. \A y \in S : x <= y
  <2>a. \A y \in S : y \in Int /\ x \in Int
    OBVIOUS
  <2> SUFFICES ASSUME NEW y \in S, y < x PROVE FALSE
    BY <2>a
  <2>1. b <= Rank(S, y)
    BY <1>2
  <2>2. Rank(S, y) < Rank(S, x)
    BY RankGrows
  <2> QED
    BY <1>3, <2>1, <2>2, RankTyped
<1>5. \E z \in S : \A y \in S : z <= y
  BY <1>4
<1>6. Min(S) \in S /\ \A y \in S : Min(S) <= y
  BY <1>5 DEF Min
<1> QED
  BY <1>6

\* What is greatest, or least, is the maximum or the minimum.
LEMMA MaxIs ==
    ASSUME NEW S \in SUBSET Int, NEW m \in S, \A x \in S : x <= m
    PROVE  Max(S) = m
<1>1. \E x \in S : \A y \in S : x >= y
  <2>1. \A y \in S : y \in Int /\ m \in Int
    OBVIOUS
  <2> QED
    BY <2>1
<1>2. Max(S) \in S /\ \A y \in S : Max(S) >= y
  BY <1>1 DEF Max
<1>3. Max(S) \in Int /\ m \in Int /\ Max(S) >= m /\ Max(S) <= m
  BY <1>2
<1> QED
  BY <1>3

LEMMA MinIs ==
    ASSUME NEW S \in SUBSET Int, NEW m \in S, \A x \in S : m <= x
    PROVE  Min(S) = m
<1>1. \E x \in S : \A y \in S : x <= y
  <2>1. \A y \in S : y \in Int /\ m \in Int
    OBVIOUS
  <2> QED
    BY <2>1
<1>2. Min(S) \in S /\ \A y \in S : Min(S) <= y
  BY <1>1 DEF Min
<1>3. Min(S) \in Int /\ m \in Int /\ Min(S) <= m /\ m <= Min(S)
  BY <1>2
<1> QED
  BY <1>3

------------------------------------------------------------------------------
(* Statistics of a series. *)

Values(series) == {series[i] : i \in Valid(series)}

LEMMA SeriesFinite ==
    ASSUME NEW series \in Seq(Int \cup {Missing})
    PROVE  /\ IsFiniteSet(Valid(series)) /\ Cardinality(Valid(series)) \in Nat
           /\ Values(series) \in SUBSET Int /\ IsFiniteSet(Values(series))
           /\ Values(series) # {} => Cardinality(Valid(series)) >= 1
<1> DEFINE Places == Valid(series)
           Vals == Values(series)
<1>1. Len(series) \in Nat /\ DOMAIN series = 1..Len(series)
      /\ \A i \in 1..Len(series) : series[i] \in Int \cup {Missing}
  BY LenProperties, ElementOfSeq
<1>2. Places \in SUBSET (1..Len(series))
  BY <1>1 DEF Valid
<1>3. IsFiniteSet(1..Len(series))
  BY <1>1, FS_Interval
<1>4. IsFiniteSet(Places) /\ Cardinality(Places) \in Nat
  <2> HIDE DEF Places
  <2> QED
    BY <1>2, <1>3, FS_Subset, FS_CardinalityType
<1>5. Vals \in SUBSET Int
  BY <1>1, <1>2 DEF Valid, Values
<1>6. [i \in Places |-> series[i]] \in Surjection(Places, Vals)
  BY DEF Surjection, Values
<1>7. IsFiniteSet(Vals)
  <2> HIDE DEF Places, Vals
  <2> QED
    BY <1>4, <1>6, FS_Surjection
<1>8. Vals # {} => Cardinality(Places) >= 1
  <2>1. Vals # {} => Places # {}
    BY DEF Values
  <2> HIDE DEF Places, Vals
  <2> QED
    BY <1>4, <2>1, FS_EmptySet
<1> QED
  BY <1>4, <1>5, <1>7, <1>8

\* The quantile's order statistics are values of the series.
LEMMA OrderExact ==
    ASSUME NEW series \in Seq(Int \cup {Missing}), NEW k \in Nat, k < Cardinality(Valid(series))
    PROVE  LET v == OrderStatistic(series, k)
           IN /\ v \in Values(series)
              /\ Cardinality({i \in Valid(series) : series[i] < v}) <= k
              /\ Cardinality({i \in Valid(series) : series[i] <= v}) > k
<1> DEFINE Places == Valid(series)
           Vals == Values(series)
           UpTo(v) == {i \in Places : series[i] <= v}
           Below(v) == {i \in Places : series[i] < v}
           Candidates == {v \in Vals : Cardinality(UpTo(v)) > k}
<1>1. /\ IsFiniteSet(Places) /\ Cardinality(Places) \in Nat
      /\ Vals \in SUBSET Int /\ IsFiniteSet(Vals)
  BY SeriesFinite
<1>2. \A i \in Places : series[i] \in Vals
  BY DEF Values
<1>3. Vals # {}
  <2>1. CASE Places = {}
    <3> HIDE DEF Places
    <3>1. Cardinality(Places) = 0
      BY <2>1, FS_EmptySet
    <3> QED
      BY <3>1 DEF Places
  <2>2. CASE Places # {}
    BY <1>2, <2>2
  <2> QED
    BY <2>1, <2>2
<1>4. Candidates # {}
  <2>1. Max(Vals) \in Vals /\ \A y \in Vals : y <= Max(Vals)
    <3> HIDE DEF Vals
    <3> QED
      BY <1>1, <1>3, MaxExact
  <2>2. UpTo(Max(Vals)) = Places
    BY <1>2, <2>1
  <2> QED
    BY <2>1, <2>2
<1>5. PICK v \in Candidates : \A w \in Candidates : v <= w
  <2>1. Candidates \in SUBSET Vals
    OBVIOUS
  <2> HIDE DEF Candidates, Vals
  <2>2. IsFiniteSet(Candidates) /\ Candidates \in SUBSET Int
    BY <1>1, <2>1, FS_Subset
  <2> QED
    BY <1>4, <2>2, MinExact
<1>6. \A w : IsFiniteSet(Below(w)) /\ Cardinality(Below(w)) \in Nat
  <2> SUFFICES ASSUME NEW w PROVE IsFiniteSet(Below(w)) /\ Cardinality(Below(w)) \in Nat
    OBVIOUS
  <2>1. Below(w) \in SUBSET Places
    OBVIOUS
  <2> HIDE DEF Below, Places
  <2> QED
    BY <1>1, <2>1, FS_Subset, FS_CardinalityType
<1>7. Cardinality(Below(v)) <= k
  <2>a. Cardinality(Below(v)) \in Nat
    BY <1>6
  <2> SUFFICES ASSUME Cardinality(Below(v)) > k PROVE FALSE
    <3> HIDE DEF Below
    <3> QED
      BY <2>a
  <2> DEFINE Lower == {w \in Vals : w < v}
  <2>1. Lower # {}
    <3>1. Below(v) # {}
      <4> HIDE DEF Below
      <4>1. CASE Below(v) = {}
        <5>1. Cardinality(Below(v)) = 0
          BY <4>1, FS_EmptySet
        <5> QED
          BY <5>1
      <4> QED
        BY <4>1
    <3> QED
      BY <1>2, <3>1
  <2>2. IsFiniteSet(Lower) /\ Lower \in SUBSET Int
    <3>1. Lower \in SUBSET Vals
      OBVIOUS
    <3> HIDE DEF Lower, Vals
    <3> QED
      BY <1>1, <3>1, FS_Subset
  <2>3. Max(Lower) \in Lower /\ \A y \in Lower : y <= Max(Lower)
    <3> HIDE DEF Lower
    <3> QED
      BY <2>1, <2>2, MaxExact
  <2> DEFINE w == Max(Lower)
  <2> HIDE DEF w
  <2>4. w \in Vals /\ w < v /\ w \in Int /\ v \in Int /\ \A y \in Vals : y < v => y <= w
    BY <1>1, <2>3 DEF w
  <2>5. UpTo(w) = Below(v)
    BY <1>1, <1>2, <2>4
  <2>6. w \in Candidates
    BY <2>4, <2>5
  <2>7. v <= w
    BY <1>5, <2>6
  <2> QED
    BY <2>4, <2>7
<1>8. \E x \in Vals : Cardinality(Below(x)) <= k /\ Cardinality(UpTo(x)) > k
  BY <1>5, <1>7
<1>9. OrderStatistic(series, k) =
        CHOOSE x \in Vals : Cardinality(Below(x)) <= k /\ Cardinality(UpTo(x)) > k
  BY DEF OrderStatistic, Values
<1> QED
  <2> HIDE DEF Vals, Below, UpTo
  <2>1. /\ OrderStatistic(series, k) \in Vals
        /\ Cardinality(Below(OrderStatistic(series, k))) <= k
        /\ Cardinality(UpTo(OrderStatistic(series, k))) > k
    BY <1>8, <1>9
  <2> QED
    BY <2>1 DEF Vals, Below, UpTo

LEMMA P95Typed ==
    ASSUME NEW series \in Seq(Int \cup {Missing}), Values(series) # {}
    PROVE  P95(series) \in Floats
<1> DEFINE last == Cardinality(Valid(series)) - 1
           position == 95 * last
           next == Min({position \div 100 + 1, last})
<1>1. last \in Nat /\ position \in Nat /\ Values(series) \in SUBSET Int
  BY SeriesFinite
<1>2. position \div 100 \in Nat /\ position \div 100 <= last /\ position % 100 \in Nat
  BY <1>1, SMTT(30)
<1>3. next \in Nat /\ next <= last
  <2>1. CASE last <= position \div 100 + 1
    <3>1. /\ {position \div 100 + 1, last} \in SUBSET Int
          /\ \A x \in {position \div 100 + 1, last} : last <= x
      BY <1>1, <1>2, <2>1, SMTT(30)
    <3>2. next = last
      BY <3>1, MinIs
    <3> QED
      BY <1>1, <3>2
  <2>2. CASE position \div 100 + 1 < last
    <3>1. /\ {position \div 100 + 1, last} \in SUBSET Int
          /\ \A x \in {position \div 100 + 1, last} : position \div 100 + 1 <= x
      BY <1>1, <1>2, <2>2, SMTT(30)
    <3>2. next = position \div 100 + 1
      BY <3>1, MinIs
    <3> QED
      BY <1>1, <1>2, <2>2, <3>2, SMTT(30)
  <2> QED
    BY <1>1, <1>2, <2>1, <2>2, SMTT(30)
<1> HIDE DEF position, next
<1>4. last < Cardinality(Valid(series)) /\ Cardinality(Valid(series)) \in Nat
  BY SeriesFinite
<1> HIDE DEF last
<1>5. OrderStatistic(series, position \div 100) \in Int
  <2>1. PICK k \in Nat : k = position \div 100 /\ k < Cardinality(Valid(series))
    BY <1>1, <1>2, <1>4
  <2>2. OrderStatistic(series, k) \in Values(series)
    BY <2>1, OrderExact
  <2> QED
    BY <1>1, <2>1, <2>2
<1>6. OrderStatistic(series, next) \in Int
  <2>1. next \in Nat /\ next < Cardinality(Valid(series))
    BY <1>1, <1>3, <1>4
  <2>2. OrderStatistic(series, next) \in Values(series)
    BY <2>1, OrderExact
  <2> QED
    BY <1>1, <2>2
<1> DEFINE below == OrderStatistic(series, position \div 100)
           above == OrderStatistic(series, next)
<1>7. P95(series) = Nearest(100 * below + (above - below) * (position % 100), 100)
  BY DEF P95, position, next, last
<1>8. below \in Int /\ above \in Int
  BY <1>5, <1>6
<1> HIDE DEF below, above
<1>9. 100 * below + (above - below) * (position % 100) \in Int
  BY <1>2, <1>8
<1> QED
  BY <1>7, <1>9, NearestKeeps

LEMMA MeanTyped ==
    ASSUME NEW series \in Seq(Int \cup {Missing}), Values(series) # {}
    PROVE  Mean(series) \in Floats
<1> DEFINE Ones == {i \in Valid(series) : series[i] = 1}
<1>1. IsFiniteSet(Valid(series)) /\ Cardinality(Valid(series)) \in Nat \ {0}
  BY SeriesFinite
<1>2. Ones \in SUBSET Valid(series)
  OBVIOUS
<1> HIDE DEF Ones
<1>3. Cardinality(Ones) \in Nat
  BY <1>1, <1>2, FS_Subset, FS_CardinalityType
<1>4. One * Cardinality(Ones) \in Nat
  BY <1>3, FloatsTyped
<1>5. Mean(series) = Nearest(One * Cardinality(Ones), Cardinality(Valid(series)))
  BY DEF Mean, Ones
<1> QED
  BY <1>1, <1>4, <1>5, NearestKeeps

LEMMA SummaryTyped ==
    ASSUME NEW series \in Seq(Int \cup {Missing}), Values(series) # {}, NEW statistic
    PROVE  Summary(statistic, series) \in Floats
  BY P95Typed, MeanTyped DEF Summary

\* A metric and its interval, which is not upside down.
LEMMA EstimatesTyped ==
    ASSUME NEW series \in Seq(Int \cup {Missing}), NEW statistic,
           NEW metric \in Estimates(series, statistic)
    PROVE  /\ metric.point \in Floats
           /\ metric.interval \in [low : Floats, high : Floats]
           /\ metric.interval.low <= metric.interval.high
<1> DEFINE point == Summary(statistic, series)
           ends == {Summary(statistic, <<v>>) : v \in {Min(Values(series)), Max(Values(series))}}
                    \cup {point}
<1>1. CASE Values(series) = {}
  <2>1. metric = [point |-> 0, interval |-> [low |-> 0, high |-> One]]
    BY <1>1 DEF Estimates, Values
  <2> QED
    BY <2>1, FloatsTyped
<1>2. CASE Values(series) # {}
  <2>1. point \in Floats
    BY <1>2, SummaryTyped
  <2>2. {Min(Values(series)), Max(Values(series))} \subseteq Int
    BY <1>2, SeriesFinite, MinExact, MaxExact
  <2>3. ASSUME NEW v \in Int PROVE Summary(statistic, <<v>>) \in Floats
    <3>1. <<v>> \in Seq(Int \cup {Missing})
      OBVIOUS
    <3>2. v # Missing
      BY MissingAssumption
    <3>3. 1 \in Valid(<<v>>)
      BY <3>2 DEF Valid
    <3>4. Values(<<v>>) # {}
      BY <3>3 DEF Values
    <3> QED
      BY <3>1, <3>4, SummaryTyped
  <2>4. ends \subseteq Floats
    <3> HIDE DEF point
    <3> QED
      BY <2>1, <2>2, <2>3
  <2>5. metric \in {[point |-> point, interval |-> interval] :
                interval \in {r \in [low : ends, high : ends] : r.low <= r.high}}
    BY <1>2 DEF Estimates, Values
  <2> HIDE DEF ends, point
  <2>6. PICK r \in [low : ends, high : ends] :
            r.low <= r.high /\ metric = [point |-> point, interval |-> r]
    BY <2>5
  <2>7. r \in [low : Floats, high : Floats]
    BY <2>4
  <2> QED
    BY <2>1, <2>6, <2>7
<1> QED
  BY <1>1, <1>2

------------------------------------------------------------------------------
(* The series of process_video. *)

\* The sample made of frame m.
Sample(m) == [time |-> FramePeriod * (m - 1), frame |-> video[m]]

\* Frame m is the first one at or after the k-th beat of the hand clock.
Beat(k, m) ==
    /\ FramePeriod * (m - 1) >= HandPeriod * (k - 1)
    /\ m > 1 => FramePeriod * (m - 2) < HandPeriod * (k - 1)

At(k) == CHOOSE m \in Nat \ {0} : Beat(k, m)

Prior(k) == IF k = 1 THEN Nothing ELSE Sample(At(k - 1))

\* The hand samples there have been.
Beats == Len(hands) + Len(work)

MotionAt(k) ==
    Motion(video[At(k - 1)], video[At(k)], Elapsed(Sample(At(k - 1)), Sample(At(k))))

Hands == [time : Nat, visible : {0, 1}, idle : {0, 1, Missing}, speed : Int \cup {Missing}]

Typed ==
    /\ video \in Seq(Pictures)
    /\ stream \in {"unknown", "open", "clean", "broken"}
    /\ phase \in {"probe", "decode", "inspect", "detect", "observe", "measure", "done"}
    /\ chunk \in Seq(Samples)
    /\ work \in Seq([sample : Samples, prior : Samples \cup {Nothing}])
    /\ flags \in Seq([black : BOOLEAN, blurry : BOOLEAN, exposure : BOOLEAN])
    /\ moves \in Seq([translation : Int, rotation : Int])
    /\ previousHand \in Samples \cup {Nothing}
    /\ nextHandTime \in Nat
    /\ hands \in Seq(Hands)

\* Where the samples are, phase by phase.
PhaseInv ==
    /\ phase = "probe" => video = <<>>
    /\ phase \in {"probe", "decode"} => work = <<>>
    /\ phase = "decode" => stream = "open"
    /\ phase \in {"inspect", "detect", "observe"} => stream \in {"open", "clean"}
    /\ phase = "inspect" => chunk # <<>>
    /\ phase \in {"detect", "observe", "measure"} => chunk = <<>>
    /\ phase = "observe" => work # <<>>
    /\ phase = "measure" => work = <<>> /\ stream = "clean"
    /\ stream = "clean" => video # <<>>

\* Every frame is flagged or in the chunk.
FrameInv ==
    /\ Len(flags) + Len(chunk) = Len(video)
    /\ \A m \in 1..Len(flags) : flags[m] = FlagsOf(video[m])
    /\ \A m \in 1..Len(chunk) : chunk[m] = Sample(Len(flags) + m)

\* The hand clock is at its next beat, and has not missed one.
ClockInv ==
    /\ nextHandTime = HandPeriod * Beats
    /\ IF flags = <<>> THEN Beats = 0 ELSE FramePeriod * (Len(flags) - 1) < nextHandTime
    /\ \A k \in 1..Beats : At(k) \in 1..Len(flags) /\ Beat(k, At(k))
    /\ \A j, k \in 1..Beats : j < k => At(j) < At(k)
    /\ previousHand = IF Beats = 0 THEN Nothing ELSE Sample(At(Beats))

\* The detections are those of the samples that wait.
FoundInv ==
    /\ found \in Seq(SUBSET Points) /\ Len(found) = Len(work)
    /\ \A j \in 1..Len(work) : found[j] = Found(work[j].sample.frame)

\* What is measured between two hand samples, waits for the detector, and was found.
SampleInv ==
    /\ Len(moves) = IF Beats = 0 THEN 0 ELSE Beats - 1
    /\ \A k \in 1..Len(moves) : moves[k] = MotionAt(k + 1)
    /\ \A j \in 1..Len(work) :
        work[j] = [sample |-> Sample(At(Len(hands) + j)), prior |-> Prior(Len(hands) + j)]
    /\ phase = "observe" => FoundInv
    /\ \A k \in 1..Len(hands) :
        hands[k] = Observed(Sample(At(k)), Prior(k), Found(video[At(k)]))

\* What a result is made of.
DoneInv ==
    phase = "done" =>
        \/ result.signals["corrupt"] = 1
        \/ /\ stream = "clean" /\ chunk = <<>> /\ work = <<>>
           /\ Measurement(result.signals, result.intervals)

SeriesInv == Typed /\ PhaseInv /\ FrameInv /\ ClockInv /\ SampleInv /\ DoneInv

------------------------------------------------------------------------------
(* What a step of process_video computes. *)

LEMMA MaxOfTwo ==
    ASSUME NEW a \in Int, NEW b \in Int
    PROVE  /\ Max({a, b}) \in {a, b} /\ Max({a, b}) >= a /\ Max({a, b}) >= b
<1>1. {a, b} \in SUBSET Int /\ a \in {a, b} /\ b \in {a, b}
  OBVIOUS
<1>2. CASE a >= b
  <2>1. \A x \in {a, b} : x <= a
    BY <1>2
  <2>2. Max({a, b}) = a
    BY <1>1, <2>1, MaxIs
  <2> QED
    BY <1>2, <2>2
<1>3. CASE ~(a >= b)
  <2>1. \A x \in {a, b} : x <= b
    BY <1>3
  <2>2. Max({a, b}) = b
    BY <1>1, <2>1, MaxIs
  <2> QED
    BY <1>3, <2>2
<1> QED
  BY <1>2, <1>3

LEMMA MaxTyped == \A a, b \in Int : Max({a, b}) \in Int
<1> SUFFICES ASSUME NEW a \in Int, NEW b \in Int PROVE Max({a, b}) \in Int
  OBVIOUS
<1>1. Max({a, b}) \in {a, b}
  BY MaxOfTwo
<1> QED
  BY <1>1

LEMMA PictureTyped ==
    ASSUME NEW f \in Pictures
    PROVE  /\ f.luminance \in Int /\ f.entropy \in Int /\ f.laplacian \in Int
           /\ f.clipped \in Int /\ f.place \in Int /\ f.angle \in Int /\ f.pose \in Int
           /\ f.bench \in Int /\ f.textured \in BOOLEAN
           /\ f.large \in SUBSET Points /\ f.small \in SUBSET Points
<1>1. f \in [luminance : Int, entropy : Int, laplacian : Int, clipped : Int,
             textured : BOOLEAN, place : Int, angle : Int, pose : Int, bench : Int,
             large : SUBSET Points, small : SUBSET Points]
  BY PictureAssumption
<1> QED
  BY <1>1

LEMMA ElapsedTyped ==
    ASSUME NEW prior \in Samples, NEW sample \in Samples
    PROVE  Elapsed(prior, sample) \in Nat \ {0}
<1>1. HandPeriod \in Nat \ {0}
  BY PeriodAssumption
<1> DEFINE gap == sample.time - prior.time
<1>2. gap \in Int
  BY DEF Samples
<1>3. Elapsed(prior, sample) = Max({gap, HandPeriod})
  BY DEF Elapsed
<1> HIDE DEF gap
<1>4. Max({gap, HandPeriod}) \in {gap, HandPeriod} /\ Max({gap, HandPeriod}) >= HandPeriod
  BY <1>1, <1>2, MaxOfTwo
<1> QED
  BY <1>1, <1>2, <1>3, <1>4

LEMMA DistanceTyped ==
    ASSUME NEW a \in Int, NEW b \in Int
    PROVE  Distance(a, b) \in Nat
  BY DEF Distance

LEMMA RateTyped ==
    ASSUME NEW a \in Nat, NEW dt \in Nat \ {0}
    PROVE  (a * TicksPerSecond) \div dt \in Int
<1>1. TicksPerSecond \in Nat
  BY PeriodAssumption
<1>2. a * TicksPerSecond \in Int
  BY <1>1
<1> HIDE DEF Distance
<1> QED
  BY <1>2

LEMMA MotionTyped ==
    ASSUME NEW prior \in Pictures, NEW f \in Pictures, NEW dt \in Nat \ {0}
    PROVE  Motion(prior, f, dt) \in [translation : Int, rotation : Int]
<1>1. Distance(prior.place, f.place) \in Nat /\ Distance(prior.angle, f.angle) \in Nat
  BY PictureTyped, DistanceTyped
<1>2. (Distance(prior.angle, f.angle) * TicksPerSecond) \div dt \in Int
  BY <1>1, RateTyped
<1> QED
  BY <1>1, <1>2 DEF Motion

LEMMA FlagsTyped ==
    ASSUME NEW f
    PROVE  FlagsOf(f) \in [black : BOOLEAN, blurry : BOOLEAN, exposure : BOOLEAN]
  BY DEF FlagsOf, Blackish, Blurry, ExposureBad

\* What is observed of a hand sample; it counts as idle only after a still one.
LEMMA ObservedTyped ==
    ASSUME NEW sample \in Samples, NEW prior \in Samples \cup {Nothing}, NEW detections,
           NEW hand, hand = Observed(sample, prior, detections)
    PROVE  /\ hand \in Hands
           /\ hand.time = sample.time
           /\ hand.visible = 1 <=> detections # {}
           /\ hand.idle = Missing <=> hand.visible = 0
           /\ hand.idle = 1 => /\ prior # Nothing
                               /\ HandActivity(prior.frame, sample.frame) < Idle.handActivity
           /\ hand.speed # Missing => prior # Nothing /\ hand.visible = 1
<1> DEFINE idle == CASE prior # Nothing -> Inactive(prior.frame, sample.frame, detections)
                     [] prior = Nothing /\ detections # {} -> 0
                     [] OTHER -> Missing
           speed == IF prior = Nothing THEN Missing
                    ELSE HandSpeed(prior.frame, sample.frame, Elapsed(prior, sample), detections)
           visible == IF detections = {} THEN 0 ELSE 1
<1>1. sample.time \in Nat /\ sample.frame \in Pictures
  BY DEF Samples
<1>2. Missing # 0 /\ Missing # 1
  BY MissingAssumption
<1>3. /\ idle \in {0, 1, Missing}
      /\ idle = Missing <=> visible = 0
      /\ idle = 1 => /\ prior # Nothing
                     /\ HandActivity(prior.frame, sample.frame) < Idle.handActivity
  <2>1. CASE prior # Nothing
    <3>1. prior.frame \in Pictures
      BY <2>1 DEF Samples
    <3>2. HandActivity(prior.frame, sample.frame) \in Int /\ Idle.handActivity \in Int
      <4>1. prior.frame.pose \in Int /\ sample.frame.pose \in Int
        BY <1>1, <3>1, PictureTyped
      <4>2. HandActivity(prior.frame, sample.frame) \in Nat
        BY <4>1, DistanceTyped DEF HandActivity
      <4>3. Idle.handActivity \in Int
        BY ThresholdAssumption
      <4> QED
        BY <4>2, <4>3
    <3>3. idle = Inactive(prior.frame, sample.frame, detections)
      BY <2>1
    <3>4. CASE detections = {}
      <4>1. idle = Missing
        BY <3>3, <3>4 DEF Inactive
      <4> QED
        BY <1>2, <3>4, <4>1
    <3>5. CASE detections # {}
      <4>1. idle \in {0, 1}
        BY <3>3, <3>5 DEF Inactive
      <4>2. idle = 1 => ~(HandActivity(prior.frame, sample.frame) >= Idle.handActivity)
        BY <3>3, <3>5 DEF Inactive
      <4> HIDE DEF idle
      <4> QED
        BY <1>2, <2>1, <3>2, <3>5, <4>1, <4>2
    <3> QED
      BY <3>4, <3>5
  <2>2. CASE prior = Nothing
    BY <1>2, <2>2
  <2> QED
    BY <2>1, <2>2
<1>4. /\ speed \in Int \cup {Missing}
      /\ speed # Missing => prior # Nothing /\ visible = 1
  <2>1. CASE prior # Nothing
    <3>1. prior \in Samples /\ prior.frame \in Pictures
      BY <2>1 DEF Samples
    <3>2. Elapsed(prior, sample) \in Nat \ {0}
      BY <3>1, ElapsedTyped
    <3>3. Distance(prior.frame.pose, sample.frame.pose) \in Nat
      BY <1>1, <3>1, PictureTyped, DistanceTyped
    <3>4. (Distance(prior.frame.pose, sample.frame.pose) * TicksPerSecond)
                \div Elapsed(prior, sample) \in Int
      BY <3>2, <3>3, RateTyped
    <3> QED
      BY <2>1, <3>4 DEF HandSpeed
  <2>2. CASE prior = Nothing
    BY <2>2
  <2> QED
    BY <2>1, <2>2
<1>5. hand = [time |-> sample.time, visible |-> visible, idle |-> idle, speed |-> speed]
  BY DEF Observed
<1>6. visible \in {0, 1} /\ (visible = 1 <=> detections # {})
  OBVIOUS
<1> HIDE DEF idle, speed, visible
<1>7. /\ hand.time = sample.time /\ hand.visible = visible /\ hand.idle = idle
      /\ hand.speed = speed
  BY <1>5
<1>8. hand \in Hands
  BY <1>1, <1>3, <1>4, <1>5, <1>6 DEF Hands
<1> QED
  BY <1>3, <1>4, <1>6, <1>7, <1>8

\* Every point of a frame is in one of its crops, and comes back from it in its place.
LEMMA CropsCover ==
    ASSUME NEW f \in Pictures
    PROVE  UNION {{Shifted(point, Corners[c]) : point \in HandsInCrop(f, Corners[c])} : c \in 1..4}
                = f.small
<1> DEFINE In(p, c) == /\ p[1] \in Corners[c][1]..(Corners[c][1] + TileWidth - 1)
                       /\ p[2] \in Corners[c][2]..(Corners[c][2] + TileHeight - 1)
           Back(c) == {Shifted(point, Corners[c]) : point \in HandsInCrop(f, Corners[c])}
<1>1. /\ Width \in Nat \ {0} /\ Height \in Nat \ {0}
      /\ TileWidth \in Nat \ {0} /\ TileHeight \in Nat \ {0}
      /\ TileWidth <= Width /\ Width <= 2 * TileWidth
      /\ TileHeight <= Height /\ Height <= 2 * TileHeight
  BY TileAssumption
<1>2. \A p \in f.small : /\ p[1] \in 0..(Width - 1) /\ p[2] \in 0..(Height - 1)
                         /\ p = <<p[1], p[2]>>
  BY PictureTyped DEF Points
<1>3. \A c \in 1..4 : Corners[c] \in Int \X Int
  BY <1>1 DEF Corners
<1>4. ASSUME NEW p \in f.small
      PROVE  \E c \in 1..4 : In(p, c)
  <2>1. p[1] \in Int /\ p[2] \in Int /\ 0 <= p[1] /\ p[1] < Width /\ 0 <= p[2] /\ p[2] < Height
    BY <1>1, <1>2
  <2>2. CASE p[1] < TileWidth /\ p[2] < TileHeight
    <3>1. Corners[1] = <<0, 0>>
      BY DEF Corners
    <3>2. In(p, 1)
      BY <1>1, <2>1, <2>2, <3>1
    <3> QED
      BY <3>2
  <2>3. CASE p[1] >= TileWidth /\ p[2] < TileHeight
    <3>1. Corners[2] = <<Width - TileWidth, 0>>
      BY DEF Corners
    <3>2. In(p, 2)
      BY <1>1, <2>1, <2>3, <3>1
    <3> QED
      BY <3>2
  <2>4. CASE p[1] < TileWidth /\ p[2] >= TileHeight
    <3>1. Corners[3] = <<0, Height - TileHeight>>
      BY DEF Corners
    <3>2. In(p, 3)
      BY <1>1, <2>1, <2>4, <3>1
    <3> QED
      BY <3>2
  <2>5. CASE p[1] >= TileWidth /\ p[2] >= TileHeight
    <3>1. Corners[4] = <<Width - TileWidth, Height - TileHeight>>
      BY DEF Corners
    <3>2. In(p, 4)
      BY <1>1, <2>1, <2>5, <3>1
    <3> QED
      BY <3>2
  <2> QED
    BY <1>1, <2>1, <2>2, <2>3, <2>4, <2>5
<1>5. ASSUME NEW c \in 1..4
      PROVE  Back(c) = {p \in f.small : In(p, c)}
  <2> DEFINE corner == Corners[c]
             Here == {p \in f.small : In(p, c)}
  <2>1. corner[1] \in Int /\ corner[2] \in Int
    BY <1>3
  <2>2. HandsInCrop(f, corner) = {<<p[1] - corner[1], p[2] - corner[2]>> : p \in Here}
    BY DEF HandsInCrop
  <2>3. ASSUME NEW p \in Here
        PROVE  Shifted(<<p[1] - corner[1], p[2] - corner[2]>>, corner) = p
    <3>1. p[1] \in Int /\ p[2] \in Int /\ p = <<p[1], p[2]>>
      BY <1>1, <1>2
    <3> HIDE DEF corner, Here
    <3>2. p[1] - corner[1] + corner[1] = p[1] /\ p[2] - corner[2] + corner[2] = p[2]
      BY <2>1, <3>1
    <3> QED
      BY <3>1, <3>2 DEF Shifted
  <2> HIDE DEF corner, Here
  <2>4. Back(c) = {Shifted(q, corner) : q \in HandsInCrop(f, corner)}
    BY DEF corner
  <2> HIDE DEF Back
  <2>5. ASSUME NEW x \in Back(c) PROVE x \in Here
    <3>1. PICK q \in HandsInCrop(f, corner) : x = Shifted(q, corner)
      BY <2>4
    <3>2. PICK p \in Here : q = <<p[1] - corner[1], p[2] - corner[2]>>
      BY <2>2
    <3> QED
      BY <2>3, <3>1, <3>2
  <2>6. ASSUME NEW p \in Here PROVE p \in Back(c)
    <3> DEFINE q == <<p[1] - corner[1], p[2] - corner[2]>>
    <3>1. q \in HandsInCrop(f, corner)
      BY <2>2
    <3>2. Shifted(q, corner) = p
      BY <2>3
    <3> HIDE DEF q
    <3> QED
      BY <2>4, <3>1, <3>2
  <2> QED
    BY <2>5, <2>6 DEF Here
<1> HIDE DEF In, Back
<1>6. UNION {Back(c) : c \in 1..4} = f.small
  BY <1>4, <1>5
<1> QED
  BY <1>6 DEF Back

\* The frames cut before a frame of the batch.
Ahead(cut, n) == Cardinality({m \in cut : m < n})

\* It tells the frames of a batch apart.
LEMMA AheadApart ==
    ASSUME NEW Cut, IsFiniteSet(Cut), Cut \in SUBSET Nat, NEW m \in Cut, NEW n \in Cut
    PROVE  /\ Ahead(Cut, m) \in Nat /\ Ahead(Cut, n) \in Nat
           /\ Ahead(Cut, m) = Ahead(Cut, n) => m = n
<1> DEFINE Before(x) == {k \in Cut : k < x}
<1>1. \A x \in Cut : IsFiniteSet(Before(x)) /\ Cardinality(Before(x)) \in Nat
  <2> SUFFICES ASSUME NEW x \in Cut
               PROVE  IsFiniteSet(Before(x)) /\ Cardinality(Before(x)) \in Nat
    OBVIOUS
  <2>1. Before(x) \in SUBSET Cut
    OBVIOUS
  <2> HIDE DEF Before
  <2> QED
    BY <2>1, FS_Subset, FS_CardinalityType
<1>2. ASSUME NEW x \in Cut, NEW y \in Cut, x < y
      PROVE  Cardinality(Before(x)) + 1 <= Cardinality(Before(y))
  <2>1. x \in Nat /\ y \in Nat /\ \A k \in Cut : k \in Nat
    OBVIOUS
  <2>2. Before(x) \cup {x} \in SUBSET Before(y) /\ x \notin Before(x)
    <3>1. \A k \in Cut : k < x => k < y
      BY <1>2, <2>1
    <3>2. ~(x < x)
      BY <2>1
    <3> QED
      BY <1>2, <3>1, <3>2
  <2> HIDE DEF Before
  <2>3. Cardinality(Before(x) \cup {x}) = Cardinality(Before(x)) + 1
    BY <1>1, <2>2, FS_AddElement
  <2> QED
    BY <1>1, <2>2, <2>3, FS_Subset
<1> DEFINE M == Cardinality(Before(m))
           N == Cardinality(Before(n))
<1>3. M \in Nat /\ N \in Nat
  <2> HIDE DEF Before
  <2> QED
    BY <1>1
<1>4. Ahead(Cut, m) = M /\ Ahead(Cut, n) = N
  BY DEF Ahead
<1>5. m < n => M + 1 <= N
  <2> HIDE DEF Before
  <2> QED
    BY <1>2
<1>6. n < m => N + 1 <= M
  <2> HIDE DEF Before
  <2> QED
    BY <1>2
<1> HIDE DEF M, N
<1>7. m \in Nat /\ n \in Nat
  OBVIOUS
<1> QED
  BY <1>3, <1>4, <1>5, <1>6, <1>7

\* The detections of the crops come back to their frame and place.
LEMMA DetectExact ==
    ASSUME NEW frames \in Seq(Pictures)
    PROVE  DetectWithFallback(frames) = [n \in DOMAIN frames |-> Found(frames[n])]
<1> DEFINE mapping == IF TileFallback THEN Mapping(frames) ELSE <<>>
           tiles == [place \in DOMAIN mapping |->
                        HandsInCrop(frames[mapping[place][1]], Corners[mapping[place][2]])]
           Back(n) == UNION {{Shifted(point, Corners[mapping[place][2]]) : point \in tiles[place]} :
                                place \in {p \in DOMAIN mapping : mapping[p][1] = n}}
           Cut == {n \in DOMAIN frames : frames[n].large = {}}
           Place(n, c) == 4 * Ahead(Cut, n) + c
<1>1. DetectWithFallback(frames) = [n \in DOMAIN frames |-> frames[n].large \cup Back(n)]
  BY DEF DetectWithFallback
<1>2. \A n \in DOMAIN frames : n \in Nat /\ frames[n] \in Pictures
  OBVIOUS
<1>3. Cut \in SUBSET Nat /\ IsFiniteSet(Cut)
  <2>1. DOMAIN frames = 1..Len(frames) /\ Len(frames) \in Nat
    OBVIOUS
  <2>2. IsFiniteSet(1..Len(frames))
    BY <2>1, FS_Interval
  <2>3. Cut \in SUBSET (1..Len(frames))
    BY <2>1
  <2> HIDE DEF Cut
  <2>4. IsFiniteSet(Cut)
    BY <2>2, <2>3, FS_Subset
  <2>5. 1..Len(frames) \in SUBSET Nat
    BY <2>1
  <2> QED
    BY <2>3, <2>4, <2>5
<1>4. ASSUME NEW n \in DOMAIN frames
      PROVE  Back(n) = IF TileFallback /\ n \in Cut THEN frames[n].small ELSE {}
  <2>1. CASE ~TileFallback
    <3>1. DOMAIN mapping = {}
      BY <2>1
    <3> HIDE DEF mapping
    <3> QED
      BY <2>1, <3>1
  <2>2. CASE TileFallback
    <3>1. mapping = [place \in {Place(k, c) : k \in Cut, c \in 1..4} |->
                        CHOOSE crop \in Cut \X (1..4) : place = Place(crop[1], crop[2])]
      BY <2>2 DEF Mapping, Ahead
    <3> HIDE DEF mapping, Place, Cut
    <3>2. ASSUME NEW k \in Cut, NEW c \in 1..4
          PROVE  Place(k, c) \in DOMAIN mapping /\ mapping[Place(k, c)] = <<k, c>>
      <4>1. Place(k, c) \in DOMAIN mapping
        BY <3>1
      <4> DEFINE crop == mapping[Place(k, c)]
      <4>2. crop = CHOOSE x \in Cut \X (1..4) : Place(k, c) = Place(x[1], x[2])
        BY <3>1, <4>1
      <4>3. <<k, c>> \in Cut \X (1..4) /\ Place(k, c) = Place(<<k, c>>[1], <<k, c>>[2])
        OBVIOUS
      <4> HIDE DEF crop
      <4>4. crop \in Cut \X (1..4) /\ Place(k, c) = Place(crop[1], crop[2])
        BY <4>2, <4>3
      <4>5. crop[1] = k /\ crop[2] = c
        <5>1. PICK j \in Cut, b \in 1..4 : crop[1] = j /\ crop[2] = b
          BY <4>4
        <5>2. 4 * Ahead(Cut, k) + c = 4 * Ahead(Cut, j) + b
          BY <4>4, <5>1 DEF Place
        <5>3. k = j /\ c = b
          <6>1. /\ Ahead(Cut, k) \in Nat /\ Ahead(Cut, j) \in Nat
                /\ Ahead(Cut, k) = Ahead(Cut, j) => k = j
            BY <1>3, AheadApart
          <6>2. Ahead(Cut, k) = Ahead(Cut, j) /\ c = b
            BY <5>2, <6>1, SMTT(30)
          <6> QED
            BY <6>1, <6>2
        <5> QED
          BY <5>1, <5>3
      <4> QED
        BY <4>1, <4>4, <4>5 DEF crop
    <3>3. \A p \in DOMAIN mapping : \E k \in Cut, c \in 1..4 : p = Place(k, c)
      BY <3>1
    <3>4. CASE n \notin Cut
      <4>1. \A p \in DOMAIN mapping : mapping[p][1] # n
        <5> SUFFICES ASSUME NEW p \in DOMAIN mapping PROVE mapping[p][1] # n
          OBVIOUS
        <5>1. PICK k \in Cut, c \in 1..4 : p = Place(k, c)
          BY <3>3
        <5>2. mapping[p] = <<k, c>>
          BY <3>2, <5>1
        <5> QED
          BY <3>4, <5>2
      <4> QED
        BY <3>4, <4>1
    <3>5. CASE n \in Cut
      <4>1. {p \in DOMAIN mapping : mapping[p][1] = n} = {Place(n, c) : c \in 1..4}
        <5>1. ASSUME NEW p \in DOMAIN mapping, mapping[p][1] = n
              PROVE  \E c \in 1..4 : p = Place(n, c)
          <6>1. PICK k \in Cut, c \in 1..4 : p = Place(k, c)
            BY <3>3
          <6>2. mapping[p] = <<k, c>>
            BY <3>2, <6>1
          <6> QED
            BY <5>1, <6>1, <6>2
        <5>2. ASSUME NEW c \in 1..4
              PROVE  Place(n, c) \in DOMAIN mapping /\ mapping[Place(n, c)][1] = n
          <6>1. Place(n, c) \in DOMAIN mapping /\ mapping[Place(n, c)] = <<n, c>>
            BY <3>2, <3>5
          <6> QED
            BY <6>1
        <5> QED
          BY <5>1, <5>2
      <4>2. \A c \in 1..4 : mapping[Place(n, c)] = <<n, c>> /\ Place(n, c) \in DOMAIN mapping
        BY <3>2, <3>5
      <4>3. \A c \in 1..4 : tiles[Place(n, c)] = HandsInCrop(frames[n], Corners[c])
        BY <4>2
      <4> DEFINE Of(place) == {Shifted(point, Corners[mapping[place][2]]) : point \in tiles[place]}
                 Crop(c) == {Shifted(point, Corners[c]) :
                                point \in HandsInCrop(frames[n], Corners[c])}
      <4>4. Back(n) = UNION {Of(place) : place \in {Place(n, c) : c \in 1..4}}
        BY <4>1
      <4>5. \A c \in 1..4 : Of(Place(n, c)) = Crop(c)
        <5> HIDE DEF tiles
        <5> QED
          BY <4>2, <4>3
      <4> HIDE DEF Of, Crop, Back, tiles
      <4>6. Back(n) = UNION {Crop(c) : c \in 1..4}
        BY <4>4, <4>5
      <4>7. frames[n] \in Pictures
        BY <1>2
      <4>8. UNION {Crop(c) : c \in 1..4} = frames[n].small
        BY <4>7, CropsCover DEF Crop
      <4> QED
        BY <2>2, <3>5, <4>6, <4>8
    <3> QED
      BY <3>4, <3>5
  <2> QED
    BY <2>1, <2>2
<1>5. ASSUME NEW n \in DOMAIN frames
      PROVE  frames[n].large \cup Back(n) = Found(frames[n])
  <2>1. n \in Cut <=> frames[n].large = {}
    OBVIOUS
  <2> HIDE DEF Back, Cut, mapping, tiles, Place
  <2> QED
    BY <1>4, <2>1 DEF Found
<1> HIDE DEF Back, Cut, mapping, tiles, Place
<1> QED
  BY <1>1, <1>5

------------------------------------------------------------------------------
(* The hand clock. *)

LEMMA Scaled ==
    ASSUME NEW c \in Nat, NEW a \in Int, NEW b \in Int, a <= b
    PROVE  c * a \in Int /\ c * b \in Int /\ c * a <= c * b
<1>1. PICK d \in Nat : b = a + d
  BY b - a \in Nat
<1>2. c * a \in Int /\ c * d \in Nat
  OBVIOUS
<1>3. c * b = c * a + c * d
  BY <1>1
<1> QED
  BY <1>2, <1>3

\* A beat falls on one frame.
LEMMA AtIs ==
    ASSUME NEW k \in Nat \ {0}, NEW m \in Nat \ {0}, Beat(k, m)
    PROVE  At(k) = m
<1> DEFINE n == At(k)
<1>1. n \in Nat \ {0} /\ Beat(k, n)
  BY DEF At
<1> HIDE DEF n
<1>2. FramePeriod \in Nat /\ HandPeriod \in Nat
  BY PeriodAssumption
<1>3. HandPeriod * (k - 1) \in Int
  BY <1>2
<1>4. ~(m < n)
  <2>1. SUFFICES ASSUME m < n PROVE FALSE
    OBVIOUS
  <2>2. FramePeriod * (m - 1) >= HandPeriod * (k - 1)
    BY DEF Beat
  <2>3. FramePeriod * (n - 2) < HandPeriod * (k - 1)
    BY <1>1, <2>1 DEF Beat
  <2>4. /\ FramePeriod * (m - 1) \in Int /\ FramePeriod * (n - 2) \in Int
        /\ FramePeriod * (m - 1) <= FramePeriod * (n - 2)
    BY <1>1, <1>2, <2>1, Scaled
  <2> QED
    BY <1>3, <2>2, <2>3, <2>4
<1>5. ~(n < m)
  <2>1. SUFFICES ASSUME n < m PROVE FALSE
    OBVIOUS
  <2>2. FramePeriod * (n - 1) >= HandPeriod * (k - 1)
    BY <1>1 DEF Beat
  <2>3. FramePeriod * (m - 2) < HandPeriod * (k - 1)
    BY <1>1, <2>1 DEF Beat
  <2>4. /\ FramePeriod * (n - 1) \in Int /\ FramePeriod * (m - 2) \in Int
        /\ FramePeriod * (n - 1) <= FramePeriod * (m - 2)
    BY <1>1, <1>2, <2>1, Scaled
  <2> QED
    BY <1>3, <2>2, <2>3, <2>4
<1> QED
  BY <1>1, <1>4, <1>5 DEF n

\* The beats there have been are of inspected frames, and each has its predecessor.
LEMMA BeatFrames ==
    ASSUME Typed, FrameInv, ClockInv, NEW k \in 1..Beats
    PROVE  /\ Beats \in Nat
           /\ At(k) \in 1..Len(flags) /\ At(k) \in 1..Len(video)
           /\ Sample(At(k)) \in Samples /\ video[At(k)] \in Pictures
           /\ Sample(At(k)).frame = video[At(k)]
           /\ Sample(At(k)).time = FramePeriod * (At(k) - 1)
           /\ Prior(k) \in Samples \cup {Nothing}
           /\ Prior(k) = Nothing <=> k = 1
           /\ k > 1 => /\ Prior(k) = Sample(At(k - 1)) /\ Prior(k) \in Samples
                       /\ At(k - 1) \in 1..Len(video)
                       /\ video[At(k - 1)] \in Pictures
<1>1. /\ Len(flags) \in Nat /\ Len(video) \in Nat /\ Len(chunk) \in Nat /\ Beats \in Nat
      /\ Len(flags) <= Len(video) /\ k \in Nat
  <2>1. /\ Len(flags) \in Nat /\ Len(video) \in Nat /\ Len(chunk) \in Nat
        /\ Len(hands) \in Nat /\ Len(work) \in Nat
    BY LenProperties DEF Typed
  <2> QED
    BY <2>1 DEF FrameInv, Beats
<1>2. ASSUME NEW m \in 1..Len(video)
      PROVE  /\ Sample(m) \in Samples /\ Sample(m).frame = video[m] /\ video[m] \in Pictures
             /\ Sample(m).time = FramePeriod * (m - 1) /\ Sample(m) # Nothing
  <2>1. video[m] \in Pictures
    BY ElementOfSeq DEF Typed
  <2>2. FramePeriod * (m - 1) \in Nat
    BY <1>1, PeriodAssumption
  <2>3. Sample(m) \in Samples
    BY <2>1, <2>2 DEF Sample, Samples
  <2> QED
    BY <2>1, <2>3, NothingAssumption DEF Sample
<1>3. \A j \in 1..Beats : At(j) \in 1..Len(flags) /\ At(j) \in 1..Len(video)
  BY <1>1 DEF ClockInv
<1>4. k > 1 => k - 1 \in 1..Beats
  BY <1>1
<1> QED
  BY <1>1, <1>2, <1>3, <1>4, SMTT(30) DEF Prior

\* A frame more changes nothing of the samples there have been.
LEMMA SamplesStay ==
    ASSUME Typed, FrameInv, ClockInv,
           \A m \in 1..Len(video) : video'[m] = video[m], NEW k \in 1..Beats
    PROVE  /\ Sample(At(k))' = Sample(At(k)) /\ Prior(k)' = Prior(k)
           /\ video'[At(k)] = video[At(k)]
           /\ k > 1 => MotionAt(k)' = MotionAt(k)
<1>1. At(k) \in 1..Len(video) /\ (k > 1 => At(k - 1) \in 1..Len(video))
  BY BeatFrames
<1>2. Sample(At(k))' = Sample(At(k)) /\ video'[At(k)] = video[At(k)]
  BY <1>1 DEF Sample
<1>3. k > 1 => Sample(At(k - 1))' = Sample(At(k - 1)) /\ video'[At(k - 1)] = video[At(k - 1)]
  BY <1>1 DEF Sample
<1> QED
  BY <1>2, <1>3 DEF Prior, MotionAt

------------------------------------------------------------------------------
(* The series, step by step. *)

LEMMA InitSeries == Init => SeriesInv
<1> SUFFICES ASSUME Init PROVE SeriesInv
  OBVIOUS
<1>1. video = <<>> /\ chunk = <<>> /\ work = <<>> /\ flags = <<>> /\ moves = <<>> /\ hands = <<>>
  BY DEF Init
<1>2. Len(<<>>) = 0 /\ \A S : <<>> \in Seq(S)
  BY EmptySeq
<1>3. Beats = 0
  BY <1>1, <1>2 DEF Beats
<1>4. Typed
  <2>1. stream = "unknown" /\ phase = "probe" /\ previousHand = Nothing /\ nextHandTime = 0
    BY DEF Init
  <2> QED
    BY <1>1, <1>2, <2>1 DEF Typed
<1>5. PhaseInv
  BY <1>1 DEF Init, PhaseInv
<1>6. FrameInv
  BY <1>1, <1>2 DEF FrameInv
<1>7. ClockInv
  <2>1. nextHandTime = 0 /\ previousHand = Nothing /\ 1..Beats = {}
    BY <1>3 DEF Init
  <2>2. nextHandTime = HandPeriod * Beats
    BY <1>3, <2>1, PeriodAssumption
  <2> QED
    BY <1>1, <1>3, <2>1, <2>2 DEF ClockInv
<1>8. SampleInv
  <2>1. Len(moves) = 0 /\ Len(work) = 0 /\ Len(hands) = 0 /\ phase = "probe" /\ 1..0 = {}
    BY <1>1, <1>2 DEF Init
  <2> QED
    BY <1>3, <2>1 DEF SampleInv
<1>9. DoneInv
  BY DEF Init, DoneInv
<1> QED
  BY <1>4, <1>5, <1>6, <1>7, <1>8, <1>9 DEF SeriesInv

\* The samples there have been, as the steps that see no new one leave them.
LEMMA SeriesStay ==
    ASSUME SeriesInv,
           UNCHANGED <<video, chunk, work, flags, moves, previousHand, nextHandTime, hands>>,
           phase' = "observe" => FoundInv'
    PROVE  FrameInv' /\ ClockInv' /\ SampleInv'
<1>1. FrameInv'
  BY DEF SeriesInv, FrameInv, Sample
<1>2. Beats' = Beats
  BY DEF Beats
<1>3. ClockInv'
  BY <1>2 DEF SeriesInv, ClockInv, Sample
<1>4. SampleInv'
  BY <1>2 DEF SeriesInv, SampleInv, Sample, Prior, MotionAt
<1> QED
  BY <1>1, <1>3, <1>4

LEMMA CorruptSeries ==
    ASSUME SeriesInv, Corrupt, stream' = "broken"
    PROVE  SeriesInv'
<1>1. /\ UNCHANGED <<video, chunk, work, flags, moves, previousHand, nextHandTime, hands>>
      /\ phase' = "done"
  BY DEF Corrupt, chunkVars, frameVars
<1>2. FrameInv' /\ ClockInv' /\ SampleInv'
  BY <1>1, SeriesStay
<1>3. Typed'
  BY <1>1 DEF SeriesInv, Typed
<1>4. PhaseInv'
  BY <1>1 DEF SeriesInv, PhaseInv
<1>5. result'.signals["corrupt"] = 1
  <2>1. result'.signals = [signal \in Signals |-> IF signal = "corrupt" THEN 1 ELSE 0]
    BY DEF Corrupt
  <2> QED
    BY <2>1 DEF Signals
<1> QED
  BY <1>2, <1>3, <1>4, <1>5 DEF SeriesInv, DoneInv

LEMMA DecoderSeries ==
    ASSUME SeriesInv, Probe \/ EndOfStream \/ BrokenStream
    PROVE  SeriesInv'
<1>1. CASE (Probe /\ ~Corrupt) \/ EndOfStream
  <2>1. /\ UNCHANGED <<video, chunk, work, flags, moves, previousHand, nextHandTime, hands>>
        /\ \/ phase = "probe" /\ stream' = "open" /\ phase' = "decode"
           \/ /\ phase = "decode" /\ stream' = "clean" /\ video # <<>>
              /\ phase' = IF chunk = <<>> THEN "measure" ELSE "inspect"
    BY <1>1 DEF Probe, EndOfStream, chunkVars, frameVars
  <2>2. FrameInv' /\ ClockInv' /\ SampleInv'
    BY <2>1, SeriesStay
  <2>3. Typed'
    BY <2>1 DEF SeriesInv, Typed
  <2>4. PhaseInv'
    BY <2>1 DEF SeriesInv, PhaseInv
  <2>5. DoneInv'
    BY <2>1 DEF DoneInv
  <2> QED
    BY <2>2, <2>3, <2>4, <2>5 DEF SeriesInv
<1>2. CASE Probe /\ Corrupt
  <2>1. stream' = "broken"
    BY <1>2 DEF Probe, Corrupt
  <2> QED
    BY <1>2, <2>1, CorruptSeries
<1>3. CASE BrokenStream
  BY <1>3, CorruptSeries DEF BrokenStream
<1> QED
  BY <1>1, <1>2, <1>3

LEMMA DecodeSeries ==
    ASSUME SeriesInv, NEW picture \in Pictures, Decode(picture)
    PROVE  SeriesInv'
<1>1. PICK n \in Nat :
        /\ Typed /\ PhaseInv /\ FrameInv /\ ClockInv /\ SampleInv
        /\ video \in Seq(Pictures) /\ chunk \in Seq(Samples) /\ n = Len(video)
        /\ Len(chunk) \in Nat /\ Len(flags) \in Nat /\ Len(flags) + Len(chunk) = n
  BY LenProperties DEF SeriesInv, Typed, FrameInv
<1>2. /\ phase = "decode" /\ stream = "open" /\ work = <<>>
      /\ video' = Append(video, picture)
      /\ chunk' = Append(chunk, [time |-> FramePeriod * n, frame |-> picture])
      /\ phase' \in {"decode", "inspect"}
      /\ UNCHANGED <<stream, work, flags, moves, previousHand, nextHandTime, hands>>
  BY <1>1 DEF Decode, frameVars, PhaseInv
<1>3. [time |-> FramePeriod * n, frame |-> picture] \in Samples
  BY <1>1, PeriodAssumption DEF Samples
<1>4. /\ video' \in Seq(Pictures) /\ Len(video') = n + 1 /\ video'[n + 1] = picture
      /\ \A m \in 1..n : video'[m] = video[m]
      /\ chunk' \in Seq(Samples) /\ Len(chunk') = Len(chunk) + 1
      /\ chunk'[Len(chunk) + 1] = [time |-> FramePeriod * n, frame |-> picture]
      /\ \A m \in 1..Len(chunk) : chunk'[m] = chunk[m]
  BY <1>1, <1>2, <1>3, AppendProperties
<1>5. Beats' = Beats
  BY <1>2 DEF Beats
<1>6. Typed'
  BY <1>1, <1>2, <1>4 DEF Typed
<1>7. PhaseInv'
  <2>1. chunk' # <<>>
    BY <1>1, <1>4, EmptySeq
  <2> QED
    BY <1>1, <1>2, <2>1 DEF PhaseInv
<1>8. FrameInv'
  <2>1. Len(flags') + Len(chunk') = Len(video')
    BY <1>1, <1>2, <1>4
  <2>2. ASSUME NEW m \in 1..Len(flags) PROVE flags'[m] = FlagsOf(video'[m])
    BY <1>1, <1>2, <1>4 DEF FrameInv
  <2>3. ASSUME NEW m \in 1..(Len(chunk) + 1) PROVE chunk'[m] = Sample(Len(flags) + m)'
    <3>1. CASE m = Len(chunk) + 1
      <4>1. Len(flags) + m = n + 1 /\ (n + 1) - 1 = n
        BY <1>1, <3>1
      <4>2. Sample(n + 1)' = [time |-> FramePeriod * n, frame |-> picture]
        BY <1>4, <4>1 DEF Sample
      <4> QED
        BY <1>2, <1>4, <3>1, <4>1, <4>2
    <3>2. CASE m # Len(chunk) + 1
      <4>1. m \in 1..Len(chunk) /\ Len(flags) + m \in 1..n
        BY <1>1, <3>2
      <4>2. Sample(Len(flags) + m)' = Sample(Len(flags) + m)
        BY <1>2, <1>4, <4>1 DEF Sample
      <4> QED
        BY <1>1, <1>4, <4>1, <4>2 DEF FrameInv
    <3> QED
      BY <3>1, <3>2
  <2> QED
    BY <1>2, <1>4, <2>1, <2>2, <2>3 DEF FrameInv
<1>9. ASSUME NEW k \in 1..Beats
      PROVE  /\ Sample(At(k))' = Sample(At(k)) /\ Prior(k)' = Prior(k)
             /\ video'[At(k)] = video[At(k)] /\ (k > 1 => MotionAt(k)' = MotionAt(k))
  BY <1>1, <1>4, <1>5, SamplesStay
<1>10. Beats \in Nat /\ Len(hands) \in Nat /\ Len(work) = 0 /\ Beats = Len(hands)
  BY <1>1, <1>2, LenProperties, EmptySeq DEF Beats, Typed
<1>11. ClockInv'
  <2>1. previousHand' = IF Beats = 0 THEN Nothing ELSE Sample(At(Beats))'
    <3>1. Beats # 0 => Beats \in 1..Beats
      BY <1>10
    <3> QED
      BY <1>1, <1>2, <1>5, <1>9, <3>1 DEF ClockInv
  <2> QED
    BY <1>1, <1>2, <1>5, <2>1 DEF ClockInv
<1>12. SampleInv'
  <2>1. ASSUME NEW k \in 1..Len(moves) PROVE moves[k] = MotionAt(k + 1)'
    <3>1. k + 1 \in 1..Beats /\ k + 1 > 1
      BY <1>1, <1>10 DEF SampleInv
    <3>2. MotionAt(k + 1)' = MotionAt(k + 1)
      BY <1>9, <3>1
    <3> QED
      BY <1>1, <3>2 DEF SampleInv
  <2>2. ASSUME NEW k \in 1..Len(hands)
        PROVE  hands[k] = Observed(Sample(At(k))', Prior(k)', Found(video'[At(k)]))
    BY <1>1, <1>9, <1>10 DEF SampleInv
  <2>3. Len(moves') = IF Beats' = 0 THEN 0 ELSE Beats' - 1
    BY <1>1, <1>2, <1>5 DEF SampleInv
  <2>4. \A j \in 1..Len(work') : FALSE
    BY <1>2, <1>10
  <2> QED
    BY <1>2, <2>1, <2>2, <2>3, <2>4 DEF SampleInv
<1>13. DoneInv'
  BY <1>2 DEF DoneInv
<1> QED
  BY <1>6, <1>7, <1>8, <1>11, <1>12, <1>13 DEF SeriesInv

\* What Inspect does, with n for the frame it takes.
LEMMA InspectTakes ==
    ASSUME SeriesInv, Inspect
    PROVE  \E n \in Nat \ {0}, due \in BOOLEAN, motion \in [translation : Int, rotation : Int] :
            /\ n = Len(flags) + 1 /\ n \in 1..Len(video)
            /\ Sample(n) \in Samples /\ video[n] \in Pictures
            /\ due = (FramePeriod * (n - 1) >= nextHandTime)
            /\ motion = IF due /\ previousHand # Nothing
                        THEN Motion(previousHand.frame, video[n], Elapsed(previousHand, Sample(n)))
                        ELSE NoMotion
            /\ flags' = Append(flags, FlagsOf(video[n]))
            /\ images' = Evidence!Add(images, FramePeriod * (n - 1), FrameScores(video[n], motion))
            /\ moves' = IF due /\ previousHand # Nothing THEN Append(moves, motion) ELSE moves
            /\ work' = IF due THEN Append(work, [sample |-> Sample(n), prior |-> previousHand])
                       ELSE work
            /\ previousHand' = IF due THEN Sample(n) ELSE previousHand
            /\ nextHandTime' = IF due THEN nextHandTime + HandPeriod ELSE nextHandTime
            /\ chunk' = Tail(chunk)
            /\ phase' = IF Tail(chunk) = <<>> THEN "detect" ELSE "inspect"
            /\ UNCHANGED <<video, stream, found, hands, result>>
<1>1. PICK n \in Nat \ {0} :
        /\ n = Len(flags) + 1 /\ n \in 1..Len(video)
        /\ chunk \in Seq(Samples) /\ Len(chunk) \in Nat /\ Len(chunk) >= 1
        /\ video \in Seq(Pictures) /\ chunk[1] = Sample(n)
  <2>1. /\ chunk \in Seq(Samples) /\ chunk # <<>> /\ video \in Seq(Pictures)
        /\ Len(chunk) \in Nat /\ Len(flags) \in Nat /\ Len(video) \in Nat
    BY LenProperties DEF SeriesInv, Typed, PhaseInv, Inspect
  <2>2. Len(chunk) # 0
    BY <2>1, EmptySeq
  <2>3. Len(flags) + Len(chunk) = Len(video) /\ 1 \in 1..Len(chunk)
    BY <2>1, <2>2 DEF SeriesInv, FrameInv
  <2>4. chunk[1] = Sample(Len(flags) + 1)
    BY <2>3 DEF SeriesInv, FrameInv
  <2> QED
    BY <2>1, <2>2, <2>3, <2>4
<1>2. video[n] \in Pictures
  BY <1>1, ElementOfSeq
<1>3. FramePeriod * (n - 1) \in Nat
  BY PeriodAssumption
<1>4. Sample(n) \in Samples /\ Sample(n).time = FramePeriod * (n - 1) /\ Sample(n).frame = video[n]
  BY <1>2, <1>3 DEF Sample, Samples
<1>5. Head(chunk) = Sample(n)
  BY <1>1
<1> DEFINE due == FramePeriod * (n - 1) >= nextHandTime
           moved == due /\ previousHand # Nothing
           motion == IF moved
                     THEN Motion(previousHand.frame, video[n], Elapsed(previousHand, Sample(n)))
                     ELSE NoMotion
<1>6. /\ flags' = Append(flags, FlagsOf(video[n]))
      /\ images' = Evidence!Add(images, FramePeriod * (n - 1), FrameScores(video[n], motion))
      /\ moves' = IF moved THEN Append(moves, motion) ELSE moves
      /\ IF due
         THEN /\ work' = Append(work, [sample |-> Sample(n), prior |-> previousHand])
              /\ previousHand' = Sample(n)
              /\ nextHandTime' = nextHandTime + HandPeriod
         ELSE UNCHANGED <<work, previousHand, nextHandTime>>
  BY <1>4, <1>5 DEF Inspect, NextDue
<1>7. /\ phase = "inspect" /\ chunk' = Tail(chunk)
      /\ phase' = IF Tail(chunk) = <<>> THEN "detect" ELSE phase
      /\ UNCHANGED <<video, stream, found, hands, result>>
  BY DEF Inspect
<1>8. due \in BOOLEAN /\ moved = (due /\ previousHand # Nothing)
  OBVIOUS
<1>9. motion = IF due /\ previousHand # Nothing
               THEN Motion(previousHand.frame, video[n], Elapsed(previousHand, Sample(n)))
               ELSE NoMotion
  OBVIOUS
<1>10. due = (FramePeriod * (n - 1) >= nextHandTime)
  OBVIOUS
<1>11. motion \in [translation : Int, rotation : Int]
  <2>1. CASE moved
    <3>1. previousHand \in Samples
      BY <2>1 DEF SeriesInv, Typed
    <3>2. previousHand.frame \in Pictures /\ Elapsed(previousHand, Sample(n)) \in Nat \ {0}
      BY <1>4, <3>1, ElapsedTyped DEF Samples
    <3>3. motion = Motion(previousHand.frame, video[n], Elapsed(previousHand, Sample(n)))
      BY <2>1
    <3> HIDE DEF motion
    <3> QED
      BY <1>2, <3>2, <3>3, MotionTyped
  <2>2. CASE ~moved
    BY <2>2 DEF NoMotion
  <2> QED
    BY <2>1, <2>2
<1> HIDE DEF due, moved, motion
<1>12. /\ work' = IF due THEN Append(work, [sample |-> Sample(n), prior |-> previousHand])
                  ELSE work
       /\ previousHand' = IF due THEN Sample(n) ELSE previousHand
       /\ nextHandTime' = IF due THEN nextHandTime + HandPeriod ELSE nextHandTime
  BY <1>6
<1>13. moves' = IF due /\ previousHand # Nothing THEN Append(moves, motion) ELSE moves
  BY <1>6, <1>8
<1>14. phase' = IF Tail(chunk) = <<>> THEN "detect" ELSE "inspect"
  BY <1>7
<1> QED
  BY <1>1, <1>2, <1>4, <1>6, <1>7, <1>8, <1>9, <1>10, <1>11, <1>12, <1>13, <1>14, Zenon

\* A sample that is due is the next beat's.
LEMMA BeatDue ==
    ASSUME SeriesInv, NEW n \in Nat \ {0}, n = Len(flags) + 1,
           FramePeriod * (n - 1) >= nextHandTime
    PROVE  /\ Beat(Beats + 1, n) /\ At(Beats + 1) = n
           /\ previousHand = Nothing <=> Beats = 0
           /\ Beats # 0 => Motion(previousHand.frame, video[n], Elapsed(previousHand, Sample(n)))
                            = MotionAt(Beats + 1)
<1>1. PICK b \in Nat : b = Beats /\ Typed /\ FrameInv /\ ClockInv
  BY LenProperties DEF SeriesInv, Typed, Beats
<1>2. nextHandTime = HandPeriod * b
  BY <1>1 DEF ClockInv
<1>3. n > 1 => FramePeriod * (n - 2) < HandPeriod * b
  <2> SUFFICES ASSUME n > 1 PROVE FramePeriod * (n - 2) < HandPeriod * b
    OBVIOUS
  <2>1. Len(flags) - 1 = n - 2 /\ Len(flags) # 0
    OBVIOUS
  <2>2. flags # <<>>
    BY <2>1, EmptySeq
  <2> QED
    BY <1>1, <1>2, <2>1, <2>2 DEF ClockInv
<1>4. Beat(b + 1, n)
  <2>1. (b + 1) - 1 = b
    OBVIOUS
  <2> QED
    BY <1>2, <1>3, <2>1 DEF Beat
<1>5. At(b + 1) = n
  BY <1>4, AtIs
<1>6. previousHand = IF b = 0 THEN Nothing ELSE Sample(At(b))
  BY <1>1 DEF ClockInv
<1>7. b # 0 => /\ Sample(At(b)) # Nothing
               /\ Sample(At(b)).frame = video[At(b)]
  <2>1. b # 0 => b \in 1..b
    OBVIOUS
  <2> QED
    BY <1>1, <2>1, BeatFrames, NothingAssumption
<1>8. (b + 1) - 1 = b
  OBVIOUS
<1> QED
  BY <1>1, <1>4, <1>5, <1>6, <1>7, <1>8 DEF MotionAt

LEMMA InspectSeries ==
    ASSUME SeriesInv, Inspect
    PROVE  SeriesInv'
<1>1. PICK n \in Nat \ {0}, due \in BOOLEAN, motion \in [translation : Int, rotation : Int] :
        /\ n = Len(flags) + 1 /\ n \in 1..Len(video)
        /\ Sample(n) \in Samples /\ video[n] \in Pictures
        /\ due = (FramePeriod * (n - 1) >= nextHandTime)
        /\ motion = IF due /\ previousHand # Nothing
                    THEN Motion(previousHand.frame, video[n], Elapsed(previousHand, Sample(n)))
                    ELSE NoMotion
        /\ flags' = Append(flags, FlagsOf(video[n]))
        /\ moves' = IF due /\ previousHand # Nothing THEN Append(moves, motion) ELSE moves
        /\ work' = IF due THEN Append(work, [sample |-> Sample(n), prior |-> previousHand])
                   ELSE work
        /\ previousHand' = IF due THEN Sample(n) ELSE previousHand
        /\ nextHandTime' = IF due THEN nextHandTime + HandPeriod ELSE nextHandTime
        /\ chunk' = Tail(chunk)
        /\ phase' = IF Tail(chunk) = <<>> THEN "detect" ELSE "inspect"
        /\ UNCHANGED <<video, stream, found, hands, result>>
  BY InspectTakes
<1>2. /\ Typed /\ PhaseInv /\ FrameInv /\ ClockInv /\ SampleInv
      /\ phase = "inspect" /\ stream \in {"open", "clean"} /\ chunk # <<>>
  BY DEF SeriesInv, Inspect, PhaseInv
<1>3. PICK b \in Nat :
        /\ b = Beats /\ Len(hands) \in Nat /\ Len(work) \in Nat /\ Len(moves) \in Nat
        /\ b = Len(hands) + Len(work)
        /\ Len(video) \in Nat /\ Len(chunk) \in Nat /\ Len(flags) \in Nat
  BY <1>2, LenProperties DEF Typed, Beats
<1>4. /\ flags' \in Seq([black : BOOLEAN, blurry : BOOLEAN, exposure : BOOLEAN])
      /\ Len(flags') = n /\ flags'[n] = FlagsOf(video[n]) /\ flags' # <<>>
      /\ \A m \in 1..(n - 1) : flags'[m] = flags[m]
  <2>1. flags \in Seq([black : BOOLEAN, blurry : BOOLEAN, exposure : BOOLEAN])
    BY <1>2 DEF Typed
  <2>2. FlagsOf(video[n]) \in [black : BOOLEAN, blurry : BOOLEAN, exposure : BOOLEAN]
    BY FlagsTyped
  <2>3. n - 1 = Len(flags)
    BY <1>1, <1>3
  <2> QED
    BY <1>1, <2>1, <2>2, <2>3, AppendProperties, SMTT(30)
<1>5. /\ chunk' \in Seq(Samples) /\ Len(chunk') = Len(chunk) - 1
      /\ \A m \in 1..Len(chunk') : chunk'[m] = chunk[m + 1]
      /\ chunk' = <<>> <=> phase' = "detect"
      /\ phase' \in {"inspect", "detect"}
  BY <1>1, <1>2, HeadTailProperties DEF Typed
<1>6. /\ work' \in Seq([sample : Samples, prior : Samples \cup {Nothing}])
      /\ moves' \in Seq([translation : Int, rotation : Int])
      /\ previousHand' \in Samples \cup {Nothing}
      /\ nextHandTime' \in Nat
  <2>1. /\ work \in Seq([sample : Samples, prior : Samples \cup {Nothing}])
        /\ moves \in Seq([translation : Int, rotation : Int])
        /\ previousHand \in Samples \cup {Nothing} /\ nextHandTime \in Nat
    BY <1>2 DEF Typed
  <2>2. [sample |-> Sample(n), prior |-> previousHand]
            \in [sample : Samples, prior : Samples \cup {Nothing}]
    BY <1>1, <2>1
  <2>3. HandPeriod \in Nat
    BY PeriodAssumption
  <2>4. work' \in Seq([sample : Samples, prior : Samples \cup {Nothing}])
    <3>1. Append(work, [sample |-> Sample(n), prior |-> previousHand])
                \in Seq([sample : Samples, prior : Samples \cup {Nothing}])
      BY <2>1, <2>2, AppendProperties
    <3> QED
      BY <1>1, <2>1, <3>1
  <2>5. moves' \in Seq([translation : Int, rotation : Int])
    <3>1. Append(moves, motion) \in Seq([translation : Int, rotation : Int])
      BY <2>1, AppendProperties
    <3> QED
      BY <1>1, <2>1, <3>1
  <2>6. previousHand' \in Samples \cup {Nothing} /\ nextHandTime' \in Nat
    BY <1>1, <2>1, <2>3
  <2> QED
    BY <2>4, <2>5, <2>6
<1>7. Typed'
  BY <1>1, <1>2, <1>4, <1>5, <1>6 DEF Typed
<1>8. PhaseInv'
  BY <1>1, <1>2, <1>5 DEF PhaseInv
<1>9. FrameInv'
  <2>1. Len(flags') + Len(chunk') = Len(video')
    BY <1>1, <1>2, <1>3, <1>4, <1>5 DEF FrameInv
  <2>2. ASSUME NEW m \in 1..n PROVE flags'[m] = FlagsOf(video[m])
    BY <1>1, <1>2, <1>3, <1>4, SMTT(30) DEF FrameInv
  <2>3. ASSUME NEW m \in 1..Len(chunk') PROVE chunk'[m] = Sample(n + m)
    <3>1. m + 1 \in 1..Len(chunk) /\ Len(flags) + (m + 1) = n + m
      BY <1>1, <1>3, <1>5
    <3>2. chunk[m + 1] = Sample(Len(flags) + (m + 1))
      BY <1>2, <3>1 DEF FrameInv
    <3> QED
      BY <1>5, <3>1, <3>2
  <2>4. \A m \in 1..Len(chunk') : Sample(n + m)' = Sample(n + m)
    BY <1>1 DEF Sample
  <2> QED
    BY <1>1, <1>4, <2>1, <2>2, <2>3, <2>4 DEF FrameInv
<1>10. ASSUME NEW k \in 1..b
       PROVE  /\ Sample(At(k))' = Sample(At(k)) /\ Prior(k)' = Prior(k)
              /\ video'[At(k)] = video[At(k)] /\ (k > 1 => MotionAt(k)' = MotionAt(k))
              /\ At(k) \in 1..(n - 1) /\ Beat(k, At(k))
  <2>1. At(k) \in 1..(n - 1) /\ Beat(k, At(k))
    <3>1. Len(flags) = n - 1
      BY <1>1, <1>3
    <3> QED
      BY <1>2, <1>3, <3>1 DEF ClockInv
  <2>2. \A m \in 1..Len(video) : video'[m] = video[m]
    BY <1>1
  <2> QED
    BY <1>2, <1>3, <2>1, <2>2, SamplesStay
<1>11. /\ nextHandTime = HandPeriod * b
       /\ nextHandTime \in Int /\ FramePeriod * (n - 1) \in Int
       /\ IF n = 1 THEN b = 0 ELSE FramePeriod * (n - 2) < nextHandTime
  <2>1. n = 1 <=> flags = <<>>
    <3>1. Len(flags) = 0 <=> flags = <<>>
      BY <1>2, EmptySeq DEF Typed
    <3>2. Len(flags) = 0 <=> n = 1
      BY <1>1, <1>3, SMTT(30)
    <3> QED
      BY <3>1, <3>2
  <2>2. Len(flags) - 1 = n - 2
    BY <1>1, <1>3
  <2>3. nextHandTime \in Nat /\ FramePeriod * (n - 1) \in Int
    BY <1>2, PeriodAssumption DEF Typed
  <2> QED
    BY <1>2, <1>3, <2>1, <2>2, <2>3, SMTT(30) DEF ClockInv
<1>12. /\ b # 0 => b \in 1..b
       /\ previousHand = IF b = 0 THEN Nothing ELSE Sample(At(b))
       /\ Len(moves) = IF b = 0 THEN 0 ELSE b - 1
       /\ \A k \in 1..Len(moves) : moves[k] = MotionAt(k + 1)
       /\ \A j, k \in 1..b : j < k => At(j) < At(k)
  BY <1>2, <1>3 DEF ClockInv, SampleInv
<1>13. /\ \A j \in 1..Len(work) : work[j] = [sample |-> Sample(At(Len(hands) + j)),
                                             prior |-> Prior(Len(hands) + j)]
       /\ \A k \in 1..Len(hands) :
            hands[k] = Observed(Sample(At(k)), Prior(k), Found(video[At(k)]))
  BY <1>2 DEF SampleInv
<1>14. /\ \A k \in 1..Len(hands) :
            hands'[k] = Observed(Sample(At(k))', Prior(k)', Found(video'[At(k)]))
       /\ \A j \in 1..Len(work) : work[j] = [sample |-> Sample(At(Len(hands) + j))',
                                             prior |-> Prior(Len(hands) + j)']
  <2>1. \A k \in 1..Len(hands) : k \in 1..b
    BY <1>3
  <2>2. \A j \in 1..Len(work) : Len(hands) + j \in 1..b
    BY <1>3
  <2>3. ASSUME NEW k \in 1..Len(hands)
        PROVE  hands'[k] = Observed(Sample(At(k))', Prior(k)', Found(video'[At(k)]))
    BY <1>1, <1>10, <1>13, <2>1
  <2>4. ASSUME NEW j \in 1..Len(work)
        PROVE  work[j] = [sample |-> Sample(At(Len(hands) + j))', prior |-> Prior(Len(hands) + j)']
    <3>1. PICK k \in 1..b : k = Len(hands) + j
      BY <2>2
    <3>2. work[j] = [sample |-> Sample(At(k)), prior |-> Prior(k)]
      BY <1>13, <3>1
    <3>3. work[j] = [sample |-> Sample(At(k))', prior |-> Prior(k)']
      BY <1>10, <3>2
    <3> QED
      BY <1>1, <3>1, <3>3
  <2> QED
    BY <2>3, <2>4
<1>15. Sample(n)' = Sample(n)
  BY <1>1 DEF Sample
<1>16. DoneInv'
  BY <1>5 DEF DoneInv
<1>17. ASSUME ~due
       PROVE  ClockInv' /\ SampleInv'
  <2>1. UNCHANGED <<work, moves, previousHand, nextHandTime>>
    BY <1>1, <1>17
  <2>2. Beats' = b
    BY <1>1, <1>3, <2>1 DEF Beats
  <2>3. ClockInv'
    <3>1. FramePeriod * (n - 1) < nextHandTime
      <4>1. ~(FramePeriod * (n - 1) >= nextHandTime)
        BY <1>1, <1>17, Zenon
      <4> QED
        BY <1>11, <4>1
    <3>2. \A k \in 1..b : At(k) \in 1..n
      BY <1>10
    <3>3. previousHand' = IF b = 0 THEN Nothing ELSE Sample(At(b))'
      BY <1>10, <1>12, <2>1
    <3>4. nextHandTime' = HandPeriod * Beats'
      BY <1>11, <2>1, <2>2
    <3>5. \A k \in 1..b : Beat(k, At(k))
      BY <1>10
    <3> QED
      BY <1>4, <1>12, <2>1, <2>2, <3>1, <3>2, <3>3, <3>4, <3>5 DEF ClockInv
  <2>4. SampleInv'
    <3>1. ASSUME NEW k \in 1..Len(moves) PROVE moves[k] = MotionAt(k + 1)'
      <4>1. k + 1 \in 1..b /\ k + 1 > 1
        BY <1>3, <1>12
      <4> QED
        BY <1>10, <1>12, <4>1
    <3> QED
      BY <1>1, <1>5, <1>12, <1>14, <2>1, <2>2, <3>1 DEF SampleInv
  <2> QED
    BY <2>3, <2>4
<1>18. ASSUME due
       PROVE  ClockInv' /\ SampleInv'
  <2>1. /\ moves' = IF b # 0 THEN Append(moves, motion) ELSE moves
        /\ work' = Append(work, [sample |-> Sample(n), prior |-> previousHand])
        /\ previousHand' = Sample(n)
        /\ nextHandTime' = nextHandTime + HandPeriod
        /\ Beat(b + 1, n) /\ At(b + 1) = n
        /\ b # 0 => motion = MotionAt(b + 1)
    <3>1. FramePeriod * (n - 1) >= nextHandTime
      BY <1>1, <1>18, Zenon
    <3>2. /\ Beat(b + 1, n) /\ At(b + 1) = n
          /\ previousHand = Nothing <=> b = 0
          /\ b # 0 => Motion(previousHand.frame, video[n], Elapsed(previousHand, Sample(n)))
                        = MotionAt(b + 1)
      BY <1>1, <1>3, <3>1, BeatDue
    <3> QED
      BY <1>1, <1>18, <3>2
  <2>2. /\ Len(work') = Len(work) + 1
        /\ work'[Len(work) + 1] = [sample |-> Sample(n), prior |-> previousHand]
        /\ \A j \in 1..Len(work) : work'[j] = work[j]
    <3>1. work \in Seq([sample : Samples, prior : Samples \cup {Nothing}])
      BY <1>2 DEF Typed
    <3>2. [sample |-> Sample(n), prior |-> previousHand]
                \in [sample : Samples, prior : Samples \cup {Nothing}]
      BY <1>1, <1>2 DEF Typed
    <3> QED
      BY <2>1, <3>1, <3>2, AppendProperties
  <2>3. Beats' = b + 1
    BY <1>1, <1>3, <2>2 DEF Beats
  <2>4. ClockInv'
    <3>1. FramePeriod * (n - 1) < nextHandTime'
      <4>1. FramePeriod \in Nat /\ HandPeriod \in Nat /\ FramePeriod <= HandPeriod /\ HandPeriod > 0
        BY PeriodAssumption
      <4>2. CASE n = 1
        BY <1>11, <2>1, <4>1, <4>2
      <4>3. CASE n # 1
        <5>1. FramePeriod * (n - 1) = FramePeriod * (n - 2) + FramePeriod
          BY <4>1
        <5>2. FramePeriod * (n - 2) \in Int
          BY <4>1
        <5> QED
          BY <1>11, <2>1, <4>1, <4>3, <5>1, <5>2
      <4> QED
        BY <4>2, <4>3
    <3>2. nextHandTime' = HandPeriod * (b + 1)
      <4>1. HandPeriod \in Nat
        BY PeriodAssumption
      <4>2. HandPeriod * (b + 1) = HandPeriod * b + HandPeriod
        BY <4>1
      <4> QED
        BY <1>11, <2>1, <4>2
    <3>3. ASSUME NEW k \in 1..(b + 1) PROVE At(k) \in 1..n /\ Beat(k, At(k))
      <4>1. CASE k = b + 1
        BY <2>1, <4>1
      <4>2. CASE k # b + 1
        <5>1. k \in 1..b
          BY <4>2
        <5> QED
          BY <1>10, <5>1
      <4> QED
        BY <4>1, <4>2
    <3>4. ASSUME NEW j \in 1..(b + 1), NEW k \in 1..(b + 1), j < k PROVE At(j) < At(k)
      <4>1. CASE k = b + 1
        <5>1. j \in 1..b
          BY <3>4, <4>1
        <5> QED
          BY <1>10, <2>1, <4>1, <5>1
      <4>2. CASE k # b + 1
        <5>1. j \in 1..b /\ k \in 1..b
          BY <3>4, <4>2
        <5> QED
          BY <1>12, <3>4, <5>1
      <4> QED
        BY <4>1, <4>2
    <3>5. previousHand' = Sample(At(b + 1))'
      BY <1>15, <2>1
    <3>6. b + 1 # 0
      OBVIOUS
    <3> QED
      BY <1>4, <2>3, <3>1, <3>2, <3>3, <3>4, <3>5, <3>6 DEF ClockInv
  <2>5. /\ Prior(b + 1) = previousHand
        /\ Prior(b + 1)' = Prior(b + 1)
        /\ b # 0 => MotionAt(b + 1)' = MotionAt(b + 1)
    <3>1. (b + 1) - 1 = b /\ (b + 1 = 1 <=> b = 0)
      OBVIOUS
    <3>2. b # 0 => Sample(At(b))' = Sample(At(b)) /\ video'[At(b)] = video[At(b)]
      BY <1>10, <1>12
    <3>3. Prior(b + 1) = previousHand
      BY <1>12, <3>1 DEF Prior
    <3>4. Prior(b + 1)' = Prior(b + 1)
      BY <3>1, <3>2 DEF Prior
    <3>5. b # 0 => MotionAt(b + 1)' = MotionAt(b + 1)
      BY <1>1, <1>15, <2>1, <3>1, <3>2 DEF MotionAt
    <3> QED
      BY <3>3, <3>4, <3>5
  <2>6. SampleInv'
    <3>1. /\ Len(moves') = b
          /\ \A k \in 1..Len(moves) : moves'[k] = moves[k]
          /\ b # 0 => moves'[b] = motion
      <4>1. moves \in Seq([translation : Int, rotation : Int])
        BY <1>2 DEF Typed
      <4>2. CASE b = 0
        BY <1>12, <2>1, <4>2
      <4>3. CASE b # 0
        <5>1. b = Len(moves) + 1
          BY <1>12, <4>3
        <5> QED
          BY <2>1, <4>1, <4>3, <5>1, AppendProperties
      <4> QED
        BY <4>2, <4>3
    <3>2. ASSUME NEW k \in 1..b PROVE moves'[k] = MotionAt(k + 1)'
      <4>1. CASE k = b
        <5>1. moves'[b] = MotionAt(b + 1)
          BY <2>1, <3>1
        <5>2. MotionAt(b + 1)' = MotionAt(b + 1)
          BY <2>5
        <5> QED
          BY <4>1, <5>1, <5>2
      <4>2. CASE k # b
        <5>1. k \in 1..Len(moves) /\ k + 1 \in 1..b /\ k + 1 > 1
          BY <1>12, <4>2
        <5> QED
          BY <1>10, <1>12, <3>1, <5>1
      <4> QED
        BY <4>1, <4>2
    <3>3. ASSUME NEW j \in 1..(Len(work) + 1)
          PROVE  work'[j] = [sample |-> Sample(At(Len(hands) + j))',
                             prior |-> Prior(Len(hands) + j)']
      <4>1. CASE j = Len(work) + 1
        <5>1. Len(hands) + j = b + 1
          BY <1>3, <4>1
        <5>2. work'[j] = [sample |-> Sample(At(b + 1))', prior |-> Prior(b + 1)']
          BY <1>15, <2>1, <2>2, <2>5, <4>1
        <5> QED
          BY <1>1, <5>1, <5>2
      <4>2. CASE j # Len(work) + 1
        <5>1. j \in 1..Len(work)
          BY <1>3, <4>2
        <5> QED
          BY <1>14, <2>2, <5>1
      <4> QED
        BY <4>1, <4>2
    <3>4. Len(moves') = IF Beats' = 0 THEN 0 ELSE Beats' - 1
      BY <2>3, <3>1
    <3> QED
      BY <1>1, <1>5, <1>14, <2>2, <3>1, <3>2, <3>3, <3>4 DEF SampleInv
  <2> QED
    BY <2>4, <2>6
<1> QED
  BY <1>7, <1>8, <1>9, <1>16, <1>17, <1>18 DEF SeriesInv

LEMMA DetectSeries ==
    ASSUME SeriesInv, Detect
    PROVE  SeriesInv'
<1> DEFINE frames == [n \in DOMAIN work |-> work[n].sample.frame]
<1>1. /\ phase = "detect" /\ found' = DetectWithFallback(frames)
      /\ phase' = IF work = <<>> THEN AfterChunk ELSE "observe"
      /\ UNCHANGED <<video, stream, chunk, work, flags, moves, previousHand, nextHandTime, hands>>
  BY DEF Detect, frameVars
<1>2. /\ Typed /\ PhaseInv /\ stream \in {"open", "clean"} /\ chunk = <<>>
      /\ work \in Seq([sample : Samples, prior : Samples \cup {Nothing}])
      /\ Len(work) \in Nat /\ DOMAIN work = 1..Len(work)
  BY <1>1, LenProperties DEF SeriesInv, PhaseInv, Typed
<1>3. \A n \in 1..Len(work) : work[n].sample.frame \in Pictures
  <2> SUFFICES ASSUME NEW n \in 1..Len(work) PROVE work[n].sample.frame \in Pictures
    OBVIOUS
  <2>1. work[n] \in [sample : Samples, prior : Samples \cup {Nothing}]
    BY <1>2, ElementOfSeq
  <2> QED
    BY <2>1 DEF Samples
<1>4. frames \in Seq(Pictures)
  BY <1>2, <1>3
<1>5. found' = [n \in 1..Len(work) |-> Found(work[n].sample.frame)]
  <2>1. found' = [n \in DOMAIN frames |-> Found(frames[n])]
    <3> HIDE DEF frames
    <3> QED
      BY <1>1, <1>4, DetectExact
  <2> QED
    BY <1>2, <2>1
<1>6. FoundInv'
  <2>1. \A n \in 1..Len(work) : Found(work[n].sample.frame) \in SUBSET Points
    <3> SUFFICES ASSUME NEW n \in 1..Len(work)
                 PROVE  Found(work[n].sample.frame) \in SUBSET Points
      OBVIOUS
    <3>1. work[n].sample.frame \in Pictures
      BY <1>3
    <3> QED
      BY <3>1, PictureTyped DEF Found
  <2>2. found' \in Seq(SUBSET Points) /\ Len(found') = Len(work)
    BY <1>2, <1>5, <2>1
  <2>3. \A j \in 1..Len(work) : found'[j] = Found(work[j].sample.frame)
    BY <1>5
  <2> QED
    BY <1>1, <2>2, <2>3 DEF FoundInv
<1> HIDE DEF frames
<1>7. FrameInv' /\ ClockInv' /\ SampleInv'
  BY <1>1, <1>6, SeriesStay
<1>8. Typed' /\ PhaseInv' /\ DoneInv'
  <2>1. phase' \in {"decode", "observe", "measure"}
    BY <1>1, <1>2 DEF AfterChunk
  <2>2. Typed'
    BY <1>1, <1>2, <2>1 DEF Typed
  <2>3. PhaseInv'
    BY <1>1, <1>2 DEF PhaseInv, AfterChunk
  <2>4. DoneInv'
    BY <2>1 DEF DoneInv
  <2> QED
    BY <2>2, <2>3, <2>4
<1> QED
  BY <1>7, <1>8 DEF SeriesInv

\* What Observe does, with h for the hand sample it takes.
LEMMA ObserveTakes ==
    ASSUME SeriesInv, Observe
    PROVE  \E h \in 1..Beats, hand \in Hands :
            /\ h = Len(hands) + 1 /\ Len(work) >= 1
            /\ hand = Observed(Sample(At(h)), Prior(h), Found(video[At(h)]))
            /\ hands' = Append(hands, hand)
            /\ images' = Evidence!Add(images, FramePeriod * (At(h) - 1),
                            HandScores(hand, h, IF Prior(h) = Nothing THEN 0
                                                ELSE Stillness(Prior(h).frame, video[At(h)])))
            /\ work' = Tail(work) /\ found' = Tail(found)
            /\ phase' = IF Tail(work) = <<>> THEN AfterChunk ELSE "observe"
            /\ UNCHANGED <<video, stream, chunk, flags, moves, previousHand, nextHandTime, result>>
<1>1. /\ Typed /\ FrameInv /\ ClockInv /\ SampleInv
      /\ phase = "observe" /\ work # <<>> /\ FoundInv
      /\ work \in Seq([sample : Samples, prior : Samples \cup {Nothing}])
      /\ hands \in Seq(Hands) /\ found \in Seq(SUBSET Points) /\ Len(found) = Len(work)
      /\ Len(work) \in Nat /\ Len(hands) \in Nat
  BY LenProperties DEF SeriesInv, PhaseInv, SampleInv, FoundInv, Typed, Observe
<1>2. Len(work) >= 1
  BY <1>1, EmptySeq
<1>3. PICK h \in 1..Beats : h = Len(hands) + 1
  BY <1>1, <1>2 DEF Beats
<1>4. Head(work) = work[1] /\ Head(found) = found[1] /\ 1 \in 1..Len(work)
  BY <1>1, <1>2
<1>5. Head(work) = [sample |-> Sample(At(h)), prior |-> Prior(h)]
  BY <1>1, <1>3, <1>4 DEF SampleInv
<1>6. /\ Sample(At(h)) \in Samples /\ Prior(h) \in Samples \cup {Nothing}
      /\ Sample(At(h)).frame = video[At(h)]
      /\ Sample(At(h)).time = FramePeriod * (At(h) - 1)
  BY <1>1, BeatFrames
<1>7. Head(found) = Found(video[At(h)])
  <2>1. found[1] = Found(work[1].sample.frame)
    BY <1>1, <1>4 DEF FoundInv
  <2> QED
    BY <1>4, <1>5, <1>6, <2>1
<1> DEFINE hand == Observed(Sample(At(h)), Prior(h), Found(video[At(h)]))
           stillness == IF Prior(h) = Nothing THEN 0
                        ELSE Stillness(Prior(h).frame, video[At(h)])
<1>8. hand \in Hands
  BY <1>6, ObservedTyped
<1>9. Len(Append(hands, hand)) = h
  <2> HIDE DEF hand
  <2> QED
    BY <1>1, <1>3, <1>8
<1>10. /\ hands' = Append(hands, hand)
       /\ images' = Evidence!Add(images, FramePeriod * (At(h) - 1), HandScores(hand, h, stillness))
  <2>1. Head(work).sample = Sample(At(h)) /\ Head(work).prior = Prior(h)
    BY <1>5
  <2>2. hands' = Append(hands, hand)
    BY <1>7, <2>1 DEF Observe
  <2>3. images' = Evidence!Add(images, Head(work).sample.time,
                        HandScores(Observed(Head(work).sample, Head(work).prior, Head(found)),
                                   Len(hands'),
                                   IF Head(work).prior = Nothing THEN 0
                                   ELSE Stillness(Head(work).prior.frame, Head(work).sample.frame)))
    BY DEF Observe
  <2>4. Len(hands') = h
    BY <1>9, <2>2
  <2> QED
    BY <1>6, <1>7, <2>1, <2>2, <2>3, <2>4
<1>11. /\ work' = Tail(work) /\ found' = Tail(found)
       /\ phase' = IF Tail(work) = <<>> THEN AfterChunk ELSE phase
       /\ UNCHANGED <<video, stream, chunk, flags, moves, previousHand, nextHandTime, result>>
  BY DEF Observe, frameVars
<1>12. hand = Observed(Sample(At(h)), Prior(h), Found(video[At(h)]))
  OBVIOUS
<1> HIDE DEF hand
<1>13. phase' = IF Tail(work) = <<>> THEN AfterChunk ELSE "observe"
  BY <1>1, <1>11
<1> QED
  BY <1>2, <1>3, <1>8, <1>10, <1>11, <1>12, <1>13, Zenon

LEMMA ObserveSeries ==
    ASSUME SeriesInv, Observe
    PROVE  SeriesInv'
<1>1. PICK h \in 1..Beats, hand \in Hands :
        /\ h = Len(hands) + 1 /\ Len(work) >= 1
        /\ hand = Observed(Sample(At(h)), Prior(h), Found(video[At(h)]))
        /\ hands' = Append(hands, hand)
        /\ work' = Tail(work) /\ found' = Tail(found)
        /\ phase' = IF Tail(work) = <<>> THEN AfterChunk ELSE "observe"
        /\ UNCHANGED <<video, stream, chunk, flags, moves, previousHand, nextHandTime, result>>
  BY ObserveTakes
<1>2. /\ Typed /\ PhaseInv /\ FrameInv /\ ClockInv /\ SampleInv
      /\ phase = "observe" /\ work # <<>> /\ FoundInv /\ chunk = <<>>
      /\ stream \in {"open", "clean"}
      /\ work \in Seq([sample : Samples, prior : Samples \cup {Nothing}])
      /\ hands \in Seq(Hands) /\ found \in Seq(SUBSET Points) /\ Len(found) = Len(work)
      /\ Len(work) \in Nat /\ Len(hands) \in Nat
  BY LenProperties DEF SeriesInv, PhaseInv, SampleInv, FoundInv, Typed, Observe
<1>3. /\ work' \in Seq([sample : Samples, prior : Samples \cup {Nothing}])
      /\ Len(work') = Len(work) - 1
      /\ \A j \in 1..Len(work') : work'[j] = work[j + 1]
      /\ found' \in Seq(SUBSET Points) /\ Len(found') = Len(work')
      /\ \A j \in 1..Len(work') : found'[j] = found[j + 1]
  <2>1. found # <<>>
    BY <1>1, <1>2
  <2> QED
    BY <1>1, <1>2, <2>1, HeadTailProperties
<1>4. /\ hands' \in Seq(Hands) /\ Len(hands') = h /\ hands'[h] = hand
      /\ \A k \in 1..Len(hands) : hands'[k] = hands[k]
  BY <1>1, <1>2, AppendProperties
<1>5. Beats' = Beats
  BY <1>1, <1>2, <1>3, <1>4 DEF Beats
<1>6. phase' \in {"decode", "observe", "measure"}
  BY <1>1, <1>2 DEF AfterChunk
<1>7. Typed'
  BY <1>1, <1>2, <1>3, <1>4, <1>6 DEF Typed
<1>8. PhaseInv'
  BY <1>1, <1>2 DEF PhaseInv, AfterChunk
<1>9. FrameInv'
  BY <1>1, <1>2 DEF FrameInv, Sample
<1>10. ClockInv'
  BY <1>1, <1>2, <1>5 DEF ClockInv, Sample
<1>11. SampleInv'
  <2>1. ASSUME NEW j \in 1..Len(work')
        PROVE  /\ work'[j] = [sample |-> Sample(At(h + j)), prior |-> Prior(h + j)]
               /\ found'[j] = Found(work'[j].sample.frame)
    <3>1. j + 1 \in 1..Len(work) /\ Len(hands) + (j + 1) = h + j
      BY <1>1, <1>2, <1>3
    <3>2. /\ work[j + 1] = [sample |-> Sample(At(Len(hands) + (j + 1))),
                            prior |-> Prior(Len(hands) + (j + 1))]
          /\ found[j + 1] = Found(work[j + 1].sample.frame)
      BY <1>2, <3>1 DEF SampleInv, FoundInv
    <3> QED
      BY <1>3, <3>1, <3>2
  <2>2. ASSUME NEW k \in 1..h
        PROVE  hands'[k] = Observed(Sample(At(k)), Prior(k), Found(video[At(k)]))
    <3>1. CASE k = h
      BY <1>1, <1>4, <3>1
    <3>2. CASE k # h
      <4>1. k \in 1..Len(hands)
        BY <1>1, <1>2, <3>2
      <4> QED
        BY <1>2, <1>4, <4>1 DEF SampleInv
    <3> QED
      BY <3>1, <3>2
  <2>3. /\ \A k \in 1..h : Sample(At(k))' = Sample(At(k)) /\ Prior(k)' = Prior(k)
        /\ \A j \in 1..Len(work') : /\ Sample(At(h + j))' = Sample(At(h + j))
                                    /\ Prior(h + j)' = Prior(h + j)
        /\ \A k \in 1..Len(moves) : MotionAt(k + 1)' = MotionAt(k + 1)
    BY <1>1 DEF Sample, Prior, MotionAt
  <2>4. /\ Len(moves') = IF Beats' = 0 THEN 0 ELSE Beats' - 1
        /\ \A k \in 1..Len(moves') : moves'[k] = MotionAt(k + 1)
    BY <1>1, <1>2, <1>5 DEF SampleInv
  <2>5. FoundInv'
    BY <1>3, <2>1 DEF FoundInv
  <2> QED
    BY <1>1, <1>4, <2>1, <2>2, <2>3, <2>4, <2>5 DEF SampleInv
<1>12. DoneInv'
  BY <1>6 DEF DoneInv
<1> QED
  BY <1>7, <1>8, <1>9, <1>10, <1>11, <1>12 DEF SeriesInv

LEMMA ColumnTyped ==
    ASSUME NEW S, NEW T, NEW series \in Seq(S), NEW field, \A x \in S : x[field] \in T
    PROVE  /\ Column(series, field) \in Seq(T) /\ Len(Column(series, field)) = Len(series)
           /\ \A n \in 1..Len(series) : Column(series, field)[n] = series[n][field]
<1>1. Len(series) \in Nat /\ DOMAIN series = 1..Len(series)
      /\ \A n \in 1..Len(series) : series[n] \in S
  BY LenProperties, ElementOfSeq
<1>2. Column(series, field) = [n \in 1..Len(series) |-> series[n][field]]
  BY <1>1 DEF Column
<1> QED
  BY <1>1, <1>2

LEMMA IdleTyped ==
    ASSUME NEW times, NEW idle \in Seq(Int \cup {Missing})
    PROVE  QualifiedIdle(times, idle) \in Seq(Int \cup {Missing})
<1>1. Len(idle) \in Nat /\ DOMAIN idle = 1..Len(idle)
  BY LenProperties
<1> DEFINE q(i) == CASE idle[i] = Missing -> Missing
                     [] \E run \in Range(LongRuns(times, idle)) : i \in run[1]..run[2] -> 1
                     [] OTHER -> 0
<1>2. QualifiedIdle(times, idle) = [i \in 1..Len(idle) |-> q(i)]
  BY <1>1 DEF QualifiedIdle
<1>3. \A i \in 1..Len(idle) : q(i) \in Int \cup {Missing}
  OBVIOUS
<1> HIDE DEF q
<1> QED
  BY <1>1, <1>2, <1>3

\* The share of the frames with a flag.
LEMMA ShareTyped ==
    ASSUME flags \in Seq([black : BOOLEAN, blurry : BOOLEAN, exposure : BOOLEAN]), flags # <<>>,
           NEW field \in {"black", "blurry", "exposure"}
    PROVE  Share(field) \in Floats
<1> DEFINE series == [n \in DOMAIN flags |-> IF flags[n][field] THEN 1 ELSE 0]
<1>1. Len(flags) \in Nat /\ Len(flags) # 0 /\ DOMAIN flags = 1..Len(flags)
  BY LenProperties, EmptySeq
<1>2. series \in Seq(Int \cup {Missing})
  BY <1>1
<1>3. 1 \in DOMAIN series /\ series[1] # Missing
  BY <1>1, MissingAssumption
<1> HIDE DEF series
<1>4. Values(series) # {}
  BY <1>3 DEF Values, Valid
<1>5. Mean(series) \in Floats
  BY <1>2, <1>4, MeanTyped
<1> QED
  BY <1>5 DEF Share, series

LEMMA ShakeTyped ==
    ASSUME NEW S, moves \in Seq(S), NEW field, \A x \in S : x[field] \in Int
    PROVE  Shake(field) \in Floats
<1>1. CASE moves = <<>>
  BY <1>1, FloatsTyped DEF Shake
<1>2. CASE moves # <<>>
  <2> DEFINE series == Column(moves, field)
  <2>1. PICK T : T = Int \cup {Missing} /\ \A x \in S : x[field] \in T
    OBVIOUS
  <2>2. series \in Seq(Int \cup {Missing}) /\ Len(series) = Len(moves)
        /\ \A n \in 1..Len(moves) : series[n] = moves[n][field]
    <3>1. Column(moves, field) \in Seq(T)
      BY <2>1, ColumnTyped
    <3>2. Column(moves, field) = [n \in 1..Len(moves) |-> moves[n][field]] /\ Len(moves) \in Nat
      BY LenProperties DEF Column
    <3>3. series \in Seq(T) /\ Len(series) = Len(moves)
          /\ \A n \in 1..Len(moves) : series[n] = moves[n][field]
      BY <3>1, <3>2
    <3> HIDE DEF series
    <3> QED
      BY <2>1, <3>3
  <2>3. Len(moves) \in Nat /\ Len(moves) # 0
    BY <1>2, LenProperties, EmptySeq
  <2>4. moves[1] \in S
    BY <2>3, ElementOfSeq
  <2>5. series[1] # Missing /\ 1 \in DOMAIN series
    <3>1. series[1] = moves[1][field] /\ 1 \in DOMAIN series
      <4> HIDE DEF series
      <4> QED
        BY <2>2, <2>3
    <3>2. moves[1][field] \in Int
      BY <2>4
    <3> QED
      BY <3>1, <3>2, MissingAssumption
  <2> HIDE DEF series
  <2>6. Values(series) # {}
    BY <2>5 DEF Values, Valid
  <2>7. P95(series) \in Floats
    BY <2>2, <2>6, P95Typed
  <2> QED
    BY <1>2, <2>7 DEF Shake, series
<1> QED
  BY <1>1, <1>2

LEMMA MeasureSeries ==
    ASSUME SeriesInv, Measure
    PROVE  SeriesInv'
<1>1. /\ phase = "measure" /\ phase' = "done"
      /\ UNCHANGED <<video, stream, chunk, work, flags, moves, previousHand, nextHandTime, hands>>
  BY DEF Measure, chunkVars, frameVars
<1>2. FrameInv' /\ ClockInv' /\ SampleInv'
  BY <1>1, SeriesStay
<1>3. Typed' /\ PhaseInv'
  BY <1>1 DEF SeriesInv, Typed, PhaseInv
<1>4. /\ stream = "clean" /\ chunk = <<>> /\ work = <<>> /\ video # <<>> /\ hands \in Seq(Hands)
      /\ flags \in Seq([black : BOOLEAN, blurry : BOOLEAN, exposure : BOOLEAN]) /\ flags # <<>>
      /\ moves \in Seq([translation : Int, rotation : Int])
  <2>1. /\ stream = "clean" /\ chunk = <<>> /\ work = <<>> /\ video # <<>> /\ hands \in Seq(Hands)
        /\ flags \in Seq([black : BOOLEAN, blurry : BOOLEAN, exposure : BOOLEAN])
        /\ moves \in Seq([translation : Int, rotation : Int])
        /\ video \in Seq(Pictures) /\ Len(flags) + Len(chunk) = Len(video)
    BY <1>1 DEF SeriesInv, PhaseInv, Typed, FrameInv
  <2>2. Len(chunk) = 0 /\ Len(video) # 0 /\ Len(flags) \in Nat
    BY <2>1, EmptySeq, LenProperties
  <2> QED
    BY <2>1, <2>2, EmptySeq
<1> DEFINE visible == Column(hands, "visible")
           idle == QualifiedIdle(Column(hands, "time"), Column(hands, "idle"))
           speeds == Column(hands, "speed")
           black == BlackIntervals(FrameTimes, Column(flags, "black"))
           covered == IF black = <<>> THEN 0 ELSE 1
<1>5. /\ visible \in Seq(Int \cup {Missing}) /\ idle \in Seq(Int \cup {Missing})
      /\ speeds \in Seq(Int \cup {Missing})
  <2>1. \A x \in Hands : /\ x["visible"] \in Int \cup {Missing}
                         /\ x["idle"] \in Int \cup {Missing}
                         /\ x["speed"] \in Int \cup {Missing}
    BY DEF Hands
  <2>2. /\ visible \in Seq(Int \cup {Missing}) /\ speeds \in Seq(Int \cup {Missing})
        /\ Column(hands, "idle") \in Seq(Int \cup {Missing})
    BY <1>4, <2>1, ColumnTyped
  <2> QED
    BY <2>2, IdleTyped
<1>6. PICK seen \in Estimates(visible, "mean"), idling \in Estimates(idle, "mean"),
           speed \in Estimates(speeds, "p95"), repetition \in RepetitionScores(speeds) :
        /\ result'.signals =
                [hands |-> seen.point, speed |-> speed.point, idle |-> idling.point,
                 repetition |-> repetition, corrupt |-> 0, covered |-> covered,
                 blurry |-> Share("blurry"), exposure |-> Share("exposure"),
                 translation |-> Shake("translation"), rotation |-> Shake("rotation")]
        /\ result'.intervals =
                [hands |-> seen.interval, speed |-> speed.interval, idle |-> idling.interval]
  BY DEF Measure
<1>7. covered \in {0, 1} /\ repetition \in Floats
  <2>1. repetition \in {0, One}
    BY DEF RepetitionScores
  <2> QED
    BY <2>1, FloatsTyped
<1> HIDE DEF visible, idle, speeds, black, covered
<1>8. /\ seen.point \in Floats /\ speed.point \in Floats /\ idling.point \in Floats
      /\ seen.interval \in [low : Floats, high : Floats]
      /\ speed.interval \in [low : Floats, high : Floats]
      /\ idling.interval \in [low : Floats, high : Floats]
      /\ seen.interval.low <= seen.interval.high
      /\ speed.interval.low <= speed.interval.high
      /\ idling.interval.low <= idling.interval.high
  <2>1. seen.point \in Floats /\ seen.interval \in [low : Floats, high : Floats]
        /\ seen.interval.low <= seen.interval.high
    BY <1>5, EstimatesTyped
  <2>2. speed.point \in Floats /\ speed.interval \in [low : Floats, high : Floats]
        /\ speed.interval.low <= speed.interval.high
    BY <1>5, EstimatesTyped
  <2>3. idling.point \in Floats /\ idling.interval \in [low : Floats, high : Floats]
        /\ idling.interval.low <= idling.interval.high
    BY <1>5, EstimatesTyped
  <2> QED
    BY <2>1, <2>2, <2>3
<1>9. /\ Share("blurry") \in Floats /\ Share("exposure") \in Floats
      /\ Shake("translation") \in Floats /\ Shake("rotation") \in Floats
  <2>1. \A x \in [translation : Int, rotation : Int] :
            x["translation"] \in Int /\ x["rotation"] \in Int
    OBVIOUS
  <2>2. Shake("translation") \in Floats /\ Shake("rotation") \in Floats
    BY <1>4, <2>1, ShakeTyped
  <2> QED
    BY <1>4, <2>2, ShareTyped
<1>10. Measurement(result'.signals, result'.intervals)
  <2>1. /\ result'.signals \in [Signals -> Nat]
        /\ \A s \in Signals \ {"covered"} : result'.signals[s] \in Floats
        /\ result'.signals["covered"] \in {0, 1} /\ result'.signals["corrupt"] = 0
    <3>1. /\ seen.point \in Nat /\ speed.point \in Nat /\ idling.point \in Nat
          /\ repetition \in Nat /\ covered \in Nat
          /\ Share("blurry") \in Nat /\ Share("exposure") \in Nat
          /\ Shake("translation") \in Nat /\ Shake("rotation") \in Nat
      <4>1. \A x \in Floats : x \in Nat
        BY FloatsTyped
      <4>2. /\ seen.point \in Floats /\ speed.point \in Floats /\ idling.point \in Floats
            /\ repetition \in Floats /\ covered \in {0, 1}
        BY <1>7, <1>8
      <4>3. seen.point \in Nat /\ speed.point \in Nat /\ idling.point \in Nat
        BY <4>1, <4>2, Zenon
      <4>4. repetition \in Nat
        BY <4>1, <4>2, Zenon
      <4>5. covered \in Nat
        BY <4>2
      <4>6. /\ Share("blurry") \in Nat /\ Share("exposure") \in Nat
            /\ Shake("translation") \in Nat /\ Shake("rotation") \in Nat
        BY <1>9, <4>1, Zenon
      <4> QED
        BY <4>3, <4>4, <4>5, <4>6
    <3>2. result'.signals \in [Signals -> Nat]
      <4>1. result'.signals = [s \in Signals |-> result'.signals[s]]
        BY <1>6 DEF Signals
      <4>2. \A s \in Signals : result'.signals[s] \in Nat
        BY <1>6, <3>1 DEF Signals
      <4> QED
        BY <4>1, <4>2
    <3>3. /\ result'.signals["covered"] \in {0, 1} /\ result'.signals["corrupt"] = 0
          /\ \A s \in Signals \ {"covered", "corrupt"} : result'.signals[s] \in Floats
      BY <1>6, <1>7, <1>8, <1>9 DEF Signals
    <3>4. \A s \in Signals \ {"covered"} : result'.signals[s] \in Floats
      BY <3>3, FloatsTyped
    <3> QED
      BY <3>2, <3>3, <3>4
  <2>2. result'.intervals \in [{"hands", "speed", "idle"} -> [low : Floats, high : Floats]]
    BY <1>6, <1>8
  <2>3. /\ result'.intervals["hands"].low <= result'.intervals["hands"].high
        /\ result'.intervals["speed"].low <= result'.intervals["speed"].high
        /\ result'.intervals["idle"].low <= result'.intervals["idle"].high
    BY <1>6, <1>8
  <2> QED
    BY <2>1, <2>2, <2>3 DEF Measurement
<1>11. DoneInv'
  BY <1>1, <1>4, <1>10 DEF DoneInv
<1> QED
  BY <1>2, <1>3, <1>11 DEF SeriesInv

\* The series are exact at every step.
LEMMA SeriesKept == Spec => []SeriesInv
<1>1. Init => SeriesInv
  BY InitSeries
<1>2. SeriesInv /\ [Next]_vars => SeriesInv'
  <2> SUFFICES ASSUME SeriesInv, [Next]_vars PROVE SeriesInv'
    OBVIOUS
  <2>1. CASE Probe \/ EndOfStream \/ BrokenStream
    BY <2>1, DecoderSeries
  <2>2. ASSUME NEW picture \in Pictures, Decode(picture) PROVE SeriesInv'
    BY <2>2, DecodeSeries
  <2>3. CASE Inspect
    BY <2>3, InspectSeries
  <2>4. CASE Detect
    BY <2>4, DetectSeries
  <2>5. CASE Observe
    BY <2>5, ObserveSeries
  <2>6. CASE Measure
    BY <2>6, MeasureSeries
  <2>7. CASE UNCHANGED vars
    <3>1. /\ UNCHANGED <<video, stream, phase, chunk, work, found, flags, moves, previousHand,
                         nextHandTime, hands, result>>
      BY <2>7 DEF vars, chunkVars, frameVars
    <3>2. phase' = "observe" => FoundInv'
      BY <3>1 DEF SeriesInv, SampleInv, FoundInv
    <3>3. FrameInv' /\ ClockInv' /\ SampleInv'
      BY <3>1, <3>2, SeriesStay
    <3> QED
      BY <3>1, <3>3 DEF SeriesInv, Typed, PhaseInv, DoneInv
  <2> QED
    BY <2>1, <2>2, <2>3, <2>4, <2>5, <2>6, <2>7 DEF Next
<1> QED
  BY <1>1, <1>2, PTL DEF Spec

------------------------------------------------------------------------------
(* What a measured file is. *)

\* When a file is measured, its beats are the hand frames of the specification.
LEMMA MeasuredFile ==
    ASSUME SeriesInv, Measured
    PROVE  /\ stream = "clean" /\ work = <<>>
           /\ Len(flags) = Len(video) /\ Len(video) \in Nat
           /\ Beats = Len(hands) /\ Len(hands) \in Nat
           /\ HandFrames = 1..Len(hands)
           /\ \A k \in 1..Len(hands) : /\ HandFrame(k) = At(k) /\ HandPicture(k) = video[At(k)]
                                       /\ At(k) \in 1..Len(video)
           /\ Measurement(result.signals, result.intervals)
<1>1. /\ stream = "clean" /\ chunk = <<>> /\ work = <<>>
      /\ Measurement(result.signals, result.intervals)
  BY DEF SeriesInv, DoneInv, Measured
<1>2. /\ Typed /\ FrameInv /\ ClockInv /\ video # <<>> /\ video \in Seq(Pictures)
      /\ flags \in Seq([black : BOOLEAN, blurry : BOOLEAN, exposure : BOOLEAN])
      /\ Len(video) \in Nat /\ Len(flags) \in Nat /\ Len(hands) \in Nat
  BY <1>1, LenProperties DEF SeriesInv, Typed, PhaseInv
<1>3. PICK n \in Nat : n = Len(video) /\ n = Len(flags) /\ n >= 1
  <2>1. Len(chunk) = 0 /\ Len(video) # 0
    BY <1>1, <1>2, EmptySeq
  <2> QED
    BY <1>2, <2>1 DEF FrameInv
<1>4. PICK b \in Nat : b = Beats /\ b = Len(hands)
  <2>1. Len(work) = 0
    BY <1>1, EmptySeq
  <2> QED
    BY <1>2, <2>1 DEF Beats
<1>5. /\ FramePeriod \in Nat /\ HandPeriod \in Nat /\ FramePeriod > 0
      /\ FramePeriod <= HandPeriod
  BY PeriodAssumption
<1>6. ASSUME NEW k \in 1..b
      PROVE  /\ At(k) \in 1..n /\ k \in 1..n
             /\ At(k) \in FramesFrom(k) /\ HandFrame(k) = At(k)
  <2>1. At(k) \in 1..n /\ Beat(k, At(k))
    BY <1>2, <1>3, <1>4 DEF ClockInv
  <2>2. PICK m \in 1..n : m = At(k) /\ Beat(k, m)
    BY <2>1
  <2>3. FramePeriod * (m - 1) >= HandPeriod * (k - 1)
    BY <2>2 DEF Beat
  <2>4. m \in FramesFrom(k)
    BY <1>3, <2>3 DEF FramesFrom
  <2>5. k <= m
    <3>1. SUFFICES ASSUME m < k PROVE FALSE
      OBVIOUS
    <3>2. FramePeriod * (m - 1) <= FramePeriod * (k - 2)
          /\ FramePeriod * (k - 2) \in Int /\ FramePeriod * (m - 1) \in Int
      BY <1>5, <3>1, Scaled
    <3>3. FramePeriod * (k - 1) = FramePeriod * (k - 2) + FramePeriod
      BY <1>5
    <3>4. FramePeriod * (k - 1) <= HandPeriod * (k - 1) /\ HandPeriod * (k - 1) \in Int
      <4>1. (k - 1) * FramePeriod <= (k - 1) * HandPeriod
        BY <1>5, Scaled
      <4> QED
        BY <1>5, <4>1
    <3> QED
      BY <1>5, <2>3, <3>2, <3>3, <3>4
  <2>6. FramesFrom(k) \in SUBSET Int
    BY <1>2 DEF FramesFrom
  <2>7. ASSUME NEW x \in FramesFrom(k) PROVE m <= x
    <3>1. x \in 1..n /\ FramePeriod * (x - 1) >= HandPeriod * (k - 1)
      BY <1>3 DEF FramesFrom
    <3>2. SUFFICES ASSUME x < m PROVE FALSE
      BY <3>1
    <3>3. FramePeriod * (m - 2) < HandPeriod * (k - 1)
      BY <2>2, <3>1, <3>2 DEF Beat
    <3>4. FramePeriod * (x - 1) <= FramePeriod * (m - 2)
          /\ FramePeriod * (x - 1) \in Int /\ FramePeriod * (m - 2) \in Int
      BY <1>5, <3>1, <3>2, Scaled
    <3>5. HandPeriod * (k - 1) \in Int
      BY <1>5
    <3> QED
      BY <3>1, <3>3, <3>4, <3>5
  <2>8. Min(FramesFrom(k)) = m
    BY <2>4, <2>6, <2>7, MinIs
  <2> QED
    BY <2>2, <2>4, <2>5, <2>8 DEF HandFrame
<1>7. ASSUME NEW k \in 1..n, k > b
      PROVE  FramesFrom(k) = {}
  <2>1. SUFFICES ASSUME NEW x \in FramesFrom(k) PROVE FALSE
    OBVIOUS
  <2>2. x \in 1..n /\ FramePeriod * (x - 1) >= HandPeriod * (k - 1)
    BY <1>3 DEF FramesFrom
  <2>3. FramePeriod * (n - 1) < HandPeriod * b
    <3>1. flags # <<>>
      BY <1>3, EmptySeq
    <3> QED
      BY <1>2, <1>3, <1>4, <3>1 DEF ClockInv
  <2>4. FramePeriod * (x - 1) <= FramePeriod * (n - 1)
        /\ FramePeriod * (x - 1) \in Int /\ FramePeriod * (n - 1) \in Int
    BY <1>5, <2>2, Scaled
  <2>5. HandPeriod * b <= HandPeriod * (k - 1) /\ HandPeriod * b \in Int
        /\ HandPeriod * (k - 1) \in Int
    BY <1>5, <1>7, Scaled
  <2> QED
    BY <2>2, <2>3, <2>4, <2>5
<1>8. HandFrames = 1..b
  <2>1. HandFrames = {k \in 1..n : FramesFrom(k) # {}}
    BY <1>3 DEF HandFrames
  <2>2. \A k \in 1..b : k \in 1..n /\ FramesFrom(k) # {}
    BY <1>6
  <2>3. \A k \in 1..n : FramesFrom(k) # {} => k \in 1..b
    BY <1>7
  <2> QED
    BY <2>1, <2>2, <2>3
<1> QED
  BY <1>1, <1>3, <1>4, <1>6, <1>8 DEF HandPicture

LEMMA MotionExact ==
    ASSUME SeriesInv, Measured, NEW k \in 1..Len(hands), k > 1
    PROVE  HandMotion(k) = MotionAt(k)
<1>1. /\ Typed /\ FrameInv /\ ClockInv /\ Beats = Len(hands)
      /\ k - 1 \in 1..Len(hands) /\ k \in Nat
      /\ HandFrame(k) = At(k) /\ HandPicture(k) = video[At(k)] /\ At(k) \in Int
      /\ HandFrame(k - 1) = At(k - 1) /\ HandPicture(k - 1) = video[At(k - 1)]
      /\ At(k - 1) \in Int
  <2>1. Len(hands) \in Nat
    BY MeasuredFile
  <2>2. k - 1 \in 1..Len(hands)
    BY <2>1
  <2> QED
    BY <2>1, <2>2, MeasuredFile DEF SeriesInv
<1>2. /\ Sample(At(k)).time = FramePeriod * (At(k) - 1)
      /\ Sample(At(k - 1)).time = FramePeriod * (At(k - 1) - 1)
  BY <1>1, BeatFrames
<1>3. FramePeriod * (At(k) - 1) - FramePeriod * (At(k - 1) - 1)
        = FramePeriod * (At(k) - At(k - 1))
  <2>1. PICK x \in Int, y \in Int : x = At(k) /\ y = At(k - 1)
    BY <1>1
  <2>2. FramePeriod \in Nat
    BY PeriodAssumption
  <2>3. FramePeriod * (x - 1) - FramePeriod * (y - 1) = FramePeriod * (x - y)
    BY <2>2
  <2> QED
    BY <2>1, <2>3
<1>4. HandGap(k) = Elapsed(Sample(At(k - 1)), Sample(At(k)))
  BY <1>1, <1>2, <1>3 DEF HandGap, Elapsed
<1> QED
  BY <1>1, <1>4 DEF HandMotion, MotionAt

\* The series of a measured file are those of its frames.
THEOREM SeriesAlwaysExact == Spec => []SeriesExact
<1>1. SeriesInv => SeriesExact
  <2> SUFFICES ASSUME SeriesInv PROVE SeriesExact
    OBVIOUS
  <2>1. ASSUME phase = "observe", NEW n \in DOMAIN found
        PROVE  found[n] = Found(work[n].sample.frame)
    <3>1. FoundInv
      BY <2>1 DEF SeriesInv, SampleInv
    <3>2. n \in 1..Len(work)
      BY <3>1 DEF FoundInv
    <3> QED
      BY <3>1, <3>2 DEF FoundInv
  <2>2. ASSUME Measured
        PROVE  /\ stream = "clean"
               /\ flags = [n \in DOMAIN video |-> FlagsOf(video[n])]
               /\ DOMAIN hands = HandFrames
               /\ moves = [n \in 1..(Len(hands) - 1) |-> HandMotion(n + 1)]
    <3>1. /\ stream = "clean" /\ Len(flags) = Len(video) /\ Len(video) \in Nat
          /\ Beats = Len(hands) /\ Len(hands) \in Nat /\ HandFrames = 1..Len(hands)
      BY <2>2, MeasuredFile
    <3>2. /\ DOMAIN video = 1..Len(video) /\ DOMAIN flags = 1..Len(flags)
          /\ DOMAIN hands = 1..Len(hands) /\ DOMAIN moves = 1..Len(moves)
      BY LenProperties DEF SeriesInv, Typed
    <3>3. flags = [n \in 1..Len(flags) |-> flags[n]] /\ moves = [n \in 1..Len(moves) |-> moves[n]]
      BY <3>2 DEF SeriesInv, Typed
    <3>4. \A n \in 1..Len(flags) : flags[n] = FlagsOf(video[n])
      BY DEF SeriesInv, FrameInv
    <3>5. 1..Len(moves) = 1..(Len(hands) - 1)
      <4>1. Len(moves) = IF Len(hands) = 0 THEN 0 ELSE Len(hands) - 1
        BY <3>1 DEF SeriesInv, SampleInv
      <4> QED
        BY <3>1, <4>1
    <3>6. ASSUME NEW n \in 1..(Len(hands) - 1) PROVE moves[n] = HandMotion(n + 1)
      <4>1. n + 1 \in 1..Len(hands) /\ n + 1 > 1
        BY <3>1
      <4>2. moves[n] = MotionAt(n + 1)
        BY <3>5 DEF SeriesInv, SampleInv
      <4> QED
        BY <2>2, <4>1, <4>2, MotionExact
    <3>7. flags = [n \in DOMAIN video |-> FlagsOf(video[n])]
      BY <3>1, <3>2, <3>3, <3>4
    <3>8. moves = [n \in 1..(Len(hands) - 1) |-> HandMotion(n + 1)]
      BY <3>3, <3>5, <3>6
    <3> QED
      BY <3>1, <3>2, <3>7, <3>8
  <2>3. ASSUME Measured, NEW k \in HandFrames
        PROVE  /\ hands[k].time = FramePeriod * (HandFrame(k) - 1)
               /\ hands[k].visible = 1 <=> Found(HandPicture(k)) # {}
               /\ hands[k].idle = Missing <=> hands[k].visible = 0
               /\ hands[k].idle = 1 =>
                    k > 1 /\ HandActivity(HandPicture(k - 1), HandPicture(k)) < Idle.handActivity
               /\ hands[k].speed # Missing => k > 1 /\ hands[k].visible = 1
    <3>1. /\ k \in 1..Len(hands) /\ Beats = Len(hands) /\ k \in 1..Beats /\ Len(hands) \in Nat
          /\ HandFrame(k) = At(k) /\ HandPicture(k) = video[At(k)]
      BY <2>3, MeasuredFile
    <3>2. hands[k] = Observed(Sample(At(k)), Prior(k), Found(video[At(k)]))
      BY <3>1 DEF SeriesInv, SampleInv
    <3>3. /\ Sample(At(k)) \in Samples /\ Prior(k) \in Samples \cup {Nothing}
          /\ Sample(At(k)).frame = video[At(k)]
          /\ Sample(At(k)).time = FramePeriod * (At(k) - 1)
          /\ Prior(k) = Nothing <=> k = 1
          /\ k > 1 => Prior(k) = Sample(At(k - 1))
      BY <3>1, BeatFrames DEF SeriesInv
    <3>4. /\ hands[k].time = Sample(At(k)).time
          /\ hands[k].visible = 1 <=> Found(video[At(k)]) # {}
          /\ hands[k].idle = Missing <=> hands[k].visible = 0
          /\ hands[k].idle = 1 =>
                /\ Prior(k) # Nothing
                /\ HandActivity(Prior(k).frame, Sample(At(k)).frame) < Idle.handActivity
          /\ hands[k].speed # Missing => Prior(k) # Nothing /\ hands[k].visible = 1
      BY <3>2, <3>3, ObservedTyped
    <3>5. k > 1 => Prior(k).frame = HandPicture(k - 1)
      <4> SUFFICES ASSUME k > 1 PROVE Prior(k).frame = HandPicture(k - 1)
        OBVIOUS
      <4>1. k - 1 \in 1..Len(hands) /\ k - 1 \in 1..Beats
        BY <3>1
      <4>2. HandPicture(k - 1) = video[At(k - 1)]
        BY <2>3, <4>1, MeasuredFile
      <4>3. Sample(At(k - 1)).frame = video[At(k - 1)]
        BY <4>1, BeatFrames DEF SeriesInv
      <4> QED
        BY <3>3, <4>2, <4>3
    <3>6. k # 1 => k > 1
      BY <3>1
    <3> QED
      BY <3>1, <3>3, <3>4, <3>5, <3>6
  <2> QED
    BY <2>1, <2>2, <2>3 DEF SeriesExact
<1> QED
  BY <1>1, SeriesKept, PTL

\* What the API and the rules find of one measured file agrees, for every file.
THEOREM RoutesAgreed == Spec => []RoutesAgree
<1>1. SeriesInv => RoutesAgree
  BY MeasuredFile, RoutesAlwaysAgree DEF RoutesAgree
<1> QED
  BY <1>1, SeriesKept, PTL

\* A measured file that is rejected says why, for every file.
THEOREM ReasonsExplained == Spec => []ReasonsExplain
<1>1. SeriesInv => ReasonsExplain
  BY MeasuredFile, ReasonsAlwaysAgree DEF ReasonsExplain
<1> QED
  BY <1>1, SeriesKept, PTL

------------------------------------------------------------------------------
(* The evidence of a video. *)

\* The images kept of a set of offers, each a time and a score.
Kept(kept, offers) ==
    IF offers = {} THEN kept = Evidence!NoImages
    ELSE /\ \E o \in offers : /\ kept.first = [time |-> o[1], score |-> o[2]]
                              /\ \A p \in offers : o[1] <= p[1]
         /\ \E o \in offers : /\ kept.last = [time |-> o[1], score |-> o[2]]
                              /\ \A p \in offers : p[1] <= o[1]
         /\ \E o \in offers : /\ kept.worst = [time |-> o[1], score |-> o[2]]
                              /\ \A p \in offers : /\ p[2] <= o[2]
                                                   /\ p[2] = o[2] => o[1] <= p[1]

\* One more offer, of a later time than all others.
LEMMA OfferKept ==
    ASSUME NEW offers \in SUBSET (Int \X Int), NEW kept, Kept(kept, offers),
           NEW t \in Int, NEW s \in Int, \A o \in offers : o[1] < t
    PROVE  Kept(Evidence!Offered(kept, [time |-> t, score |-> s]), offers \cup {<<t, s>>})
<1> DEFINE candidate == [time |-> t, score |-> s]
           after == Evidence!Offered(kept, candidate)
           more == offers \cup {<<t, s>>}
<1>1. /\ \A o \in offers : o[1] \in Int /\ o[2] \in Int
      /\ \A o \in offers : [time |-> o[1], score |-> o[2]] # NoImage
      /\ candidate # NoImage
  <2>1. \A o \in offers : o[1] \in Int /\ o[2] \in Int
    OBVIOUS
  <2> QED
    BY <2>1, NothingAssumption
<1>2. /\ after.first = (IF kept.first = NoImage THEN candidate ELSE kept.first)
      /\ after.worst = (IF kept.worst = NoImage \/ candidate.score > kept.worst.score
                        THEN candidate ELSE kept.worst)
      /\ after.last = candidate
  BY DEF Evidence!Offered, Evidence!Worse
<1>3. candidate.score = s /\ candidate = [time |-> t, score |-> s]
  OBVIOUS
<1>4. more # {} /\ <<t, s>> \in more /\ <<t, s>>[1] = t /\ <<t, s>>[2] = s
  OBVIOUS
<1> HIDE DEF after, candidate
<1>5. \E o \in more : /\ after.last = [time |-> o[1], score |-> o[2]]
                      /\ \A p \in more : p[1] <= o[1]
  <2>1. \A p \in more : p[1] <= t
    BY <1>1, <1>4
  <2> HIDE DEF more
  <2> QED
    BY <1>2, <1>3, <1>4, <2>1
<1>6. CASE offers = {}
  <2>1. kept.first = NoImage /\ kept.worst = NoImage
    BY <1>6 DEF Kept, Evidence!NoImages, Evidence!Slots
  <2>2. after.first = candidate /\ after.worst = candidate
    BY <1>2, <2>1
  <2>3. more = {<<t, s>>}
    BY <1>6
  <2>4. Kept(after, more)
    BY <1>3, <1>4, <1>5, <2>2, <2>3 DEF Kept
  <2> QED
    BY <2>4 DEF after, candidate
<1>7. CASE offers # {}
  <2>1. PICK o \in offers : /\ kept.first = [time |-> o[1], score |-> o[2]]
                            /\ \A p \in offers : o[1] <= p[1]
    BY <1>7 DEF Kept
  <2>2. PICK w \in offers : /\ kept.worst = [time |-> w[1], score |-> w[2]]
                            /\ \A p \in offers : p[2] <= w[2] /\ (p[2] = w[2] => w[1] <= p[1])
    BY <1>7 DEF Kept
  <2>3. \E x \in more : /\ after.first = [time |-> x[1], score |-> x[2]]
                        /\ \A p \in more : x[1] <= p[1]
    <3>1. after.first = kept.first
      BY <1>1, <1>2, <2>1
    <3>2. o[1] <= t
      BY <1>1
    <3>3. \A p \in more : o[1] <= p[1]
      BY <1>4, <2>1, <3>2
    <3>4. o \in more
      OBVIOUS
    <3> HIDE DEF more
    <3> QED
      BY <2>1, <3>1, <3>3, <3>4
  <2>4. \E x \in more : /\ after.worst = [time |-> x[1], score |-> x[2]]
                        /\ \A p \in more : p[2] <= x[2] /\ (p[2] = x[2] => x[1] <= p[1])
    <3>1. kept.worst # NoImage /\ kept.worst.score = w[2] /\ w[1] < t
      BY <1>1, <2>2
    <3>2. CASE s > w[2]
      <4>1. after.worst = candidate
        BY <1>2, <1>3, <3>1, <3>2
      <4>2. ASSUME NEW p \in offers PROVE p[2] < s
        <5>1. p[2] \in Int /\ w[2] \in Int /\ p[2] <= w[2]
          BY <1>1, <2>2
        <5> QED
          BY <3>2, <5>1
      <4>3. \A p \in more : p[2] <= s /\ (p[2] = s => t <= p[1])
        <5>1. \A p \in offers : p[2] \in Int /\ p[2] < s
          BY <1>1, <4>2
        <5>2. s <= s /\ t <= t
          OBVIOUS
        <5>3. \A p \in offers : p[2] <= s /\ p[2] # s
          BY <5>1
        <5> QED
          BY <1>4, <5>2, <5>3
      <4> HIDE DEF more
      <4> QED
        BY <1>3, <1>4, <4>1, <4>3
    <3>3. CASE ~(s > w[2])
      <4>1. after.worst = kept.worst
        BY <1>2, <1>3, <3>1, <3>3
      <4>2. s <= w[2] /\ w[1] <= t
        BY <1>1, <3>1, <3>3
      <4>3. \A p \in more : p[2] <= w[2] /\ (p[2] = w[2] => w[1] <= p[1])
        BY <1>4, <2>2, <4>2
      <4>4. w \in more
        OBVIOUS
      <4> HIDE DEF more
      <4> QED
        BY <2>2, <4>1, <4>3, <4>4
    <3> QED
      BY <3>2, <3>3
  <2>5. Kept(after, more)
    <3> HIDE DEF more
    <3> QED
      BY <1>4, <1>5, <2>3, <2>4 DEF Kept
  <2> QED
    BY <2>5 DEF after, candidate
<1> QED
  BY <1>6, <1>7

\* The images of a set of offers, as the specification of the evidence has them.
LEMMA KeptExact ==
    ASSUME NEW offers \in SUBSET (Int \X Int), NEW kept, Kept(kept, offers)
    PROVE  LET when == {offer[1] : offer \in offers}
               worst == Max({offer[2] : offer \in offers})
           IN IF offers = {} THEN kept = Evidence!NoImages
              ELSE /\ kept.first.time = Min(when)
                   /\ kept.last.time = Max(when)
                   /\ kept.worst =
                        [time |-> Min({offer[1] : offer \in {o \in offers : o[2] = worst}}),
                         score |-> worst]
<1> DEFINE when == {offer[1] : offer \in offers}
           scores == {offer[2] : offer \in offers}
           atWorst(v) == {offer[1] : offer \in {o \in offers : o[2] = v}}
<1>1. CASE offers = {}
  BY <1>1 DEF Kept
<1>2. CASE offers # {}
  <2>1. \A o \in offers : o[1] \in Int /\ o[2] \in Int
    OBVIOUS
  <2>2. when \in SUBSET Int /\ scores \in SUBSET Int
    BY <2>1
  <2>3. kept.first.time = Min(when)
    <3>1. PICK o \in offers : /\ kept.first = [time |-> o[1], score |-> o[2]]
                              /\ \A p \in offers : o[1] <= p[1]
      BY <1>2 DEF Kept
    <3>2. o[1] \in when /\ \A x \in when : o[1] <= x
      BY <3>1
    <3> HIDE DEF when
    <3>3. Min(when) = o[1]
      BY <2>2, <3>2, MinIs
    <3> QED
      BY <3>1, <3>3
  <2>4. kept.last.time = Max(when)
    <3>1. PICK o \in offers : /\ kept.last = [time |-> o[1], score |-> o[2]]
                              /\ \A p \in offers : p[1] <= o[1]
      BY <1>2 DEF Kept
    <3>2. o[1] \in when /\ \A x \in when : x <= o[1]
      BY <3>1
    <3> HIDE DEF when
    <3>3. Max(when) = o[1]
      BY <2>2, <3>2, MaxIs
    <3> QED
      BY <3>1, <3>3
  <2>5. kept.worst = [time |-> Min(atWorst(Max(scores))), score |-> Max(scores)]
    <3>1. PICK o \in offers : /\ kept.worst = [time |-> o[1], score |-> o[2]]
                              /\ \A p \in offers : p[2] <= o[2] /\ (p[2] = o[2] => o[1] <= p[1])
      BY <1>2 DEF Kept
    <3>2. Max(scores) = o[2]
      <4>1. o[2] \in scores /\ \A x \in scores : x <= o[2]
        BY <3>1
      <4> HIDE DEF scores
      <4> QED
        BY <2>2, <4>1, MaxIs
    <3>3. Min(atWorst(o[2])) = o[1]
      <4> DEFINE times == atWorst(o[2])
      <4>1. times \in SUBSET Int
        BY <2>1
      <4>2. o[1] \in times /\ \A x \in times : o[1] <= x
        BY <3>1
      <4> HIDE DEF times
      <4>3. Min(times) = o[1]
        BY <4>1, <4>2, MinIs
      <4> QED
        BY <4>3 DEF times
    <3> HIDE DEF scores, atWorst
    <3> QED
      BY <3>1, <3>2, <3>3
  <2> QED
    BY <1>2, <2>3, <2>4, <2>5
<1> QED
  BY <1>1, <1>2

FrameReasons == {"black-covered", "blur-warning", "exposure-warning"}

HandReasons == {"hands-visible", "extended-idle", "hand-speed", "repetitive-motion"}

StillnessAt(k) == IF Prior(k) = Nothing THEN 0 ELSE Stillness(Prior(k).frame, video[At(k)])

\* What frame m, the motion since the hand sample before the k-th, and the k-th hand
\* sample itself were shown for.
FrameOffer(reason, m) == <<FramePeriod * (m - 1), FrameScores(video[m], NoMotion)[reason]>>

ShakeOffer(reason, k) ==
    <<FramePeriod * (At(k) - 1), FrameScores(video[At(k)], MotionAt(k))[reason]>>

HandOffer(reason, k) ==
    <<FramePeriod * (At(k) - 1), HandScores(hands[k], k, StillnessAt(k))[reason]>>

FramesShown(reason) == {m \in 1..Len(flags) : reason \in ShownByFrame(video[m], NoMotion)}

ShakesShown(reason) == {k \in 2..Beats : reason \in ShownByFrame(video[At(k)], MotionAt(k))}

HandsShown(reason) == {k \in 1..Len(hands) : reason \in ShownByHands(hands[k], k)}

\* What there was to show for a reason so far.
SoFar(reason) ==
    IF reason \in FrameReasons THEN {FrameOffer(reason, m) : m \in FramesShown(reason)}
    ELSE IF reason \in ShakeReasons THEN {ShakeOffer(reason, k) : k \in ShakesShown(reason)}
    ELSE {HandOffer(reason, k) : k \in HandsShown(reason)}

EvidenceInv ==
    /\ DOMAIN images = EvidenceReasons
    /\ \A reason \in EvidenceReasons :
        IF phase = "done" /\ ~Measured THEN images[reason] = Evidence!NoImages
        ELSE Kept(images[reason], SoFar(reason))

LEMMA FrameScoresTyped ==
    ASSUME NEW f \in Pictures, NEW motion \in [translation : Int, rotation : Int],
           NEW reason \in ShownByFrame(f, motion)
    PROVE  FrameScores(f, motion)[reason] \in Int
<1>1. f.luminance \in Int /\ f.entropy \in Int /\ f.laplacian \in Int /\ f.clipped \in Int
  BY PictureTyped
<1>2. Camera.blackMean \in Int /\ Camera.entropy \in Int /\ Camera.blurLaplacian \in Int
  BY ThresholdAssumption
<1>3. Darkness(f) \in Int
  <2> DEFINE a == (Camera.blackMean - f.luminance) * Max({Camera.entropy, 1})
             b == (Camera.entropy - f.entropy) * Max({Camera.blackMean, 1})
  <2>1. Max({Camera.entropy, 1}) \in Int /\ Max({Camera.blackMean, 1}) \in Int
    <3>1. PICK x \in Int : x = 1
      OBVIOUS
    <3>2. Max({Camera.entropy, x}) \in Int /\ Max({Camera.blackMean, x}) \in Int
      BY <1>2, MaxTyped
    <3> QED
      BY <3>1, <3>2
  <2>2. a \in Int
    BY <1>1, <1>2, <2>1
  <2>3. b \in Int
    BY <1>1, <1>2, <2>1
  <2>4. Darkness(f) = Max({a, b})
    BY DEF Darkness
  <2> HIDE DEF a, b
  <2>5. Max({a, b}) \in {a, b}
    BY <2>2, <2>3, MaxOfTwo
  <2> QED
    BY <2>2, <2>3, <2>4, <2>5
<1>4. Camera.blurLaplacian - f.laplacian \in Int
  BY <1>1, <1>2
<1>5. reason \in {"black-covered", "blur-warning", "exposure-warning", "translation-shake",
                  "rotation-shake"}
  BY DEF ShownByFrame
<1>6. motion.translation \in Int /\ motion.rotation \in Int
  OBVIOUS
<1>7. FrameScores(f, motion)[reason] =
        CASE reason = "black-covered"     -> Darkness(f)
          [] reason = "blur-warning"      -> Camera.blurLaplacian - f.laplacian
          [] reason = "exposure-warning"  -> f.clipped
          [] reason = "translation-shake" -> motion.translation
          [] reason = "rotation-shake"    -> motion.rotation
  BY DEF FrameScores
<1> QED
  BY <1>1, <1>3, <1>4, <1>5, <1>6, <1>7

LEMMA HandScoresTyped ==
    ASSUME NEW hand \in Hands, NEW count, NEW stillness \in Int,
           NEW reason \in ShownByHands(hand, count)
    PROVE  HandScores(hand, count, stillness)[reason] \in Int
<1>1. reason \in HandReasons
  BY DEF ShownByHands, HandReasons
<1>2. reason \in {"hand-speed", "repetitive-motion"} => hand.speed # Missing
  BY DEF ShownByHands
<1>3. hand.speed \in Int \cup {Missing} /\ One \in Int
  BY FloatsTyped DEF Hands
<1>4. HandScores(hand, count, stillness)[reason] =
        CASE reason = "hands-visible" -> One
          [] reason = "extended-idle" -> stillness
          [] OTHER                    -> hand.speed
  BY DEF HandScores
<1> QED
  BY <1>1, <1>2, <1>3, <1>4 DEF HandReasons

LEMMA StillnessTyped ==
    ASSUME Typed, FrameInv, ClockInv, NEW k \in 1..Beats
    PROVE  StillnessAt(k) \in Int
<1>1. CASE Prior(k) = Nothing
  BY <1>1 DEF StillnessAt
<1>2. CASE Prior(k) # Nothing
  <2>1. Prior(k) \in Samples /\ Prior(k).frame \in Pictures /\ video[At(k)] \in Pictures
    BY <1>2, BeatFrames DEF Samples
  <2> DEFINE p == Prior(k).frame
             f == video[At(k)]
  <2> HIDE DEF p, f
  <2>2. p \in Pictures /\ f \in Pictures
    BY <2>1 DEF p, f
  <2>3. HandActivity(p, f) \in Nat /\ WorkspaceActivity(p, f) \in Nat
    BY <2>2, PictureTyped, DistanceTyped DEF HandActivity, WorkspaceActivity
  <2>4. Max({HandActivity(p, f), WorkspaceActivity(p, f)}) \in Int
    BY <2>3, MaxTyped
  <2>5. Stillness(p, f) \in Int
    BY <2>4, FloatsTyped DEF Stillness
  <2> QED
    BY <1>2, <2>5 DEF StillnessAt, p, f
<1> QED
  BY <1>1, <1>2

LEMMA MotionAtTyped ==
    ASSUME Typed, FrameInv, ClockInv, NEW k \in 1..Beats, k > 1
    PROVE  MotionAt(k) \in [translation : Int, rotation : Int]
<1>1. k - 1 \in 1..Beats
  BY BeatFrames
<1>2. /\ video[At(k - 1)] \in Pictures /\ video[At(k)] \in Pictures
      /\ Sample(At(k - 1)) \in Samples /\ Sample(At(k)) \in Samples
  BY <1>1, BeatFrames
<1>3. Elapsed(Sample(At(k - 1)), Sample(At(k))) \in Nat \ {0}
  BY <1>2, ElapsedTyped
<1> QED
  BY <1>2, <1>3, MotionTyped DEF MotionAt

\* What there was to show is of times and scores.
LEMMA OffersTyped ==
    ASSUME SeriesInv, NEW reason \in EvidenceReasons
    PROVE  /\ \A m \in FramesShown(reason) : FrameOffer(reason, m) \in Int \X Int
           /\ \A k \in ShakesShown(reason) : ShakeOffer(reason, k) \in Int \X Int
           /\ \A k \in HandsShown(reason) : HandOffer(reason, k) \in Int \X Int
           /\ SoFar(reason) \in SUBSET (Int \X Int)
<1>1. /\ Typed /\ FrameInv /\ ClockInv /\ SampleInv /\ Beats \in Nat
      /\ Len(flags) \in Nat /\ Len(video) \in Nat /\ Len(hands) \in Nat /\ Len(work) \in Nat
      /\ Len(flags) <= Len(video) /\ Len(hands) <= Beats
      /\ video \in Seq(Pictures) /\ hands \in Seq(Hands)
  <2>1. /\ Len(flags) \in Nat /\ Len(video) \in Nat /\ Len(hands) \in Nat /\ Len(work) \in Nat
        /\ Len(chunk) \in Nat
    BY LenProperties DEF SeriesInv, Typed
  <2> QED
    BY <2>1 DEF SeriesInv, Typed, FrameInv, Beats
<1>2. FramePeriod \in Nat
  BY PeriodAssumption
<1>3. NoMotion \in [translation : Int, rotation : Int]
  BY DEF NoMotion
<1>4. ASSUME NEW m \in FramesShown(reason) PROVE FrameOffer(reason, m) \in Int \X Int
  <2>1. m \in 1..Len(flags) /\ reason \in ShownByFrame(video[m], NoMotion)
    BY DEF FramesShown
  <2>2. video[m] \in Pictures
    BY <1>1, <2>1, ElementOfSeq
  <2>3. FrameScores(video[m], NoMotion)[reason] \in Int
    BY <1>3, <2>1, <2>2, FrameScoresTyped
  <2>4. FramePeriod * (m - 1) \in Int
    BY <1>2, <2>1
  <2> QED
    BY <2>3, <2>4 DEF FrameOffer
<1>5. ASSUME NEW k \in 1..Beats
      PROVE  FramePeriod * (At(k) - 1) \in Int /\ video[At(k)] \in Pictures
  <2>1. At(k) \in 1..Len(video) /\ video[At(k)] \in Pictures
    BY <1>1, BeatFrames
  <2>2. At(k) \in Nat
    BY <1>1, <2>1
  <2> QED
    BY <1>2, <2>1, <2>2
<1>6. ASSUME NEW k \in ShakesShown(reason) PROVE ShakeOffer(reason, k) \in Int \X Int
  <2>1. k \in 1..Beats /\ k > 1 /\ reason \in ShownByFrame(video[At(k)], MotionAt(k))
    BY <1>1 DEF ShakesShown
  <2>2. FrameScores(video[At(k)], MotionAt(k))[reason] \in Int
    BY <1>1, <1>5, <2>1, MotionAtTyped, FrameScoresTyped
  <2> QED
    BY <1>5, <2>1, <2>2 DEF ShakeOffer
<1>7. ASSUME NEW k \in HandsShown(reason) PROVE HandOffer(reason, k) \in Int \X Int
  <2>1. k \in 1..Len(hands) /\ k \in 1..Beats /\ reason \in ShownByHands(hands[k], k)
    BY <1>1 DEF HandsShown
  <2>2. hands[k] \in Hands
    BY <1>1, <2>1, ElementOfSeq
  <2>3. StillnessAt(k) \in Int
    BY <1>1, <2>1, StillnessTyped
  <2>4. HandScores(hands[k], k, StillnessAt(k))[reason] \in Int
    BY <2>1, <2>2, <2>3, HandScoresTyped
  <2> QED
    BY <1>5, <2>1, <2>4 DEF HandOffer
<1> QED
  BY <1>4, <1>6, <1>7 DEF SoFar

\* A step that adds frames, beats or hand samples changes no offer there was.
LEMMA OffersStay ==
    ASSUME SeriesInv, \A m \in 1..Len(video) : video'[m] = video[m],
           \A k \in 1..Len(hands) : hands'[k] = hands[k], NEW reason
    PROVE  /\ \A m \in 1..Len(flags) :
                /\ FrameOffer(reason, m)' = FrameOffer(reason, m)
                /\ ShownByFrame(video'[m], NoMotion) = ShownByFrame(video[m], NoMotion)
           /\ \A k \in 2..Beats :
                /\ ShakeOffer(reason, k)' = ShakeOffer(reason, k)
                /\ ShownByFrame(video'[At(k)], MotionAt(k)')
                        = ShownByFrame(video[At(k)], MotionAt(k))
           /\ \A k \in 1..Len(hands) :
                /\ HandOffer(reason, k)' = HandOffer(reason, k)
                /\ ShownByHands(hands'[k], k) = ShownByHands(hands[k], k)
<1>1. /\ Typed /\ FrameInv /\ ClockInv
      /\ Len(flags) \in Nat /\ Len(video) \in Nat /\ Len(hands) \in Nat /\ Len(work) \in Nat
      /\ Len(chunk) \in Nat
  BY LenProperties DEF SeriesInv, Typed
<1>2. ASSUME NEW k \in 1..Beats
      PROVE  /\ Prior(k)' = Prior(k) /\ video'[At(k)] = video[At(k)]
             /\ k > 1 => MotionAt(k)' = MotionAt(k)
             /\ k > 1 => Prior(k) = Sample(At(k - 1))
  <2>1. k > 1 => Prior(k) = Sample(At(k - 1))
    BY <1>1, BeatFrames
  <2> QED
    BY <1>1, <2>1, SamplesStay
<1>3. ASSUME NEW m \in 1..Len(flags)
      PROVE  /\ FrameOffer(reason, m)' = FrameOffer(reason, m)
             /\ ShownByFrame(video'[m], NoMotion) = ShownByFrame(video[m], NoMotion)
  <2>1. m \in 1..Len(video)
    BY <1>1 DEF FrameInv
  <2>2. video'[m] = video[m]
    BY <2>1
  <2> QED
    BY <2>2 DEF FrameOffer
<1>4. ASSUME NEW k \in 2..Beats
      PROVE  /\ ShakeOffer(reason, k)' = ShakeOffer(reason, k)
             /\ ShownByFrame(video'[At(k)], MotionAt(k)')
                        = ShownByFrame(video[At(k)], MotionAt(k))
  <2>1. k \in 1..Beats /\ k > 1
    BY <1>1 DEF Beats
  <2>2. video'[At(k)] = video[At(k)] /\ MotionAt(k)' = MotionAt(k)
    BY <1>2, <2>1
  <2> QED
    BY <2>2 DEF ShakeOffer
<1>5. ASSUME NEW k \in 1..Len(hands)
      PROVE  /\ HandOffer(reason, k)' = HandOffer(reason, k)
             /\ ShownByHands(hands'[k], k) = ShownByHands(hands[k], k)
  <2>1. k \in 1..Beats
    BY <1>1 DEF Beats
  <2>2. hands'[k] = hands[k] /\ video'[At(k)] = video[At(k)] /\ Prior(k)' = Prior(k)
    BY <1>2, <2>1
  <2>3. StillnessAt(k)' = StillnessAt(k)
    BY <2>2 DEF StillnessAt
  <2> QED
    BY <2>2, <2>3 DEF HandOffer
<1> QED
  BY <1>3, <1>4, <1>5

\* The images of one reason, with and without one more offer.
LEMMA KeptMore ==
    ASSUME SeriesInv, NEW reason \in EvidenceReasons, NEW kept, Kept(kept, SoFar(reason)),
           NEW t \in Int, NEW s, NEW shown \in BOOLEAN,
           shown => s \in Int /\ \A o \in SoFar(reason) : o[1] < t,
           NEW more, more = SoFar(reason) \cup (IF shown THEN {<<t, s>>} ELSE {}),
           NEW after,
           after = IF shown THEN Evidence!Offered(kept, [time |-> t, score |-> s]) ELSE kept
    PROVE  Kept(after, more)
<1>1. SoFar(reason) \in SUBSET (Int \X Int)
  BY OffersTyped
<1>2. CASE shown
  <2>1. s \in Int /\ \A o \in SoFar(reason) : o[1] < t
    BY <1>2
  <2>2. more = SoFar(reason) \cup {<<t, s>>}
    BY <1>2
  <2>3. after = Evidence!Offered(kept, [time |-> t, score |-> s])
    BY <1>2
  <2> QED
    BY <1>1, <2>1, <2>2, <2>3, OfferKept
<1>3. CASE ~shown
  <2>1. more = SoFar(reason) /\ after = kept
    BY <1>3
  <2> QED
    BY <2>1
<1> QED
  BY <1>2, <1>3

LEMMA ReasonsSplit ==
    /\ EvidenceReasons = FrameReasons \cup ShakeReasons \cup HandReasons
    /\ FrameReasons \cap ShakeReasons = {} /\ FrameReasons \cap HandReasons = {}
    /\ ShakeReasons \cap HandReasons = {}
  BY DEF EvidenceReasons, CheckOfReason, FrameReasons, ShakeReasons, HandReasons

\* An image is added for each reason with a score.
LEMMA AddExact ==
    ASSUME NEW kept, NEW time, NEW scores, NEW reason \in DOMAIN kept
    PROVE  /\ DOMAIN Evidence!Add(kept, time, scores) = DOMAIN kept
           /\ Evidence!Add(kept, time, scores)[reason] =
                IF reason \in DOMAIN scores
                THEN Evidence!Offered(kept[reason], [time |-> time, score |-> scores[reason]])
                ELSE kept[reason]
  BY DEF Evidence!Add

\* A frame offers itself, and its motion if it is a hand sample with a predecessor.
LEMMA InspectEvidence ==
    ASSUME SeriesInv, EvidenceInv, Inspect
    PROVE  EvidenceInv'
<1>1. PICK n \in Nat \ {0}, due \in BOOLEAN, motion \in [translation : Int, rotation : Int] :
        /\ n = Len(flags) + 1 /\ n \in 1..Len(video)
        /\ Sample(n) \in Samples /\ video[n] \in Pictures
        /\ due = (FramePeriod * (n - 1) >= nextHandTime)
        /\ motion = IF due /\ previousHand # Nothing
                    THEN Motion(previousHand.frame, video[n], Elapsed(previousHand, Sample(n)))
                    ELSE NoMotion
        /\ flags' = Append(flags, FlagsOf(video[n]))
        /\ images' = Evidence!Add(images, FramePeriod * (n - 1), FrameScores(video[n], motion))
        /\ work' = IF due THEN Append(work, [sample |-> Sample(n), prior |-> previousHand])
                   ELSE work
        /\ phase' = IF Tail(chunk) = <<>> THEN "detect" ELSE "inspect"
        /\ UNCHANGED <<video, hands>>
  BY InspectTakes
<1>2. /\ Typed /\ FrameInv /\ ClockInv /\ phase = "inspect" /\ phase' # "done"
      /\ Len(flags) \in Nat /\ Len(video) \in Nat /\ Len(hands) \in Nat /\ Len(work) \in Nat
  BY <1>1, LenProperties DEF SeriesInv, Typed, Inspect
<1>3. PICK b \in Nat : b = Beats
  BY <1>2 DEF Beats
<1>4. Len(flags') = n /\ Len(hands') = Len(hands) /\ Beats' = IF due THEN b + 1 ELSE b
  <2>1. Len(flags') = n
    BY <1>1, <1>2, FlagsTyped, AppendProperties DEF Typed
  <2>2. Len(work') = IF due THEN Len(work) + 1 ELSE Len(work)
    <3>1. [sample |-> Sample(n), prior |-> previousHand]
                \in [sample : Samples, prior : Samples \cup {Nothing}]
      BY <1>1, <1>2 DEF Typed
    <3>2. Len(Append(work, [sample |-> Sample(n), prior |-> previousHand])) = Len(work) + 1
      BY <1>2, <3>1, AppendProperties DEF Typed
    <3> QED
      BY <1>1, <3>2
  <2> QED
    BY <1>1, <1>2, <1>3, <2>1, <2>2 DEF Beats
<1>5. /\ due => At(b + 1) = n
      /\ due /\ b # 0 => motion = MotionAt(b + 1)
      /\ ~(due /\ b # 0) => motion = NoMotion
  <2>1. CASE due
    <3>1. FramePeriod * (n - 1) >= nextHandTime
      BY <1>1, <2>1, Zenon
    <3>2. /\ At(b + 1) = n
          /\ previousHand = Nothing <=> b = 0
          /\ b # 0 => Motion(previousHand.frame, video[n], Elapsed(previousHand, Sample(n)))
                        = MotionAt(b + 1)
      BY <1>1, <1>3, <3>1, BeatDue
    <3> QED
      BY <1>1, <2>1, <3>2
  <2>2. CASE ~due
    BY <1>1, <2>2
  <2> QED
    BY <2>1, <2>2
<1>6. PICK t \in Int : t = FramePeriod * (n - 1)
  BY PeriodAssumption
<1>7. ASSUME NEW m \in 1..(n - 1) PROVE FramePeriod * (m - 1) < t
  <2>1. FramePeriod \in Nat /\ FramePeriod > 0
    BY PeriodAssumption
  <2>2. FramePeriod * (m - 1) <= FramePeriod * (n - 2)
        /\ FramePeriod * (m - 1) \in Int /\ FramePeriod * (n - 2) \in Int
    BY <2>1, Scaled
  <2>3. FramePeriod * (n - 1) = FramePeriod * (n - 2) + FramePeriod
    BY <2>1
  <2> QED
    BY <1>6, <2>1, <2>2, <2>3
<1>8. ASSUME NEW reason \in EvidenceReasons
      PROVE  Kept(images'[reason], SoFar(reason)')
  <2> DEFINE shown == reason \in ShownByFrame(video[n], motion)
             s == FrameScores(video[n], motion)[reason]
  <2>1. Kept(images[reason], SoFar(reason)) /\ reason \in DOMAIN images
    BY <1>2 DEF EvidenceInv
  <2>2. images'[reason] = IF shown THEN Evidence!Offered(images[reason], [time |-> t, score |-> s])
                          ELSE images[reason]
    <3>1. PICK scores : scores = FrameScores(video[n], motion)
      OBVIOUS
    <3>2. s = scores[reason] /\ (shown <=> reason \in DOMAIN scores)
      BY <3>1 DEF FrameScores
    <3>3. images' = Evidence!Add(images, t, scores)
      BY <1>1, <1>6, <3>1
    <3>4. Evidence!Add(images, t, scores)[reason] =
            IF reason \in DOMAIN scores
            THEN Evidence!Offered(images[reason], [time |-> t, score |-> scores[reason]])
            ELSE images[reason]
      BY <2>1, AddExact
    <3> HIDE DEF shown, s
    <3> QED
      BY <3>2, <3>3, <3>4
  <2>3. shown \in BOOLEAN /\ (shown => s \in Int)
    BY <1>1, FrameScoresTyped
  <2>4. /\ \A m \in 1..Len(flags) :
                /\ FrameOffer(reason, m)' = FrameOffer(reason, m)
                /\ ShownByFrame(video'[m], NoMotion) = ShownByFrame(video[m], NoMotion)
        /\ \A k \in 2..Beats :
                /\ ShakeOffer(reason, k)' = ShakeOffer(reason, k)
                /\ ShownByFrame(video'[At(k)], MotionAt(k)')
                        = ShownByFrame(video[At(k)], MotionAt(k))
        /\ \A k \in 1..Len(hands) :
                /\ HandOffer(reason, k)' = HandOffer(reason, k)
                /\ ShownByHands(hands'[k], k) = ShownByHands(hands[k], k)
    <3>1. /\ \A m \in 1..Len(video) : video'[m] = video[m]
          /\ \A k \in 1..Len(hands) : hands'[k] = hands[k]
      BY <1>1
    <3> QED
      BY <3>1, OffersStay
  <2>5. /\ SoFar(reason)' = SoFar(reason) \cup (IF shown THEN {<<t, s>>} ELSE {})
        /\ shown => \A o \in SoFar(reason) : o[1] < t
    <3>1. CASE reason \in FrameReasons
      <4>1. /\ shown <=> reason \in ShownByFrame(video[n], NoMotion)
            /\ shown => FrameOffer(reason, n)' = <<t, s>>
        BY <1>1, <1>6, <3>1 DEF FrameReasons, ShownByFrame, FrameScores, FrameOffer
      <4>2. FramesShown(reason)' = FramesShown(reason) \cup (IF shown THEN {n} ELSE {})
        <5>1. FramesShown(reason)' = {m \in 1..n : reason \in ShownByFrame(video'[m], NoMotion)}
          BY <1>4 DEF FramesShown
        <5>2. FramesShown(reason) = {m \in 1..(n - 1) : reason \in ShownByFrame(video[m], NoMotion)}
          BY <1>1, <1>2 DEF FramesShown
        <5>3. \A m \in 1..n : m = n \/ m \in 1..(n - 1)
          OBVIOUS
        <5>4. 1..(n - 1) = 1..Len(flags) /\ \A m \in 1..(n - 1) : m \in 1..n
          BY <1>1, <1>2
        <5> HIDE DEF shown
        <5> QED
          BY <1>1, <2>4, <4>1, <5>1, <5>2, <5>3, <5>4
      <4>3. /\ SoFar(reason) = {FrameOffer(reason, m) : m \in FramesShown(reason)}
            /\ SoFar(reason)' = {FrameOffer(reason, m)' : m \in FramesShown(reason)'}
        BY <3>1 DEF SoFar
      <4>4. \A m \in FramesShown(reason) : m \in 1..Len(flags) /\ m \in 1..(n - 1)
        BY <1>1, <1>2 DEF FramesShown
      <4>5. \A m \in FramesShown(reason) : FrameOffer(reason, m)[1] < t
        BY <1>7, <4>4 DEF FrameOffer
      <4> HIDE DEF shown, s
      <4> QED
        BY <2>4, <4>1, <4>2, <4>3, <4>4, <4>5
    <3>2. CASE reason \in ShakeReasons
      <4>1. /\ SoFar(reason) = {ShakeOffer(reason, k) : k \in ShakesShown(reason)}
            /\ SoFar(reason)' = {ShakeOffer(reason, k)' : k \in ShakesShown(reason)'}
        BY <3>2, ReasonsSplit DEF SoFar
      <4>2. \A k \in ShakesShown(reason) : ShakeOffer(reason, k)[1] < t /\ k \in 2..Beats
        <5> SUFFICES ASSUME NEW k \in ShakesShown(reason)
                     PROVE  ShakeOffer(reason, k)[1] < t /\ k \in 2..Beats
          OBVIOUS
        <5>1. k \in 2..b /\ k \in 1..b /\ k \in 2..Beats
          BY <1>3 DEF ShakesShown
        <5>2. At(k) \in 1..(n - 1)
          BY <1>1, <1>2, <1>3, <5>1 DEF ClockInv
        <5> QED
          BY <1>7, <5>1, <5>2 DEF ShakeOffer
      <4>3. CASE due /\ b # 0
        <5>1. motion = MotionAt(b + 1) /\ At(b + 1) = n /\ Beats' = b + 1
          BY <1>4, <1>5, <4>3
        <5>2. video'[n] = video[n] /\ MotionAt(b + 1)' = MotionAt(b + 1)
          BY <1>1 DEF MotionAt, Sample
        <5>3. /\ shown <=> reason \in ShownByFrame(video'[At(b + 1)], MotionAt(b + 1)')
              /\ shown => ShakeOffer(reason, b + 1)' = <<t, s>>
          BY <1>6, <5>1, <5>2 DEF ShakeOffer
        <5>4. ShakesShown(reason)' = ShakesShown(reason) \cup (IF shown THEN {b + 1} ELSE {})
          <6>1. ShakesShown(reason)' = {k \in 2..(b + 1) :
                                        reason \in ShownByFrame(video'[At(k)], MotionAt(k)')}
            BY <5>1 DEF ShakesShown
          <6>2. ShakesShown(reason) = {k \in 2..b :
                                        reason \in ShownByFrame(video[At(k)], MotionAt(k))}
            BY <1>3 DEF ShakesShown
          <6>3. /\ \A k \in 2..(b + 1) : k = b + 1 \/ k \in 2..b
                /\ b + 1 \in 2..(b + 1) /\ \A k \in 2..b : k \in 2..(b + 1)
            BY <4>3
          <6> HIDE DEF shown
          <6> QED
            BY <1>3, <2>4, <5>3, <6>1, <6>2, <6>3
        <5> HIDE DEF shown, s
        <5> QED
          BY <2>4, <4>1, <4>2, <5>3, <5>4
      <4>4. CASE ~(due /\ b # 0)
        <5>1. ~shown
          <6>1. motion.translation = 0 /\ motion.rotation = 0
            BY <1>5, <4>4 DEF NoMotion
          <6>2. ~(0 > ShakeTranslation) /\ ~(0 > ShakeRotation)
            BY ShakeLimits
          <6> QED
            BY <3>2, <6>1, <6>2 DEF ShakeReasons, ShownByFrame
        <5>2. 2..Beats' = 2..Beats
          BY <1>3, <1>4, <4>4
        <5>3. ShakesShown(reason)' = ShakesShown(reason)
          BY <2>4, <5>2 DEF ShakesShown
        <5> HIDE DEF shown, s
        <5> QED
          BY <2>4, <4>1, <4>2, <5>1, <5>3
      <4> QED
        BY <4>3, <4>4
    <3>3. CASE reason \in HandReasons
      <4>1. ~shown
        BY <3>3 DEF HandReasons, ShownByFrame
      <4>2. /\ SoFar(reason) = {HandOffer(reason, k) : k \in HandsShown(reason)}
            /\ SoFar(reason)' = {HandOffer(reason, k)' : k \in HandsShown(reason)'}
        BY <3>3, ReasonsSplit DEF SoFar
      <4>3. HandsShown(reason)' = HandsShown(reason)
        BY <1>4, <2>4 DEF HandsShown
      <4>4. \A k \in HandsShown(reason) : k \in 1..Len(hands)
        BY DEF HandsShown
      <4> HIDE DEF shown, s
      <4> QED
        BY <2>4, <4>1, <4>2, <4>3, <4>4
    <3> QED
      BY <3>1, <3>2, <3>3, ReasonsSplit
  <2> HIDE DEF shown, s
  <2> QED
    BY <2>1, <2>2, <2>3, <2>5, KeptMore
<1>9. DOMAIN images' = EvidenceReasons
  BY <1>1 DEF EvidenceInv, Evidence!Add
<1> QED
  BY <1>2, <1>8, <1>9 DEF EvidenceInv

\* A hand sample offers itself.
LEMMA ObserveEvidence ==
    ASSUME SeriesInv, EvidenceInv, Observe
    PROVE  EvidenceInv'
<1>1. PICK h \in 1..Beats, hand \in Hands :
        /\ h = Len(hands) + 1 /\ Len(work) >= 1
        /\ hands' = Append(hands, hand)
        /\ images' = Evidence!Add(images, FramePeriod * (At(h) - 1),
                        HandScores(hand, h, StillnessAt(h)))
        /\ work' = Tail(work)
        /\ phase' = IF Tail(work) = <<>> THEN AfterChunk ELSE "observe"
        /\ UNCHANGED <<video, flags>>
  BY ObserveTakes DEF StillnessAt
<1>2. /\ Typed /\ FrameInv /\ ClockInv /\ phase = "observe" /\ phase' # "done"
      /\ Len(flags) \in Nat /\ Len(video) \in Nat /\ Len(hands) \in Nat /\ Len(work) \in Nat
      /\ hands \in Seq(Hands) /\ work \in Seq([sample : Samples, prior : Samples \cup {Nothing}])
  BY <1>1, LenProperties DEF SeriesInv, Typed, Observe, AfterChunk
<1>3. /\ Len(hands') = h /\ hands'[h] = hand
      /\ \A k \in 1..Len(hands) : hands'[k] = hands[k]
  BY <1>1, <1>2, AppendProperties
<1>4. Beats' = Beats
  <2>1. work # <<>>
    BY <1>1, <1>2, EmptySeq
  <2>2. Len(work') = Len(work) - 1
    BY <1>1, <1>2, <2>1, HeadTailProperties
  <2>3. PICK x \in Nat, y \in Nat : x = Len(hands) /\ y = Len(work)
    BY <1>2
  <2>4. Len(hands') = x + 1 /\ Len(work') = y - 1
    BY <1>1, <1>3, <2>2, <2>3
  <2>5. Beats' = (x + 1) + (y - 1) /\ Beats = x + y
    BY <2>3, <2>4 DEF Beats
  <2> QED
    BY <2>3, <2>5
<1>5. At(h) \in 1..Len(video) /\ At(h) \in Int /\ StillnessAt(h) \in Int
  <2>1. At(h) \in 1..Len(video) /\ StillnessAt(h) \in Int
    BY <1>1, <1>2, BeatFrames, StillnessTyped
  <2> QED
    BY <1>2, <2>1
<1>6. PICK t \in Int : t = FramePeriod * (At(h) - 1)
  BY <1>5, PeriodAssumption
<1>7. ASSUME NEW k \in 1..Len(hands) PROVE FramePeriod * (At(k) - 1) < t
  <2>1. FramePeriod \in Nat /\ FramePeriod > 0
    BY PeriodAssumption
  <2>2. k \in 1..Beats /\ k < h
    <3>1. PICK n \in Nat, w \in Nat : n = Len(hands) /\ w = Len(work)
      BY <1>2
    <3>2. Beats = n + w /\ k \in 1..n /\ h = n + 1
      BY <1>1, <3>1 DEF Beats
    <3> QED
      BY <3>1, <3>2
  <2>3. PICK x \in Int, y \in Int : x = At(k) /\ y = At(h)
    BY <1>2, <1>5, <2>2, BeatFrames, SMTT(30)
  <2>4. x < y
    BY <1>1, <1>2, <2>2, <2>3 DEF ClockInv
  <2>5. FramePeriod * (x - 1) <= FramePeriod * (y - 2)
        /\ FramePeriod * (x - 1) \in Int /\ FramePeriod * (y - 2) \in Int
    BY <2>1, <2>4, Scaled
  <2>6. FramePeriod * (y - 1) = FramePeriod * (y - 2) + FramePeriod
    BY <2>1
  <2>7. PICK low \in Int, high \in Int : low = FramePeriod * (x - 1)
                                        /\ high = FramePeriod * (y - 2)
    BY <2>5
  <2>8. FramePeriod * (At(k) - 1) = low
    BY <2>3, <2>7, Zenon
  <2>9. t = FramePeriod * (y - 1)
    BY <1>6, <2>3, Zenon
  <2>10. PICK period \in Nat : period = FramePeriod
    BY <2>1
  <2>11. low <= high /\ period > 0
    BY <2>1, <2>5, <2>7, <2>10, Zenon
  <2>12. t = high + period
    BY <2>6, <2>7, <2>9, <2>10, Zenon
  <2>13. low < t
    BY <2>11, <2>12
  <2> QED
    BY <2>8, <2>13, Zenon
<1>8. ASSUME NEW reason \in EvidenceReasons
      PROVE  Kept(images'[reason], SoFar(reason)')
  <2> DEFINE shown == reason \in ShownByHands(hand, h)
             s == HandScores(hand, h, StillnessAt(h))[reason]
  <2>1. Kept(images[reason], SoFar(reason)) /\ reason \in DOMAIN images
    BY <1>2 DEF EvidenceInv
  <2>2. images'[reason] = IF shown THEN Evidence!Offered(images[reason], [time |-> t, score |-> s])
                          ELSE images[reason]
    <3>1. PICK scores : scores = HandScores(hand, h, StillnessAt(h))
      OBVIOUS
    <3>2. s = scores[reason] /\ (shown <=> reason \in DOMAIN scores)
      BY <3>1 DEF HandScores
    <3>3. images' = Evidence!Add(images, t, scores)
      BY <1>1, <1>6, <3>1
    <3>4. Evidence!Add(images, t, scores)[reason] =
            IF reason \in DOMAIN scores
            THEN Evidence!Offered(images[reason], [time |-> t, score |-> scores[reason]])
            ELSE images[reason]
      BY <2>1, AddExact
    <3> HIDE DEF shown, s
    <3> QED
      BY <3>2, <3>3, <3>4
  <2>3. shown \in BOOLEAN /\ (shown => s \in Int)
    BY <1>5, HandScoresTyped
  <2>4. /\ \A m \in 1..Len(flags) :
                /\ FrameOffer(reason, m)' = FrameOffer(reason, m)
                /\ ShownByFrame(video'[m], NoMotion) = ShownByFrame(video[m], NoMotion)
        /\ \A k \in 2..Beats :
                /\ ShakeOffer(reason, k)' = ShakeOffer(reason, k)
                /\ ShownByFrame(video'[At(k)], MotionAt(k)')
                        = ShownByFrame(video[At(k)], MotionAt(k))
        /\ \A k \in 1..Len(hands) :
                /\ HandOffer(reason, k)' = HandOffer(reason, k)
                /\ ShownByHands(hands'[k], k) = ShownByHands(hands[k], k)
    <3>1. \A m \in 1..Len(video) : video'[m] = video[m]
      BY <1>1
    <3> QED
      BY <1>3, <3>1, OffersStay
  <2>5. /\ SoFar(reason)' = SoFar(reason) \cup (IF shown THEN {<<t, s>>} ELSE {})
        /\ shown => \A o \in SoFar(reason) : o[1] < t
    <3>1. CASE reason \in FrameReasons
      <4>1. ~shown
        BY <3>1 DEF FrameReasons, ShownByHands
      <4>2. /\ SoFar(reason) = {FrameOffer(reason, m) : m \in FramesShown(reason)}
            /\ SoFar(reason)' = {FrameOffer(reason, m)' : m \in FramesShown(reason)'}
        BY <3>1 DEF SoFar
      <4>3. FramesShown(reason)' = FramesShown(reason)
            /\ \A m \in FramesShown(reason) : m \in 1..Len(flags)
        BY <1>1, <2>4 DEF FramesShown
      <4> HIDE DEF shown, s
      <4> QED
        BY <2>4, <4>1, <4>2, <4>3
    <3>2. CASE reason \in ShakeReasons
      <4>1. ~shown
        BY <3>2 DEF ShakeReasons, ShownByHands
      <4>2. /\ SoFar(reason) = {ShakeOffer(reason, k) : k \in ShakesShown(reason)}
            /\ SoFar(reason)' = {ShakeOffer(reason, k)' : k \in ShakesShown(reason)'}
        BY <3>2, ReasonsSplit DEF SoFar
      <4>3. ShakesShown(reason)' = ShakesShown(reason)
            /\ \A k \in ShakesShown(reason) : k \in 2..Beats
        BY <1>4, <2>4 DEF ShakesShown
      <4> HIDE DEF shown, s
      <4> QED
        BY <2>4, <4>1, <4>2, <4>3
    <3>3. CASE reason \in HandReasons
      <4>1. /\ SoFar(reason) = {HandOffer(reason, k) : k \in HandsShown(reason)}
            /\ SoFar(reason)' = {HandOffer(reason, k)' : k \in HandsShown(reason)'}
        BY <3>3, ReasonsSplit DEF SoFar
      <4>2. HandOffer(reason, h)' = <<t, s>>
        <5>1. StillnessAt(h)' = StillnessAt(h)
          BY <1>1 DEF StillnessAt, Prior, Sample
        <5> QED
          BY <1>3, <1>6, <5>1 DEF HandOffer
      <4>3. HandsShown(reason)' = HandsShown(reason) \cup (IF shown THEN {h} ELSE {})
        <5>1. HandsShown(reason)' = {k \in 1..h : reason \in ShownByHands(hands'[k], k)}
          BY <1>3 DEF HandsShown
        <5>2. HandsShown(reason) = {k \in 1..Len(hands) : reason \in ShownByHands(hands[k], k)}
          BY DEF HandsShown
        <5>3. /\ \A k \in 1..h : k = h \/ k \in 1..Len(hands)
              /\ h \in 1..h /\ \A k \in 1..Len(hands) : k \in 1..h
          BY <1>1, <1>2
        <5>4. shown <=> reason \in ShownByHands(hands'[h], h)
          BY <1>3
        <5> HIDE DEF shown
        <5> QED
          BY <2>4, <5>1, <5>2, <5>3, <5>4
      <4>4. \A k \in HandsShown(reason) : k \in 1..Len(hands) /\ HandOffer(reason, k)[1] < t
        BY <1>7 DEF HandsShown, HandOffer
      <4> HIDE DEF shown, s
      <4> QED
        BY <2>4, <4>1, <4>2, <4>3, <4>4
    <3> QED
      BY <3>1, <3>2, <3>3, ReasonsSplit
  <2> HIDE DEF shown, s
  <2> QED
    BY <2>1, <2>2, <2>3, <2>5, KeptMore
<1>9. DOMAIN images' = EvidenceReasons
  BY <1>1 DEF EvidenceInv, Evidence!Add
<1> QED
  BY <1>2, <1>8, <1>9 DEF EvidenceInv

\* The other steps of the loop, and the measuring of the file, offer nothing.
LEMMA EvidenceStays ==
    ASSUME SeriesInv, EvidenceInv, phase # "done", phase' = "done" => Measured',
           \A m \in 1..Len(video) : video'[m] = video[m],
           UNCHANGED <<flags, work, hands, images>>
    PROVE  EvidenceInv'
<1>1. ASSUME NEW reason \in EvidenceReasons PROVE SoFar(reason)' = SoFar(reason)
  <2>1. /\ \A m \in 1..Len(flags) :
                /\ FrameOffer(reason, m)' = FrameOffer(reason, m)
                /\ ShownByFrame(video'[m], NoMotion) = ShownByFrame(video[m], NoMotion)
        /\ \A k \in 2..Beats :
                /\ ShakeOffer(reason, k)' = ShakeOffer(reason, k)
                /\ ShownByFrame(video'[At(k)], MotionAt(k)')
                        = ShownByFrame(video[At(k)], MotionAt(k))
        /\ \A k \in 1..Len(hands) :
                /\ HandOffer(reason, k)' = HandOffer(reason, k)
                /\ ShownByHands(hands'[k], k) = ShownByHands(hands[k], k)
    BY OffersStay
  <2>2. Beats' = Beats
    BY DEF Beats
  <2>3. FramesShown(reason)' = FramesShown(reason)
        /\ \A m \in FramesShown(reason) : m \in 1..Len(flags)
    BY <2>1 DEF FramesShown
  <2>4. ShakesShown(reason)' = ShakesShown(reason)
        /\ \A k \in ShakesShown(reason) : k \in 2..Beats
    BY <2>1, <2>2 DEF ShakesShown
  <2>5. HandsShown(reason)' = HandsShown(reason)
        /\ \A k \in HandsShown(reason) : k \in 1..Len(hands)
    BY <2>1 DEF HandsShown
  <2> QED
    BY <2>1, <2>3, <2>4, <2>5 DEF SoFar
<1>2. \A reason \in EvidenceReasons : Kept(images[reason], SoFar(reason))
  BY DEF EvidenceInv
<1> QED
  BY <1>1, <1>2 DEF EvidenceInv

LEMMA CorruptEvidence ==
    ASSUME Corrupt
    PROVE  EvidenceInv'
<1>1. phase' = "done" /\ images' = [reason \in EvidenceReasons |-> Evidence!NoImages]
  BY DEF Corrupt
<1>2. result'.signals["corrupt"] = 1
  <2>1. result'.signals = [signal \in Signals |-> IF signal = "corrupt" THEN 1 ELSE 0]
    BY DEF Corrupt
  <2> QED
    BY <2>1 DEF Signals
<1> QED
  BY <1>1, <1>2 DEF EvidenceInv, Measured

LEMMA EvidenceKept == Spec => []EvidenceInv
<1>1. Init => EvidenceInv
  <2> SUFFICES ASSUME Init PROVE EvidenceInv
    OBVIOUS
  <2>1. images = [reason \in EvidenceReasons |-> Evidence!NoImages] /\ phase = "probe"
    BY DEF Init
  <2>2. Len(flags) = 0 /\ Len(hands) = 0 /\ Len(work) = 0
    BY EmptySeq DEF Init
  <2>3. Beats = 0
    BY <2>2 DEF Beats
  <2>4. \A reason : FramesShown(reason) = {} /\ ShakesShown(reason) = {} /\ HandsShown(reason) = {}
    BY <2>2, <2>3 DEF FramesShown, ShakesShown, HandsShown
  <2>5. \A reason : SoFar(reason) = {}
    BY <2>4 DEF SoFar
  <2> QED
    BY <2>1, <2>5 DEF EvidenceInv, Kept
<1>2. SeriesInv /\ EvidenceInv /\ [Next]_vars => EvidenceInv'
  <2> SUFFICES ASSUME SeriesInv, EvidenceInv, [Next]_vars PROVE EvidenceInv'
    OBVIOUS
  <2>1. CASE Probe
    <3>1. CASE Corrupt
      BY <3>1, CorruptEvidence
    <3>2. CASE ~Corrupt
      <4>1. /\ phase = "probe" /\ phase' = "decode" /\ UNCHANGED video
            /\ UNCHANGED <<flags, work, hands, images>>
        BY <2>1, <3>2 DEF Probe, chunkVars, frameVars
      <4> QED
        BY <4>1, EvidenceStays
    <3> QED
      BY <3>1, <3>2
  <2>2. CASE EndOfStream
    <3>1. /\ phase = "decode" /\ phase' # "done" /\ UNCHANGED video
          /\ UNCHANGED <<flags, work, hands, images>>
      BY <2>2 DEF EndOfStream, chunkVars, frameVars
    <3> QED
      BY <3>1, EvidenceStays
  <2>3. CASE BrokenStream
    BY <2>3, CorruptEvidence DEF BrokenStream
  <2>4. ASSUME NEW picture \in Pictures, Decode(picture) PROVE EvidenceInv'
    <3>1. /\ phase = "decode" /\ phase' # "done" /\ video' = Append(video, picture)
          /\ UNCHANGED <<flags, work, hands, images>>
      BY <2>4 DEF Decode, frameVars
    <3>2. \A m \in 1..Len(video) : video'[m] = video[m]
      BY <3>1, AppendProperties DEF SeriesInv, Typed
    <3> QED
      BY <3>1, <3>2, EvidenceStays
  <2>5. CASE Inspect
    BY <2>5, InspectEvidence
  <2>6. CASE Detect
    <3>1. /\ phase = "detect" /\ phase' # "done" /\ UNCHANGED video
          /\ UNCHANGED <<flags, work, hands, images>>
      BY <2>6 DEF Detect, AfterChunk, frameVars
    <3> QED
      BY <3>1, EvidenceStays
  <2>7. CASE Observe
    BY <2>7, ObserveEvidence
  <2>8. CASE Measure
    <3>1. /\ phase = "measure" /\ phase' = "done" /\ UNCHANGED video
          /\ UNCHANGED <<flags, work, hands, images>>
      BY <2>8 DEF Measure, chunkVars, frameVars
    <3>2. result'.signals["corrupt"] = 0
      BY <2>8 DEF Measure
    <3> QED
      BY <3>1, <3>2, EvidenceStays DEF Measured
  <2>9. CASE UNCHANGED vars
    <3>1. UNCHANGED <<video, phase, work, flags, hands, images, result>>
      BY <2>9 DEF vars, chunkVars, frameVars
    <3>2. Beats' = Beats
      BY <3>1 DEF Beats
    <3>3. \A reason : SoFar(reason)' = SoFar(reason)
      BY <3>1, <3>2 DEF SoFar, FramesShown, ShakesShown, HandsShown, FrameOffer, ShakeOffer,
                        HandOffer, MotionAt, StillnessAt, Prior, Sample
    <3> QED
      BY <3>1, <3>3 DEF EvidenceInv, Measured
  <2> QED
    BY <2>1, <2>2, <2>3, <2>4, <2>5, <2>6, <2>7, <2>8, <2>9 DEF Next
<1> QED
  BY <1>1, <1>2, SeriesKept, PTL DEF Spec

\* When a file is measured, what was shown of it is what it has to show.
LEMMA OffersExact ==
    ASSUME SeriesInv, Measured, NEW reason \in EvidenceReasons
    PROVE  Offers(reason) = SoFar(reason)
<1>1. /\ Typed /\ FrameInv /\ ClockInv /\ SampleInv
      /\ Len(flags) = Len(video) /\ Beats = Len(hands) /\ Len(hands) \in Nat
      /\ DOMAIN hands = 1..Len(hands)
  BY MeasuredFile, LenProperties DEF SeriesInv, Typed
<1>2. \A k \in 1..Len(hands) : HandFrame(k) = At(k) /\ HandPicture(k) = video[At(k)]
  BY MeasuredFile
<1>3. \A k \in 2..Len(hands) : k \in 1..Len(hands) /\ k > 1 /\ HandMotion(k) = MotionAt(k)
  <2>1. \A k \in 2..Len(hands) : k \in 1..Len(hands) /\ k > 1
    BY <1>1
  <2> QED
    BY <2>1, MotionExact
<1>4. ASSUME NEW k \in 1..Len(hands)
      PROVE  /\ hands[k].visible = 0 <=> Found(HandPicture(k)) = {}
             /\ hands[k].idle = 1 => StillnessAt(k) = Stillness(HandPicture(k - 1), HandPicture(k))
  <2>1. k \in 1..Beats /\ hands[k] = Observed(Sample(At(k)), Prior(k), Found(video[At(k)]))
    BY <1>1 DEF SampleInv
  <2>2. /\ Sample(At(k)) \in Samples /\ Prior(k) \in Samples \cup {Nothing}
        /\ Prior(k) = Nothing <=> k = 1
        /\ k > 1 => Prior(k) = Sample(At(k - 1))
    BY <1>1, <2>1, BeatFrames
  <2>3. /\ hands[k] \in Hands
        /\ hands[k].visible = 1 <=> Found(video[At(k)]) # {}
        /\ hands[k].idle = 1 => Prior(k) # Nothing
    BY <2>1, <2>2, ObservedTyped
  <2>4. hands[k].visible \in {0, 1}
    BY <2>3 DEF Hands
  <2>5. ASSUME hands[k].idle = 1
        PROVE  StillnessAt(k) = Stillness(HandPicture(k - 1), HandPicture(k))
    <3>1. k > 1 /\ k - 1 \in 1..Len(hands) /\ Prior(k) # Nothing
      BY <1>1, <2>2, <2>3, <2>5
    <3>2. HandPicture(k - 1) = video[At(k - 1)] /\ HandPicture(k) = video[At(k)]
      BY <1>2, <3>1
    <3>3. Prior(k).frame = video[At(k - 1)]
      BY <2>2, <3>1 DEF Sample
    <3> QED
      BY <3>1, <3>2, <3>3 DEF StillnessAt
  <2> QED
    BY <1>2, <2>3, <2>4, <2>5
<1>5. CASE reason \in FrameReasons
  <2>1. SoFar(reason) = {FrameOffer(reason, m) : m \in FramesShown(reason)}
    BY <1>5 DEF SoFar
  <2>2. CASE reason = "black-covered"
    <3>1. FramesShown(reason) = {m \in 1..Len(video) : Blackish(video[m])}
      BY <1>1, <2>2 DEF FramesShown, ShownByFrame
    <3>2. \A m \in FramesShown(reason) :
            FrameOffer(reason, m) = <<FramePeriod * (m - 1), Darkness(video[m])>>
      BY <2>2 DEF FramesShown, FrameOffer, FrameScores
    <3>3. Offers(reason) = {<<FramePeriod * (m - 1), Darkness(video[m])>> :
                                m \in {m \in 1..Len(video) : Blackish(video[m])}}
      BY <2>2 DEF Offers
    <3> QED
      BY <2>1, <3>1, <3>2, <3>3
  <2>3. CASE reason = "blur-warning"
    <3>1. FramesShown(reason) = {m \in 1..Len(video) : Blurry(video[m])}
      BY <1>1, <2>3 DEF FramesShown, ShownByFrame
    <3>2. \A m \in FramesShown(reason) :
            FrameOffer(reason, m)
                = <<FramePeriod * (m - 1), Camera.blurLaplacian - video[m].laplacian>>
      BY <2>3 DEF FramesShown, FrameOffer, FrameScores
    <3>3. Offers(reason) = {<<FramePeriod * (m - 1), Camera.blurLaplacian - video[m].laplacian>> :
                                m \in {m \in 1..Len(video) : Blurry(video[m])}}
      BY <2>3 DEF Offers
    <3> QED
      BY <2>1, <3>1, <3>2, <3>3
  <2>4. CASE reason = "exposure-warning"
    <3>1. FramesShown(reason) = {m \in 1..Len(video) : ExposureBad(video[m])}
      BY <1>1, <2>4 DEF FramesShown, ShownByFrame
    <3>2. \A m \in FramesShown(reason) :
            FrameOffer(reason, m) = <<FramePeriod * (m - 1), video[m].clipped>>
      BY <2>4 DEF FramesShown, FrameOffer, FrameScores
    <3>3. Offers(reason) = {<<FramePeriod * (m - 1), video[m].clipped>> :
                                m \in {m \in 1..Len(video) : ExposureBad(video[m])}}
      BY <2>4 DEF Offers
    <3> QED
      BY <2>1, <3>1, <3>2, <3>3
  <2> QED
    BY <1>5, <2>2, <2>3, <2>4 DEF FrameReasons
<1>6. CASE reason \in ShakeReasons
  <2>1. SoFar(reason) = {ShakeOffer(reason, k) : k \in ShakesShown(reason)}
    BY <1>6, ReasonsSplit DEF SoFar
  <2>2. CASE reason = "translation-shake"
    <3> DEFINE shaky == {k \in DOMAIN hands :
                            k > 1 /\ HandMotion(k).translation > ShakeTranslation}
    <3>1. ShakesShown(reason) = shaky
      <4>1. ShakesShown(reason) = {k \in 2..Len(hands) : MotionAt(k).translation > ShakeTranslation}
        BY <1>1, <2>2 DEF ShakesShown, ShownByFrame
      <4>2. \A k \in 1..Len(hands) : k > 1 => k \in 2..Len(hands)
        BY <1>1
      <4> QED
        BY <1>1, <1>3, <4>1, <4>2
    <3>2. \A k \in shaky : ShakeOffer(reason, k)
                                = <<FramePeriod * (HandFrame(k) - 1), HandMotion(k).translation>>
      <4> SUFFICES ASSUME NEW k \in shaky
                   PROVE  ShakeOffer(reason, k)
                            = <<FramePeriod * (HandFrame(k) - 1), HandMotion(k).translation>>
        OBVIOUS
      <4>1. k \in 2..Len(hands) /\ k \in 1..Len(hands)
        BY <1>1
      <4>2. HandMotion(k) = MotionAt(k) /\ HandFrame(k) = At(k)
        BY <1>2, <1>3, <4>1
      <4>3. reason \in ShownByFrame(video[At(k)], MotionAt(k))
        BY <2>2, <4>2 DEF ShownByFrame
      <4> QED
        BY <2>2, <4>2, <4>3 DEF ShakeOffer, FrameScores
    <3>3. Offers(reason) = {<<FramePeriod * (HandFrame(k) - 1), HandMotion(k).translation>> :
                                k \in shaky}
      BY <2>2 DEF Offers
    <3> HIDE DEF shaky
    <3> QED
      BY <2>1, <3>1, <3>2, <3>3
  <2>3. CASE reason = "rotation-shake"
    <3> DEFINE shaky == {k \in DOMAIN hands :
                            k > 1 /\ HandMotion(k).rotation > ShakeRotation}
    <3>1. ShakesShown(reason) = shaky
      <4>1. ShakesShown(reason) = {k \in 2..Len(hands) : MotionAt(k).rotation > ShakeRotation}
        BY <1>1, <2>3 DEF ShakesShown, ShownByFrame
      <4>2. \A k \in 1..Len(hands) : k > 1 => k \in 2..Len(hands)
        BY <1>1
      <4> QED
        BY <1>1, <1>3, <4>1, <4>2
    <3>2. \A k \in shaky : ShakeOffer(reason, k)
                                = <<FramePeriod * (HandFrame(k) - 1), HandMotion(k).rotation>>
      <4> SUFFICES ASSUME NEW k \in shaky
                   PROVE  ShakeOffer(reason, k)
                            = <<FramePeriod * (HandFrame(k) - 1), HandMotion(k).rotation>>
        OBVIOUS
      <4>1. k \in 2..Len(hands) /\ k \in 1..Len(hands)
        BY <1>1
      <4>2. HandMotion(k) = MotionAt(k) /\ HandFrame(k) = At(k)
        BY <1>2, <1>3, <4>1
      <4>3. reason \in ShownByFrame(video[At(k)], MotionAt(k))
        BY <2>3, <4>2 DEF ShownByFrame
      <4> QED
        BY <2>3, <4>2, <4>3 DEF ShakeOffer, FrameScores
    <3>3. Offers(reason) = {<<FramePeriod * (HandFrame(k) - 1), HandMotion(k).rotation>> :
                                k \in shaky}
      BY <2>3 DEF Offers
    <3> HIDE DEF shaky
    <3> QED
      BY <2>1, <3>1, <3>2, <3>3
  <2> QED
    BY <1>6, <2>2, <2>3 DEF ShakeReasons
<1>7. CASE reason \in HandReasons
  <2>1. SoFar(reason) = {HandOffer(reason, k) : k \in HandsShown(reason)}
    BY <1>7, ReasonsSplit DEF SoFar
  <2>2. CASE reason = "hands-visible"
    <3>1. HandsShown(reason) = {k \in DOMAIN hands : Found(HandPicture(k)) = {}}
      BY <1>1, <1>4, <2>2 DEF HandsShown, ShownByHands
    <3>2. \A k \in HandsShown(reason) :
            HandOffer(reason, k) = <<FramePeriod * (HandFrame(k) - 1), One>>
      BY <1>2, <2>2 DEF HandsShown, HandOffer, HandScores
    <3>3. Offers(reason) = {<<FramePeriod * (HandFrame(k) - 1), One>> :
                                k \in {k \in DOMAIN hands : Found(HandPicture(k)) = {}}}
      BY <2>2 DEF Offers
    <3> QED
      BY <2>1, <3>1, <3>2, <3>3
  <2>3. CASE reason = "extended-idle"
    <3>1. HandsShown(reason) = {k \in DOMAIN hands : hands[k].idle = 1}
      BY <1>1, <2>3 DEF HandsShown, ShownByHands
    <3>2. \A k \in HandsShown(reason) :
            HandOffer(reason, k) = <<FramePeriod * (HandFrame(k) - 1),
                                     Stillness(HandPicture(k - 1), HandPicture(k))>>
      <4>1. \A k \in HandsShown(reason) : HandOffer(reason, k)
                                            = <<FramePeriod * (At(k) - 1), StillnessAt(k)>>
        BY <2>3 DEF HandsShown, HandOffer, HandScores
      <4> QED
        BY <1>1, <1>2, <1>4, <3>1, <4>1
    <3>3. Offers(reason) = {<<FramePeriod * (HandFrame(k) - 1),
                              Stillness(HandPicture(k - 1), HandPicture(k))>> :
                                k \in {k \in DOMAIN hands : hands[k].idle = 1}}
      BY <2>3 DEF Offers
    <3> QED
      BY <2>1, <3>1, <3>2, <3>3
  <2>4. CASE reason = "hand-speed"
    <3> DEFINE Fast == {k \in DOMAIN hands : hands[k].speed # Missing /\ TooFast(hands[k].speed)}
    <3>1. HandsShown(reason) = Fast
      BY <1>1, <2>4 DEF HandsShown, ShownByHands
    <3>2. \A k \in HandsShown(reason) :
            HandOffer(reason, k) = <<FramePeriod * (HandFrame(k) - 1), hands[k].speed>>
      BY <1>2, <2>4 DEF HandsShown, HandOffer, HandScores
    <3>3. Offers(reason) = {<<FramePeriod * (HandFrame(k) - 1), hands[k].speed>> : k \in Fast}
      BY <2>4 DEF Offers
    <3> HIDE DEF Fast
    <3> QED
      BY <2>1, <3>1, <3>2, <3>3
  <2>5. CASE reason = "repetitive-motion"
    <3> DEFINE Fast == {k \in DOMAIN hands : /\ hands[k].speed # Missing
                                             /\ hands[k].speed >= EvidenceSpeed
                                             /\ k % Stride = 0}
    <3>1. HandsShown(reason) = Fast
      BY <1>1, <2>5 DEF HandsShown, ShownByHands
    <3>2. \A k \in HandsShown(reason) :
            HandOffer(reason, k) = <<FramePeriod * (HandFrame(k) - 1), hands[k].speed>>
      BY <1>2, <2>5 DEF HandsShown, HandOffer, HandScores
    <3>3. Offers(reason) = {<<FramePeriod * (HandFrame(k) - 1), hands[k].speed>> : k \in Fast}
      BY <2>5 DEF Offers
    <3> HIDE DEF Fast
    <3> QED
      BY <2>1, <3>1, <3>2, <3>3
  <2> QED
    BY <1>7, <2>2, <2>3, <2>4, <2>5 DEF HandReasons
<1> QED
  BY <1>5, <1>6, <1>7, ReasonsSplit

\* The images of a measured file are those of the first, the last and the first of the
\* worst of its frames, and a corrupt file has none, for every file.
THEOREM EvidenceAlwaysExact == Spec => []EvidenceExact
<1>1. SeriesInv /\ EvidenceInv => EvidenceExact
  <2> SUFFICES ASSUME SeriesInv, EvidenceInv PROVE EvidenceExact
    OBVIOUS
  <2>1. ASSUME Measured, NEW reason \in EvidenceReasons
        PROVE  LET offers == Offers(reason)
                   when == {offer[1] : offer \in offers}
                   worst == Max({offer[2] : offer \in offers})
                   kept == images[reason]
               IN IF offers = {} THEN kept = Evidence!NoImages
                  ELSE /\ kept.first.time = Min(when)
                       /\ kept.last.time = Max(when)
                       /\ kept.worst =
                            [time |-> Min({offer[1] : offer \in {o \in offers : o[2] = worst}}),
                             score |-> worst]
    <3>1. PICK offers : offers = Offers(reason)
      OBVIOUS
    <3>2. offers = SoFar(reason)
      BY <2>1, <3>1, OffersExact
    <3>3. offers \in SUBSET (Int \X Int) /\ Kept(images[reason], offers)
      BY <2>1, <3>2, OffersTyped DEF EvidenceInv
    <3> QED
      BY <3>1, <3>3, KeptExact
  <2>2. ASSUME phase = "done", ~Measured
        PROVE  Evidence!Selected(images, EvidenceReasons) = {}
    <3>1. /\ DOMAIN images = EvidenceReasons
          /\ \A reason \in EvidenceReasons : images[reason] = Evidence!NoImages
      BY <2>2 DEF EvidenceInv
    <3>2. \A slot \in Evidence!Slots : Evidence!NoImages[slot] = NoImage
      BY DEF Evidence!NoImages
    <3> QED
      BY <3>1, <3>2 DEF Evidence!Selected
  <2> QED
    BY <2>1, <2>2 DEF EvidenceExact
<1> QED
  BY <1>1, SeriesKept, EvidenceKept, PTL

------------------------------------------------------------------------------
(* The runs of a series, and the intervals made of them. *)

------------------------------------------------------------------------------
(* The runs of a series. *)

\* The longest stretches of a series that are TRUE throughout.
MaximalRuns(marks) ==
    {run \in (1..Len(marks)) \X (1..Len(marks)) :
        /\ run[1] <= run[2]
        /\ \A i \in run[1]..run[2] : marks[i]
        /\ run[1] = 1 \/ ~marks[run[1] - 1]
        /\ run[2] = Len(marks) \/ ~marks[run[2] + 1]}

\* f is the scan up to m.
ScanUpTo(marks, kept, m, f) ==
    f = [i \in 0..m |-> IF i = 0 THEN NoRuns ELSE Scanned(marks, kept, f[i - 1], i)]

LEMMA ScanExists ==
    ASSUME NEW marks, NEW kept, NEW n \in Nat
    PROVE  \E f : ScanUpTo(marks, kept, n, f)
<1> DEFINE F(m, f) == ScanUpTo(marks, kept, m, f)
           U == {m \in Nat : ~ \E f : F(m, f)}
<1>1. SUFFICES ASSUME U # {} PROVE FALSE
  OBVIOUS
<1>2. PICK b \in U : \A m \in U : b <= m
  <2>1. U \in SUBSET Nat
    OBVIOUS
  <2> HIDE DEF U
  <2> QED
    BY <1>1, <2>1, NatLeast
<1>3. b \in Nat /\ ~ \E f : F(b, f)
  OBVIOUS
<1>4. CASE b = 0
  <2> DEFINE g == [i \in 0..0 |-> NoRuns]
  <2>1. \A i \in 0..0 : i = 0
    OBVIOUS
  <2>2. F(0, g)
    BY <2>1 DEF ScanUpTo
  <2> QED
    BY <1>3, <1>4, <2>2
<1>5. CASE b # 0
  <2>1. b - 1 \in Nat /\ b - 1 \notin U
    <3>1. b - 1 \in Nat /\ ~(b <= b - 1)
      BY <1>3, <1>5
    <3> QED
      BY <1>2, <3>1
  <2>2. PICK f : F(b - 1, f)
    BY <2>1
  <2> DEFINE g == [i \in 0..b |-> IF i = b THEN Scanned(marks, kept, f[b - 1], b) ELSE f[i]]
  <2>3. ASSUME NEW i \in 0..b
        PROVE  g[i] = IF i = 0 THEN NoRuns ELSE Scanned(marks, kept, g[i - 1], i)
    <3>1. CASE i = b
      <4>1. b - 1 \in 0..b /\ b - 1 # b
        BY <1>3, <2>1
      <4>2. g[b - 1] = f[b - 1]
        BY <4>1
      <4>3. g[i] = Scanned(marks, kept, f[b - 1], b)
        BY <3>1
      <4> QED
        BY <1>5, <3>1, <4>2, <4>3
    <3>2. CASE i # b
      <4>1. i \in 0..(b - 1) /\ (i # 0 => i - 1 \in 0..b /\ i - 1 # b)
        BY <1>3, <3>2
      <4>2. g[i] = f[i] /\ (i # 0 => g[i - 1] = f[i - 1])
        BY <3>2, <4>1
      <4>3. f[i] = IF i = 0 THEN NoRuns ELSE Scanned(marks, kept, f[i - 1], i)
        BY <2>2, <4>1 DEF ScanUpTo
      <4> QED
        BY <4>2, <4>3
    <3> QED
      BY <3>1, <3>2
  <2>4. g = [i \in 0..b |-> g[i]]
    OBVIOUS
  <2> HIDE DEF g
  <2>5. F(b, g)
    BY <2>3, <2>4 DEF ScanUpTo
  <2> QED
    BY <1>3, <2>5
<1> QED
  BY <1>4, <1>5

LEMMA ScanIs ==
    ASSUME NEW marks, NEW kept, Len(marks) \in Nat
    PROVE  /\ Scan(marks, kept)[0] = NoRuns
           /\ \A i \in 1..(Len(marks) + 1) :
                Scan(marks, kept)[i] = Scanned(marks, kept, Scan(marks, kept)[i - 1], i)
<1> DEFINE n == Len(marks) + 1
           F(f) == ScanUpTo(marks, kept, n, f)
<1>1. Scan(marks, kept) = CHOOSE f : F(f)
  BY DEF Scan, ScanUpTo
<1>2. \E f : F(f)
  <2>1. n \in Nat
    OBVIOUS
  <2> HIDE DEF n
  <2> QED
    BY <2>1, ScanExists
<1>3. F(Scan(marks, kept))
  <2> HIDE DEF F
  <2> QED
    BY <1>1, <1>2
<1>4. PICK f : f = Scan(marks, kept) /\ F(f)
  <2> HIDE DEF F
  <2> QED
    BY <1>3
<1>5. f[0] = NoRuns
  <2>1. 0 \in 0..n
    OBVIOUS
  <2> HIDE DEF n
  <2> QED
    BY <1>4, <2>1 DEF ScanUpTo
<1>6. ASSUME NEW i \in 1..n PROVE f[i] = Scanned(marks, kept, f[i - 1], i)
  <2>1. i \in 0..n /\ i # 0
    OBVIOUS
  <2> HIDE DEF n
  <2> QED
    BY <1>4, <2>1 DEF ScanUpTo
<1> QED
  BY <1>4, <1>5, <1>6

\* The first index of which a scan up to i has not decided yet.
Open(scan, i) == IF scan.start = 0 THEN i + 1 ELSE scan.start

\* A scan up to i has the runs that ended before, in order, and where the one it is
\* in began.
ScanInv(marks, kept, i, scan) ==
    /\ scan \in [start : Nat, runs : Seq(Nat \X Nat)]
    /\ scan.start # 0 => /\ scan.start \in 1..i /\ i <= Len(marks)
                         /\ \A j \in scan.start..i : marks[j]
                         /\ scan.start = 1 \/ ~marks[scan.start - 1]
    /\ scan.start = 0 => i = 0 \/ i > Len(marks) \/ ~marks[i]
    /\ \A n \in 1..Len(scan.runs) : /\ scan.runs[n] \in MaximalRuns(marks) \cap kept
                                    /\ scan.runs[n][2] + 1 < Open(scan, i)
    /\ \A m, n \in 1..Len(scan.runs) : m < n => scan.runs[m][2] + 1 < scan.runs[n][1]
    /\ \A run \in MaximalRuns(marks) \cap kept :
            run[2] + 1 < Open(scan, i) => \E n \in 1..Len(scan.runs) : scan.runs[n] = run

\* The run that ends before i is the only one that ends after those the scan has.
LEMMA RunCloses ==
    ASSUME NEW marks \in Seq(BOOLEAN), NEW i \in 1..(Len(marks) + 1),
           i <= Len(marks) => ~marks[i], NEW start \in 1..(i - 1),
           \A j \in start..(i - 1) : marks[j], start = 1 \/ ~marks[start - 1]
    PROVE  /\ <<start, i - 1>> \in MaximalRuns(marks)
           /\ \A run \in MaximalRuns(marks) :
                run[2] + 1 < i + 1 => run[2] + 1 < start \/ run = <<start, i - 1>>
<1>1. Len(marks) \in Nat /\ i \in Nat /\ start \in Nat
  BY LenProperties
<1>2. <<start, i - 1>> \in MaximalRuns(marks)
  <2>1. start \in 1..Len(marks) /\ i - 1 \in 1..Len(marks) /\ start <= i - 1
    BY <1>1
  <2>2. i - 1 = Len(marks) \/ ~marks[(i - 1) + 1]
    BY <1>1
  <2> QED
    BY <2>1, <2>2 DEF MaximalRuns
<1>3. ASSUME NEW run \in MaximalRuns(marks), run[2] + 1 < i + 1, ~(run[2] + 1 < start)
      PROVE  run = <<start, i - 1>>
  <2>a. PICK a \in 1..Len(marks), b \in 1..Len(marks) : run = <<a, b>>
    BY DEF MaximalRuns
  <2>1. /\ run = <<a, b>> /\ a <= b
        /\ \A j \in a..b : marks[j]
        /\ a = 1 \/ ~marks[a - 1]
        /\ b = Len(marks) \/ ~marks[b + 1]
    BY <2>a DEF MaximalRuns
  <2>2. a \in Nat /\ b \in Nat /\ a >= 1 /\ b < i /\ b + 1 >= start
    BY <1>1, <1>3, <2>1
  <2>3. b >= start
    <3>1. b = start - 1 => start # 1 /\ start - 1 \in a..b
      BY <1>1, <2>1, <2>2
    <3> QED
      BY <1>1, <2>1, <2>2, <3>1
  <2>4. b = i - 1
    <3>1. b # i - 1 => b + 1 \in start..(i - 1) /\ b # Len(marks)
      BY <1>1, <2>2, <2>3
    <3> QED
      BY <2>1, <3>1
  <2>5. a = start
    <3>1. a < start => start # 1 /\ start - 1 \in a..b
      BY <1>1, <2>2, <2>3
    <3>2. a > start => a # 1 /\ a - 1 \in start..(i - 1)
      BY <1>1, <2>1, <2>2
    <3>3. ~(a < start)
      BY <2>1, <3>1
    <3>4. ~(a > start)
      BY <2>1, <3>2
    <3> QED
      BY <1>1, <2>2, <3>3, <3>4
  <2> QED
    BY <2>1, <2>4, <2>5
<1> QED
  BY <1>2, <1>3

\* A scan that is in no run.
LEMMA ScanBetween ==
    ASSUME NEW marks, NEW kept, NEW i, i = 0 \/ i > Len(marks) \/ ~marks[i],
           NEW runs \in Seq(Nat \X Nat), NEW scan, scan = [start |-> 0, runs |-> runs],
           \A n \in 1..Len(runs) : /\ runs[n] \in MaximalRuns(marks) \cap kept
                                   /\ runs[n][2] + 1 < i + 1,
           \A m, n \in 1..Len(runs) : m < n => runs[m][2] + 1 < runs[n][1],
           \A run \in MaximalRuns(marks) \cap kept :
                run[2] + 1 < i + 1 => \E n \in 1..Len(runs) : runs[n] = run
    PROVE  ScanInv(marks, kept, i, scan)
<1>1. /\ scan \in [start : Nat, runs : Seq(Nat \X Nat)]
      /\ scan.start = 0 /\ scan.runs = runs /\ Open(scan, i) = i + 1
  BY DEF Open
<1>2. PICK kind : kind = MaximalRuns(marks) \cap kept
  OBVIOUS
<1> QED
  BY <1>1, <1>2 DEF ScanInv

LEMMA ScanStep ==
    ASSUME NEW marks \in Seq(BOOLEAN), NEW kept, NEW i \in 1..(Len(marks) + 1), NEW before,
           ScanInv(marks, kept, i - 1, before), NEW scan, scan = Scanned(marks, kept, before, i)
    PROVE  ScanInv(marks, kept, i, scan)
<1>1. /\ Len(marks) \in Nat /\ i \in Nat /\ i - 1 \in Nat
      /\ before \in [start : Nat, runs : Seq(Nat \X Nat)]
      /\ before.start \in Nat /\ before.runs \in Seq(Nat \X Nat) /\ Len(before.runs) \in Nat
      /\ before.start # 0 => /\ before.start \in 1..(i - 1) /\ i - 1 <= Len(marks)
                             /\ \A j \in before.start..(i - 1) : marks[j]
                             /\ before.start = 1 \/ ~marks[before.start - 1]
      /\ before.start = 0 => i - 1 = 0 \/ i - 1 > Len(marks) \/ ~marks[i - 1]
      /\ \A n \in 1..Len(before.runs) : /\ before.runs[n] \in MaximalRuns(marks) \cap kept
                                        /\ before.runs[n][2] + 1 < Open(before, i - 1)
      /\ \A m, n \in 1..Len(before.runs) : m < n => before.runs[m][2] + 1 < before.runs[n][1]
      /\ \A run \in MaximalRuns(marks) \cap kept :
            run[2] + 1 < Open(before, i - 1)
                => \E n \in 1..Len(before.runs) : before.runs[n] = run
  <2>1. Len(marks) \in Nat /\ i \in Nat /\ i - 1 \in Nat
    BY LenProperties
  <2>2. before \in [start : Nat, runs : Seq(Nat \X Nat)]
    BY DEF ScanInv
  <2>3. Len(before.runs) \in Nat
    BY <2>2, LenProperties
  <2> QED
    BY <2>1, <2>2, <2>3 DEF ScanInv
<1>2. \A run \in MaximalRuns(marks) :
        /\ run[1] \in Nat /\ run[2] \in Nat /\ 1 <= run[1] /\ run[1] <= run[2]
        /\ run[2] <= Len(marks) /\ marks[run[2]] /\ run \in Nat \X Nat
  <2> SUFFICES ASSUME NEW run \in MaximalRuns(marks)
               PROVE  /\ run[1] \in Nat /\ run[2] \in Nat /\ 1 <= run[1] /\ run[1] <= run[2]
                      /\ run[2] <= Len(marks) /\ marks[run[2]] /\ run \in Nat \X Nat
    OBVIOUS
  <2>1. PICK a \in 1..Len(marks), b \in 1..Len(marks) :
            run = <<a, b>> /\ a <= b /\ \A j \in a..b : marks[j]
    BY DEF MaximalRuns
  <2>2. b \in a..b /\ a \in Nat /\ b \in Nat
    BY <1>1, <2>1
  <2> QED
    BY <1>1, <2>1, <2>2
<1>3. CASE i <= Len(marks) /\ marks[i]
  <2>1. scan = [before EXCEPT !.start = IF before.start = 0 THEN i ELSE before.start]
    BY <1>3 DEF Scanned
  <2>2. /\ scan.runs = before.runs /\ scan \in [start : Nat, runs : Seq(Nat \X Nat)]
        /\ scan.start = IF before.start = 0 THEN i ELSE before.start
    BY <1>1, <2>1
  <2>3. Open(scan, i) = Open(before, i - 1)
    BY <1>1, <2>2 DEF Open
  <2>4. /\ scan.start # 0 /\ scan.start \in 1..i
        /\ scan.start = 1 \/ ~marks[scan.start - 1]
    BY <1>1, <1>3, <2>2
  <2>5. \A j \in scan.start..i : marks[j]
    <3> SUFFICES ASSUME NEW j \in scan.start..i PROVE marks[j]
      OBVIOUS
    <3>1. j = i \/ (before.start # 0 /\ j \in before.start..(i - 1))
      BY <1>1, <2>2
    <3> QED
      BY <1>1, <1>3, <3>1
  <2> QED
    BY <1>1, <1>3, <2>2, <2>3, <2>4, <2>5 DEF ScanInv
<1>4. CASE ~(i <= Len(marks) /\ marks[i])
  <2>1. /\ scan.start = 0 /\ Open(scan, i) = i + 1
        /\ scan.runs = IF before.start # 0 /\ <<before.start, i - 1>> \in kept
                       THEN Append(before.runs, <<before.start, i - 1>>) ELSE before.runs
        /\ scan = [start |-> 0, runs |-> scan.runs]
    BY <1>4 DEF Scanned, Open
  <2>2. /\ i <= Len(marks) => ~marks[i]
        /\ i = 0 \/ i > Len(marks) \/ ~marks[i]
    BY <1>1, <1>4
  <2>3. ASSUME NEW n \in 1..Len(before.runs)
        PROVE  /\ before.runs[n] \in MaximalRuns(marks) \cap kept
               /\ before.runs[n][2] + 1 < i + 1
               /\ before.start # 0 => before.runs[n][2] + 1 < before.start
    <3>1. before.runs[n] \in MaximalRuns(marks) \cap kept
          /\ before.runs[n][2] + 1 < Open(before, i - 1) /\ before.runs[n][2] \in Nat
      BY <1>1, <1>2
    <3>2. Open(before, i - 1) <= i /\ (before.start # 0 => Open(before, i - 1) = before.start)
          /\ Open(before, i - 1) \in Int
      BY <1>1 DEF Open
    <3> QED
      BY <1>1, <3>1, <3>2, SMTT(30)
  <2>4. CASE before.start = 0
    <3>1. scan.runs = before.runs
      BY <2>1, <2>4
    <3>2. ASSUME NEW run \in MaximalRuns(marks) \cap kept, run[2] + 1 < i + 1
          PROVE  \E n \in 1..Len(scan.runs) : scan.runs[n] = run
      <4>1. run[2] # i - 1
        BY <1>1, <1>2, <2>4
      <4>2. run[2] + 1 < Open(before, i - 1)
        BY <1>1, <1>2, <2>4, <3>2, <4>1 DEF Open
      <4> QED
        BY <1>1, <3>1, <4>2
    <3>3. /\ scan.runs \in Seq(Nat \X Nat)
          /\ \A n \in 1..Len(scan.runs) : /\ scan.runs[n] \in MaximalRuns(marks) \cap kept
                                          /\ scan.runs[n][2] + 1 < i + 1
          /\ \A m, n \in 1..Len(scan.runs) : m < n => scan.runs[m][2] + 1 < scan.runs[n][1]
      BY <1>1, <2>3, <3>1
    <3> QED
      BY <2>1, <2>2, <3>2, <3>3, ScanBetween
  <2>5. CASE before.start # 0
    <3>1. /\ <<before.start, i - 1>> \in MaximalRuns(marks)
          /\ \A run \in MaximalRuns(marks) :
                run[2] + 1 < i + 1 => run[2] + 1 < before.start \/ run = <<before.start, i - 1>>
      <4>1. PICK start \in 1..(i - 1) : start = before.start
        BY <1>1, <2>5
      <4> QED
        BY <1>1, <2>2, <2>5, <4>1, RunCloses
    <3>2. CASE <<before.start, i - 1>> \notin kept
      <4>1. scan.runs = before.runs
        BY <2>1, <3>2
      <4>2. ASSUME NEW run \in MaximalRuns(marks) \cap kept, run[2] + 1 < i + 1
            PROVE  \E n \in 1..Len(scan.runs) : scan.runs[n] = run
        <5>1. run[2] + 1 < before.start
          BY <3>1, <3>2, <4>2
        <5> QED
          BY <1>1, <2>5, <4>1, <5>1 DEF Open
      <4>3. /\ scan.runs \in Seq(Nat \X Nat)
            /\ \A n \in 1..Len(scan.runs) : /\ scan.runs[n] \in MaximalRuns(marks) \cap kept
                                            /\ scan.runs[n][2] + 1 < i + 1
            /\ \A m, n \in 1..Len(scan.runs) : m < n => scan.runs[m][2] + 1 < scan.runs[n][1]
        BY <1>1, <2>3, <4>1
      <4> QED
        BY <2>1, <2>2, <4>2, <4>3, ScanBetween
    <3>3. CASE <<before.start, i - 1>> \in kept
      <4> DEFINE last == Len(before.runs) + 1
      <4>1. PICK new : new = <<before.start, i - 1>>
        OBVIOUS
      <4>2. /\ new \in Nat \X Nat /\ new \in MaximalRuns(marks) \cap kept
            /\ new[1] = before.start /\ new[2] = i - 1
        BY <1>2, <3>1, <3>3, <4>1
      <4>3. /\ scan.runs \in Seq(Nat \X Nat) /\ Len(scan.runs) = last
            /\ scan.runs[last] = new
            /\ \A n \in 1..Len(before.runs) : scan.runs[n] = before.runs[n]
        <5>1. scan.runs = Append(before.runs, new)
          BY <2>1, <2>5, <3>3, <4>1
        <5> QED
          BY <1>1, <4>2, <5>1, AppendProperties
      <4>4. \A n \in 1..Len(scan.runs) : n = last \/ n \in 1..Len(before.runs)
        BY <1>1, <4>3
      <4>5. last \in 1..Len(scan.runs) /\ \A n \in 1..Len(before.runs) : n \in 1..Len(scan.runs)
        BY <1>1, <4>3, SMTT(30)
      <4>6. ASSUME NEW n \in 1..Len(scan.runs)
            PROVE  /\ scan.runs[n] \in MaximalRuns(marks) \cap kept
                   /\ scan.runs[n][2] + 1 < i + 1
        <5>1. CASE n = last
          BY <1>1, <4>2, <4>3, <5>1, SMTT(30)
        <5>2. CASE n \in 1..Len(before.runs)
          BY <2>3, <4>3, <5>2
        <5> QED
          BY <4>4, <5>1, <5>2
      <4>7. ASSUME NEW m \in 1..Len(scan.runs), NEW n \in 1..Len(scan.runs), m < n
            PROVE  scan.runs[m][2] + 1 < scan.runs[n][1]
        <5>1. m \in 1..Len(before.runs)
          BY <1>1, <4>3, <4>7
        <5>2. CASE n = last
          <6>1. scan.runs[m] = before.runs[m] /\ scan.runs[n] = new
            BY <4>3, <5>1, <5>2
          <6> QED
            BY <2>3, <2>5, <4>2, <5>1, <6>1
        <5>3. CASE n \in 1..Len(before.runs)
          BY <1>1, <4>3, <4>7, <5>1, <5>3
        <5> QED
          BY <4>4, <5>2, <5>3
      <4>8. ASSUME NEW run \in MaximalRuns(marks) \cap kept, run[2] + 1 < i + 1
            PROVE  \E n \in 1..Len(scan.runs) : scan.runs[n] = run
        <5>1. CASE run = <<before.start, i - 1>>
          BY <4>1, <4>3, <4>5, <5>1
        <5>2. CASE run[2] + 1 < before.start
          <6>1. PICK n \in 1..Len(before.runs) : before.runs[n] = run
            BY <1>1, <2>5, <5>2 DEF Open
          <6> QED
            BY <4>3, <4>5, <6>1
        <5> QED
          BY <3>1, <4>8, <5>1, <5>2
      <4> HIDE DEF last
      <4> QED
        BY <2>1, <2>2, <4>3, <4>6, <4>7, <4>8, ScanBetween
    <3> QED
      BY <3>2, <3>3
  <2> QED
    BY <2>4, <2>5
<1> QED
  BY <1>3, <1>4

\* The runs of a series are its maximal runs, those that are kept, in order.
LEMMA RunsExactly ==
    ASSUME NEW marks \in Seq(BOOLEAN), NEW kept, NEW runs, runs = RunsOf(marks, kept)
    PROVE  /\ runs \in Seq(Nat \X Nat)
           /\ \A n \in 1..Len(runs) : runs[n] \in MaximalRuns(marks) \cap kept
           /\ \A m, n \in 1..Len(runs) : m < n => runs[m][2] + 1 < runs[n][1]
           /\ \A run \in MaximalRuns(marks) \cap kept : \E n \in 1..Len(runs) : runs[n] = run
<1>1. PICK last \in Nat : last = Len(marks) + 1 /\ Len(marks) \in Nat
  BY LenProperties
<1>2. PICK scan : /\ scan = Scan(marks, kept) /\ scan[0] = NoRuns
                  /\ \A i \in 1..last : scan[i] = Scanned(marks, kept, scan[i - 1], i)
  BY <1>1, ScanIs
<1> DEFINE U == {i \in 0..last : ~ScanInv(marks, kept, i, scan[i])}
<1>3. U = {}
  <2>1. SUFFICES ASSUME U # {} PROVE FALSE
    OBVIOUS
  <2>2. PICK b \in U : \A i \in U : b <= i
    <3>1. U \in SUBSET Nat
      BY <1>1
    <3> HIDE DEF U
    <3> QED
      BY <2>1, <3>1, NatLeast
  <2>3. b \in 0..last /\ b \in Nat /\ ~ScanInv(marks, kept, b, scan[b])
    BY <1>1
  <2>4. CASE b = 0
    <3>1. NoRuns.start = 0 /\ NoRuns.runs = <<>> /\ NoRuns \in [start : Nat, runs : Seq(Nat \X Nat)]
      BY DEF NoRuns
    <3>2. Len(<<>>) = 0 /\ 1..0 = {}
      OBVIOUS
    <3>3. \A run \in MaximalRuns(marks) : ~(run[2] + 1 < 1)
      BY <1>1 DEF MaximalRuns
    <3>4. ScanInv(marks, kept, 0, NoRuns)
      BY <3>1, <3>2, <3>3 DEF ScanInv, Open
    <3> QED
      BY <1>2, <2>3, <2>4, <3>4
  <2>5. CASE b # 0
    <3>1. b \in 1..(Len(marks) + 1) /\ b - 1 \in 0..last /\ ~(b <= b - 1)
      BY <1>1, <2>3, <2>5
    <3>2. ScanInv(marks, kept, b - 1, scan[b - 1])
      BY <2>2, <3>1
    <3>3. scan[b] = Scanned(marks, kept, scan[b - 1], b)
      BY <1>1, <1>2, <3>1
    <3>4. ScanInv(marks, kept, b, scan[b])
      BY <3>1, <3>2, <3>3, ScanStep
    <3> QED
      BY <2>3, <3>4
  <2> QED
    BY <2>4, <2>5
<1>4. ScanInv(marks, kept, last, scan[last])
  BY <1>1, <1>3
<1>5. runs = scan[last].runs
  BY <1>1, <1>2 DEF RunsOf
<1>6. \A run \in MaximalRuns(marks) : run[2] + 1 < Open(scan[last], last)
  <2>1. Open(scan[last], last) = last + 1
    <3>1. scan[last].start # 0 => last <= Len(marks)
      BY <1>4 DEF ScanInv
    <3> QED
      BY <1>1, <3>1 DEF Open
  <2>2. \A run \in MaximalRuns(marks) : run[2] \in 1..Len(marks)
    BY DEF MaximalRuns
  <2> QED
    BY <1>1, <2>1, <2>2
<1>7. scan[last].runs \in Seq(Nat \X Nat)
  BY <1>4 DEF ScanInv
<1> QED
  BY <1>4, <1>5, <1>6, <1>7 DEF ScanInv

\* A stretch that is TRUE throughout lies in a run.
LEMMA StretchInRun ==
    ASSUME NEW marks \in Seq(BOOLEAN), NEW a \in 1..Len(marks), NEW b \in a..Len(marks),
           \A j \in a..b : marks[j]
    PROVE  \E run \in MaximalRuns(marks) : run[1] <= a /\ b <= run[2]
<1>1. PICK n \in Nat : n = Len(marks)
  BY LenProperties
<1>2. a \in Nat /\ b \in Nat /\ 1 <= a /\ a <= b /\ b <= n
  BY <1>1
<1> DEFINE Before == {x \in 1..a : \A j \in x..b : marks[j]}
           After == {y \in 0..(n - b) : \A j \in a..(n - y) : marks[j]}
<1>3. PICK first \in Before : \A x \in Before : first <= x
  <2>1. a \in Before /\ Before \in SUBSET Nat
    BY <1>2
  <2> HIDE DEF Before
  <2> QED
    BY <2>1, NatLeast
<1>4. PICK rest \in After : \A y \in After : rest <= y
  <2>1. n - b \in After
    <3>1. n - b \in 0..(n - b) /\ n - (n - b) = b
      BY <1>2
    <3> QED
      BY <3>1
  <2>2. After \in SUBSET Nat
    BY <1>2
  <2> HIDE DEF After
  <2> QED
    BY <2>1, <2>2, NatLeast
<1>5. first \in 1..a /\ first \in Nat /\ \A j \in first..b : marks[j]
  BY <1>2
<1>6. PICK last \in Nat : last = n - rest /\ b <= last /\ last <= n /\ \A j \in a..last : marks[j]
  <2>1. rest \in 0..(n - b) /\ \A j \in a..(n - rest) : marks[j]
    OBVIOUS
  <2>2. n - rest \in Nat /\ b <= n - rest /\ n - rest <= n
    BY <1>2, <2>1
  <2> QED
    BY <2>1, <2>2
<1>7. \A j \in first..last : marks[j]
  <2>1. \A j \in first..last : j \in first..b \/ j \in a..last
    BY <1>2, <1>5, <1>6
  <2> QED
    BY <1>5, <1>6, <2>1
<1>8. first = 1 \/ ~marks[first - 1]
  <2> SUFFICES ASSUME first # 1, marks[first - 1] PROVE FALSE
    OBVIOUS
  <2>1. first - 1 \in 1..a /\ ~(first <= first - 1)
    BY <1>2, <1>5
  <2>2. \A j \in (first - 1)..b : j = first - 1 \/ j \in first..b
    BY <1>5
  <2>3. first - 1 \in Before
    BY <1>5, <2>1, <2>2
  <2> QED
    BY <1>3, <2>1, <2>3
<1>9. last = n \/ ~marks[last + 1]
  <2> SUFFICES ASSUME last # n, marks[last + 1] PROVE FALSE
    OBVIOUS
  <2>1. rest \in Nat /\ rest - 1 \in 0..(n - b) /\ n - (rest - 1) = last + 1 /\ ~(rest <= rest - 1)
    BY <1>1, <1>2, <1>6, SMTT(30)
  <2>2. \A j \in a..(last + 1) : j = last + 1 \/ j \in a..last
    BY <1>6
  <2>3. rest - 1 \in After
    BY <1>6, <2>1, <2>2
  <2> QED
    BY <1>4, <2>1, <2>3
<1>10. <<first, last>> \in MaximalRuns(marks)
  <2>1. first \in 1..n /\ last \in 1..n /\ first <= last
    BY <1>2, <1>5, <1>6
  <2> QED
    BY <1>1, <1>7, <1>8, <1>9, <2>1 DEF MaximalRuns
<1> QED
  BY <1>5, <1>6, <1>10

\* The times of a series of samples: in order, and two apart by a step at least.
Paced(times) ==
    /\ times \in Seq(Int)
    /\ \A j, k \in 1..Len(times) : j < k => times[j] < times[k]
    /\ \A j, k \in 1..Len(times) : j + 1 < k => times[j] + Step(times) <= times[k]

LEMMA StepTyped ==
    ASSUME NEW times, Paced(times)
    PROVE  Step(times) \in Nat /\ Step(times) > 0
<1>1. CASE Len(times) > 1
  <2>1. PICK n \in Nat : n = Len(times)
    BY LenProperties DEF Paced
  <2>2. 1 \in 1..n /\ 2 \in 1..n
    BY <1>1, <2>1
  <2>3. times[1] \in Int /\ times[2] \in Int /\ times[1] < times[2]
    BY <2>1, <2>2, ElementOfSeq DEF Paced
  <2> QED
    BY <1>1, <2>3 DEF Step
<1>2. CASE ~(Len(times) > 1)
  BY <1>2, ThresholdAssumption DEF Step
<1> QED
  BY <1>1, <1>2

LEMMA PacedOrder ==
    ASSUME NEW times, Paced(times), NEW n \in Nat, n = Len(times)
    PROVE  /\ \A j \in 1..n : times[j] \in Int
           /\ \A j, k \in 1..n : j <= k => times[j] <= times[k]
           /\ \A j, k \in 1..n : times[j] <= times[k] => j <= k
           /\ \A j, k \in 1..n : times[k] < times[j] + Step(times) => k <= j + 1
<1>1. /\ \A j \in 1..n : times[j] \in Int
      /\ \A j, k \in 1..n : j < k => times[j] < times[k]
      /\ \A j, k \in 1..n : j + 1 < k => times[j] + Step(times) <= times[k]
      /\ Step(times) \in Nat
  BY ElementOfSeq, StepTyped DEF Paced
<1>2. ASSUME NEW j \in 1..n, NEW k \in 1..n, j <= k PROVE times[j] <= times[k]
  <2>1. j = k \/ j < k
    BY <1>2
  <2> QED
    BY <1>1, <2>1
<1>3. ASSUME NEW j \in 1..n, NEW k \in 1..n, times[j] <= times[k] PROVE j <= k
  <2>1. k < j => times[k] < times[j]
    BY <1>1
  <2> QED
    BY <1>1, <1>3, <2>1
<1>4. ASSUME NEW j \in 1..n, NEW k \in 1..n, times[k] < times[j] + Step(times) PROVE k <= j + 1
  <2>1. j + 1 < k => times[j] + Step(times) <= times[k]
    BY <1>1
  <2> QED
    BY <1>1, <1>4, <2>1
<1> QED
  BY <1>1, <1>2, <1>3, <1>4

\* The idle stretches that last.
Idles(idle) == [i \in DOMAIN idle |-> idle[i] = 1]

\* Each of a set of runs is reported.
Lists(runs, S) == \A run \in S : \E n \in 1..Len(runs) : runs[n] = run

\* The scan reports the idle stretches that last, apart and in order, and misses none.
LEMMA LongRunsExactly ==
    ASSUME NEW times, Paced(times), NEW idle \in Seq({0, 1, Missing}), Len(times) = Len(idle),
           NEW runs, runs = LongRuns(times, idle)
    PROVE  /\ runs \in Seq(Nat \X Nat)
           /\ \A n \in 1..Len(runs) : /\ runs[n] \in MaximalRuns(Idles(idle))
                                      /\ Lasts(times, runs[n])
           /\ \A m, n \in 1..Len(runs) : m < n => runs[m][2] + 1 < runs[n][1]
           /\ Lists(runs, {run \in MaximalRuns(Idles(idle)) : Lasts(times, run)})
<1>1. Len(idle) \in Nat /\ DOMAIN idle = 1..Len(idle)
  BY LenProperties
<1>2. Idles(idle) \in Seq(BOOLEAN) /\ Len(Idles(idle)) = Len(idle)
  BY <1>1 DEF Idles
<1>3. PICK kept : kept = {run \in Stretches(idle) : Lasts(times, run)}
  OBVIOUS
<1>4. \A run \in MaximalRuns(Idles(idle)) : run \in kept <=> Lasts(times, run)
  <2>1. \A run \in MaximalRuns(Idles(idle)) : run \in Stretches(idle)
    BY <1>1, <1>2 DEF MaximalRuns, Stretches
  <2> QED
    BY <1>3, <2>1
<1>5. PICK marks \in Seq(BOOLEAN) : marks = Idles(idle) /\ runs = RunsOf(marks, kept)
  BY <1>2, <1>3 DEF LongRuns, Idles
<1>6. /\ runs \in Seq(Nat \X Nat)
      /\ \A n \in 1..Len(runs) : runs[n] \in MaximalRuns(marks) \cap kept
      /\ \A m, n \in 1..Len(runs) : m < n => runs[m][2] + 1 < runs[n][1]
      /\ \A run \in MaximalRuns(marks) \cap kept : \E n \in 1..Len(runs) : runs[n] = run
  <2>1. runs = RunsOf(marks, kept)
    BY <1>5
  <2>2. runs \in Seq(Nat \X Nat)
    BY <2>1, RunsExactly
  <2>3. \A n \in 1..Len(runs) : runs[n] \in MaximalRuns(marks) \cap kept
    BY <2>1, RunsExactly
  <2>4. \A m, n \in 1..Len(runs) : m < n => runs[m][2] + 1 < runs[n][1]
    BY <2>1, RunsExactly
  <2>5. \A run \in MaximalRuns(marks) \cap kept : \E n \in 1..Len(runs) : runs[n] = run
    BY <2>1, RunsExactly
  <2> QED
    BY <2>2, <2>3, <2>4, <2>5
<1>7. \A n \in 1..Len(runs) : runs[n] \in MaximalRuns(Idles(idle)) /\ Lasts(times, runs[n])
  BY <1>4, <1>5, <1>6
<1>8. Lists(runs, {run \in MaximalRuns(Idles(idle)) : Lasts(times, run)})
  BY <1>4, <1>5, <1>6 DEF Lists
<1> QED
  BY <1>6, <1>7, <1>8

\* A sample is in a run iff the scan counts it as idle.
LEMMA QualifiedIn ==
    ASSUME NEW times, Paced(times), NEW idle \in Seq({0, 1, Missing}), Len(times) = Len(idle),
           NEW k \in 1..Len(idle)
    PROVE  QualifiedIdle(times, idle)[k] = 1 <=>
             \E n \in 1..Len(LongRuns(times, idle)) :
                k \in LongRuns(times, idle)[n][1]..LongRuns(times, idle)[n][2]
<1>1. Len(idle) \in Nat /\ DOMAIN idle = 1..Len(idle) /\ Missing # 1 /\ Missing # 0
  BY LenProperties, MissingAssumption
<1>2. PICK runs : runs = LongRuns(times, idle)
  OBVIOUS
<1>3. /\ runs \in Seq(Nat \X Nat) /\ DOMAIN runs = 1..Len(runs)
      /\ \A n \in 1..Len(runs) : runs[n] \in MaximalRuns(Idles(idle))
  BY <1>2, LongRunsExactly, LenProperties
<1>4. \A n \in 1..Len(runs) : k \in runs[n][1]..runs[n][2] => idle[k] = 1
  <2> SUFFICES ASSUME NEW n \in 1..Len(runs), k \in runs[n][1]..runs[n][2] PROVE idle[k] = 1
    OBVIOUS
  <2>1. \A i \in runs[n][1]..runs[n][2] : Idles(idle)[i]
    BY <1>3 DEF MaximalRuns
  <2> QED
    BY <1>1, <2>1 DEF Idles
<1>5. QualifiedIdle(times, idle)[k] =
        CASE idle[k] = Missing -> Missing
          [] \E run \in Range(runs) : k \in run[1]..run[2] -> 1
          [] OTHER -> 0
  BY <1>1, <1>2 DEF QualifiedIdle
<1>6. (\E run \in Range(runs) : k \in run[1]..run[2])
        <=> \E n \in 1..Len(runs) : k \in runs[n][1]..runs[n][2]
  BY <1>3 DEF Range
<1>7. CASE \E n \in 1..Len(runs) : k \in runs[n][1]..runs[n][2]
  <2>1. idle[k] # Missing /\ \E run \in Range(runs) : k \in run[1]..run[2]
    BY <1>1, <1>4, <1>6, <1>7
  <2>2. QualifiedIdle(times, idle)[k] = 1
    BY <1>5, <2>1
  <2> QED
    BY <1>2, <1>7, <2>2
<1>8. CASE ~ \E n \in 1..Len(runs) : k \in runs[n][1]..runs[n][2]
  <2>1. ~ \E run \in Range(runs) : k \in run[1]..run[2]
    BY <1>6, <1>8
  <2>2. QualifiedIdle(times, idle)[k] # 1
    BY <1>1, <1>5, <2>1
  <2> QED
    BY <1>2, <1>8, <2>2
<1> QED
  BY <1>7, <1>8

\* A sample counts as idle iff it lies in a stretch of idle samples that lasts.
LEMMA QualifiedExact ==
    ASSUME NEW times, Paced(times), NEW idle \in Seq({0, 1, Missing}), Len(times) = Len(idle),
           NEW k \in 1..Len(idle)
    PROVE  QualifiedIdle(times, idle)[k] = 1 <=>
             \E a \in 1..k, b \in k..Len(times) :
                /\ \A j \in a..b : idle[j] = 1
                /\ times[b] + Step(times) - times[a] >= Idle.minRun
<1>1. /\ Len(idle) \in Nat /\ DOMAIN idle = 1..Len(idle) /\ k \in Nat
      /\ \A j \in 1..Len(idle) : times[j] \in Int
      /\ Step(times) \in Nat /\ Idle.minRun \in Nat
  BY LenProperties, ElementOfSeq, StepTyped, ThresholdAssumption, SMTT(30) DEF Paced
<1>2. PICK runs : runs = LongRuns(times, idle)
  OBVIOUS
<1>3. /\ \A n \in 1..Len(runs) : runs[n] \in MaximalRuns(Idles(idle)) /\ Lasts(times, runs[n])
      /\ \A run \in MaximalRuns(Idles(idle)) :
            Lasts(times, run) => \E n \in 1..Len(runs) : runs[n] = run
  <2>1. \A n \in 1..Len(runs) : runs[n] \in MaximalRuns(Idles(idle)) /\ Lasts(times, runs[n])
    BY <1>2, LongRunsExactly
  <2>2. \A run \in MaximalRuns(Idles(idle)) :
            Lasts(times, run) => \E n \in 1..Len(runs) : runs[n] = run
    <3>1. Lists(runs, {run \in MaximalRuns(Idles(idle)) : Lasts(times, run)})
      BY <1>2, LongRunsExactly, Zenon
    <3> QED
      BY <3>1, Zenon DEF Lists
  <2> QED
    BY <2>1, <2>2
<1>4. Idles(idle) \in Seq(BOOLEAN) /\ Len(Idles(idle)) = Len(idle)
      /\ \A j \in 1..Len(idle) : Idles(idle)[j] <=> idle[j] = 1
  <2>1. Idles(idle) = [j \in 1..Len(idle) |-> idle[j] = 1]
    BY <1>1 DEF Idles
  <2>2. Idles(idle) \in Seq(BOOLEAN) /\ Len(Idles(idle)) = Len(idle)
    BY <1>1, <2>1
  <2> QED
    BY <2>1, <2>2
<1>5. ASSUME NEW n \in 1..Len(runs), k \in runs[n][1]..runs[n][2]
      PROVE  \E a \in 1..k, b \in k..Len(times) :
                /\ \A j \in a..b : idle[j] = 1
                /\ times[b] + Step(times) - times[a] >= Idle.minRun
  <2>1. /\ runs[n][1] \in 1..Len(idle) /\ runs[n][2] \in 1..Len(idle)
        /\ \A j \in runs[n][1]..runs[n][2] : Idles(idle)[j]
        /\ times[runs[n][2]] + Step(times) - times[runs[n][1]] >= Idle.minRun
    BY <1>3, <1>4 DEF MaximalRuns, Lasts
  <2>2. PICK a \in 1..Len(idle), b \in 1..Len(idle) : a = runs[n][1] /\ b = runs[n][2]
    BY <2>1
  <2>3. a \in 1..k /\ b \in k..Len(times) /\ \A j \in a..b : idle[j] = 1
    BY <1>1, <1>4, <1>5, <2>1, <2>2, SMTT(30)
  <2> QED
    BY <2>1, <2>2, <2>3
<1>6. ASSUME NEW a \in 1..k, NEW b \in k..Len(times), \A j \in a..b : idle[j] = 1,
             times[b] + Step(times) - times[a] >= Idle.minRun
      PROVE  \E n \in 1..Len(runs) : k \in runs[n][1]..runs[n][2]
  <2>1. a \in 1..Len(idle) /\ b \in a..Len(idle) /\ b \in 1..Len(idle)
    BY <1>1
  <2>2. \A j \in a..b : Idles(idle)[j]
    <3>1. \A j \in a..b : j \in 1..Len(idle)
      BY <1>1
    <3> QED
      BY <1>4, <1>6, <3>1
  <2>3. PICK run \in MaximalRuns(Idles(idle)) : run[1] <= a /\ b <= run[2]
    BY <1>4, <2>1, <2>2, StretchInRun
  <2>4. run[1] \in 1..Len(idle) /\ run[2] \in 1..Len(idle)
    BY <1>4 DEF MaximalRuns
  <2>5. PICK x \in 1..Len(idle), y \in 1..Len(idle) : x = run[1] /\ y = run[2] /\ x <= a /\ b <= y
    BY <2>3, <2>4
  <2>6. times[x] <= times[a] /\ times[b] <= times[y]
    <3>1. PICK n \in Nat : n = Len(times)
      BY <1>1
    <3>2. \A i, j \in 1..n : i <= j => times[i] <= times[j]
      BY <3>1, PacedOrder
    <3>3. a \in 1..n /\ b \in 1..n /\ x \in 1..n /\ y \in 1..n /\ x <= a /\ b <= y
      BY <2>1, <2>5, <3>1
    <3> QED
      BY <3>2, <3>3
  <2>7. Lasts(times, run)
    <3>1. PICK p \in Int, q \in Int, r \in Int, u \in Int, step \in Nat, least \in Nat :
            /\ p = times[x] /\ q = times[a] /\ r = times[b] /\ u = times[y]
            /\ step = Step(times) /\ least = Idle.minRun
      BY <1>1, <2>1, <2>5
    <3>2. p <= q /\ r <= u /\ r + step - q >= least
      BY <1>6, <2>6, <3>1
    <3>3. u + step - p >= least
      BY <3>2
    <3> QED
      BY <2>5, <3>1, <3>3 DEF Lasts
  <2>8. k \in run[1]..run[2]
    BY <1>1, <2>5
  <2> QED
    BY <1>3, <2>7, <2>8
<1>7. QualifiedIdle(times, idle)[k] = 1 <=> \E n \in 1..Len(runs) : k \in runs[n][1]..runs[n][2]
  BY <1>2, QualifiedIn
<1> DEFINE In == \E n \in 1..Len(runs) : k \in runs[n][1]..runs[n][2]
           Idling == \E a \in 1..k, b \in k..Len(times) :
                        /\ \A j \in a..b : idle[j] = 1
                        /\ times[b] + Step(times) - times[a] >= Idle.minRun
<1>8. In => Idling
  BY <1>5
<1>9. Idling => In
  BY <1>6
<1> QED
  BY <1>7, <1>8, <1>9

\* The intervals of idling are apart, and cover the samples that count as idle and at
\* most the one after them.
LEMMA IdleIntervalsExact ==
    ASSUME NEW times, Paced(times), NEW idle \in Seq({0, 1, Missing}), Len(times) = Len(idle),
           NEW reported, reported = IdleIntervals(times, idle)
    PROVE  /\ \A m, n \in DOMAIN reported : m < n => reported[m][2] <= reported[n][1]
           /\ \A k \in 1..Len(idle) :
                /\ QualifiedIdle(times, idle)[k] = 1 =>
                     \E n \in DOMAIN reported :
                        reported[n][1] <= times[k] /\ times[k] < reported[n][2]
                /\ (\E n \in DOMAIN reported :
                        reported[n][1] <= times[k] /\ times[k] < reported[n][2]) =>
                     \E j \in {k - 1, k} \cap 1..Len(idle) : QualifiedIdle(times, idle)[j] = 1
<1>1. /\ Len(idle) \in Nat /\ \A j \in 1..Len(idle) : times[j] \in Int
      /\ Step(times) \in Nat /\ Step(times) > 0
  BY LenProperties, ElementOfSeq, StepTyped DEF Paced
<1>2. PICK runs : runs = LongRuns(times, idle)
  OBVIOUS
<1>3. /\ runs \in Seq(Nat \X Nat) /\ DOMAIN runs = 1..Len(runs) /\ Len(runs) \in Nat
      /\ \A n \in 1..Len(runs) : runs[n] \in MaximalRuns(Idles(idle))
      /\ \A m, n \in 1..Len(runs) : m < n => runs[m][2] + 1 < runs[n][1]
  BY <1>2, LongRunsExactly, LenProperties
<1>4. \A n \in 1..Len(runs) : /\ runs[n][1] \in 1..Len(idle) /\ runs[n][2] \in 1..Len(idle)
                              /\ runs[n][1] <= runs[n][2]
  <2>1. Len(Idles(idle)) = Len(idle)
    <3>1. DOMAIN idle = 1..Len(idle)
      BY LenProperties
    <3> QED
      BY <1>1, <3>1 DEF Idles
  <2> QED
    BY <1>3, <2>1 DEF MaximalRuns
<1>5. /\ DOMAIN reported = 1..Len(runs)
      /\ \A n \in 1..Len(runs) : /\ reported[n][1] = times[runs[n][1]]
                                 /\ reported[n][2] = times[runs[n][2]] + Step(times)
  BY <1>2, <1>3 DEF IdleIntervals
<1>6. ASSUME NEW m \in 1..Len(runs), NEW n \in 1..Len(runs), m < n
      PROVE  reported[m][2] <= reported[n][1]
  <2>1. PICK x \in 1..Len(times), y \in 1..Len(times) : x = runs[m][2] /\ y = runs[n][1]
    BY <1>4
  <2>2. x + 1 < y
    BY <1>3, <1>6, <2>1
  <2>3. times[x] + Step(times) <= times[y]
    BY <2>2 DEF Paced
  <2> QED
    BY <1>5, <2>1, <2>3
<1>7. ASSUME NEW k \in 1..Len(idle), QualifiedIdle(times, idle)[k] = 1
      PROVE  \E n \in DOMAIN reported : reported[n][1] <= times[k] /\ times[k] < reported[n][2]
  <2>1. PICK n \in 1..Len(runs) : k \in runs[n][1]..runs[n][2]
    BY <1>2, <1>7, QualifiedIn
  <2>2. PICK x \in 1..Len(times), y \in 1..Len(times) :
            x = runs[n][1] /\ y = runs[n][2] /\ x <= k /\ k <= y
    BY <1>4, <2>1
  <2>3. times[x] <= times[k] /\ times[k] <= times[y]
    BY <1>1, <2>2, PacedOrder
  <2>4. PICK p \in Int, q \in Int, r \in Int, step \in Nat \ {0} :
            p = times[x] /\ q = times[k] /\ r = times[y] /\ step = Step(times)
    BY <1>1, SMTT(30)
  <2>5. reported[n][1] = p /\ reported[n][2] = r + step
    BY <1>5, <2>2, <2>4
  <2>6. p <= q /\ q < r + step
    BY <2>3, <2>4, SMTT(30)
  <2> QED
    BY <1>5, <2>4, <2>5, <2>6
<1>8. ASSUME NEW k \in 1..Len(idle), NEW n \in 1..Len(runs),
             reported[n][1] <= times[k], times[k] < reported[n][2]
      PROVE  \E j \in {k - 1, k} \cap 1..Len(idle) : QualifiedIdle(times, idle)[j] = 1
  <2>1. PICK x \in 1..Len(times), y \in 1..Len(times) : x = runs[n][1] /\ y = runs[n][2] /\ x <= y
    BY <1>4
  <2>2. times[x] <= times[k] /\ times[k] < times[y] + Step(times)
    BY <1>5, <1>8, <2>1
  <2>3. x <= k /\ k <= y + 1
    BY <1>1, <2>1, <2>2, PacedOrder
  <2>4. PICK j \in 1..Len(idle) : j \in {k - 1, k} /\ x <= j /\ j <= y
    <3>1. CASE k <= y
      BY <2>3, <3>1
    <3>2. CASE k = y + 1
      BY <1>1, <2>1, <3>2, SMTT(30)
    <3> QED
      BY <1>1, <2>1, <2>3, <3>1, <3>2
  <2>5. j \in runs[n][1]..runs[n][2]
    BY <2>1, <2>4
  <2>6. QualifiedIdle(times, idle)[j] = 1
    BY <1>2, <2>5, QualifiedIn
  <2> QED
    BY <2>4, <2>6
<1> QED
  BY <1>5, <1>6, <1>7, <1>8

\* The hand samples of a measured file are paced by the hand clock, though the gaps
\* between them differ by a frame.
LEMMA HandTimes ==
    ASSUME SeriesInv, Measured, NEW times, times = Column(hands, "time")
    PROVE  /\ Paced(times) /\ Len(times) = Len(hands)
           /\ \A k \in 1..Len(hands) : times[k] = FramePeriod * (At(k) - 1)
<1>1. /\ Typed /\ FrameInv /\ ClockInv /\ SampleInv
      /\ hands \in Seq(Hands) /\ DOMAIN hands = 1..Len(hands)
  BY LenProperties DEF SeriesInv, Typed
<1>2. PICK n \in Nat : n = Len(hands) /\ n = Beats
  BY MeasuredFile
<1>3. PICK F \in Nat, H \in Nat : F = FramePeriod /\ H = HandPeriod /\ F > 0 /\ F <= H
  BY PeriodAssumption
<1>4. times \in Seq(Nat) /\ Len(times) = n /\ \A k \in 1..n : times[k] = hands[k].time
  <2>1. \A x \in Hands : x["time"] \in Nat
    BY DEF Hands
  <2> QED
    BY <1>1, <1>2, <2>1, ColumnTyped
<1>5. ASSUME NEW k \in 1..n
      PROVE  /\ At(k) \in Nat \ {0} /\ times[k] = F * (At(k) - 1)
             /\ F * (At(k) - 1) >= H * (k - 1)
             /\ At(k) > 1 => F * (At(k) - 2) < H * (k - 1)
  <2>1. /\ Sample(At(k)) \in Samples /\ Prior(k) \in Samples \cup {Nothing}
        /\ Sample(At(k)).time = FramePeriod * (At(k) - 1)
    BY <1>1, <1>2, BeatFrames
  <2>2. hands[k] = Observed(Sample(At(k)), Prior(k), Found(video[At(k)]))
    BY <1>1, <1>2 DEF SampleInv
  <2>3. hands[k].time = Sample(At(k)).time
    BY <2>1, <2>2, ObservedTyped
  <2>4. At(k) \in 1..Len(flags) /\ Beat(k, At(k))
    BY <1>1, <1>2 DEF ClockInv
  <2>5. At(k) \in Nat \ {0}
    BY <1>1, <2>4, LenProperties DEF Typed
  <2>6. /\ F * (At(k) - 1) >= H * (k - 1)
        /\ At(k) > 1 => F * (At(k) - 2) < H * (k - 1)
    BY <1>3, <2>4 DEF Beat
  <2> QED
    BY <1>3, <1>4, <2>1, <2>3, <2>5, <2>6
<1>6. ASSUME NEW j \in 1..n, NEW k \in 1..n, j < k
      PROVE  /\ At(j) < At(k) /\ times[j] < times[k]
  <2>1. PICK x \in Nat \ {0}, y \in Nat \ {0} :
            x = At(j) /\ y = At(k) /\ times[j] = F * (x - 1) /\ times[k] = F * (y - 1)
    BY <1>5
  <2>2. x < y
    BY <1>1, <1>2, <1>6, <2>1 DEF ClockInv
  <2>3. F * (x - 1) <= F * (y - 2) /\ F * (x - 1) \in Int /\ F * (y - 2) \in Int
    BY <1>3, <2>1, <2>2, Scaled
  <2>4. F * (y - 1) = F * (y - 2) + F
    BY <1>3, <2>1
  <2> QED
    BY <1>3, <2>1, <2>2, <2>3, <2>4
<1>7. ASSUME NEW j \in 1..n, NEW k \in 1..n, j + 1 < k
      PROVE  times[j] + Step(times) <= times[k]
  <2>1. 1 \in 1..n /\ 2 \in 1..n /\ Step(times) = times[2] - times[1]
    BY <1>4, <1>7 DEF Step
  <2>2. PICK a \in Nat \ {0} : /\ a = At(1) /\ times[1] = F * (a - 1)
                               /\ a > 1 => F * (a - 2) < H * (1 - 1)
    BY <1>5, <2>1
  <2>3. PICK b \in Nat \ {0} : /\ b = At(2) /\ times[2] = F * (b - 1)
                               /\ b > 1 => F * (b - 2) < H * (2 - 1)
    BY <1>5, <2>1
  <2>4. PICK x \in Nat \ {0} : /\ x = At(j) /\ times[j] = F * (x - 1)
                               /\ x > 1 => F * (x - 2) < H * (j - 1)
    BY <1>5
  <2>5. PICK y \in Nat \ {0} : /\ y = At(k) /\ times[k] = F * (y - 1)
                               /\ F * (y - 1) >= H * (k - 1)
    BY <1>5
  <2>6. a = 1
    <3>1. a > 1 => F * 0 <= F * (a - 2) /\ F * 0 \in Int /\ F * (a - 2) \in Int
      BY <1>3, <2>2, Scaled
    <3>2. H * (1 - 1) = 0 /\ F * 0 = 0
      BY <1>3
    <3> QED
      BY <2>2, <3>1, <3>2
  <2>7. b > 1 /\ F * (b - 2) < H
    <3>1. b > 1
      BY <1>6, <2>1, <2>2, <2>3, <2>6
    <3>2. H * (2 - 1) = H
      BY <1>3
    <3> QED
      BY <2>3, <3>1, <3>2
  <2>8. F * (x - 2) < H * (j - 1)
    <3>1. CASE x > 1
      BY <2>4, <3>1
    <3>2. CASE x = 1
      <4>1. F * (x - 2) = 0 - F
        BY <1>3, <3>2
      <4>2. H * 0 <= H * (j - 1) /\ H * (j - 1) \in Int
        BY <1>3, Scaled
      <4>3. H * 0 = 0
        BY <1>3
      <4> QED
        BY <1>3, <4>1, <4>2, <4>3
    <3> QED
      BY <2>4, <3>1, <3>2
  <2>9. F * (y - 1) >= H * (j - 1) + H + H
    <3>1. H * (j + 1) <= H * (k - 1) /\ H * (j + 1) \in Int /\ H * (k - 1) \in Int
      BY <1>3, <1>7, Scaled
    <3>2. H * (j + 1) = H * (j - 1) + H + H
      BY <1>3
    <3>3. F * (y - 1) \in Int /\ H * (j - 1) \in Int
      BY <1>3, <2>5
    <3> QED
      BY <2>5, <3>1, <3>2, <3>3
  <2>10. F * (y - x) > F * (b - 2) /\ F * (y - x) \in Int
    <3>1. F * (y - x) = F * (y - 1) - F * (x - 2) - F
      BY <1>3, <2>4, <2>5
    <3>2. /\ F * (y - 1) \in Int /\ F * (x - 2) \in Int /\ H * (j - 1) \in Int
          /\ F * (b - 2) \in Int /\ F * (y - x) \in Int
      BY <1>3, <2>3, <2>4, <2>5
    <3> QED
      BY <1>3, <2>7, <2>8, <2>9, <3>1, <3>2
  <2>11. y - x >= b - 1
    <3>1. SUFFICES ASSUME y - x <= b - 2 PROVE FALSE
      BY <2>3, <2>4, <2>5
    <3>2. F * (y - x) <= F * (b - 2) /\ F * (b - 2) \in Int
      BY <1>3, <2>3, <2>4, <2>5, <3>1, Scaled
    <3> QED
      BY <2>10, <3>2
  <2>12. F * (b - 1) <= F * (y - x) /\ F * (b - 1) \in Int
    BY <1>3, <2>3, <2>4, <2>5, <2>11, Scaled
  <2>13. F * (y - x) = F * (y - 1) - F * (x - 1) /\ F * (y - 1) \in Int /\ F * (x - 1) \in Int
    BY <1>3, <2>4, <2>5
  <2>14. times[1] = 0
    BY <1>3, <2>2, <2>6
  <2> QED
    BY <2>1, <2>3, <2>4, <2>5, <2>12, <2>13, <2>14
<1>8. Paced(times)
  <2>1. times \in Seq(Int)
    <3>1. \A x \in Hands : x["time"] \in Int
      BY DEF Hands
    <3> QED
      BY <1>1, <1>2, <3>1, ColumnTyped
  <2> QED
    BY <1>4, <1>6, <1>7, <2>1 DEF Paced
<1> QED
  BY <1>2, <1>3, <1>4, <1>5, <1>8

\* The intervals of a black picture are apart, and there are any iff some window is
\* black enough.
LEMMA BlackIntervalsExact ==
    ASSUME NEW times, NEW n \in Nat, \A i \in 1..n : times[i] \in Int,
           \A i, j \in 1..n : i < j => times[i] + FramePeriod <= times[j],
           NEW black \in Seq(BOOLEAN), Len(black) = n,
           NEW reported, reported = BlackIntervals(times, black)
    PROVE  /\ \A i, j \in DOMAIN reported : i < j => reported[i][2] <= reported[j][1]
           /\ reported # <<>> <=> BlackWindows(black) # {}
<1>1. DOMAIN black = 1..n
  BY LenProperties
<1> DEFINE covered == [i \in DOMAIN black |-> \E window \in BlackWindows(black) : i \in window]
<1>2. covered \in Seq(BOOLEAN) /\ Len(covered) = n
  BY <1>1
<1>3. \A i \in 1..n : covered[i] <=> \E window \in BlackWindows(black) : i \in window
  BY <1>1
<1>4. PICK runs : runs = RunsOf(covered, Stretches(black))
  OBVIOUS
<1>5. PICK marks \in Seq(BOOLEAN) : marks = covered
  BY <1>2
<1>6. reported = [m \in DOMAIN runs |-> <<times[runs[m][1]], times[runs[m][2]] + FramePeriod>>]
  BY <1>4 DEF BlackIntervals
<1> HIDE DEF covered
<1>7. PICK kept : kept = Stretches(black)
  OBVIOUS
<1>8. runs = RunsOf(marks, kept)
  BY <1>4, <1>5, <1>7
<1>9. runs \in Seq(Nat \X Nat)
  BY <1>8, RunsExactly
<1>10. \A m \in 1..Len(runs) : runs[m] \in MaximalRuns(marks) \cap kept
  BY <1>8, RunsExactly
<1>11. \A l, m \in 1..Len(runs) : l < m => runs[l][2] + 1 < runs[m][1]
  BY <1>8, RunsExactly
<1>12. \A run \in MaximalRuns(marks) \cap kept : \E m \in 1..Len(runs) : runs[m] = run
  BY <1>8, RunsExactly, SMTT(30)
<1>13. DOMAIN runs = 1..Len(runs) /\ Len(runs) \in Nat /\ (runs = <<>> <=> Len(runs) = 0)
  BY <1>9, LenProperties, EmptySeq
<1>14. Len(marks) = n
       /\ \A i \in 1..n : marks[i] <=> \E window \in BlackWindows(black) : i \in window
  BY <1>2, <1>3, <1>5
<1>15. \A m \in 1..Len(runs) : /\ runs[m][1] \in 1..n /\ runs[m][2] \in 1..n
                               /\ marks[runs[m][1]]
  <2> SUFFICES ASSUME NEW m \in 1..Len(runs)
               PROVE  runs[m][1] \in 1..n /\ runs[m][2] \in 1..n /\ marks[runs[m][1]]
    OBVIOUS
  <2>1. /\ runs[m][1] \in 1..n /\ runs[m][2] \in 1..n /\ runs[m][1] <= runs[m][2]
        /\ \A i \in runs[m][1]..runs[m][2] : marks[i]
    BY <1>10, <1>14 DEF MaximalRuns
  <2>2. runs[m][1] \in runs[m][1]..runs[m][2]
    BY <2>1
  <2> QED
    BY <2>1, <2>2
<1>16. ASSUME NEW l \in DOMAIN reported, NEW m \in DOMAIN reported, l < m
       PROVE  reported[l][2] <= reported[m][1]
  <2>1. l \in 1..Len(runs) /\ m \in 1..Len(runs)
    BY <1>6, <1>13
  <2>2. PICK x \in 1..n, y \in 1..n : x = runs[l][2] /\ y = runs[m][1]
    BY <1>15, <2>1
  <2>3. x < y
    BY <1>11, <1>16, <2>1, <2>2
  <2>4. times[x] + FramePeriod <= times[y]
    BY <2>3
  <2> QED
    BY <1>6, <1>13, <2>1, <2>2, <2>4
<1>17. reported # <<>> => BlackWindows(black) # {}
  <2> SUFFICES ASSUME reported # <<>> PROVE BlackWindows(black) # {}
    OBVIOUS
  <2>1. runs # <<>>
    BY <1>6, <1>13
  <2>2. 1 \in 1..Len(runs)
    BY <1>13, <2>1
  <2> QED
    BY <1>14, <1>15, <2>2
<1>18. BlackWindows(black) # {} => reported # <<>>
  <2> SUFFICES ASSUME BlackWindows(black) # {} PROVE reported # <<>>
    OBVIOUS
  <2>1. PICK window \in BlackWindows(black) : TRUE
    OBVIOUS
  <2>2. PICK a \in 1..n : window = a..(a + Camera.blackWindow - 1)
    BY <1>1, <2>1 DEF BlackWindows
  <2>3. Camera.blackWindow \in Nat \ {0}
    BY ThresholdAssumption
  <2>4. a \in window
    BY <2>2, <2>3
  <2>5. marks[a]
    BY <1>14, <2>1, <2>4
  <2>6. PICK run \in MaximalRuns(marks) : TRUE
    <3>1. \A j \in a..a : marks[j] /\ a \in a..Len(marks) /\ a \in 1..Len(marks)
      BY <1>14, <2>5
    <3> QED
      BY <3>1, StretchInRun
  <2>7. run \in kept
    BY <1>1, <1>7, <1>14 DEF MaximalRuns, Stretches
  <2>8. PICK m \in 1..Len(runs) : runs[m] = run
    BY <1>12, <2>7
  <2>9. m \in DOMAIN reported
    BY <1>6, <1>13, <2>8
  <2> QED
    BY <2>9
<1> QED
  BY <1>16, <1>17, <1>18

\* The rest of a measured result is what is computed from the series; an interval is
\* one of those a metric of its series may come with.
MeasuredInv ==
    Measured =>
        LET times == Column(hands, "time")
            blackRuns == BlackIntervals(FrameTimes, Column(flags, "black"))
        IN /\ result.idleRuns = IdleIntervals(times, Column(hands, "idle"))
           /\ result.blackRuns = blackRuns
           /\ result.signals["covered"] = IF blackRuns = <<>> THEN 0 ELSE 1
           /\ \A field \in {"blurry", "exposure"} : result.signals[field] = Share(field)
           /\ \A field \in {"translation", "rotation"} : result.signals[field] = Shake(field)
           /\ \E seen \in Estimates(Column(hands, "visible"), "mean") :
                result.intervals["hands"] = seen.interval
           /\ \E idling \in Estimates(QualifiedIdle(times, Column(hands, "idle")), "mean") :
                result.intervals["idle"] = idling.interval
           /\ \E speed \in Estimates(Column(hands, "speed"), "p95") :
                result.intervals["speed"] = speed.interval

LEMMA MeasuredKept == Spec => []MeasuredInv
<1>1. Init => MeasuredInv
  BY DEF Init, MeasuredInv, Measured
<1>2. MeasuredInv /\ [Next]_vars => MeasuredInv'
  <2> SUFFICES ASSUME MeasuredInv, [Next]_vars PROVE MeasuredInv'
    OBVIOUS
  <2>1. ASSUME phase' # "done" PROVE MeasuredInv'
    BY <2>1 DEF MeasuredInv, Measured
  <2>2. ASSUME Corrupt PROVE MeasuredInv'
    <3>1. result'.signals["corrupt"] = 1
      BY <2>2 DEF Corrupt, Signals
    <3> QED
      BY <3>1 DEF MeasuredInv, Measured
  <2>3. CASE Probe
    BY <2>1, <2>2, <2>3 DEF Probe
  <2>4. CASE EndOfStream
    BY <2>1, <2>4 DEF EndOfStream
  <2>5. CASE BrokenStream
    BY <2>2, <2>5 DEF BrokenStream
  <2>6. ASSUME NEW picture \in Pictures, Decode(picture) PROVE MeasuredInv'
    BY <2>1, <2>6 DEF Decode
  <2>7. CASE Inspect
    <3>1. phase' # "done"
      BY <2>7 DEF Inspect
    <3> QED
      BY <2>1, <3>1
  <2>8. CASE Detect
    BY <2>1, <2>8 DEF Detect, AfterChunk
  <2>9. CASE Observe
    <3>1. phase' # "done"
      BY <2>9 DEF Observe, AfterChunk
    <3> QED
      BY <2>1, <3>1
  <2>10. CASE Measure
    <3>1. UNCHANGED <<hands, flags, moves>>
      BY <2>10 DEF Measure, frameVars
    <3> DEFINE times == Column(hands, "time")
               visible == Column(hands, "visible")
               raw == Column(hands, "idle")
               idle == QualifiedIdle(times, raw)
               speeds == Column(hands, "speed")
               runs == IdleIntervals(times, raw)
               blackRuns == BlackIntervals(FrameTimes, Column(flags, "black"))
    <3>2. PICK seen \in Estimates(visible, "mean"), idling \in Estimates(idle, "mean"),
               speed \in Estimates(speeds, "p95"), repetition \in RepetitionScores(speeds) :
            /\ result'.signals =
                    [hands |-> seen.point, speed |-> speed.point, idle |-> idling.point,
                     repetition |-> repetition, corrupt |-> 0,
                     covered |-> IF blackRuns = <<>> THEN 0 ELSE 1,
                     blurry |-> Share("blurry"), exposure |-> Share("exposure"),
                     translation |-> Shake("translation"), rotation |-> Shake("rotation")]
            /\ result'.intervals =
                    [hands |-> seen.interval, speed |-> speed.interval, idle |-> idling.interval]
            /\ result'.idleRuns = runs /\ result'.blackRuns = blackRuns
      BY <2>10, SMTT(30) DEF Measure
    <3>3. /\ times' = times /\ visible' = visible /\ raw' = raw /\ speeds' = speeds
          /\ idle' = idle /\ runs' = runs /\ blackRuns' = blackRuns
          /\ Share("blurry")' = Share("blurry") /\ Share("exposure")' = Share("exposure")
          /\ Shake("translation")' = Shake("translation")
          /\ Shake("rotation")' = Shake("rotation")
      BY <3>1 DEF FrameTimes, Share, Shake
    <3>4. /\ result'.signals["covered"] = IF blackRuns = <<>> THEN 0 ELSE 1
          /\ result'.signals["blurry"] = Share("blurry")
          /\ result'.signals["exposure"] = Share("exposure")
          /\ result'.signals["translation"] = Shake("translation")
          /\ result'.signals["rotation"] = Shake("rotation")
          /\ result'.intervals["hands"] = seen.interval
          /\ result'.intervals["idle"] = idling.interval
          /\ result'.intervals["speed"] = speed.interval
      BY <3>2
    <3> HIDE DEF times, visible, raw, speeds, idle, runs, blackRuns
    <3>5. /\ result'.idleRuns = runs' /\ result'.blackRuns = blackRuns'
          /\ result'.signals["covered"] = IF blackRuns' = <<>> THEN 0 ELSE 1
          /\ \A field \in {"blurry", "exposure"} : result'.signals[field] = Share(field)'
          /\ \A field \in {"translation", "rotation"} : result'.signals[field] = Shake(field)'
          /\ \E seen_ \in Estimates(visible', "mean") :
                result'.intervals["hands"] = seen_.interval
          /\ \E idling_ \in Estimates(idle', "mean") :
                result'.intervals["idle"] = idling_.interval
          /\ \E speed_ \in Estimates(speeds', "p95") :
                result'.intervals["speed"] = speed_.interval
      BY <3>2, <3>3, <3>4
    <3> QED
      BY <3>5 DEF MeasuredInv, times, visible, raw, speeds, idle, runs, blackRuns
  <2>11. CASE UNCHANGED vars
    BY <2>11 DEF vars, frameVars, MeasuredInv, Measured, FrameTimes, Share, Shake
  <2> QED
    BY <2>3, <2>4, <2>5, <2>6, <2>7, <2>8, <2>9, <2>10, <2>11 DEF Next
<1> QED
  BY <1>1, <1>2, PTL DEF Spec

LEMMA IdleColumn ==
    ASSUME NEW series \in Seq(Hands)
    PROVE  /\ Column(series, "idle") \in Seq({0, 1, Missing})
           /\ Len(Column(series, "idle")) = Len(series)
<1>1. PICK T : T = {0, 1, Missing}
  OBVIOUS
<1>2. \A x \in Hands : x["idle"] \in T
  BY <1>1 DEF Hands
<1>3. /\ Column(series, "idle") \in Seq(T)
      /\ Len(Column(series, "idle")) = Len(series)
  BY <1>2, ColumnTyped
<1> QED
  BY <1>1, <1>3

LEMMA BlackColumn ==
    ASSUME NEW series \in Seq([black : BOOLEAN, blurry : BOOLEAN, exposure : BOOLEAN])
    PROVE  /\ Column(series, "black") \in Seq(BOOLEAN)
           /\ Len(Column(series, "black")) = Len(series)
<1>1. PICK S : S = [black : BOOLEAN, blurry : BOOLEAN, exposure : BOOLEAN]
  OBVIOUS
<1>2. PICK B : B = BOOLEAN
  OBVIOUS
<1>3. series \in Seq(S) /\ \A x \in S : x["black"] \in B
  BY <1>1, <1>2
<1>4. /\ Column(series, "black") \in Seq(B)
      /\ Len(Column(series, "black")) = Len(series)
  BY <1>3, ColumnTyped
<1> QED
  BY <1>2, <1>4

\* What a measured file's runs and intervals have to be follows from its series.
LEMMA RunsOfSeries ==
    ASSUME SeriesInv, MeasuredInv
    PROVE  RunsExact
<1> SUFFICES ASSUME Measured PROVE RunsExact
  BY DEF RunsExact
<1>1. PICK t, raw, black : /\ t = Column(hands, "time") /\ raw = Column(hands, "idle")
                           /\ black = Column(flags, "black")
  OBVIOUS
<1>2. /\ hands \in Seq(Hands) /\ DOMAIN hands = 1..Len(hands) /\ Len(hands) \in Nat
      /\ flags \in Seq([black : BOOLEAN, blurry : BOOLEAN, exposure : BOOLEAN])
      /\ DOMAIN flags = 1..Len(flags)
  BY LenProperties DEF SeriesInv, Typed
<1>3. PICK n \in Nat : /\ n = Len(video) /\ n = Len(flags)
                       /\ \A i \in 1..n : flags[i].black = Blackish(video[i])
  <2>1. Len(flags) = Len(video) /\ Len(video) \in Nat
    BY MeasuredFile
  <2>2. \A i \in 1..Len(flags) : flags[i] = FlagsOf(video[i])
    BY DEF SeriesInv, FrameInv
  <2>3. \A i \in 1..Len(flags) : FlagsOf(video[i]).black = Blackish(video[i])
    BY DEF FlagsOf
  <2> QED
    BY <2>1, <2>2, <2>3
<1>4. Paced(t) /\ Len(t) = Len(hands)
  BY <1>1, HandTimes
<1>5. raw \in Seq({0, 1, Missing}) /\ Len(raw) = Len(hands)
  BY <1>1, <1>2, IdleColumn
<1>6. black \in Seq(BOOLEAN) /\ Len(black) = n /\ \A i \in 1..n : black[i] = Blackish(video[i])
  <2>1. black \in Seq(BOOLEAN) /\ Len(black) = Len(flags)
    BY <1>1, <1>2, BlackColumn
  <2>2. \A i \in 1..n : black[i] = flags[i].black
    BY <1>1, <1>2, <1>3 DEF Column
  <2> QED
    BY <1>3, <2>1, <2>2
<1>7. /\ result.idleRuns = IdleIntervals(t, raw)
      /\ result.blackRuns = BlackIntervals(FrameTimes, black)
      /\ result.signals["covered"] = IF result.blackRuns = <<>> THEN 0 ELSE 1
  BY <1>1 DEF MeasuredInv
<1>8. /\ \A i, j \in DOMAIN result.idleRuns :
           i < j => result.idleRuns[i][2] <= result.idleRuns[j][1]
      /\ \A k \in DOMAIN hands :
           /\ QualifiedIdle(t, raw)[k] = 1 =>
                \E i \in DOMAIN result.idleRuns :
                  result.idleRuns[i][1] <= t[k] /\ t[k] < result.idleRuns[i][2]
           /\ (\E i \in DOMAIN result.idleRuns :
                  result.idleRuns[i][1] <= t[k] /\ t[k] < result.idleRuns[i][2]) =>
                \E j \in {k - 1, k} \cap DOMAIN hands : QualifiedIdle(t, raw)[j] = 1
  <2>1. PICK reported : reported = result.idleRuns
    OBVIOUS
  <2>2. reported = IdleIntervals(t, raw) /\ Len(t) = Len(raw) /\ DOMAIN hands = 1..Len(raw)
    BY <1>2, <1>4, <1>5, <1>7, <2>1
  <2>3. \A i, j \in DOMAIN reported : i < j => reported[i][2] <= reported[j][1]
    BY <1>4, <1>5, <2>2, IdleIntervalsExact
  <2>4. \A k \in 1..Len(raw) :
           /\ QualifiedIdle(t, raw)[k] = 1 =>
                \E i \in DOMAIN reported : reported[i][1] <= t[k] /\ t[k] < reported[i][2]
           /\ (\E i \in DOMAIN reported :
                  reported[i][1] <= t[k] /\ t[k] < reported[i][2]) =>
                \E j \in {k - 1, k} \cap 1..Len(raw) : QualifiedIdle(t, raw)[j] = 1
    BY <1>4, <1>5, <2>2, IdleIntervalsExact
  <2> QED
    BY <2>1, <2>2, <2>3, <2>4
<1>9. \A k \in DOMAIN hands : QualifiedIdle(t, raw)[k] = 1 <=>
          \E a \in 1..k, b \in k..Len(t) :
              /\ \A j \in a..b : raw[j] = 1
              /\ t[b] + (IF Len(t) > 1 THEN t[2] - t[1] ELSE Idle.minRun) - t[a]
                      >= Idle.minRun
  <2>1. Len(t) = Len(raw) /\ DOMAIN hands = 1..Len(raw)
    BY <1>2, <1>4, <1>5
  <2>2. \A k \in 1..Len(raw) : QualifiedIdle(t, raw)[k] = 1 <=>
          \E a \in 1..k, b \in k..Len(t) :
              /\ \A j \in a..b : raw[j] = 1
              /\ t[b] + Step(t) - t[a] >= Idle.minRun
    BY <1>4, <1>5, <2>1, QualifiedExact
  <2> QED
    BY <2>1, <2>2 DEF Step
<1>10. /\ \A i, j \in DOMAIN result.blackRuns :
            i < j => result.blackRuns[i][2] <= result.blackRuns[j][1]
       /\ result.blackRuns # <<>> <=> BlackWindows(black) # {}
  <2>1. PICK times : times = FrameTimes
    OBVIOUS
  <2>2. FramePeriod \in Nat
    BY PeriodAssumption
  <2>3. \A i \in 1..n : times[i] = FramePeriod * (i - 1) /\ times[i] \in Int
    BY <1>2, <1>3, <2>1, <2>2 DEF FrameTimes
  <2>4. ASSUME NEW i \in 1..n, NEW j \in 1..n, i < j
        PROVE  times[i] + FramePeriod <= times[j]
    <3>1. FramePeriod * i <= FramePeriod * (j - 1) /\ FramePeriod * i \in Int
          /\ FramePeriod * (j - 1) \in Int
      BY <2>2, <2>4, Scaled
    <3>2. FramePeriod * i = FramePeriod * (i - 1) + FramePeriod
      BY <2>2
    <3> QED
      BY <2>2, <2>3, <3>1, <3>2
  <2> QED
    BY <1>6, <1>7, <2>1, <2>3, <2>4, BlackIntervalsExact
<1>11. result.signals["covered"] = 1 <=>
          \E a \in 1..(Len(video) - Camera.blackWindow + 1) :
              100 * Cardinality({i \in a..(a + Camera.blackWindow - 1) : Blackish(video[i])})
                  >= Camera.blackFraction * Camera.blackWindow
  <2>1. result.signals["covered"] = 1 <=> BlackWindows(black) # {}
    BY <1>7, <1>10
  <2>2. PICK w \in Nat \ {0} : w = Camera.blackWindow
    BY ThresholdAssumption
  <2>3. DOMAIN black = 1..n
    BY <1>6, LenProperties
  <2>4. ASSUME NEW a \in 1..n, a + w - 1 <= n
        PROVE  EnoughBlack(black, a..(a + w - 1)) <=>
                  100 * Cardinality({i \in a..(a + w - 1) : Blackish(video[i])})
                      >= Camera.blackFraction * w
    <3>1. {i \in a..(a + w - 1) : black[i]} = {i \in a..(a + w - 1) : Blackish(video[i])}
      BY <1>6, <2>4
    <3>2. Cardinality(a..(a + w - 1)) = w
      BY <2>2, FS_Interval
    <3> QED
      BY <3>1, <3>2 DEF EnoughBlack
  <2>5. ASSUME BlackWindows(black) # {}
        PROVE  \E a \in 1..(n - w + 1) :
                  100 * Cardinality({i \in a..(a + w - 1) : Blackish(video[i])})
                      >= Camera.blackFraction * w
    <3>1. PICK a \in 1..n : /\ a..(a + w - 1) \subseteq 1..n
                            /\ EnoughBlack(black, a..(a + w - 1))
      BY <2>2, <2>3, <2>5 DEF BlackWindows
    <3>2. a + w - 1 \in a..(a + w - 1)
      BY <2>2
    <3>3. a + w - 1 <= n
      BY <3>1, <3>2
    <3>4. 100 * Cardinality({i \in a..(a + w - 1) : Blackish(video[i])})
              >= Camera.blackFraction * w
      BY <2>4, <3>1, <3>3
    <3>5. a \in 1..(n - w + 1)
      BY <2>2, <3>3
    <3> QED
      BY <3>4, <3>5
  <2>6. ASSUME NEW a \in 1..(n - w + 1),
               100 * Cardinality({i \in a..(a + w - 1) : Blackish(video[i])})
                  >= Camera.blackFraction * w
        PROVE  BlackWindows(black) # {}
    <3>1. a \in 1..n /\ a + w - 1 <= n
      BY <1>3, <2>2
    <3>2. a..(a + w - 1) \subseteq 1..n
      BY <2>2, <3>1
    <3>3. EnoughBlack(black, a..(a + w - 1))
      BY <2>4, <2>6, <3>1
    <3>4. a..(a + w - 1) \in BlackWindows(black)
      BY <2>2, <2>3, <3>1, <3>2, <3>3 DEF BlackWindows
    <3> QED
      BY <3>4
  <2>7. BlackWindows(black) # {} <=> \E a \in 1..(n - w + 1) :
              100 * Cardinality({i \in a..(a + w - 1) : Blackish(video[i])})
                  >= Camera.blackFraction * w
    BY <2>5, <2>6
  <2> QED
    BY <1>3, <2>1, <2>2, <2>7
<1> QED
  <2> DEFINE u == Column(hands, "time")
             v == Column(hands, "idle")
             Idling(a, b) == /\ \A k \in a..b : v[k] = 1
                             /\ u[b] + (IF Len(u) > 1 THEN u[2] - u[1] ELSE Idle.minRun) - u[a]
                                      >= Idle.minRun
             Reported(j) == \E m \in DOMAIN result.idleRuns :
                              /\ result.idleRuns[m][1] <= u[j]
                              /\ u[j] < result.idleRuns[m][2]
             InOrder(runs) == \A l, m \in DOMAIN runs : l < m => runs[l][2] <= runs[m][1]
  <2>1. \A k \in DOMAIN hands : QualifiedIdle(u, v)[k] = 1 <=>
          \E a \in 1..k, b \in k..Len(u) : Idling(a, b)
    BY <1>1, <1>9
  <2>2. \A k \in DOMAIN hands :
          /\ QualifiedIdle(u, v)[k] = 1 => Reported(k)
          /\ Reported(k) =>
               \E j \in {k - 1, k} \cap DOMAIN hands : QualifiedIdle(u, v)[j] = 1
    BY <1>1, <1>8
  <2>3. InOrder(result.idleRuns) /\ InOrder(result.blackRuns)
    BY <1>8, <1>10
  <2> QED
    BY <1>11, <2>1, <2>2, <2>3, Zenon DEF RunsExact

\* The runs and the intervals of a measured file are those of its series (RunsExact).
THEOREM RunsAlwaysExact == Spec => []RunsExact
<1>1. SeriesInv /\ MeasuredInv => RunsExact
  BY RunsOfSeries
<1> QED
  BY <1>1, SeriesKept, MeasuredKept, PTL

------------------------------------------------------------------------------
(* What a statistic over its limit says of the series. *)

\* A mean above zero has a one behind it, a mean below the whole something else.
LEMMA MeanWitness ==
    ASSUME NEW series \in Seq(Int \cup {Missing}), Values(series) # {}
    PROVE  /\ Mean(series) > 0 => 1 \in Values(series)
           /\ Mean(series) < One => \E v \in Values(series) : v # 1
<1> DEFINE Ones == {i \in Valid(series) : series[i] = 1}
<1>1. IsFiniteSet(Valid(series)) /\ Cardinality(Valid(series)) \in Nat \ {0}
  BY SeriesFinite
<1>2. PICK n \in Nat \ {0} : n = Cardinality(Valid(series))
  BY <1>1
<1>3. ASSUME 1 \notin Values(series) PROVE ~(Mean(series) > 0)
  <2>1. Ones = {}
    BY <1>3 DEF Values
  <2>2. Cardinality({i \in Valid(series) : series[i] = 1}) = 0
    BY <2>1, FS_EmptySet
  <2>3. Mean(series) = Nearest(One * 0, n)
    BY <1>2, <2>2 DEF Mean
  <2>4. One * 0 = 0 /\ n * 0 = 0
    BY FloatsTyped
  <2>5. 0 \in Floats /\ 0 \in Int /\ 0 <= n * 0
    BY <2>4, FloatsTyped
  <2>6. Nearest(0, n) \in Nat /\ Nearest(0, n) <= 0
    BY <2>5, NearestKeeps
  <2> QED
    BY <2>3, <2>4, <2>6
<1>4. ASSUME \A v \in Values(series) : v = 1 PROVE ~(Mean(series) < One)
  <2>1. {i \in Valid(series) : series[i] = 1} = Valid(series)
    BY <1>4 DEF Values
  <2>2. Mean(series) = Nearest(One * n, n)
    BY <1>2, <2>1 DEF Mean
  <2>3. PICK whole \in Int : whole = One * n /\ n * One <= whole
    BY FloatsTyped
  <2>4. Nearest(whole, n) \in Nat /\ One <= Nearest(whole, n)
    BY <2>3, FloatsTyped, NearestKeeps
  <2> QED
    BY <2>2, <2>3, <2>4, FloatsTyped
<1> QED
  BY <1>3, <1>4

\* A quantile above a limit has a value above it: it lies between two of them.
LEMMA QuantileWitness ==
    ASSUME NEW series \in Seq(Int \cup {Missing}), Values(series) # {}, NEW limit \in Floats,
           P95(series) > limit
    PROVE  \E v \in Values(series) : v > limit
<1>1. PICK last \in Nat, position \in Nat :
        /\ last = Cardinality(Valid(series)) - 1 /\ position = 95 * last
        /\ Values(series) \in SUBSET Int
  BY SeriesFinite
<1>2. PICK at \in Nat, part \in Nat :
        at = position \div 100 /\ at <= last /\ part = position % 100 /\ part < 100
  BY <1>1, SMTT(30)
<1>3. PICK next \in Nat : next = Min({at + 1, last}) /\ next <= last
  <2>1. CASE at < last
    <3>1. {at + 1, last} \in SUBSET Int /\ \A x \in {at + 1, last} : at + 1 <= x
      BY <2>1
    <3>2. Min({at + 1, last}) = at + 1
      BY <3>1, MinIs
    <3> QED
      BY <2>1, <3>2
  <2>2. CASE at = last
    <3>1. {at + 1, last} \in SUBSET Int /\ \A x \in {at + 1, last} : last <= x
      BY <2>2
    <3>2. Min({at + 1, last}) = last
      BY <3>1, MinIs
    <3> QED
      BY <3>2
  <2>3. at < last \/ at = last
    BY <1>2
  <2> QED
    BY <2>1, <2>2, <2>3, Zenon
<1>4. /\ OrderStatistic(series, at) \in Values(series)
      /\ OrderStatistic(series, next) \in Values(series)
  <2>a. Cardinality(Valid(series)) \in Nat
    BY SeriesFinite, Zenon
  <2>1. PICK n \in Nat : n = Cardinality(Valid(series))
    BY <2>a, Zenon
  <2>2. at < n /\ next < n
    <3>1. last = n - 1
      BY <1>1, <2>1
    <3> QED
      BY <1>2, <1>3, <2>1, <3>1
  <2>3. at < Cardinality(Valid(series)) /\ next < Cardinality(Valid(series))
    BY <2>1, <2>2, Zenon
  <2> QED
    BY <2>3, OrderExact
<1>5. PICK below \in Int, above \in Int :
        /\ below = OrderStatistic(series, at) /\ above = OrderStatistic(series, next)
        /\ below \in Values(series) /\ above \in Values(series)
  BY <1>1, <1>4
<1>6. P95(series) = Nearest(100 * below + (above - below) * part, 100)
  BY <1>1, <1>2, <1>3, <1>5 DEF P95
<1>7. below > limit \/ above > limit
  <2>1. SUFFICES ASSUME below <= limit, above <= limit PROVE FALSE
    BY <1>5, FloatsTyped
  <2>2. PICK product \in Int : product = (above - below) * part
    BY <1>2, <1>5
  <2>3. 100 * below + product <= 100 * limit
    <3>1. CASE above <= below
      <4>1. PICK drop \in Nat : drop = below - above /\ above - below = -drop
        BY <1>5, <3>1
      <4>2. drop * part \in Nat /\ (-drop) * part = -(drop * part)
        BY <1>2, <4>1
      <4>3. product = -(drop * part)
        BY <2>2, <4>1, <4>2, Zenon
      <4>4. PICK amount \in Nat : amount = drop * part
        BY <4>2, Zenon
      <4>5. product = -amount
        BY <4>3, <4>4, Zenon
      <4> QED
        BY <1>5, <2>1, <4>4, <4>5, FloatsTyped, SMTT(30)
    <3>2. CASE above > below
      <4>1. PICK rise \in Nat : above - below = rise
        BY <1>5, <3>2
      <4>2. rise * part <= rise * 100 /\ rise * part \in Int
        BY <1>2, <4>1, Scaled
      <4>3. product <= rise * 100
        BY <2>2, <4>1, <4>2
      <4> QED
        BY <1>5, <2>1, <4>1, <4>3, FloatsTyped, SMTT(30)
    <3> QED
      BY <1>5, <3>1, <3>2
  <2>4. PICK sum \in Int : sum = 100 * below + product
    BY <1>5
  <2>5. P95(series) = Nearest(sum, 100)
    BY <1>6, <2>2, <2>4, Zenon
  <2>6. Nearest(sum, 100) <= limit /\ Nearest(sum, 100) \in Nat
    BY <2>3, <2>4, NearestKeeps
  <2> QED
    BY <2>5, <2>6, FloatsTyped
<1> QED
  BY <1>5, <1>7

\* An interval ends at the statistic of the series, or of one of its values.
LEMMA EndsExact ==
    ASSUME NEW series \in Seq(Int \cup {Missing}), Values(series) # {}, NEW statistic,
           NEW metric \in Estimates(series, statistic),
           NEW end \in {metric.interval.low, metric.interval.high}
    PROVE  \E part \in Seq(Int \cup {Missing}) :
                /\ Values(part) # {} /\ Values(part) \subseteq Values(series)
                /\ end = Summary(statistic, part)
<1> DEFINE point == Summary(statistic, series)
           ends == {Summary(statistic, <<v>>) : v \in {Min(Values(series)), Max(Values(series))}}
                    \cup {point}
<1>1. metric \in {[point |-> point, interval |-> interval] :
                interval \in {r \in [low : ends, high : ends] : r.low <= r.high}}
  BY DEF Estimates, Values
<1>2. end \in ends
  <2> HIDE DEF ends, point
  <2>1. PICK r \in [low : ends, high : ends] : metric = [point |-> point, interval |-> r]
    BY <1>1
  <2> QED
    BY <2>1
<1>3. CASE end = point
  BY <1>3
<1>4. CASE end # point
  <2>1. PICK v \in {Min(Values(series)), Max(Values(series))} : end = Summary(statistic, <<v>>)
    BY <1>2, <1>4
  <2>2. v \in Values(series) /\ v \in Int
    BY <2>1, SeriesFinite, MinExact, MaxExact
  <2>3. <<v>> \in Seq(Int \cup {Missing})
    BY <2>2
  <2>4. Values(<<v>>) = {v}
    <3>1. Valid(<<v>>) = {1}
      BY <2>2, MissingAssumption DEF Valid
    <3> QED
      BY <3>1 DEF Values
  <2> QED
    BY <2>1, <2>2, <2>3, <2>4
<1> QED
  BY <1>3, <1>4

\* What an interval that fails its rule says of the series.
LEMMA IntervalWitness ==
    ASSUME NEW series \in Seq(Int \cup {Missing}), NEW limit \in Floats
    PROVE  /\ \A metric \in Estimates(series, "mean") :
                /\ metric.interval.high < limit /\ limit <= One =>
                        \E v \in Values(series) : v # 1
                /\ metric.interval.low > limit => 1 \in Values(series)
           /\ \A metric \in Estimates(series, "p95") :
                metric.interval.low > limit => \E v \in Values(series) : v > limit
<1>1. CASE Values(series) = {}
  <2>1. ASSUME NEW statistic, NEW metric \in Estimates(series, statistic)
        PROVE  metric.interval.low = 0 /\ metric.interval.high = One
    <3>1. metric = [point |-> 0, interval |-> [low |-> 0, high |-> One]]
      BY <1>1, <2>1 DEF Estimates, Values
    <3> QED
      BY <3>1
  <2>2. One \in Nat /\ limit \in Nat
    BY FloatsTyped
  <2> QED
    BY <2>1, <2>2
<1>2. CASE Values(series) # {}
  <2>1. ASSUME NEW metric \in Estimates(series, "mean"), metric.interval.high < limit,
               limit <= One
        PROVE  \E v \in Values(series) : v # 1
    <3>1. PICK part \in Seq(Int \cup {Missing}) :
            /\ Values(part) # {} /\ Values(part) \subseteq Values(series)
            /\ metric.interval.high = Summary("mean", part)
      BY <1>2, EndsExact
    <3>2. Mean(part) < One
      <4>1. Mean(part) \in Nat /\ One \in Nat /\ limit \in Nat
        BY <3>1, MeanTyped, FloatsTyped
      <4>2. Mean(part) < limit
        BY <2>1, <3>1 DEF Summary
      <4> QED
        BY <2>1, <4>1, <4>2
    <3> QED
      BY <3>1, <3>2, MeanWitness
  <2>2. ASSUME NEW metric \in Estimates(series, "mean"), metric.interval.low > limit
        PROVE  1 \in Values(series)
    <3>1. PICK part \in Seq(Int \cup {Missing}) :
            /\ Values(part) # {} /\ Values(part) \subseteq Values(series)
            /\ metric.interval.low = Summary("mean", part)
      BY <1>2, EndsExact
    <3>2. Mean(part) > 0
      <4>1. Mean(part) \in Nat /\ limit \in Nat
        BY <3>1, MeanTyped, FloatsTyped
      <4>2. Mean(part) > limit
        BY <2>2, <3>1 DEF Summary
      <4> QED
        BY <2>2, <4>1, <4>2
    <3> QED
      BY <3>1, <3>2, MeanWitness
  <2>3. ASSUME NEW metric \in Estimates(series, "p95"), metric.interval.low > limit
        PROVE  \E v \in Values(series) : v > limit
    <3>1. PICK part \in Seq(Int \cup {Missing}) :
            /\ Values(part) # {} /\ Values(part) \subseteq Values(series)
            /\ metric.interval.low = Summary("p95", part)
      BY <1>2, EndsExact
    <3>2. P95(part) > limit
      BY <2>3, <3>1 DEF Summary
    <3> QED
      BY <3>1, <3>2, QuantileWitness
  <2> QED
    BY <2>1, <2>2, <2>3
<1> QED
  BY <1>1, <1>2

------------------------------------------------------------------------------
(* What fails is shown. *)

\* A reason there was something to show for has an image.
LEMMA OffersShown ==
    ASSUME SeriesInv, EvidenceInv, Measured, NEW reasons,
           NEW reason \in EvidenceReasons \cap reasons, SoFar(reason) # {}
    PROVE  \E image \in Evidence!Selected(images, reasons) : image[1] = reason
<1>1. Kept(images[reason], SoFar(reason)) /\ reason \in reasons \cap DOMAIN images
  BY DEF EvidenceInv
<1>2. PICK o \in SoFar(reason) : images[reason].first = [time |-> o[1], score |-> o[2]]
  BY <1>1 DEF Kept
<1>3. images[reason]["first"] # NoImage
  <2>1. o \in Int \X Int
    BY OffersTyped
  <2>2. [time |-> o[1], score |-> o[2]] \in [time : Int, score : Int]
    BY <2>1
  <2> QED
    BY <1>2, <2>2, NothingAssumption
<1>4. <<reason, images[reason]["first"].time>> \in Evidence!Selected(images, reasons)
  <2> DEFINE slots(r) == {s \in Evidence!Slots : images[r][s] # NoImage}
             shown(r) == {<<r, images[r][s].time>> : s \in slots(r)}
  <2>1. "first" \in slots(reason)
    BY <1>3 DEF Evidence!Slots
  <2>2. <<reason, images[reason]["first"].time>> \in shown(reason)
    BY <2>1
  <2>3. Evidence!Selected(images, reasons) = UNION {shown(r) : r \in reasons \cap DOMAIN images}
    BY DEF Evidence!Selected
  <2> HIDE DEF shown
  <2> QED
    BY <1>1, <2>2, <2>3
<1> QED
  BY <1>4

\* A covered camera: a window that is black enough has a black frame in it.
LEMMA CoveredShown ==
    ASSUME SeriesInv, MeasuredInv, Measured, Camera.blackFraction \in Nat \ {0},
           result.signals["covered"] # 0
    PROVE  SoFar("black-covered") # {}
<1>1. PICK n \in Nat, w \in Nat \ {0}, f \in Nat \ {0} :
        /\ n = Len(video) /\ n = Len(flags)
        /\ w = Camera.blackWindow /\ f = Camera.blackFraction
  BY MeasuredFile, ThresholdAssumption
<1>2. result.signals["covered"] = 1
  BY MeasuredFile DEF Measurement
<1>3. \E a \in 1..(Len(video) - Camera.blackWindow + 1) :
        100 * Cardinality({i \in a..(a + Camera.blackWindow - 1) : Blackish(video[i])})
            >= Camera.blackFraction * Camera.blackWindow
  <2>1. RunsExact
    BY RunsOfSeries
  <2> QED
    BY <1>2, <2>1, Zenon DEF RunsExact
<1>4. PICK a \in 1..(n - w + 1) :
        100 * Cardinality({i \in a..(a + w - 1) : Blackish(video[i])}) >= f * w
  BY <1>1, <1>3, Zenon
<1>5. PICK m \in a..(a + w - 1) : Blackish(video[m])
  <2>1. SUFFICES ASSUME {i \in a..(a + w - 1) : Blackish(video[i])} = {} PROVE FALSE
    OBVIOUS
  <2>2. Cardinality({i \in a..(a + w - 1) : Blackish(video[i])}) = 0
    BY <2>1, FS_EmptySet
  <2>3. f * w > 0 /\ f * w \in Nat
    BY <1>1, SMTT(30)
  <2>4. PICK product \in Nat : product = f * w /\ product > 0
    BY <2>3, Zenon
  <2>5. 100 * 0 >= product
    BY <1>4, <2>2, <2>4, Zenon
  <2> QED
    BY <2>4, <2>5
<1>6. m \in 1..n
  BY <1>1, <1>4, <1>5
<1>7. m \in FramesShown("black-covered")
  BY <1>1, <1>5, <1>6 DEF FramesShown, ShownByFrame
<1> QED
  BY <1>7 DEF SoFar, FrameReasons

\* A share of blurred or badly exposed frames above a limit has such a frame behind it.
LEMMA ShareShown ==
    ASSUME SeriesInv, Measured, NEW field \in {"blurry", "exposure"}, NEW limit \in Floats,
           Share(field) > limit
    PROVE  SoFar(IF field = "blurry" THEN "blur-warning" ELSE "exposure-warning") # {}
<1> DEFINE series == [n \in DOMAIN flags |-> IF flags[n][field] THEN 1 ELSE 0]
<1>1. /\ Len(flags) \in Nat /\ Len(flags) # 0 /\ DOMAIN flags = 1..Len(flags)
      /\ flags \in Seq([black : BOOLEAN, blurry : BOOLEAN, exposure : BOOLEAN])
      /\ \A i \in 1..Len(flags) : flags[i] = FlagsOf(video[i])
  <2>1. Len(flags) = Len(video) /\ stream = "clean"
    BY MeasuredFile
  <2>2. /\ flags \in Seq([black : BOOLEAN, blurry : BOOLEAN, exposure : BOOLEAN])
        /\ video \in Seq(Pictures) /\ video # <<>>
        /\ \A i \in 1..Len(flags) : flags[i] = FlagsOf(video[i])
    BY <2>1 DEF SeriesInv, Typed, PhaseInv, FrameInv
  <2>3. Len(flags) \in Nat /\ DOMAIN flags = 1..Len(flags)
    BY <2>2, LenProperties
  <2>4. Len(video) # 0
    BY <2>2, EmptySeq
  <2> QED
    BY <2>1, <2>2, <2>3, <2>4
<1>2. series \in Seq(Int \cup {Missing})
  BY <1>1
<1>3. 1 \in DOMAIN series /\ series[1] # Missing
  BY <1>1, MissingAssumption
<1>4. \A i \in DOMAIN series : series[i] = 1 => i \in 1..Len(flags) /\ flags[i][field]
  BY <1>1
<1>5. Share(field) = Mean(series)
  BY DEF Share
<1> HIDE DEF series
<1>6. Values(series) # {}
  BY <1>3 DEF Values, Valid
<1>7. 1 \in Values(series)
  <2>1. Mean(series) \in Nat /\ limit \in Nat
    BY <1>2, <1>6, MeanTyped, FloatsTyped
  <2>2. Mean(series) > 0
    BY <1>5, <2>1
  <2> QED
    BY <1>2, <1>6, <2>2, MeanWitness
<1>8. PICK m \in 1..Len(flags) : flags[m][field]
  BY <1>4, <1>7 DEF Values, Valid
<1>9. CASE field = "blurry"
  <2>1. m \in FramesShown("blur-warning")
    BY <1>1, <1>8, <1>9 DEF FlagsOf, FramesShown, ShownByFrame
  <2> QED
    BY <1>9, <2>1 DEF SoFar, FrameReasons
<1>10. CASE field = "exposure"
  <2>1. m \in FramesShown("exposure-warning")
    BY <1>1, <1>8, <1>10 DEF FlagsOf, FramesShown, ShownByFrame
  <2> QED
    BY <1>10, <2>1 DEF SoFar, FrameReasons
<1> QED
  BY <1>9, <1>10

\* A shake above the limit of the selector has a pair of hand samples behind it.
LEMMA ShakeShown ==
    ASSUME SeriesInv, Measured, NEW field \in {"translation", "rotation"}, NEW limit \in Floats,
           Shake(field) > limit,
           (IF field = "translation" THEN ShakeTranslation ELSE ShakeRotation) <= limit
    PROVE  SoFar(IF field = "translation" THEN "translation-shake" ELSE "rotation-shake") # {}
<1> DEFINE S == [translation : Int, rotation : Int]
           series == Column(moves, field)
<1>1. /\ moves \in Seq(S) /\ Len(moves) \in Nat /\ DOMAIN moves = 1..Len(moves)
      /\ \A k \in 1..Len(moves) : moves[k] = MotionAt(k + 1)
      /\ Len(moves) = IF Beats = 0 THEN 0 ELSE Beats - 1
  BY LenProperties DEF SeriesInv, Typed, SampleInv
<1>2. moves # <<>>
  <2>1. ~(0 > limit)
    BY FloatsTyped
  <2> QED
    BY <2>1 DEF Shake
<1>3. PICK T : T = Int \cup {Missing}
  OBVIOUS
<1>4. \A x \in S : x[field] \in T
  BY <1>3
<1>5. /\ series \in Seq(T) /\ Len(series) = Len(moves)
      /\ \A k \in 1..Len(moves) : series[k] = moves[k][field]
  <2>1. moves \in Seq(S)
    BY <1>1
  <2> HIDE DEF S
  <2>2. /\ Column(moves, field) \in Seq(T) /\ Len(Column(moves, field)) = Len(moves)
        /\ \A k \in 1..Len(moves) : Column(moves, field)[k] = moves[k][field]
    BY <1>4, <2>1, ColumnTyped, SMTT(30)
  <2> QED
    BY <2>2
<1>6. Shake(field) = P95(series)
  BY <1>2 DEF Shake
<1> HIDE DEF series
<1>7. DOMAIN series = 1..Len(moves)
  BY <1>5, LenProperties
<1>8. Values(series) # {}
  <2>1. 1 \in 1..Len(moves)
    BY <1>1, <1>2, EmptySeq
  <2>2. moves[1] \in S
    BY <1>1, <2>1, ElementOfSeq
  <2>3. series[1] \in Int
    BY <1>5, <2>1, <2>2
  <2> QED
    BY <1>7, <2>1, <2>3, MissingAssumption DEF Values, Valid
<1>9. PICK v \in Values(series) : v > limit
  <2>1. P95(series) > limit
    BY <1>6
  <2> QED
    BY <1>3, <1>5, <1>8, <2>1, QuantileWitness
<1>10. PICK k \in 1..Len(moves) : v = MotionAt(k + 1)[field] /\ v \in Int
  <2>1. PICK k \in 1..Len(moves) : v = series[k]
    BY <1>7, <1>9 DEF Values, Valid
  <2>2. moves[k] \in S /\ series[k] = moves[k][field] /\ moves[k] = MotionAt(k + 1)
    BY <1>1, <1>5, <2>1, ElementOfSeq
  <2>3. v \in Int
    BY <2>1, <2>2
  <2> QED
    BY <2>1, <2>2, <2>3
<1>11. k + 1 \in 2..Beats
  BY <1>1, <1>10, SMTT(30) DEF Beats
<1>12. CASE field = "translation"
  <2>1. MotionAt(k + 1).translation > ShakeTranslation
    BY <1>9, <1>10, <1>12, ShakeLimits, FloatsTyped
  <2>2. k + 1 \in ShakesShown("translation-shake")
    BY <1>11, <2>1 DEF ShakesShown, ShownByFrame
  <2> QED
    BY <1>12, <2>2 DEF SoFar, FrameReasons, ShakeReasons
<1>13. CASE field = "rotation"
  <2>1. MotionAt(k + 1).rotation > ShakeRotation
    BY <1>9, <1>10, <1>13, ShakeLimits, FloatsTyped
  <2>2. k + 1 \in ShakesShown("rotation-shake")
    BY <1>11, <2>1 DEF ShakesShown, ShownByFrame
  <2> QED
    BY <1>13, <2>2 DEF SoFar, FrameReasons, ShakeReasons
<1> QED
  BY <1>12, <1>13

\* The series of the hands, and where their values come from.
LEMMA HandColumns ==
    ASSUME SeriesInv, NEW field \in {"visible", "idle", "speed"}
    PROVE  /\ Column(hands, field) \in Seq(Int \cup {Missing})
           /\ Len(Column(hands, field)) = Len(hands)
           /\ \A v \in Values(Column(hands, field)) :
                \E k \in 1..Len(hands) : v = hands[k][field] /\ hands[k] \in Hands
<1>1. PICK T : T = Int \cup {Missing}
  OBVIOUS
<1>2. \A x \in Hands : x[field] \in T
  BY <1>1 DEF Hands
<1>3. Len(hands) \in Nat /\ DOMAIN hands = 1..Len(hands)
      /\ \A k \in 1..Len(hands) : hands[k] \in Hands
  BY LenProperties, ElementOfSeq DEF SeriesInv, Typed
<1>4. Column(hands, field) = [k \in 1..Len(hands) |-> hands[k][field]]
  BY <1>3 DEF Column
<1>5. \A k \in 1..Len(hands) : hands[k][field] \in T
  BY <1>2, <1>3
<1>6. Column(hands, field) \in Seq(T) /\ Len(Column(hands, field)) = Len(hands)
  BY <1>3, <1>4, <1>5
<1>7. \A v \in Values(Column(hands, field)) :
        \E k \in 1..Len(hands) : v = hands[k][field] /\ hands[k] \in Hands
  BY <1>3, <1>4 DEF Values, Valid
<1> QED
  BY <1>1, <1>6, <1>7

\* Hands that are seen too seldom are missing in some sample.
LEMMA VisibleShown ==
    ASSUME SeriesInv, MeasuredInv, Measured, NEW limit \in Floats, limit <= One,
           result.intervals["hands"].high < limit
    PROVE  SoFar("hands-visible") # {}
<1>1. PICK series \in Seq(Int \cup {Missing}) :
        /\ series = Column(hands, "visible")
        /\ \A v \in Values(series) :
             \E k \in 1..Len(hands) : v = hands[k].visible /\ hands[k] \in Hands
  BY HandColumns
<1>2. PICK seen \in Estimates(series, "mean") : result.intervals["hands"] = seen.interval
  BY <1>1 DEF MeasuredInv
<1>3. PICK v \in Values(series) : v # 1
  BY <1>2, IntervalWitness
<1>4. PICK k \in 1..Len(hands) : hands[k].visible = 0
  BY <1>1, <1>3 DEF Hands
<1>5. k \in HandsShown("hands-visible")
  BY <1>4 DEF HandsShown, ShownByHands
<1> QED
  BY <1>5 DEF SoFar, FrameReasons, ShakeReasons

\* Idling above a limit has a sample in a stretch of idle samples, an idle one.
LEMMA IdleShown ==
    ASSUME SeriesInv, MeasuredInv, Measured, NEW limit \in Floats,
           result.intervals["idle"].low > limit
    PROVE  SoFar("extended-idle") # {}
<1>1. PICK t, raw : t = Column(hands, "time") /\ raw = Column(hands, "idle")
  OBVIOUS
<1>2. /\ raw \in Seq(Int \cup {Missing}) /\ Len(raw) = Len(hands)
      /\ DOMAIN hands = 1..Len(hands) /\ DOMAIN raw = 1..Len(raw)
  <2>1. raw \in Seq(Int \cup {Missing}) /\ Len(raw) = Len(hands)
    BY <1>1, HandColumns
  <2> QED
    BY <2>1, LenProperties DEF SeriesInv, Typed
<1>3. PICK series \in Seq(Int \cup {Missing}) : series = QualifiedIdle(t, raw)
  BY <1>2, IdleTyped
<1>4. PICK idling \in Estimates(series, "mean") : result.intervals["idle"] = idling.interval
  BY <1>1, <1>3, Zenon DEF MeasuredInv
<1>5. 1 \in Values(series)
  <2>1. idling.interval.low > limit => 1 \in Values(series)
    BY IntervalWitness, Zenon
  <2> QED
    BY <1>4, <2>1
<1>6. PICK k \in 1..Len(hands) : QualifiedIdle(t, raw)[k] = 1
  <2>1. DOMAIN series = 1..Len(raw)
    BY <1>2, <1>3 DEF QualifiedIdle
  <2> QED
    BY <1>2, <1>3, <1>5, <2>1 DEF Values, Valid
<1>7. PICK a \in 1..k, b \in k..Len(t) : \A j \in a..b : raw[j] = 1
  <2>1. RunsExact
    BY RunsOfSeries
  <2>2. \A j \in DOMAIN hands :
            QualifiedIdle(Column(hands, "time"), Column(hands, "idle"))[j] = 1 =>
                \E a \in 1..j, b \in j..Len(Column(hands, "time")) :
                    \A i \in a..b : Column(hands, "idle")[i] = 1
    BY <2>1, Zenon DEF RunsExact
  <2> QED
    BY <1>1, <1>2, <1>6, <2>2
<1>8. hands[k].idle = 1
  <2>1. raw[k] = 1
    BY <1>7
  <2> QED
    BY <1>1, <1>2, <2>1 DEF Column
<1>9. k \in HandsShown("extended-idle")
  BY <1>8 DEF HandsShown, ShownByHands
<1> QED
  BY <1>9 DEF SoFar, FrameReasons, ShakeReasons

\* A hand speed above the limit of a rule has a sample that was too fast.
LEMMA SpeedShown ==
    ASSUME SeriesInv, MeasuredInv, Measured, NEW rule \in JobRules, rule.signal = "speed",
           rule.threshold \in Floats, result.intervals["speed"].low > rule.threshold
    PROVE  SoFar("hand-speed") # {}
<1>1. PICK series \in Seq(Int \cup {Missing}) :
        /\ series = Column(hands, "speed")
        /\ \A v \in Values(series) :
             \E k \in 1..Len(hands) : v = hands[k].speed /\ hands[k] \in Hands
  BY HandColumns
<1>2. PICK speed \in Estimates(series, "p95") : result.intervals["speed"] = speed.interval
  BY <1>1 DEF MeasuredInv
<1>3. PICK limit \in Floats : limit = rule.threshold
  OBVIOUS
<1>4. PICK v \in Values(series) : v > limit
  BY <1>2, <1>3, IntervalWitness
<1>5. v \in Int
  BY SeriesFinite
<1>6. PICK k \in 1..Len(hands) : hands[k].speed = v
  BY <1>1, <1>4
<1>7. hands[k].speed # Missing /\ TooFast(hands[k].speed)
  BY <1>3, <1>4, <1>5, <1>6, MissingAssumption DEF TooFast
<1>8. k \in HandsShown("hand-speed")
  BY <1>7 DEF HandsShown, ShownByHands
<1> QED
  BY <1>8 DEF SoFar, FrameReasons, ShakeReasons

\* A rule that the evidence goes with: it is about the reason's own measurement, and
\* not stricter than what the selector is told to show (processor.py:266, 335).
Evident(rule) ==
    \/ rule.id = "repetitive-motion"
    \/ /\ rule.id = "hands-visible" /\ rule.signal = "hands" /\ rule.operator = ">="
       /\ rule.threshold \in Floats /\ rule.threshold <= One
    \/ /\ \/ rule.id = "extended-idle" /\ rule.signal = "idle"
          \/ rule.id = "blur-warning" /\ rule.signal = "blurry"
          \/ rule.id = "exposure-warning" /\ rule.signal = "exposure"
          \/ rule.id = "hand-speed" /\ rule.signal = "speed" /\ rule \in JobRules
          \/ /\ rule.id = "translation-shake" /\ rule.signal = "translation"
             /\ ShakeTranslation <= rule.threshold
          \/ /\ rule.id = "rotation-shake" /\ rule.signal = "rotation"
             /\ ShakeRotation <= rule.threshold
       /\ rule.operator = "<=" /\ rule.threshold \in Floats
    \/ /\ \/ rule.id = "black-covered" /\ rule.signal = "covered"
          \/ rule.id = "corrupt-video" /\ rule.signal = "corrupt"
       /\ rule.operator = "==" /\ rule.threshold = 0

\* The rules the API makes of a policy are such rules.
LEMMA ApiRulesEvident ==
    ASSUME Policy["hands"] <= 100 * One
    PROVE  \A rule \in ApiRules : Evident(rule)
<1>1. \A limit \in Limits : Policy[limit] \in Floats /\ Policy[limit] \in Nat
  BY FloatsTyped
<1>2. \A limit \in Percentages : Fraction[Policy[limit]] \in Floats
  BY <1>1, FloatsTyped, Converted DEF Percentages, Limits
<1>3. Fraction[Policy["hands"]] <= One
  <2>1. Policy["hands"] \in Floats
    BY <1>1 DEF Limits
  <2> QED
    BY <2>1, FloatsTyped, Converted
<1>4. Evident(HandsRule)
  BY <1>2, <1>3 DEF Evident, HandsRule, Rule, Percentages
<1>5. Evident(RepetitionRule)
  BY DEF Evident, RepetitionRule, Rule
<1>6. Evident(CorruptRule) /\ Evident(CoveredRule)
  BY DEF Evident, CorruptRule, CoveredRule, Rule
<1>7. Evident(IdleRule)
  BY <1>2 DEF Evident, IdleRule, Rule, Percentages
<1>8. Evident(BlurRule) /\ Evident(ExposureRule)
  BY <1>2 DEF Evident, BlurRule, ExposureRule, Rule, Percentages
<1>9. Evident(TranslationRule)
  <2>1. PICK limit \in Floats : limit = Fraction[Policy["translation"]]
    BY <1>2 DEF Percentages
  <2>2. limit <= limit
    BY FloatsTyped
  <2> QED
    BY <2>1, <2>2 DEF Evident, TranslationRule, Rule, ShakeTranslation
<1>10. Evident(RotationRule)
  <2>1. PICK limit \in Floats : limit = Policy["rotation"]
    BY <1>1 DEF Limits
  <2>2. limit <= limit
    BY FloatsTyped
  <2> QED
    BY <2>1, <2>2 DEF Evident, RotationRule, Rule, ShakeRotation
<1> QED
  BY <1>4, <1>5, <1>6, <1>7, <1>8, <1>9, <1>10, RulesNamed DEF Rejects

\* A failed rule has its measurement on the wrong side of its threshold.
LEMMA FailureMeans ==
    ASSUME NEW signals, NEW intervals, NEW rule, Measurement(signals, intervals),
           rule.signal \in Signals, rule.threshold \in Int,
           IntervalOutcome(rule, signals, intervals) = "fail"
    PROVE  /\ rule.operator = ">=" /\ rule.signal \in DOMAIN intervals =>
                intervals[rule.signal].high < rule.threshold
           /\ rule.operator = "<=" /\ rule.signal \in DOMAIN intervals =>
                intervals[rule.signal].low > rule.threshold
           /\ rule.operator = "<=" /\ rule.signal \notin DOMAIN intervals =>
                signals[rule.signal] > rule.threshold
           /\ rule.operator = "==" => signals[rule.signal] # rule.threshold
<1>1. signals[rule.signal] \in Int
  BY DEF Measurement
<1>2. rule.signal \in DOMAIN intervals =>
        /\ intervals[rule.signal].low \in Int /\ intervals[rule.signal].high \in Int
  <2>1. \A s \in {"hands", "speed", "idle"} :
            intervals[s].low \in Floats /\ intervals[s].high \in Floats
    BY DEF Measurement
  <2>2. DOMAIN intervals = {"hands", "speed", "idle"}
    BY DEF Measurement
  <2>3. \A v \in Floats : v \in Int
    BY FloatsTyped
  <2> QED
    BY <2>1, <2>2, <2>3
<1>3. PICK range : range = Range95(rule, signals, intervals)
  OBVIOUS
<1>4. /\ rule.operator = ">=" => ~(range.high >= rule.threshold)
      /\ rule.operator = "<=" => ~(range.low <= rule.threshold)
      /\ rule.operator = "==" => ~(range.low = rule.threshold)
  BY <1>3 DEF IntervalOutcome, Compare, Floors
<1>5. range = IF rule.signal \in DOMAIN intervals /\ rule.operator # "=="
              THEN intervals[rule.signal]
              ELSE [low |-> signals[rule.signal], high |-> signals[rule.signal]]
  BY <1>3 DEF Range95
<1> QED
  BY <1>1, <1>2, <1>4, <1>5

\* When a rule fails there was something to show for it.
LEMMA RuleShown ==
    ASSUME SeriesInv, MeasuredInv, Measured, Camera.blackFraction \in Nat \ {0},
           NEW rule, Evident(rule), rule.id # "repetitive-motion",
           IntervalOutcome(rule, result.signals, result.intervals) = "fail"
    PROVE  rule.id \in EvidenceReasons /\ SoFar(rule.id) # {}
<1>1. /\ Measurement(result.signals, result.intervals)
      /\ DOMAIN result.intervals = {"hands", "speed", "idle"}
  BY MeasuredFile DEF Measurement
<1>2. EvidenceReasons = {"black-covered", "hands-visible", "extended-idle", "translation-shake",
                         "rotation-shake", "repetitive-motion", "blur-warning",
                         "exposure-warning", "hand-speed"}
  BY DEF EvidenceReasons, CheckOfReason
<1>3. rule.signal \in Signals /\ rule.threshold \in Floats /\ rule.threshold \in Int
  <2>1. rule.signal \in Signals
    BY DEF Evident, Signals
  <2>2. rule.threshold \in Floats \/ rule.threshold = 0
    BY DEF Evident
  <2>3. 0 \in Floats /\ \A v \in Floats : v \in Int
    BY FloatsTyped
  <2> QED
    BY <2>1, <2>2, <2>3
<1>4. PICK limit \in Floats : limit = rule.threshold
  BY <1>3
<1>5. /\ rule.operator = ">=" /\ rule.signal \in DOMAIN result.intervals =>
            result.intervals[rule.signal].high < limit
      /\ rule.operator = "<=" /\ rule.signal \in DOMAIN result.intervals =>
            result.intervals[rule.signal].low > limit
      /\ rule.operator = "<=" /\ rule.signal \notin DOMAIN result.intervals =>
            result.signals[rule.signal] > limit
      /\ rule.operator = "==" => result.signals[rule.signal] # limit
  BY <1>1, <1>3, <1>4, FailureMeans
<1>6. CASE rule.id = "hands-visible"
  <2>1. limit <= One /\ result.intervals["hands"].high < limit
    BY <1>1, <1>4, <1>5, <1>6 DEF Evident
  <2> QED
    BY <1>2, <1>6, <2>1, VisibleShown
<1>7. CASE rule.id = "extended-idle"
  <2>1. result.intervals["idle"].low > limit
    BY <1>1, <1>4, <1>5, <1>7 DEF Evident
  <2> QED
    BY <1>2, <1>7, <2>1, IdleShown
<1>8. CASE rule.id = "hand-speed"
  <2>1. /\ rule \in JobRules /\ rule.signal = "speed" /\ rule.threshold \in Floats
        /\ result.intervals["speed"].low > rule.threshold
    BY <1>1, <1>4, <1>5, <1>8 DEF Evident
  <2> QED
    BY <1>2, <1>8, <2>1, SpeedShown
<1>9. CASE rule.id \in {"blur-warning", "exposure-warning"}
  <2>1. PICK field \in {"blurry", "exposure"} :
            /\ rule.id = IF field = "blurry" THEN "blur-warning" ELSE "exposure-warning"
            /\ result.signals[field] > limit
    BY <1>1, <1>4, <1>5, <1>9 DEF Evident
  <2>2. Share(field) > limit
    BY <2>1 DEF MeasuredInv
  <2> QED
    BY <1>2, <1>9, <2>1, <2>2, ShareShown
<1>10. CASE rule.id \in {"translation-shake", "rotation-shake"}
  <2>1. PICK field \in {"translation", "rotation"} :
            /\ rule.id = IF field = "translation" THEN "translation-shake" ELSE "rotation-shake"
            /\ result.signals[field] > limit
            /\ (IF field = "translation" THEN ShakeTranslation ELSE ShakeRotation) <= limit
    BY <1>1, <1>4, <1>5, <1>10 DEF Evident
  <2>2. Shake(field) > limit
    BY <2>1 DEF MeasuredInv
  <2> QED
    BY <1>2, <1>10, <2>1, <2>2, ShakeShown
<1>11. CASE rule.id = "black-covered"
  <2>1. result.signals["covered"] # 0
    BY <1>4, <1>5, <1>11 DEF Evident
  <2> QED
    BY <1>2, <1>11, <2>1, CoveredShown
<1>12. rule.id # "corrupt-video"
  <2> SUFFICES ASSUME rule.id = "corrupt-video" PROVE FALSE
    OBVIOUS
  <2>1. result.signals["corrupt"] # 0
    BY <1>4, <1>5 DEF Evident
  <2> QED
    BY <2>1 DEF Measured
<1> QED
  BY <1>6, <1>7, <1>8, <1>9, <1>10, <1>11, <1>12 DEF Evident

\* When a check fails there was something to show for it: a percentage over its limit,
\* however rounded, is of a fraction above zero, and one under it of a fraction under one;
\* a shift over its limit is at least the limit of the shift's rule.
LEMMA CheckShown ==
    ASSUME SeriesInv, MeasuredInv, Measured, Camera.blackFraction \in Nat \ {0},
           Policy["hands"] <= 100 * One,
           NEW check \in Checks \cup Warnings, check # "repetitive_motion",
           ByPolicy(result.signals, result.intervals)[check] = "fail",
           check = "camera_steadiness" =>
                \/ result.signals["translation"] # ShakeTranslation
                \/ result.signals["rotation"] > ShakeRotation
    PROVE  \E reason \in EvidenceReasons :
                /\ SoFar(reason) # {}
                /\ reason \in DOMAIN CheckOfReason /\ CheckOfReason[reason] = check
<1> DEFINE context == Context(result.signals, result.intervals)
<1>1. Evaluated(context, check) = "fail"
  BY DEF ByPolicy, CheckOutcomes
<1>2. Measurement(result.signals, result.intervals)
  BY MeasuredFile
<1>3. /\ result.intervals["hands"].high \in Floats /\ result.intervals["idle"].low \in Floats
      /\ \A s \in Signals \ {"covered"} : result.signals[s] \in Floats
  BY <1>2 DEF Measurement
<1>4. \A limit \in Limits : Policy[limit] \in Floats /\ Policy[limit] \in Nat
  BY FloatsTyped
<1>5. /\ CheckOfReason["black-covered"] = "camera_covered"
      /\ CheckOfReason["hands-visible"] = "hands_visible"
      /\ CheckOfReason["extended-idle"] = "worker_idle"
      /\ CheckOfReason["blur-warning"] = "blurry"
      /\ CheckOfReason["exposure-warning"] = "bad_exposure"
      /\ CheckOfReason["translation-shake"] = "camera_steadiness"
      /\ CheckOfReason["rotation-shake"] = "camera_steadiness"
      /\ {"black-covered", "hands-visible", "extended-idle", "blur-warning", "exposure-warning",
          "translation-shake", "rotation-shake"} \subseteq DOMAIN CheckOfReason
  BY DEF CheckOfReason, ShakeReasons
<1>6. DOMAIN CheckOfReason \subseteq EvidenceReasons
  BY DEF EvidenceReasons
\* Nothing, in percent, is over no limit.
<1>7. ASSUME NEW v \in Floats, NEW limit \in Floats, ~(Percent[v] <= limit)
      PROVE  v > 0
  <2>1. v \in Nat /\ limit \in Nat
    BY FloatsTyped
  <2>2. ~(100 * v <= limit)
    BY <1>7, Converted
  <2> QED
    BY <2>1, <2>2
<1> HIDE DEF context
<1>8. CASE check = "camera_covered"
  <2>1. Covered(context) = "fail"
    BY <1>1, <1>8 DEF Evaluated
  <2>2. result.signals["covered"] # 0
    BY <1>2, <2>1, ContextTaken DEF context, PassIf
  <2>3. SoFar("black-covered") # {}
    BY <2>2, CoveredShown
  <2> QED
    BY <1>5, <1>6, <1>8, <2>3
<1>9. CASE check = "hands_visible"
  <2>1. PICK high \in Floats : high = result.intervals["hands"].high
    BY <1>3
  <2>2. HandsVisible(context) = "fail"
    BY <1>1, <1>9 DEF Evaluated
  <2>3. Percent[high] < Policy["hands"]
    BY <1>2, <2>1, <2>2, ContextTaken DEF context, HandsVisible, MinimumOutcome
  <2>4. high < One
    <3>1. Policy["hands"] \in Floats /\ Policy["hands"] \in Nat
      BY <1>4 DEF Limits
    <3>2. /\ Percent[high] \in Nat
          /\ 100 * high >= Policy["hands"] => Percent[high] >= Policy["hands"]
      BY <3>1, Converted
    <3> QED
      BY <2>3, <3>1, <3>2, FloatsTyped
  <2>5. SoFar("hands-visible") # {}
    BY <2>1, <2>4, FloatsTyped, VisibleShown
  <2> QED
    BY <1>5, <1>6, <1>9, <2>5
<1>10. CASE check = "worker_idle"
  <2>1. PICK low \in Floats : low = result.intervals["idle"].low
    BY <1>3
  <2>2. WorkerIdle(context) = "fail"
    BY <1>1, <1>10 DEF Evaluated
  <2>3. Percent[low] > Policy["idle"]
    BY <1>2, <2>1, <2>2, ContextTaken DEF context, WorkerIdle, MaximumOutcome
  <2>4. Policy["idle"] \in Floats /\ Policy["idle"] \in Nat /\ Percent[low] \in Nat
    BY <1>4, Converted DEF Limits
  <2>5. low > 0
    BY <1>7, <2>3, <2>4
  <2>6. SoFar("extended-idle") # {}
    BY <2>1, <2>5, FloatsTyped, IdleShown
  <2> QED
    BY <1>5, <1>6, <1>10, <2>6
<1>11. CASE check \in Warnings
  <2>1. PICK field \in {"blurry", "exposure"} :
            /\ ~Within(context, field)
            /\ check = IF field = "blurry" THEN "blurry" ELSE "bad_exposure"
    BY <1>1, <1>11 DEF Evaluated, Warnings, PassIf
  <2>2. field \in Signals \ {"covered"} /\ field \in Limits
    BY DEF Signals, Limits
  <2>3. ~(Percent[result.signals[field]] <= Policy[field])
    BY <1>2, <2>1, ContextTaken DEF context
  <2>4. result.signals[field] > 0
    BY <1>3, <1>4, <1>7, <2>2, <2>3
  <2>5. Share(field) > 0
    BY <2>4 DEF MeasuredInv
  <2>6. SoFar(IF field = "blurry" THEN "blur-warning" ELSE "exposure-warning") # {}
    BY <2>5, FloatsTyped, ShareShown
  <2> QED
    BY <1>5, <1>6, <2>1, <2>6
<1>12. CASE check = "camera_steadiness"
  <2>1. /\ result.signals["translation"] \in Floats /\ result.signals["rotation"] \in Floats
        /\ Policy["translation"] \in Floats /\ Policy["translation"] \in Nat
        /\ Policy["rotation"] \in Nat
    BY <1>3, <1>4 DEF Signals, Limits
  <2>2. ~Within(context, "translation") \/ ~Within(context, "rotation")
    BY <1>1, <1>12 DEF Evaluated, Steadiness, PassIf
  <2>3. CASE result.signals["rotation"] > ShakeRotation
    <3>1. Shake("rotation") > ShakeRotation
      BY <2>3 DEF MeasuredInv
    <3>2. ShakeRotation <= ShakeRotation
      BY ShakeLimits
    <3>3. SoFar("rotation-shake") # {}
      BY <3>1, <3>2, ShakeLimits, ShakeShown
    <3> QED
      BY <1>5, <1>6, <1>12, <3>3
  <2>4. CASE ~(result.signals["rotation"] > ShakeRotation)
    <3>1. Within(context, "rotation")
      <4>1. Within(context, "rotation") <=> result.signals["rotation"] <= Policy["rotation"]
        BY <1>2, ContextTaken DEF context
      <4>2. result.signals["rotation"] <= Policy["rotation"]
        <5>1. result.signals["rotation"] \in Nat
          BY <2>1, FloatsTyped
        <5> QED
          BY <2>1, <2>4, <5>1 DEF ShakeRotation
      <4> QED
        BY <4>1, <4>2
    <3>2. ~(Percent[result.signals["translation"]] <= Policy["translation"])
      <4>1. Within(context, "translation") <=>
                Percent[result.signals["translation"]] <= Policy["translation"]
        BY <1>2, ContextTaken DEF context
      <4> QED
        BY <2>2, <3>1, <4>1
    <3>3. PICK shift \in Floats : shift = result.signals["translation"]
      BY <2>1
    <3>4. shift \in Nat /\ ~(100 * shift <= Policy["translation"])
      BY <2>1, <3>2, <3>3, Converted, FloatsTyped
    <3>5. shift >= Fraction[Policy["translation"]]
      <4>1. 100 * shift >= Policy["translation"]
        BY <2>1, <3>4
      <4> QED
        BY <2>1, <4>1, Converted
    <3>6. Shake("translation") > ShakeTranslation
      <4>1. shift # ShakeTranslation
        BY <1>12, <2>4, <3>3
      <4>2. Shake("translation") = shift
        BY <3>3 DEF MeasuredInv
      <4> QED
        BY <3>4, <3>5, <4>1, <4>2, ShakeLimits DEF ShakeTranslation
    <3>7. SoFar("translation-shake") # {}
      BY <3>6, ShakeLimits, ShakeShown
    <3> QED
      BY <1>5, <1>6, <1>12, <3>7
  <2> QED
    BY <2>3, <2>4
<1> QED
  BY <1>8, <1>9, <1>10, <1>11, <1>12 DEF Checks, Warnings

\* A failed check, and a failed rule, of a measured file comes with an image of its own
\* (FailureShown), for every policy that asks for at most all of the frames to show
\* hands, every window fraction above zero, and rules like those of the API and of the
\* controller's default job (schemas.py:139).
THEOREM FailuresAlwaysShown ==
    ASSUME Camera.blackFraction \in Nat \ {0}, Policy["hands"] <= 100 * One,
           \A rule \in JobRules : Evident(rule)
    PROVE  Spec => []FailureShown
<1>1. ASSUME SeriesInv, EvidenceInv, MeasuredInv
      PROVE  FailureShown
  <2> SUFFICES ASSUME Measured PROVE FailureShown
    BY DEF FailureShown
  <2> DEFINE outcomes == ByPolicy(result.signals, result.intervals)
             verdicts == Outcomes(JobRules, result.signals, result.intervals)
  <2>1. Measurement(result.signals, result.intervals)
    BY <1>1, MeasuredFile
  <2>2. ASSUME NEW check \in Checks \cup Warnings, outcomes[check] = "fail",
               check # "repetitive_motion",
               check = "camera_steadiness" =>
                    \/ result.signals["translation"] # ShakeTranslation
                    \/ result.signals["rotation"] > ShakeRotation
        PROVE  \E image \in Evidence!Selected(images, ArtifactReasons(outcomes)) :
                    CheckOfReason[image[1]] = check
    <3>1. PICK reason \in EvidenceReasons :
            /\ SoFar(reason) # {}
            /\ reason \in DOMAIN CheckOfReason /\ CheckOfReason[reason] = check
      BY <1>1, <2>2, CheckShown
    <3>2. reason \in ArtifactReasons(outcomes)
      BY <2>2, <3>1 DEF ArtifactReasons
    <3> HIDE DEF outcomes
    <3>3. PICK image \in Evidence!Selected(images, ArtifactReasons(outcomes)) :
            image[1] = reason
      BY <1>1, <3>1, <3>2, OffersShown
    <3> QED
      BY <3>1, <3>3
  <2>3. ASSUME NEW rule \in JobRules, verdicts[rule] = "fail", rule.id # "repetitive-motion"
        PROVE  \E image \in Evidence!Selected(images, NotPassed(verdicts)) : image[1] = rule.id
    <3>1. /\ IntervalOutcome(rule, result.signals, result.intervals) = "fail"
          /\ rule \in DOMAIN verdicts
      BY <2>3 DEF Outcomes
    <3>2. rule.id \in EvidenceReasons /\ SoFar(rule.id) # {}
      BY <1>1, <2>3, <3>1, RuleShown
    <3>3. rule.id \in NotPassed(verdicts)
      BY <2>3, <3>1 DEF NotPassed
    <3> HIDE DEF verdicts
    <3> QED
      BY <1>1, <3>2, <3>3, OffersShown
  <2> QED
    BY <2>2, <2>3, Zenon DEF FailureShown
<1> QED
  BY <1>1, SeriesKept, EvidenceKept, MeasuredKept, PTL

==============================================================================
