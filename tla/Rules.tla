-------------------------------- MODULE Rules --------------------------------
(***************************************************************************)
(* qc_pipeline/rules.py: what a job's rules say of the measured signals.   *)
(* A rule is [id, signal, operator, threshold, reject]; signals maps a     *)
(* signal to its value (FALSE and TRUE are 0 and 1), intervals the signals *)
(* measured with one to [low, high].  Rules are evaluated independently,   *)
(* so the list of them is a set.                                           *)
(***************************************************************************)
EXTENDS Integers

Operators == {">=", "<=", ">", "<", "=="}

Compare(value, operator, threshold) ==
    \/ operator = ">=" /\ value >= threshold
    \/ operator = "<=" /\ value <= threshold
    \/ operator = ">" /\ value > threshold
    \/ operator = "<" /\ value < threshold
    \/ operator = "==" /\ value = threshold

\* A rule on a signal without an interval, and equality, look at the value alone.
Range95(rule, signals, intervals) ==
    IF rule.signal \in DOMAIN intervals /\ rule.operator # "=="
    THEN intervals[rule.signal]
    ELSE [low |-> signals[rule.signal], high |-> signals[rule.signal]]

Floors == {">=", ">"}

\* The rule passes if the worst end of the range does, fails if the best end does not.
IntervalOutcome(rule, signals, intervals) ==
    LET range == Range95(rule, signals, intervals)
        floor == rule.operator \in Floors
        Holds(v) == Compare(v, rule.operator, rule.threshold)
    IN IF Holds(IF floor THEN range.low ELSE range.high) THEN "pass"
       ELSE IF Holds(IF floor THEN range.high ELSE range.low) THEN "uncertain" ELSE "fail"

Outcomes(rules, signals, intervals) ==
    [rule \in rules |-> IntervalOutcome(rule, signals, intervals)]

Rejecting(outcomes, outcome) ==
    {rule \in DOMAIN outcomes : rule.reject /\ outcomes[rule] = outcome}

RulesVerdict(outcomes) ==
    IF Rejecting(outcomes, "fail") # {} THEN "bad"
    ELSE IF Rejecting(outcomes, "uncertain") # {} THEN "uncertain" ELSE "good"

\* Uncertain rules are reasons of an uncertain verdict only.
Reasons(outcomes) ==
    {rule.id : rule \in {r \in DOMAIN outcomes : outcomes[r] = "fail"}
                        \cup (IF Rejecting(outcomes, "fail") = {}
                              THEN Rejecting(outcomes, "uncertain") ELSE {})}

\* processor.py: the rejecting rules that the bootstrap does not vary hold.
GlobalRejectsGood(rules, signals) ==
    \A rule \in rules :
        rule.reject /\ rule.signal \notin {"hands", "idle"} =>
            Compare(signals[rule.signal], rule.operator, rule.threshold)
==============================================================================
