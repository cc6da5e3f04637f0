---------------------------- MODULE BatchDetector ----------------------------
(***************************************************************************)
(* What HandDetector.detect_batch promises each video that calls it        *)
(* (qc_pipeline/detector.py): one result for each of its own frames, in    *)
(* their order, or an exception.  Nobody sees who else shares the detector *)
(* or how the frames were batched.                                         *)
(***************************************************************************)
EXTENDS Naturals

CONSTANTS Callers, MaxFrames,
          Raised     \* the answer of a call that raised

VARIABLES asked,     \* asked[c]: the number of frames of the call c is in
          busy,      \* the callers inside a call
          answer     \* answer[c]: how the last call of c ended

vars == <<asked, busy, answer>>

Detections(c, n) == [k \in 1..n |-> <<c, k>>]

Init ==
    /\ asked = [c \in Callers |-> 0]
    /\ busy = {}
    /\ answer = [c \in Callers |-> <<>>]

Ask(c, n) ==
    /\ c \notin busy
    /\ busy' = busy \cup {c}
    /\ asked' = [asked EXCEPT ![c] = n]
    /\ UNCHANGED answer

Answer(c) ==
    /\ c \in busy
    /\ busy' = busy \ {c}
    /\ answer' = [answer EXCEPT ![c] = Detections(c, asked[c])]
    /\ UNCHANGED asked

Raise(c) ==
    /\ c \in busy
    /\ busy' = busy \ {c}
    /\ answer' = [answer EXCEPT ![c] = Raised]
    /\ UNCHANGED asked

Next == \E c \in Callers :
    \/ \E n \in 0..MaxFrames : Ask(c, n)
    \/ Answer(c)
    \/ Raise(c)

Spec == Init /\ [][Next]_vars
==============================================================================
