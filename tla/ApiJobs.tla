------------------------------- MODULE ApiJobs -------------------------------
(***************************************************************************)
(* What the API promises the client of a job (fgate/service.py): a job     *)
(* that was accepted is answered once, with one result for each of its     *)
(* videos, or fails; its progress counts up to them; a restart forgets     *)
(* every job.                                                              *)
(***************************************************************************)
EXTENDS Naturals, Sequences

CONSTANTS Jobs, MaxVideos, Results

VARIABLES phase,      \* phase[j]: "unknown", "working", "complete" or "error"
          total,      \* total[j]: total_videos
          progress,   \* progress[j]: completed_videos
          answer      \* answer[j]: the results report() returns

vars == <<phase, total, progress, answer>>

Init ==
    /\ phase = [j \in Jobs |-> "unknown"]
    /\ total = [j \in Jobs |-> 0]
    /\ progress = [j \in Jobs |-> 0]
    /\ answer = [j \in Jobs |-> <<>>]

Accept(j, n) ==
    /\ phase[j] = "unknown"
    /\ phase' = [phase EXCEPT ![j] = "working"]
    /\ total' = [total EXCEPT ![j] = n]
    /\ UNCHANGED <<progress, answer>>

Advance(j) ==
    /\ phase[j] = "working"
    /\ progress[j] < total[j]
    /\ progress' = [progress EXCEPT ![j] = @ + 1]
    /\ UNCHANGED <<phase, total, answer>>

Answer(j, results) ==
    /\ phase[j] = "working"
    /\ progress[j] = total[j]
    /\ Len(results) = total[j]
    /\ phase' = [phase EXCEPT ![j] = "complete"]
    /\ answer' = [answer EXCEPT ![j] = results]
    /\ UNCHANGED <<total, progress>>

Fail(j) ==
    /\ phase[j] = "working"
    /\ phase' = [phase EXCEPT ![j] = "error"]
    /\ UNCHANGED <<total, progress, answer>>

Forget ==
    /\ phase' = [j \in Jobs |-> "unknown"]
    /\ total' = [j \in Jobs |-> 0]
    /\ progress' = [j \in Jobs |-> 0]
    /\ answer' = [j \in Jobs |-> <<>>]

Next ==
    \/ \E j \in Jobs : Advance(j) \/ Fail(j) \/ \E n \in 1..MaxVideos : Accept(j, n)
    \/ \E j \in Jobs : \E n \in 1..MaxVideos : \E results \in [1..n -> Results] :
            Answer(j, results)
    \/ Forget

Spec == Init /\ [][Next]_vars
==============================================================================
