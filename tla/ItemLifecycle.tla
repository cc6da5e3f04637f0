---------------------------- MODULE ItemLifecycle ----------------------------
(***************************************************************************)
(* The life of the items of one R2 batch as its operator sees it: RUNBOOK, *)
(* "attempting -> API processing -> result_uploaded -> freed", with        *)
(* conflict and quarantined as the other two ways to end.                  *)
(*                                                                         *)
(* An item is published at most once, is released only after it was        *)
(* published, and does not leave an end state, but for a release that is   *)
(* retracted because its record could not be brought to the disk.          *)
(***************************************************************************)

CONSTANTS Items, Contents, Absent

VARIABLES status,      \* status[i]: the journaled status of item i
          published    \* published[i]: the result object of item i

vars == <<status, published>>

Terminal == {"freed", "conflict", "quarantined"}

Init ==
    /\ status = [i \in Items |-> "none"]
    /\ published \in [Items -> Contents \cup {Absent}]

Become(i, s) ==
    /\ status' = [status EXCEPT ![i] = s]
    /\ UNCHANGED published

Attempt(i) == status[i] \notin Terminal /\ Become(i, "attempting")

Publish(i) ==
    /\ published[i] = Absent
    /\ published'[i] \in Contents
    /\ published' = [published EXCEPT ![i] = published'[i]]
    /\ UNCHANGED status

Confirm(i) ==
    /\ status[i] = "attempting"
    /\ published[i] # Absent
    /\ Become(i, "result_uploaded")

Free(i) == status[i] = "result_uploaded" /\ Become(i, "freed")

Fail(i, s) == status[i] \in {"attempting", "result_uploaded"} /\ Become(i, s)

Retract(i, s) == status[i] = "freed" /\ published[i] # Absent /\ Become(i, s)

Next == \E i \in Items :
    \/ Attempt(i)
    \/ Publish(i)
    \/ Confirm(i)
    \/ Free(i)
    \/ \E s \in {"failed-retryable", "conflict", "quarantined"} : Fail(i, s)
    \/ \E s \in {"failed-retryable", "quarantined"} : Retract(i, s)

Spec == Init /\ [][Next]_vars
==============================================================================
