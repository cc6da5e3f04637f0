-------------------------------- MODULE Ledger --------------------------------
(***************************************************************************)
(* What a run reads out of progress.jsonl: the latest event of every item, *)
(* how often it was attempted, and whether the file can be read at all.    *)
(* ProgressJournal keeps the file itself and implements this module, so    *)
(* the runners that only ever ask for latest() and attempts() use it.      *)
(***************************************************************************)
EXTENDS Naturals

CONSTANTS Items, Statuses, Details, NoDetail

VARIABLES latest,     \* latest[i]: the last legible event of item i
          attempts,   \* attempts[i]: its legible "attempting" events
          health      \* what the end of the file looks like

vars == <<latest, attempts, health>>

\* How much of a record reaches the file: all of it, all but the newline, or a
\* part that is not JSON.
Endings == {"newline", "bare", "torn"}

\* "whole": the next record starts a line.  "bare": every line is valid but the
\* next record is glued to the last one.  "broken": events() raises.
Health == {"whole", "bare", "broken"}

NoEvent == [status |-> "none", detail |-> NoDetail]

Event == [status : Statuses, detail : Details \cup {NoDetail}]

TypeOK ==
    /\ latest \in [Items -> Event \cup {NoEvent}]
    /\ attempts \in [Items -> Nat]
    /\ health \in Health

Init ==
    /\ latest = [i \in Items |-> NoEvent]
    /\ attempts = [i \in Items |-> 0]
    /\ health = "whole"

Readable == health # "broken"

StatusOf(i) == latest[i].status

\* The record is on a line of its own.
Recorded(i, s, d) ==
    /\ latest' = [latest EXCEPT ![i] = [status |-> s, detail |-> d]]
    /\ attempts' = [attempts EXCEPT ![i] = IF s = "attempting" THEN @ + 1 ELSE @]

Record(i, s, d, end) ==
    \/ /\ health = "whole"
       /\ end # "torn"
       /\ Recorded(i, s, d)
       /\ health' = IF end = "newline" THEN "whole" ELSE "bare"
    \/ /\ health # "whole" \/ end = "torn"
       /\ health' = "broken"
       /\ UNCHANGED <<latest, attempts>>

Next == \E i \in Items, s \in Statuses, d \in Details \cup {NoDetail}, end \in Endings :
            Record(i, s, d, end)

Spec == Init /\ [][Next]_vars
===============================================================================
