--------------------------- MODULE ProgressJournal ---------------------------
(***************************************************************************)
(* qc_pipeline/journal.py: the append-only file progress.jsonl.            *)
(*                                                                         *)
(* append() issues one os.write of one JSON line and fsyncs it.  It does   *)
(* not look at how many bytes os.write took, so a full disk or a power     *)
(* failure leaves a prefix of the record behind; the record appended next  *)
(* then continues the same line.  events() raises on the first line that   *)
(* is not JSON, which makes latest(), attempts() and summary() raise too.  *)
(*                                                                         *)
(* The lock held in append() and O_APPEND make each write one step.        *)
(***************************************************************************)
EXTENDS Naturals, SequencesExt

CONSTANTS Items, Statuses, Details, NoDetail,
          MaxWrites   \* bound on the length of the file

VARIABLE file         \* the writes that reached the file, oldest first

vars == <<file>>

Endings == {"newline", "bare", "torn"}

Write == [item : Items, status : Statuses, detail : Details \cup {NoDetail},
          end : Endings]

TypeOK == file \in Seq(Write) /\ Len(file) <= MaxWrites

Init == file = <<>>

\* append(item_id, status, ...): nothing in it reads the end of the file first.
OpenLine(f) == f # <<>> /\ f[Len(f)].end # "newline"

AppendOverOpenLine(i, s, d, end) ==
    /\ Len(file) < MaxWrites
    /\ file' = Append(IF OpenLine(file) THEN Front(file) ELSE file,
                      [item |-> i, status |-> s, detail |-> d, end |-> end])

AppendAgainAfterShortWrite(i, s, d, end) ==
    /\ Len(file) < MaxWrites
    /\ LET record == [item |-> i, status |-> s, detail |-> d, end |-> end]
       IN file' = file \o (IF end = "torn" THEN <<record, record>> ELSE <<record>>)

AppendRecord(i, s, d, end) ==
    /\ Len(file) < MaxWrites
    /\ file' = Append(file, [item |-> i, status |-> s, detail |-> d, end |-> end])

Next == \E i \in Items, s \in Statuses, d \in Details \cup {NoDetail}, end \in Endings :
            AppendRecord(i, s, d, end)

Spec == Init /\ [][Next]_vars

------------------------------------------------------------------------------
(* Reading the file back: events(), latest(), attempts(). *)

\* Line n of the file is the write n and everything glued to it.
Glued(f, n) == n > 1 /\ f[n - 1].end # "newline"

Valid(f, n) ==
    /\ f[n].end # "torn"
    /\ ~Glued(f, n)
    /\ n < Len(f) => ~Glued(f, n + 1)

\* events() returns, rather than raises.
Readable == \A n \in 1..Len(file) : Valid(file, n)

\* The records before the first one that spoils a line: those events() parsed
\* on the last day the file was readable.
LegibleTo(f, n) ==
    /\ \A m \in 1..(n - 1) : f[m].end = "newline"
    /\ n > 0 => f[n].end # "torn"

LegibleLen(f) == Max({n \in 0..Len(f) : LegibleTo(f, n)})

Legible == SubSeq(file, 1, LegibleLen(file))

EventsOf(i) == {n \in 1..Len(Legible) : Legible[n].item = i}

\* latest(): a later event of an item replaces the earlier one.
FirstEvents ==
    [i \in Items |->
        IF EventsOf(i) = {}
          THEN [status |-> "none", detail |-> NoDetail]
          ELSE LET e == Legible[Min(EventsOf(i))]
               IN [status |-> e.status, detail |-> e.detail]]

LatestEvents ==
    [i \in Items |->
        IF EventsOf(i) = {}
          THEN [status |-> "none", detail |-> NoDetail]
          ELSE LET e == Legible[Max(EventsOf(i))]
               IN [status |-> e.status, detail |-> e.detail]]

\* attempts(): a counter over the "attempting" events.
AttemptCounts ==
    [i \in Items |->
        Cardinality({n \in EventsOf(i) : Legible[n].status = "attempting"})]

FileHealth ==
    IF ~Readable THEN "broken"
    ELSE IF OpenLine(file) THEN "bare" ELSE "whole"

------------------------------------------------------------------------------
(* Properties. *)

\* A journal that cannot be read stays so: no later append repairs it, and every
\* later run of the directory fails in latest().
UnreadableForever == [][~Readable => ~Readable']_vars

\* Folding the file gives what a ledger updated record by record would hold:
\* re-reading from the start agrees with remembering.
Remembered == INSTANCE Ledger WITH latest <- LatestEvents,
                                   attempts <- AttemptCounts,
                                   health <- FileHealth

ImplementsLedger == Remembered!Spec
==============================================================================
