------------------------ MODULE ProgressJournalProofs ------------------------
(***************************************************************************)
(* The journal's file implements the ledger the runners read, for any      *)
(* items, statuses and number of writes.                                   *)
(*                                                                         *)
(* Everything read back is a fold of the legible records.  A step either   *)
(* makes one more record legible, when the file is whole and the record    *)
(* is not torn, or none: then the file cannot be read afterwards, and what *)
(* is legible of it stays.                                                 *)
(***************************************************************************)
EXTENDS ProgressJournal, SequenceTheorems, FiniteSetTheorems, TLAPS

Typed == file \in Seq(Write)

------------------------------------------------------------------------------
(* Bounded sets of naturals. *)

LEMMA MaxOfBounded ==
    ASSUME NEW S \in SUBSET Nat, S # {}, NEW n \in Nat, \A x \in S : x <= n
    PROVE  Max(S) \in S /\ \A x \in S : x <= Max(S)
<1> DEFINE U == {m \in Nat : \A x \in S : x <= m}
<1>1. PICK b \in U : \A m \in U : ~(m < b)
  <2>1. n \in U /\ U \subseteq Nat
    OBVIOUS
  <2>2. IsWellFoundedOn(OpToRel(<, Nat), Nat)
    BY NatLessThanWellFounded
  <2>3. PICK b \in U : \A m \in U : ~(<<m, b>> \in OpToRel(<, Nat))
    BY <2>1, <2>2, WFMin
  <2> QED
    BY <2>1, <2>3 DEF OpToRel
<1>2. b \in S
  <2>1. SUFFICES ASSUME b \notin S PROVE FALSE
    OBVIOUS
  <2>2. \A x \in S : x \in Nat /\ x < b
    BY <1>1, <2>1
  <2>3. b - 1 \in Nat
    <3>1. PICK x \in S : TRUE
      OBVIOUS
    <3>2. x \in Nat /\ b \in Nat /\ x < b
      BY <2>2, <3>1
    <3> QED
      BY <3>2
  <2>4. \A x \in S : x <= b - 1
    BY <2>2, <2>3
  <2>5. b - 1 \in U
    BY <2>3, <2>4
  <2> QED
    BY <1>1, <2>5
<1>3. \E x \in S : \A y \in S : x >= y
  BY <1>1, <1>2
<1> QED
  BY <1>3 DEF Max

LEMMA MaxIs ==
    ASSUME NEW S \in SUBSET Nat, NEW m \in Nat, m \in S, \A x \in S : x <= m
    PROVE  Max(S) = m
<1>1. Max(S) \in S /\ \A x \in S : x <= Max(S)
  BY MaxOfBounded
<1>2. Max(S) \in Nat /\ Max(S) <= m /\ m <= Max(S)
  BY <1>1
<1> QED
  BY <1>2

------------------------------------------------------------------------------
(* How far a file can be read. *)

LEMMA LegibleLenBounds ==
    ASSUME NEW f \in Seq(Write)
    PROVE  /\ LegibleLen(f) \in 0..Len(f)
           /\ LegibleTo(f, LegibleLen(f))
           /\ \A n \in 0..Len(f) : LegibleTo(f, n) => n <= LegibleLen(f)
<1> DEFINE S == {n \in 0..Len(f) : LegibleTo(f, n)}
<1>1. Len(f) \in Nat
  OBVIOUS
<1>2. 0 \in S
  BY <1>1 DEF LegibleTo
<1>3. S \in SUBSET Nat /\ S # {} /\ \A x \in S : x <= Len(f)
  BY <1>1, <1>2
<1>4. LegibleLen(f) = Max(S)
  BY DEF LegibleLen
<1> HIDE DEF S
<1>5. LegibleLen(f) \in S /\ \A x \in S : x <= LegibleLen(f)
  BY <1>1, <1>3, <1>4, MaxOfBounded
<1> QED
  BY <1>5 DEF S

\* The file is read to its end, or spoiled somewhere.
ReadableFile(f) == \A n \in 1..Len(f) : Valid(f, n)

LEMMA ReadableToEnd ==
    ASSUME NEW f \in Seq(Write)
    PROVE  ReadableFile(f) <=> LegibleTo(f, Len(f))
<1>1. Len(f) \in Nat
  OBVIOUS
<1>2. ASSUME ReadableFile(f) PROVE LegibleTo(f, Len(f))
  <2>1. \A n \in 1..Len(f) : f[n].end # "torn"
    BY <1>2 DEF ReadableFile, Valid
  <2>2. ASSUME NEW m \in 1..(Len(f) - 1) PROVE f[m].end = "newline"
    <3>1. m \in 1..Len(f) /\ m < Len(f) /\ m + 1 > 1 /\ (m + 1) - 1 = m
      BY <1>1
    <3> QED
      BY <1>2, <3>1 DEF ReadableFile, Valid, Glued
  <2> QED
    BY <1>1, <2>1, <2>2 DEF LegibleTo
<1>3. ASSUME LegibleTo(f, Len(f)) PROVE ReadableFile(f)
  <2>1. SUFFICES ASSUME NEW n \in 1..Len(f) PROVE Valid(f, n)
    BY DEF ReadableFile
  <2>2. /\ \A m \in 1..(Len(f) - 1) : f[m].end = "newline"
        /\ f[Len(f)].end # "torn"
    BY <1>1, <1>3, <2>1 DEF LegibleTo
  <2>3. n = Len(f) \/ n \in 1..(Len(f) - 1)
    BY <1>1
  <2>4. ~Glued(f, n)
    BY <1>1, <2>2 DEF Glued
  <2>5. n < Len(f) => ~Glued(f, n + 1)
    BY <1>1, <2>2 DEF Glued
  <2> QED
    BY <2>2, <2>3, <2>4, <2>5 DEF Valid
<1> QED
  BY <1>2, <1>3

LEMMA ReadableLegible ==
    ASSUME NEW f \in Seq(Write), ReadableFile(f)
    PROVE  LegibleLen(f) = Len(f)
<1>1. Len(f) \in 0..Len(f)
  OBVIOUS
<1> QED
  BY <1>1, LegibleLenBounds, ReadableToEnd

\* The next record starts a line of a file that can be read.
WholeFile(f) == ReadableFile(f) /\ ~OpenLine(f)

LEMMA LegiblePrefix ==
    ASSUME NEW f \in Seq(Write)
    PROVE  /\ SubSeq(f, 1, LegibleLen(f)) \in Seq(Write)
           /\ Len(SubSeq(f, 1, LegibleLen(f))) = LegibleLen(f)
           /\ \A n \in 1..LegibleLen(f) : SubSeq(f, 1, LegibleLen(f))[n] = f[n]
<1>1. LegibleLen(f) \in 0..Len(f) /\ Len(f) \in Nat
  BY LegibleLenBounds
<1>2. \A n \in 1..LegibleLen(f) : f[n] \in Write
  BY <1>1
<1> QED
  BY <1>1, <1>2, SubSeqProperties

------------------------------------------------------------------------------
(* One more write. *)

LEMMA LegibleOfAppend ==
    ASSUME NEW f \in Seq(Write), NEW r \in Write, NEW g, g = Append(f, r)
    PROVE  /\ g \in Seq(Write) /\ Len(g) = Len(f) + 1
           /\ \A n \in 1..Len(f) : g[n] = f[n]
           /\ g[Len(f) + 1] = r
           /\ \A n \in 0..Len(f) : LegibleTo(g, n) <=> LegibleTo(f, n)
           /\ LegibleTo(g, Len(f) + 1) <=> WholeFile(f) /\ r.end # "torn"
<1>1. /\ g \in Seq(Write) /\ Len(g) = Len(f) + 1 /\ Len(f) \in Nat
      /\ \A n \in 1..Len(f) : g[n] = f[n]
      /\ g[Len(f) + 1] = r
  BY AppendProperties
<1>2. \A n \in 0..Len(f) : LegibleTo(g, n) <=> LegibleTo(f, n)
  BY <1>1 DEF LegibleTo
<1>3. ASSUME LegibleTo(g, Len(f) + 1) PROVE WholeFile(f) /\ r.end # "torn"
  <2>1. \A m \in 1..Len(f) : f[m].end = "newline"
    BY <1>1, <1>3 DEF LegibleTo
  <2>2. r.end # "torn"
    BY <1>1, <1>3 DEF LegibleTo
  <2>3. LegibleTo(f, Len(f))
    BY <1>1, <2>1 DEF LegibleTo
  <2>4. ~OpenLine(f)
    BY <1>1, <2>1 DEF OpenLine
  <2> QED
    BY <2>2, <2>3, <2>4, ReadableToEnd DEF WholeFile
<1>4. ASSUME WholeFile(f), r.end # "torn" PROVE LegibleTo(g, Len(f) + 1)
  <2>1. LegibleTo(f, Len(f)) /\ (Len(f) > 0 => f[Len(f)].end = "newline")
    BY <1>1, <1>4, ReadableToEnd DEF WholeFile, OpenLine
  <2>2. \A m \in 1..Len(f) : f[m].end = "newline"
    BY <1>1, <2>1 DEF LegibleTo
  <2> QED
    BY <1>1, <1>4, <2>2 DEF LegibleTo
<1> QED
  BY <1>1, <1>2, <1>3, <1>4

\* A record on a line of its own is legible, and so is everything before it.
LEMMA LegibleGrows ==
    ASSUME NEW f \in Seq(Write), NEW r \in Write, NEW g, g = Append(f, r),
           WholeFile(f), r.end # "torn"
    PROVE  /\ LegibleLen(f) = Len(f) /\ LegibleLen(g) = Len(f) + 1
           /\ ReadableFile(g)
           /\ OpenLine(g) <=> r.end # "newline"
<1>1. /\ g \in Seq(Write) /\ Len(g) = Len(f) + 1 /\ Len(f) \in Nat
      /\ g[Len(f) + 1] = r
      /\ LegibleTo(g, Len(g))
  <2>1. /\ g \in Seq(Write) /\ Len(g) = Len(f) + 1
        /\ g[Len(f) + 1] = r
        /\ LegibleTo(g, Len(f) + 1)
    BY LegibleOfAppend, Zenon
  <2> QED
    BY <2>1
<1>2. ReadableFile(g)
  BY <1>1, ReadableToEnd
<1>3. LegibleLen(f) = Len(f) /\ LegibleLen(g) = Len(f) + 1
  BY <1>1, <1>2, ReadableLegible DEF WholeFile
<1>4. g # <<>> /\ g[Len(g)].end = r.end
  BY <1>1
<1> QED
  BY <1>2, <1>3, <1>4 DEF OpenLine

\* Any other leaves what is legible as it was, in a file that cannot be read.
LEMMA LegibleStays ==
    ASSUME NEW f \in Seq(Write), NEW r \in Write, NEW g, g = Append(f, r),
           ~(WholeFile(f) /\ r.end # "torn")
    PROVE  ~ReadableFile(g) /\ SubSeq(g, 1, LegibleLen(g)) = SubSeq(f, 1, LegibleLen(f))
<1>1. /\ g \in Seq(Write) /\ Len(g) = Len(f) + 1 /\ Len(f) \in Nat
      /\ \A n \in 1..Len(f) : g[n] = f[n]
      /\ \A n \in 0..Len(f) : LegibleTo(g, n) <=> LegibleTo(f, n)
      /\ ~LegibleTo(g, Len(f) + 1)
  <2>1. /\ g \in Seq(Write) /\ Len(g) = Len(f) + 1
        /\ \A n \in 1..Len(f) : g[n] = f[n]
    BY AppendProperties
  <2>2. \A n \in 0..Len(f) : LegibleTo(g, n) <=> LegibleTo(f, n)
    BY LegibleOfAppend, Zenon
  <2>3. LegibleTo(g, Len(f) + 1) <=> WholeFile(f) /\ r.end # "torn"
    BY LegibleOfAppend, Zenon
  <2> QED
    BY <2>1, <2>2, <2>3
<1>2. ~ReadableFile(g)
  BY <1>1, ReadableToEnd
<1>3. LegibleLen(g) = LegibleLen(f)
  <2>1. /\ LegibleLen(f) \in 0..Len(f) /\ LegibleTo(f, LegibleLen(f))
        /\ \A n \in 0..Len(f) : LegibleTo(f, n) => n <= LegibleLen(f)
    BY LegibleLenBounds
  <2>2. /\ LegibleLen(g) \in 0..Len(g) /\ LegibleTo(g, LegibleLen(g))
        /\ \A n \in 0..Len(g) : LegibleTo(g, n) => n <= LegibleLen(g)
    BY <1>1, LegibleLenBounds
  <2>3. LegibleLen(g) # Len(f) + 1
    BY <1>1, <2>2
  <2>4. LegibleLen(g) \in 0..Len(f) /\ LegibleLen(f) \in 0..Len(g)
    BY <1>1, <2>1, <2>2, <2>3
  <2>5. LegibleLen(g) <= LegibleLen(f) /\ LegibleLen(f) <= LegibleLen(g)
    BY <1>1, <2>1, <2>2, <2>4
  <2> QED
    BY <2>4, <2>5
<1>4. LegibleLen(f) \in 0..Len(f)
  BY LegibleLenBounds
<1> DEFINE s == SubSeq(f, 1, LegibleLen(f))
           t == SubSeq(g, 1, LegibleLen(g))
<1>5. /\ s \in Seq(Write) /\ t \in Seq(Write)
      /\ Len(t) = Len(s)
      /\ \A n \in 1..Len(s) : s[n] = t[n]
  BY <1>1, <1>3, <1>4, LegiblePrefix
<1> HIDE DEF s, t
<1>6. s = t
  BY <1>5, SeqEqual
<1> QED
  BY <1>2, <1>6 DEF s, t

------------------------------------------------------------------------------
(* What is read back. *)

LEMMA StepTyped ==
    ASSUME Typed, [Next]_vars
    PROVE  Typed'
<1>1. ASSUME NEW i \in Items, NEW s \in Statuses, NEW d \in Details \cup {NoDetail},
             NEW end \in Endings, AppendRecord(i, s, d, end)
      PROVE  Typed'
  <2>1. [item |-> i, status |-> s, detail |-> d, end |-> end] \in Write
    BY DEF Write
  <2> QED
    BY <1>1, <2>1, AppendProperties DEF AppendRecord, Typed
<1> QED
  BY <1>1 DEF Next, vars, Typed

LEMMA TypedHolds == Spec => []Typed
<1>1. Init => Typed
  BY DEF Init, Typed
<1> QED
  BY <1>1, StepTyped, PTL DEF Spec

LEMMA ReadableIs == Readable <=> ReadableFile(file)
  BY DEF Readable, ReadableFile

\* What a legible record adds to the item's events.
LEMMA EventsGrow ==
    ASSUME Typed, NEW r \in Write, file' = Append(file, r), WholeFile(file),
           r.end # "torn"
    PROVE  /\ Len(file) \in Nat /\ Len(Legible) = Len(file)
           /\ Legible'[Len(file) + 1] = r
           /\ \A n \in 1..Len(file) : Legible'[n] = Legible[n]
           /\ \A i : EventsOf(i) \subseteq 1..Len(file)
           /\ \A i : EventsOf(i)' = IF i = r.item THEN EventsOf(i) \cup {Len(file) + 1}
                                    ELSE EventsOf(i)
<1>1. /\ file \in Seq(Write) /\ file' \in Seq(Write) /\ Len(file) \in Nat
      /\ \A n \in 1..Len(file) : file'[n] = file[n]
      /\ file'[Len(file) + 1] = r
      /\ LegibleLen(file) = Len(file) /\ LegibleLen(file') = Len(file) + 1
  <2>1. PICK f \in Seq(Write) : f = file
    BY DEF Typed
  <2>2. PICK g : g = file'
    OBVIOUS
  <2>3. g = Append(f, r) /\ WholeFile(f)
    BY <2>1, <2>2
  <2>4. /\ g \in Seq(Write)
        /\ \A n \in 1..Len(f) : g[n] = f[n]
        /\ g[Len(f) + 1] = r
    BY <2>3, AppendProperties
  <2>5. LegibleLen(f) = Len(f) /\ LegibleLen(g) = Len(f) + 1
    BY <2>3, LegibleGrows, Zenon
  <2> QED
    BY <2>1, <2>2, <2>4, <2>5
<1>2. /\ Len(Legible) = Len(file)
      /\ \A n \in 1..Len(file) : Legible[n] = file[n]
  BY <1>1, LegiblePrefix DEF Legible
<1>3. /\ Len(Legible') = Len(file) + 1
      /\ \A n \in 1..(Len(file) + 1) : Legible'[n] = file'[n]
  BY <1>1, LegiblePrefix DEF Legible
<1>4. /\ Legible'[Len(file) + 1] = r
      /\ \A n \in 1..Len(file) : Legible'[n] = Legible[n]
  BY <1>1, <1>2, <1>3
<1>5. 1..(Len(file) + 1) = (1..Len(file)) \cup {Len(file) + 1}
  BY <1>1
<1>6. ASSUME NEW i
      PROVE  EventsOf(i)' = IF i = r.item THEN EventsOf(i) \cup {Len(file) + 1}
                            ELSE EventsOf(i)
  BY <1>1, <1>2, <1>3, <1>4, <1>5 DEF EventsOf
<1>7. \A i : EventsOf(i) \subseteq 1..Len(file)
  BY <1>2 DEF EventsOf
<1> QED
  BY <1>1, <1>2, <1>4, <1>6, <1>7

\* The latest event of an item, and its "attempting" events.
LatestOf(i) ==
    IF EventsOf(i) = {}
      THEN [status |-> "none", detail |-> NoDetail]
      ELSE [status |-> Legible[Max(EventsOf(i))].status,
            detail |-> Legible[Max(EventsOf(i))].detail]

AttemptsOf(i) == {n \in EventsOf(i) : Legible[n].status = "attempting"}

LEMMA FoldsAre ==
    /\ LatestEvents = [i \in Items |-> LatestOf(i)]
    /\ AttemptCounts = [i \in Items |-> Cardinality(AttemptsOf(i))]
  BY DEF LatestEvents, LatestOf, AttemptCounts, AttemptsOf

LEMMA LatestGrows ==
    ASSUME Typed, NEW r \in Write, file' = Append(file, r), WholeFile(file),
           r.end # "torn", NEW j
    PROVE  LatestOf(j)' = IF j = r.item THEN [status |-> r.status, detail |-> r.detail]
                          ELSE LatestOf(j)
<1>1. /\ Len(file) \in Nat
      /\ Legible'[Len(file) + 1] = r
      /\ \A n \in 1..Len(file) : Legible'[n] = Legible[n]
      /\ EventsOf(j) \subseteq 1..Len(file)
      /\ EventsOf(j)' = IF j = r.item THEN EventsOf(j) \cup {Len(file) + 1}
                        ELSE EventsOf(j)
  BY EventsGrow
<1>2. CASE j = r.item
  <2>1. EventsOf(j)' = EventsOf(j) \cup {Len(file) + 1}
    BY <1>1, <1>2
  <2>2. Max(EventsOf(j)') = Len(file) + 1
    <3>1. PICK S : S = EventsOf(j)'
      OBVIOUS
    <3>2. /\ S \in SUBSET Nat /\ Len(file) + 1 \in Nat /\ Len(file) + 1 \in S
          /\ \A x \in S : x <= Len(file) + 1
      BY <1>1, <2>1, <3>1
    <3> QED
      BY <3>1, <3>2, MaxIs
  <2> QED
    BY <1>1, <1>2, <2>1, <2>2 DEF LatestOf
<1>3. CASE j # r.item
  <2>1. EventsOf(j)' = EventsOf(j)
    BY <1>1, <1>3
  <2>2. ASSUME EventsOf(j) # {} PROVE Max(EventsOf(j)) \in 1..Len(file)
    <3>1. PICK S : S = EventsOf(j)
      OBVIOUS
    <3>2. S \in SUBSET Nat /\ S # {} /\ \A x \in S : x <= Len(file)
      BY <1>1, <2>2, <3>1
    <3>3. Max(S) \in S
      BY <1>1, <3>2, MaxOfBounded
    <3> QED
      BY <1>1, <3>1, <3>3
  <2> QED
    BY <1>1, <1>3, <2>1, <2>2 DEF LatestOf
<1> QED
  BY <1>2, <1>3

LEMMA AttemptsGrow ==
    ASSUME Typed, NEW r \in Write, file' = Append(file, r), WholeFile(file),
           r.end # "torn", NEW j
    PROVE  Cardinality(AttemptsOf(j))' =
               IF j = r.item /\ r.status = "attempting" THEN Cardinality(AttemptsOf(j)) + 1
               ELSE Cardinality(AttemptsOf(j))
<1>1. /\ Len(file) \in Nat
      /\ Legible'[Len(file) + 1] = r
      /\ \A n \in 1..Len(file) : Legible'[n] = Legible[n]
      /\ EventsOf(j) \subseteq 1..Len(file)
      /\ EventsOf(j)' = IF j = r.item THEN EventsOf(j) \cup {Len(file) + 1}
                        ELSE EventsOf(j)
  BY EventsGrow
<1>2. AttemptsOf(j)' = {n \in EventsOf(j)' : Legible'[n].status = "attempting"}
  BY DEF AttemptsOf
<1>3. AttemptsOf(j) \subseteq 1..Len(file)
  BY <1>1 DEF AttemptsOf
<1>4. CASE j = r.item /\ r.status = "attempting"
  <2>1. AttemptsOf(j)' = AttemptsOf(j) \cup {Len(file) + 1}
    BY <1>1, <1>2, <1>4 DEF AttemptsOf
  <2>2. IsFiniteSet(AttemptsOf(j)) /\ Len(file) + 1 \notin AttemptsOf(j)
    <3>1. PICK S, n : S = AttemptsOf(j) /\ n = Len(file)
      OBVIOUS
    <3>2. n \in Nat /\ S \subseteq 1..n
      BY <1>1, <1>3, <3>1
    <3>3. IsFiniteSet(1..n)
      BY <3>2, FS_Interval
    <3>4. IsFiniteSet(S)
      BY <3>2, <3>3, FS_Subset
    <3> QED
      BY <3>1, <3>2, <3>4
  <2>3. Cardinality(AttemptsOf(j) \cup {Len(file) + 1}) = Cardinality(AttemptsOf(j)) + 1
    BY <2>2, FS_AddElement
  <2> QED
    BY <1>4, <2>1, <2>3
<1>5. CASE ~(j = r.item /\ r.status = "attempting")
  <2>1. AttemptsOf(j)' = AttemptsOf(j)
    BY <1>1, <1>2, <1>5 DEF AttemptsOf
  <2> QED
    BY <1>5, <2>1
<1> QED
  BY <1>4, <1>5

LEMMA StepImplements ==
    ASSUME Typed, [Next]_vars
    PROVE  [Remembered!Next]_(Remembered!vars)
<1>1. ASSUME NEW i \in Items, NEW s \in Statuses, NEW d \in Details \cup {NoDetail},
             NEW end \in Endings, AppendRecord(i, s, d, end)
      PROVE  Remembered!Record(i, s, d, end)
  <2> DEFINE r == [item |-> i, status |-> s, detail |-> d, end |-> end]
  <2>1. r \in Write /\ r.item = i /\ r.status = s /\ r.detail = d /\ r.end = end
    BY DEF Write
  <2>2. file' = Append(file, r)
    BY <1>1 DEF AppendRecord
  <2> HIDE DEF r
  <2>3. FileHealth = "whole" <=> WholeFile(file)
    BY ReadableIs DEF FileHealth, WholeFile
  <2>4. CASE WholeFile(file) /\ end # "torn"
    <3>1. LatestEvents' = [LatestEvents EXCEPT ![i] = [status |-> s, detail |-> d]]
      <4>1. \A j \in Items : LatestOf(j)' = IF j = i THEN [status |-> s, detail |-> d]
                                            ELSE LatestOf(j)
        BY <2>1, <2>2, <2>4, LatestGrows
      <4>2. LatestEvents' = [j \in Items |-> LatestOf(j)']
        BY DEF LatestEvents, LatestOf
      <4> QED
        BY <4>1, <4>2, FoldsAre
    <3>2. AttemptCounts' =
              [AttemptCounts EXCEPT ![i] = IF s = "attempting" THEN @ + 1 ELSE @]
      <4>1. \A j \in Items :
                Cardinality(AttemptsOf(j))' =
                    IF j = i /\ s = "attempting" THEN Cardinality(AttemptsOf(j)) + 1
                    ELSE Cardinality(AttemptsOf(j))
        BY <2>1, <2>2, <2>4, AttemptsGrow
      <4>2. AttemptCounts' = [j \in Items |-> Cardinality(AttemptsOf(j))']
        BY DEF AttemptCounts, AttemptsOf
      <4> QED
        BY <4>1, <4>2, FoldsAre
    <3>3. FileHealth' = IF end = "newline" THEN "whole" ELSE "bare"
      <4>1. PICK f \in Seq(Write) : f = file
        BY DEF Typed
      <4>2. PICK g : g = file'
        OBVIOUS
      <4>3. ReadableFile(g) /\ (OpenLine(g) <=> end # "newline")
        BY <2>1, <2>2, <2>4, <4>1, <4>2, LegibleGrows
      <4>4. Readable' <=> ReadableFile(g)
        BY <4>2 DEF Readable, ReadableFile
      <4> QED
        BY <4>2, <4>3, <4>4 DEF FileHealth
    <3> QED
      BY <2>3, <2>4, <3>1, <3>2, <3>3 DEF Remembered!Record, Remembered!Recorded
  <2>5. CASE ~(WholeFile(file) /\ end # "torn")
    <3>1. PICK f \in Seq(Write) : f = file
      BY DEF Typed
    <3>2. PICK g : g = file'
      OBVIOUS
    <3>3. ~ReadableFile(g) /\ SubSeq(g, 1, LegibleLen(g)) = SubSeq(f, 1, LegibleLen(f))
      BY <2>1, <2>2, <2>5, <3>1, <3>2, LegibleStays
    <3>4. ~Readable' /\ Legible' = Legible
      BY <3>1, <3>2, <3>3 DEF Legible, Readable, ReadableFile
    <3>5. \A j : EventsOf(j)' = EventsOf(j)
      BY <3>4 DEF EventsOf
    <3>6. LatestEvents' = LatestEvents /\ AttemptCounts' = AttemptCounts
      BY <3>4, <3>5 DEF LatestEvents, AttemptCounts
    <3>7. FileHealth' = "broken"
      BY <3>4 DEF FileHealth
    <3> QED
      BY <2>3, <2>5, <3>6, <3>7 DEF Remembered!Record
  <2> QED
    BY <2>4, <2>5
<1>2. Endings = Remembered!Endings
  BY DEF Endings, Remembered!Endings
<1>3. Next => Remembered!Next
  BY <1>1, <1>2 DEF Next, Remembered!Next
<1>4. ASSUME UNCHANGED vars PROVE UNCHANGED Remembered!vars
  <2>1. Legible' = Legible /\ (Readable' <=> Readable) /\ (OpenLine(file)' <=> OpenLine(file))
    BY <1>4 DEF vars, Legible, Readable, OpenLine
  <2>2. \A j : EventsOf(j)' = EventsOf(j)
    BY <2>1 DEF EventsOf
  <2>3. LatestEvents' = LatestEvents /\ AttemptCounts' = AttemptCounts
    BY <2>1, <2>2 DEF LatestEvents, AttemptCounts
  <2>4. FileHealth' = FileHealth
    BY <2>1 DEF FileHealth
  <2> QED
    BY <2>3, <2>4 DEF Remembered!vars
<1> QED
  BY <1>3, <1>4

LEMMA InitImplements == Init => Remembered!Init
<1> SUFFICES ASSUME Init PROVE Remembered!Init
  OBVIOUS
<1>1. file = <<>> /\ file \in Seq(Write) /\ Len(file) = 0
  BY DEF Init
<1>2. LegibleLen(file) = 0
  <2>1. PICK f \in Seq(Write) : f = file
    BY <1>1
  <2>2. LegibleLen(f) \in 0..Len(f)
    BY LegibleLenBounds
  <2> QED
    BY <1>1, <2>1, <2>2
<1>3. Len(Legible) = 0
  BY <1>1, <1>2, LegiblePrefix DEF Legible
<1>4. \A i : EventsOf(i) = {}
  BY <1>3 DEF EventsOf
<1>5. LatestEvents = [i \in Items |-> Remembered!NoEvent]
  BY <1>4 DEF LatestEvents, Remembered!NoEvent
<1>6. AttemptCounts = [i \in Items |-> 0]
  <2>1. \A i \in Items : AttemptsOf(i) = {}
    BY <1>4 DEF AttemptsOf
  <2> QED
    BY <2>1, FoldsAre, FS_EmptySet
<1>7. FileHealth = "whole"
  BY <1>1 DEF FileHealth, Readable, OpenLine
<1> QED
  BY <1>5, <1>6, <1>7 DEF Remembered!Init

\* events(), latest() and attempts() of the whole file give what a ledger updated
\* record by record holds, with any number of torn and glued records in the file.
THEOREM LedgerImplemented == Spec => ImplementsLedger
<1>1. Typed /\ [Next]_vars => [Remembered!Next]_(Remembered!vars)
  BY StepImplements
<1> QED
  BY <1>1, InitImplements, TypedHolds, PTL DEF Spec, ImplementsLedger, Remembered!Spec

\* No append repairs a journal that events() cannot read.
THEOREM UnreadableStays == Spec => UnreadableForever
<1>1. ASSUME Typed, [Next]_vars PROVE [~Readable => ~Readable']_vars
  <2>1. ASSUME NEW i \in Items, NEW s \in Statuses, NEW d \in Details \cup {NoDetail},
               NEW end \in Endings, AppendRecord(i, s, d, end), ~Readable
        PROVE  ~Readable'
    <3>1. PICK r \in Write : file' = Append(file, r)
      BY <2>1 DEF AppendRecord, Write
    <3>2. PICK f \in Seq(Write) : f = file
      BY <1>1 DEF Typed
    <3>3. PICK g : g = file'
      OBVIOUS
    <3>4. ~WholeFile(f)
      BY <2>1, <3>2, ReadableIs DEF WholeFile
    <3>5. ~ReadableFile(g)
      BY <3>1, <3>2, <3>3, <3>4, LegibleStays
    <3> QED
      BY <3>3, <3>5 DEF Readable, ReadableFile
  <2> QED
    BY <1>1, <2>1 DEF Next
<1> QED
  BY <1>1, TypedHolds, PTL DEF Spec, UnreadableForever
==============================================================================
