------------------------- MODULE RunControllerProofs -------------------------
(***************************************************************************)
(* Proofs about RunController, for any manifest, sizes, numbers of threads *)
(* and bounds.                                                             *)
(*                                                                         *)
(* What is staged and published is declared, because a download may only   *)
(* leave declared bytes behind; what is recorded is published, because of  *)
(* what a thread at each step has done before.  What is staged at a time   *)
(* is bounded because threads have items of the first cohort only, and     *)
(* every cohort is packed within the limit.                                *)
(***************************************************************************)
EXTENDS RunController, FiniteSetTheorems, SequenceTheorems, TLAPS

\* Types of everything but the cohorts and the bounds.
Typed ==
    /\ source \in [Items -> Copies]
    /\ evidence \in [Items -> Copies \cup {None}]
    /\ results \in [Items -> Results \cup {None}]
    /\ latest \in [Items -> Journal!Event \cup {Journal!NoEvent}]
    /\ attempts \in [Items -> Nat]
    /\ file \in [Items -> Copies \cup {None}]
    /\ partial \in [Items -> Copies \cup {None}]
    /\ task \in [Items -> Tasks]
    /\ lane \in [Lanes -> Items \cup {None}]
    /\ held \in [Lanes -> {"none", "primary", "own"}]
    /\ unclaimed \in BOOLEAN

\* The bytes of an item, wherever they are.
Bytewise(i) ==
    /\ file[i] \in {None, Declared}
    /\ partial[i] \in {None, Declared}
    /\ evidence[i] \in {None, Declared}
    /\ results[i] # None => results[i].of = Declared
    /\ task[i] = "replacing" => partial[i] = Declared
    /\ task[i] \in {"landed", "fetched", "claiming", "inferring", "evidence", "result",
                    "uploaded"} => file[i] = Declared

\* What the thread that has the item has published of it.
Published(i) ==
    /\ task[i] \in {"result", "uploaded", "clearing", "cleared"} => evidence[i] # None
    /\ task[i] = "uploaded" => results[i] = Product(i)
    /\ task[i] \in {"clearing", "cleared"} => Status(i) = "result_uploaded"
    /\ Status(i) \in {"result_uploaded", "freed"} =>
        /\ results[i] # None
        /\ results[i] = latest[i].detail
        /\ evidence[i] # None

ItemInv == \A i \in Items : Bytewise(i) /\ Published(i)

ReportInv == report # None => report = results /\ \A i \in Items : results[i] # None

DetectorInv ==
    /\ \A l, m \in Lanes : held[l] = "primary" /\ held[m] = "primary" => l = m
    /\ unclaimed => \A l \in Lanes : held[l] # "primary"
    /\ phase # "judging" =>
        /\ \A l \in Lanes : held[l] = "none"
        /\ \A i \in Items : task[i] \notin Judging

\* Threads have items in these phases, and of the first cohort.
AtWork == {"attempting", "downloading", "judging"}

\* Every cohort fits, those that are still to come too.
CohortInv ==
    /\ phase \in {"down", "packing", "cohort"} \cup AtWork
    /\ selected \in SUBSET Items
    /\ \A i \in selected : Size[i] <= MaxStaging
    /\ cohorts \in Seq(Seq(Items))
    /\ \A k \in DOMAIN cohorts : Bytes(ToSet(cohorts[k])) <= MaxStaging
    /\ phase \in AtWork => cohorts # <<>>
    /\ \A i \in Items : task[i] # "idle" => phase \in AtWork /\ i \in ToSet(Head(cohorts))

\* What a thread left of its item's file.
LeftInv ==
    /\ \A i \in Items : task[i] = "cleared" => file[i] = None
    /\ crashes = 0 =>
        \A i \in Items : file[i] # None /\ task[i] = "idle" =>
            Status(i) \in {"failed-retryable", "conflict", "quarantined"}

\* The report and the bounds of the model.
SpentInv ==
    /\ report \in [Items -> Results \cup {None}] \cup {None}
    /\ crashes \in 0..MaxCrashes
    /\ failures \in 0..MaxFailures
    /\ swaps \in 0..MaxSwaps

IInv == Typed /\ ItemInv /\ ReportInv /\ DetectorInv /\ CohortInv /\ LeftInv /\ SpentInv

USE DEF Copies, Declared, Status

LEMMA InitIInv == Init => IInv
<1> SUFFICES ASSUME Init PROVE IInv
  OBVIOUS
<1>1. Typed
  BY DEF Init, Typed, Tasks, Journal!Init, Journal!NoEvent
<1>2. ItemInv
  BY NoneAssumption
     DEF Init, ItemInv, Bytewise, Published, Journal!Init, Journal!NoEvent
<1>3. ReportInv /\ DetectorInv
  BY DEF Init, ReportInv, DetectorInv, Judging
<1>4. CohortInv
  BY EmptySeq DEF Init, CohortInv, AtWork
<1>5. LeftInv /\ SpentInv
  BY BoundsAssumption DEF Init, LeftInv, SpentInv
<1> QED
  BY <1>1, <1>2, <1>3, <1>4, <1>5 DEF IInv

\* A record changes the journal at its item, and keeps its types.
LEMMA RecordTyped ==
    ASSUME Typed, NEW i, NEW s \in Statuses, NEW d \in Results \cup {None},
           Journal!Recorded(i, s, d)
    PROVE  /\ latest' \in [Items -> Journal!Event \cup {Journal!NoEvent}]
           /\ attempts' \in [Items -> Nat]
<1>1. [status |-> s, detail |-> d] \in Journal!Event
  BY DEF Journal!Event
<1>2. latest' \in [Items -> Journal!Event \cup {Journal!NoEvent}]
  BY <1>1 DEF Typed, Journal!Recorded
<1>3. attempts' \in [Items -> Nat]
  <2>1. CASE i \in Items
    BY <2>1 DEF Typed, Journal!Recorded
  <2>2. CASE i \notin Items
    <3>1. attempts' = attempts
      BY <2>2 DEF Typed, Journal!Recorded
    <3> QED
      BY <3>1 DEF Typed
  <2> QED
    BY <2>1, <2>2
<1> QED
  BY <1>2, <1>3

LEMMA RecordElsewhere ==
    ASSUME Typed, NEW i, NEW s, NEW d, Journal!Recorded(i, s, d), NEW j \in Items, j # i
    PROVE  latest'[j] = latest[j] /\ attempts'[j] = attempts[j]
  BY DEF Typed, Journal!Recorded

LEMMA RecordHere ==
    ASSUME Typed, NEW i \in Items, NEW s, NEW d, Journal!Recorded(i, s, d)
    PROVE  /\ latest'[i] = [status |-> s, detail |-> d]
           /\ latest'[i].status = s
           /\ s # "attempting" => attempts' = attempts
  BY DEF Typed, Journal!Recorded

\* A thread that is about to publish has staged what it judged.
LEMMA ProductTyped ==
    ASSUME Typed, ItemInv, NEW i \in Items, task[i] \in {"result", "uploaded"}
    PROVE  Product(i) \in Results /\ Product(i).of = Declared
<1>1. file[i] = Declared
  BY DEF ItemInv, Bytewise
<1> QED
  BY <1>1 DEF Typed, Product, Results

\* The bytes of one item.
LEMMA OwnBytes ==
    ASSUME NEW i \in Items
    PROVE  /\ IsFiniteSet({i} \X (1..Size[i]))
           /\ Cardinality({i} \X (1..Size[i])) = Size[i]
<1>1. PICK n \in Nat : n = Size[i] /\ n > 0
  BY SizeAssumption
<1>2. n \in Int /\ 1 \in Int /\ ~(1 > n)
  BY <1>1
<1>3. IsFiniteSet(1..n) /\ Cardinality(1..n) = n - 1 + 1
  BY <1>2, FS_Interval
<1>4. IsFiniteSet({i}) /\ Cardinality({i}) = 1
  BY FS_Singleton
<1>5. /\ IsFiniteSet({i} \X (1..n))
      /\ Cardinality({i} \X (1..n)) = Cardinality({i}) * Cardinality(1..n)
  BY <1>3, <1>4, FS_Product
<1>6. Cardinality({i} \X (1..n)) = n
  BY <1>3, <1>4, <1>5
<1> QED
  BY <1>1, <1>5, <1>6

\* The bytes of a finite set of items are finitely many, and fewer for a part of it.
LEMMA BytesFinite ==
    ASSUME NEW S \in SUBSET Items, IsFiniteSet(S)
    PROVE  /\ IsFiniteSet(UNION {{i} \X (1..Size[i]) : i \in S})
           /\ Bytes(S) \in Nat
<1> DEFINE Of == [i \in S |-> {i} \X (1..Size[i])]
           Parts == {{i} \X (1..Size[i]) : i \in S}
<1>1. Of \in Surjection(S, Parts)
  BY DEF Surjection
<1>2. IsFiniteSet(Parts)
  BY <1>1, FS_Surjection
<1>3. ASSUME NEW p \in Parts PROVE IsFiniteSet(p)
  <2>1. PICK i \in S : p = {i} \X (1..Size[i])
    OBVIOUS
  <2> QED
    BY <2>1, OwnBytes
<1>4. IsFiniteSet(UNION Parts)
  <2> HIDE DEF Parts
  <2> QED
    BY <1>2, <1>3, FS_UNION
<1> QED
  BY <1>4, FS_CardinalityType DEF Bytes

LEMMA BytesOfPart ==
    ASSUME NEW T \in SUBSET Items, IsFiniteSet(T), NEW S \in SUBSET T
    PROVE  Bytes(S) <= Bytes(T)
<1> DEFINE BytesIn(U) == UNION {{i} \X (1..Size[i]) : i \in U}
<1>1. BytesIn(S) \subseteq BytesIn(T)
  OBVIOUS
<1>2. IsFiniteSet(BytesIn(T))
  BY BytesFinite
<1>3. Cardinality(BytesIn(S)) <= Cardinality(BytesIn(T))
  <2> HIDE DEF BytesIn
  <2> QED
    BY <1>1, <1>2, FS_Subset
<1> QED
  BY <1>3 DEF Bytes

\* One more item adds no more than its size.
LEMMA BytesOfOneMore ==
    ASSUME NEW S \in SUBSET Items, IsFiniteSet(S), NEW i \in Items
    PROVE  Bytes(S \cup {i}) <= Bytes(S) + Size[i]
<1> DEFINE BytesIn(U) == UNION {{j} \X (1..Size[j]) : j \in U}
           Own == {i} \X (1..Size[i])
<1>1. BytesIn(S \cup {i}) = BytesIn(S) \cup Own
  OBVIOUS
<1>2. IsFiniteSet(BytesIn(S)) /\ Bytes(S) \in Nat
  BY BytesFinite
<1>3. Size[i] \in Nat
  BY SizeAssumption
<1>4. IsFiniteSet(Own) /\ Cardinality(Own) = Size[i]
  BY OwnBytes
<1>5. /\ Cardinality(BytesIn(S) \cup Own) =
             Cardinality(BytesIn(S)) + Cardinality(Own) - Cardinality(BytesIn(S) \cap Own)
      /\ Cardinality(BytesIn(S) \cap Own) \in Nat
  <2> HIDE DEF BytesIn, Own
  <2>1. IsFiniteSet(BytesIn(S) \cap Own)
    BY <1>2, FS_Intersection
  <2> QED
    BY <1>2, <1>4, <2>1, FS_Union, FS_CardinalityType
<1>6. Bytes(S \cup {i}) = Cardinality(BytesIn(S) \cup Own) /\ Bytes(S) = Cardinality(BytesIn(S))
  BY <1>1 DEF Bytes
<1> QED
  <2> HIDE DEF BytesIn, Own
  <2> QED
    BY <1>2, <1>3, <1>4, <1>5, <1>6

\* The items of a cohort.
LEMMA CohortFinite ==
    ASSUME NEW s \in Seq(Items)
    PROVE  ToSet(s) \in SUBSET Items /\ IsFiniteSet(ToSet(s))
<1>1. DOMAIN s = 1..Len(s) /\ Len(s) \in Nat /\ \A k \in 1..Len(s) : s[k] \in Items
  BY ElementOfSeq, LenProperties
<1>2. s \in [1..Len(s) -> ToSet(s)]
  BY <1>1 DEF ToSet
<1>3. s \in Surjection(1..Len(s), ToSet(s))
  BY <1>1, <1>2 DEF ToSet, Surjection
<1> QED
  BY <1>1, <1>3, FS_Interval, FS_Surjection DEF ToSet

LEMMA CohortOfOneMore ==
    ASSUME NEW s \in Seq(Items), NEW i \in Items
    PROVE  Append(s, i) \in Seq(Items) /\ ToSet(Append(s, i)) = ToSet(s) \cup {i}
<1>1. DOMAIN s = 1..Len(s) /\ Len(s) \in Nat
  BY LenProperties
<1>2. /\ Append(s, i) \in Seq(Items)
      /\ DOMAIN Append(s, i) = 1..(Len(s) + 1)
      /\ \A k \in 1..Len(s) : Append(s, i)[k] = s[k]
      /\ Append(s, i)[Len(s) + 1] = i
  BY <1>1, AppendProperties, LenProperties
<1> QED
  BY <1>1, <1>2 DEF ToSet

\* An item that fits alone is packed within the limit.
LEMMA PlacedFits ==
    ASSUME NEW packed \in Seq(Seq(Items)), NEW i \in Items, Size[i] <= MaxStaging,
           \A k \in DOMAIN packed : Bytes(ToSet(packed[k])) <= MaxStaging
    PROVE  /\ Placed(packed, i) \in Seq(Seq(Items))
           /\ \A k \in DOMAIN Placed(packed, i) : Bytes(ToSet(Placed(packed, i)[k])) <= MaxStaging
<1>1. /\ DOMAIN packed = 1..Len(packed) /\ Len(packed) \in Nat
      /\ \A k \in 1..Len(packed) : packed[k] \in Seq(Items)
  BY ElementOfSeq, LenProperties
<1>2. CASE packed # <<>> /\ ~Opens(Last(packed), i)
  <2> DEFINE open == packed[Len(packed)]
  <2>1. Len(packed) \in 1..Len(packed) /\ open \in Seq(Items)
    BY <1>1, <1>2, EmptySeq
  <2>2. Bytes(ToSet(open)) + Size[i] <= MaxStaging
    <3>1. Bytes(ToSet(open)) \in Nat
      BY <2>1, CohortFinite, BytesFinite
    <3> QED
      BY <1>2, <3>1, SizeAssumption, LimitAssumption DEF Opens, Last
  <2>3. Placed(packed, i) = [packed EXCEPT ![Len(packed)] = Append(open, i)]
    BY <1>2 DEF Placed
  <2>4. Append(open, i) \in Seq(Items) /\ ToSet(Append(open, i)) = ToSet(open) \cup {i}
    BY <2>1, CohortOfOneMore
  <2>5. Bytes(ToSet(Append(open, i))) <= MaxStaging
    <3>1. ToSet(open) \in SUBSET Items /\ IsFiniteSet(ToSet(open))
      BY <2>1, CohortFinite
    <3>2. /\ Bytes(ToSet(open)) \in Nat
          /\ Bytes(ToSet(open) \cup {i}) \in Nat
          /\ Bytes(ToSet(open) \cup {i}) <= Bytes(ToSet(open)) + Size[i]
      BY <3>1, BytesFinite, BytesOfOneMore, FS_AddElement
    <3> QED
      BY <2>2, <2>4, <3>2, SizeAssumption, LimitAssumption
  <2>6. /\ Placed(packed, i) \in Seq(Seq(Items))
        /\ DOMAIN Placed(packed, i) = DOMAIN packed
    BY <1>1, <2>1, <2>3, <2>4, ExceptSeq
  <2>7. \A k \in DOMAIN packed : Placed(packed, i)[k] =
             IF k = Len(packed) THEN Append(open, i) ELSE packed[k]
    BY <2>3
  <2> QED
    BY <2>5, <2>6, <2>7
<1>3. CASE ~(packed # <<>> /\ ~Opens(Last(packed), i))
  <2>1. Placed(packed, i) = Append(packed, <<i>>)
    BY <1>3 DEF Placed
  <2>2. <<i>> \in Seq(Items) /\ ToSet(<<i>>) = {} \cup {i}
    BY DEF ToSet
  <2>3. Bytes(ToSet(<<i>>)) <= MaxStaging
    <3>1. IsFiniteSet({}) /\ Bytes({}) = 0
      BY FS_EmptySet DEF Bytes
    <3>2. Bytes({} \cup {i}) <= Bytes({}) + Size[i] /\ Bytes({} \cup {i}) \in Nat
      BY <3>1, BytesOfOneMore, BytesFinite, FS_AddElement
    <3>3. Bytes({} \cup {i}) <= MaxStaging
      BY <3>1, <3>2, SizeAssumption, LimitAssumption
    <3> QED
      BY <2>2, <3>3, Zenon
  <2>4. /\ Append(packed, <<i>>) \in Seq(Seq(Items))
        /\ DOMAIN Append(packed, <<i>>) = 1..(Len(packed) + 1)
        /\ \A k \in 1..Len(packed) : Append(packed, <<i>>)[k] = packed[k]
        /\ Append(packed, <<i>>)[Len(packed) + 1] = <<i>>
    BY <1>1, <2>2, AppendProperties, LenProperties
  <2> QED
    BY <1>1, <2>1, <2>3, <2>4
<1> QED
  BY <1>2, <1>3

LEMMA StepTyped == ASSUME IInv, [Next]_vars PROVE Typed'
<1> USE DEF IInv, Typed, bucketVars, journalVars, diskVars, laneVars, spentVars, Goes, Works,
        Fails, Tasks, Downloading, Judging, Raised
<1> USE RecordTyped DEF Journaled, Statuses
<1>1. ASSUME NEW b \in BOOLEAN, Start(b) PROVE Typed'
  BY <1>1 DEF Start
<1>2. ASSUME OpenCohort \/ PackStep PROVE Typed'
  BY <1>2 DEF OpenCohort, PackStep, Pack, Packed
<1>3. ASSUME Attempt PROVE Typed'
  BY <1>3 DEF Attempt
<1>4. ASSUME Downloaded PROVE Typed'
  BY <1>4 DEF Downloaded
<1>5. ASSUME CloseCohort PROVE Typed'
  BY <1>5 DEF CloseCohort
<1>6. ASSUME Finish PROVE Typed'
  BY <1>6 DEF Finish
<1>7. ASSUME NEW i \in Items, BeginDownload(i) PROVE Typed'
  BY <1>7 DEF BeginDownload
<1>8. ASSUME NEW i \in Items, HeadSource(i) PROVE Typed'
  BY <1>8 DEF HeadSource
<1>9. ASSUME NEW i \in Items, GetSource(i) PROVE Typed'
  BY <1>9 DEF GetSource
<1>10. ASSUME NEW i \in Items, ReplaceFile(i) PROVE Typed'
  BY <1>10 DEF ReplaceFile
<1>11. ASSUME NEW i \in Items, JournalDownload(i) PROVE Typed'
  BY <1>11 DEF JournalDownload
<1>12. ASSUME NEW i \in Items, Judge(i) PROVE Typed'
  BY <1>12 DEF Judge, LaneKeeps
<1>13. ASSUME NEW i \in Items, UploadEvidence(i) PROVE Typed'
  BY <1>13 DEF UploadEvidence, Uploads, LaneKeeps
<1>14. ASSUME NEW i \in Items, UploadResult(i) PROVE Typed'
  <2>1. Product(i) \in Results
    BY <1>14, ProductTyped DEF UploadResult, Uploads
  <2> QED
    BY <1>14, <2>1 DEF UploadResult, Uploads, LaneKeeps
<1>15. ASSUME NEW i \in Items, JournalUpload(i) PROVE Typed'
  <2>1. Product(i) \in Results
    BY <1>15, ProductTyped DEF JournalUpload
  <2> QED
    BY <1>15, <2>1 DEF JournalUpload, LaneKeeps
<1>16. ASSUME NEW i \in Items, Clear(i) PROVE Typed'
  BY <1>16 DEF Clear, LaneKeeps
<1>17. ASSUME NEW i \in Items, RecordFailure(i) PROVE Typed'
  BY <1>17 DEF RecordFailure, FailureStatus
<1>18. ASSUME NEW l \in Lanes, NEW i \in Items, BeginProcessing(l, i) PROVE Typed'
  BY <1>18 DEF BeginProcessing
<1>19. ASSUME NEW l \in Lanes, NEW i \in Items, JournalFreed(l, i) PROVE Typed'
  <2>1. latest[i].detail \in Results \cup {None}
    BY DEF Journal!Event, Journal!NoEvent
  <2> QED
    BY <1>19, <2>1 DEF JournalFreed
<1>20. ASSUME NEW l \in Lanes, Claim(l) PROVE Typed'
  BY <1>20 DEF Claim
<1>21. ASSUME Crash PROVE Typed'
  BY <1>21 DEF Crash
<1>22. ASSUME NEW i \in Items, SwapSource(i) PROVE Typed'
  BY <1>22 DEF SwapSource
<1>23. ASSUME UNCHANGED vars PROVE Typed'
  BY <1>23 DEF vars
<1> QED
  BY <1>1, <1>2, <1>3, <1>4, <1>5, <1>6, <1>7, <1>8, <1>9, <1>10, <1>11, <1>12, <1>13, <1>14,
     <1>15, <1>16, <1>17, <1>18, <1>19, <1>20, <1>21, <1>22, <1>23
     DEF Next, ControllerStep, CohortStep, ItemStep, DownloadStep, JudgeStep, LaneStep

\* An item keeps what the invariant says of it if nothing of it changes but, possibly,
\* that no thread has it any more.
Untouched(j) ==
    /\ file'[j] = file[j]
    /\ partial'[j] = partial[j]
    /\ evidence'[j] = evidence[j]
    /\ results'[j] = results[j]
    /\ latest'[j] = latest[j]
    /\ attempts'[j] = attempts[j]
    /\ task'[j] \in {task[j], "idle", "selected"}

LEMMA UntouchedKeeps ==
    ASSUME NEW j \in Items, Bytewise(j), Published(j), Untouched(j)
    PROVE  Bytewise(j)' /\ Published(j)'
  BY DEF Bytewise, Published, Untouched, Product

\* A step on item i that changes the journal at i only leaves the others alone.
LEMMA StepItem == ASSUME IInv, [Next]_vars, NEW j \in Items
                  PROVE  Bytewise(j)' /\ Published(j)'
<1> DEFINE Goal == Bytewise(j)' /\ Published(j)'
<1> SUFFICES Goal
  OBVIOUS
<1>a. Typed /\ ItemInv /\ Bytewise(j) /\ Published(j)
  BY DEF IInv, ItemInv
<1>b. ASSUME Untouched(j) PROVE Goal
  BY <1>a, <1>b, UntouchedKeeps
<1> HIDE DEF Goal
<1>1. ASSUME NEW b \in BOOLEAN, Start(b) PROVE Goal
  BY <1>1, <1>b DEF Start, Untouched, bucketVars, journalVars, diskVars
<1>2. ASSUME OpenCohort \/ PackStep PROVE Goal
  BY <1>2, <1>b DEF OpenCohort, PackStep, Pack, Packed, Untouched, bucketVars, journalVars, diskVars
<1>3. ASSUME Attempt PROVE Goal
  <2>1. PICK i : /\ task[i] = "selected"
                 /\ Journaled(i, "attempting")
                 /\ task' = [task EXCEPT ![i] = "queued"]
    BY <1>3 DEF Attempt
  <2>2. CASE i = j
    <3>1. latest'[j].status = "attempting" /\ task'[j] = "queued"
      BY <1>a, <2>1, <2>2, RecordHere DEF Journaled, Typed
    <3> QED
      BY <1>3, <1>a, <3>1 DEF Attempt, Goal, Bytewise, Published, bucketVars, diskVars
  <2>3. CASE i # j
    <3>1. latest'[j] = latest[j] /\ attempts'[j] = attempts[j]
      BY <1>a, <2>1, <2>3, RecordElsewhere DEF Journaled
    <3> QED
      BY <1>3, <1>a, <1>b, <2>1, <2>3, <3>1
         DEF Attempt, Untouched, Typed, bucketVars, diskVars
  <2> QED
    BY <2>2, <2>3
<1>4. ASSUME Downloaded \/ Finish PROVE Goal
  BY <1>4, <1>b DEF Downloaded, Finish, Untouched, bucketVars, journalVars, diskVars
<1>5. ASSUME CloseCohort PROVE Goal
  BY <1>5, <1>b DEF CloseCohort, Untouched, bucketVars, journalVars, diskVars
<1> USE DEF Goes, Works, Fails, SpendsFailures, LaneKeeps, bucketVars, journalVars, diskVars,
        laneVars
<1>6. ASSUME NEW i \in Items, DownloadStep(i) PROVE Goal
  <2>1. CASE i # j
    <3>1. ASSUME BeginDownload(i) \/ JournalDownload(i) PROVE Goal
      <4>1. latest'[j] = latest[j] /\ attempts'[j] = attempts[j]
        BY <1>a, <2>1, <3>1, RecordElsewhere
           DEF BeginDownload, JournalDownload, Journaled
      <4> QED
        BY <1>a, <1>b, <2>1, <3>1, <4>1 DEF BeginDownload, JournalDownload, Untouched, Typed
    <3>2. ASSUME HeadSource(i) PROVE Goal
      BY <1>a, <1>b, <2>1, <3>2 DEF HeadSource, Untouched, Typed
    <3>3. ASSUME GetSource(i) PROVE Goal
      BY <1>a, <1>b, <2>1, <3>3 DEF GetSource, Untouched, Typed
    <3>4. ASSUME ReplaceFile(i) PROVE Goal
      BY <1>a, <1>b, <2>1, <3>4 DEF ReplaceFile, Untouched, Typed
    <3> QED
      BY <1>6, <3>1, <3>2, <3>3, <3>4 DEF DownloadStep
  <2>2. CASE i = j
    <3>1. ASSUME BeginDownload(j) \/ JournalDownload(j) PROVE Goal
      <4>1. latest'[j].status \in {"downloading", "downloaded"}
        BY <1>a, <3>1, RecordHere DEF BeginDownload, JournalDownload, Journaled
      <4> QED
        BY <1>a, <3>1, <4>1, NoneAssumption
           DEF BeginDownload, JournalDownload, Typed, Goal, Bytewise, Published
    <3>2. ASSUME HeadSource(j) PROVE Goal
      BY <1>a, <3>2 DEF HeadSource, Typed, Goal, Bytewise, Published, Product
    <3>3. ASSUME GetSource(j) PROVE Goal
      BY <1>a, <3>3 DEF GetSource, Matches, Typed, Goal, Bytewise, Published, Product
    <3>4. ASSUME ReplaceFile(j) PROVE Goal
      BY <1>a, <3>4 DEF ReplaceFile, Typed, Goal, Bytewise, Published, Product
    <3> QED
      BY <1>6, <2>2, <3>1, <3>2, <3>3, <3>4 DEF DownloadStep
  <2> QED
    BY <2>1, <2>2
<1>7. ASSUME NEW i \in Items, JudgeStep(i) PROVE Goal
  <2>1. CASE i # j
    <3>1. ASSUME Judge(i) PROVE Goal
      <4>1. latest'[j] = latest[j] /\ attempts'[j] = attempts[j]
        BY <1>a, <2>1, <3>1, RecordElsewhere DEF Judge, Journaled
      <4> QED
        BY <1>a, <1>b, <2>1, <3>1, <4>1 DEF Judge, Untouched, Typed
    <3>2. ASSUME UploadEvidence(i) PROVE Goal
      BY <1>a, <1>b, <2>1, <3>2 DEF UploadEvidence, Uploads, Untouched, Typed
    <3>3. ASSUME UploadResult(i) PROVE Goal
      BY <1>a, <1>b, <2>1, <3>3 DEF UploadResult, Uploads, Untouched, Typed
    <3>4. ASSUME JournalUpload(i) PROVE Goal
      <4>1. Product(i) \in Results
        BY <1>a, <3>4, ProductTyped DEF JournalUpload
      <4>2. latest'[j] = latest[j] /\ attempts'[j] = attempts[j]
        BY <1>a, <2>1, <3>4, <4>1, RecordElsewhere DEF JournalUpload
      <4> QED
        BY <1>a, <1>b, <2>1, <3>4, <4>2 DEF JournalUpload, Untouched, Typed
    <3>5. ASSUME Clear(i) PROVE Goal
      BY <1>a, <1>b, <2>1, <3>5 DEF Clear, Untouched, Typed
    <3> QED
      BY <1>7, <3>1, <3>2, <3>3, <3>4, <3>5 DEF JudgeStep
  <2>2. CASE i = j
    <3>1. ASSUME Judge(j) PROVE Goal
      <4>1. CASE Works(j, "inferring", "evidence") /\ Journaled(j, "processed")
        <5>1. latest'[j].status = "processed"
          BY <1>a, <4>1, RecordHere DEF Journaled
        <5> QED
          BY <1>a, <3>1, <4>1, <5>1 DEF Judge, Typed, Goal, Bytewise, Published
      <4>2. CASE Fails(j, "inferring", "failure") /\ UNCHANGED journalVars
        BY <1>a, <3>1, <4>2 DEF Judge, Typed, Goal, Bytewise, Published
      <4> QED
        BY <3>1, <4>1, <4>2 DEF Judge
    <3>2. ASSUME UploadEvidence(j) PROVE Goal
      <4>1. file[j] = Declared /\ task[j] = "evidence"
        BY <1>a, <3>2 DEF UploadEvidence, Uploads, Bytewise
      <4>2. /\ evidence'[j] \in {evidence[j], Declared}
            /\ evidence[j] # None => evidence'[j] = evidence[j]
        BY <1>a, <3>2, <4>1 DEF UploadEvidence, Uploads, Typed
      <4>3. task'[j] \in {"result", "conflict", "failure"}
        BY <1>a, <3>2 DEF UploadEvidence, Uploads, Typed, Raised
      <4>4. task'[j] = "result" => evidence'[j] = Declared
        BY <1>a, <3>2, <4>1 DEF UploadEvidence, Uploads, Typed, Raised
      <4> QED
        BY <1>a, <3>2, <4>1, <4>2, <4>3, <4>4, NoneAssumption
           DEF UploadEvidence, Goal, Bytewise, Published
    <3>3. ASSUME UploadResult(j) PROVE Goal
      <4>1. /\ task[j] = "result"
            /\ Product(j)' = Product(j)
            /\ Product(j) \in Results /\ Product(j).of = Declared
        BY <1>a, <3>3, ProductTyped DEF UploadResult, Uploads, Product
      <4>2. /\ results'[j] \in {results[j], Product(j)}
            /\ results[j] # None => results'[j] = results[j]
        BY <1>a, <3>3, <4>1 DEF UploadResult, Uploads, Typed
      <4>3. task'[j] \in {"uploaded", "conflict", "failure"}
        BY <1>a, <3>3 DEF UploadResult, Uploads, Typed, Raised
      <4>4. task'[j] = "uploaded" => results'[j] = Product(j)
        BY <1>a, <3>3, <4>1 DEF UploadResult, Uploads, Typed, Raised
      <4> QED
        BY <1>a, <3>3, <4>1, <4>2, <4>3, <4>4 DEF UploadResult, Goal, Bytewise, Published
    <3>4. ASSUME JournalUpload(j) PROVE Goal
      <4>1. task[j] = "uploaded" /\ task'[j] = "clearing"
        BY <1>a, <3>4 DEF JournalUpload, Typed
      <4>2. Product(j) \in Results
        BY <1>a, <4>1, ProductTyped
      <4>3. latest'[j] = [status |-> "result_uploaded", detail |-> Product(j)]
        BY <1>a, <3>4, <4>2, RecordHere DEF JournalUpload
      <4>4. results[j] = Product(j) /\ Product(j) # None /\ evidence[j] # None
        BY <1>a, <4>1, <4>2, NoneAssumption DEF Published, Typed, Results
      <4> QED
        BY <1>a, <3>4, <4>1, <4>3, <4>4 DEF JournalUpload, Goal, Bytewise, Published
    <3>5. ASSUME Clear(j) PROVE Goal
      BY <1>a, <3>5 DEF Clear, Typed, Goal, Bytewise, Published
    <3> QED
      BY <1>7, <2>2, <3>1, <3>2, <3>3, <3>4, <3>5 DEF JudgeStep
  <2> QED
    BY <2>1, <2>2
<1>8. ASSUME NEW i \in Items, RecordFailure(i) PROVE Goal
  <2>1. FailureStatus(i) \in {"conflict", "quarantined", "failed-retryable"}
    BY DEF FailureStatus
  <2>2. CASE i # j
    <3>1. latest'[j] = latest[j] /\ attempts'[j] = attempts[j]
      BY <1>a, <1>8, <2>1, <2>2, RecordElsewhere DEF RecordFailure, Journaled
    <3> QED
      BY <1>a, <1>b, <1>8, <2>2, <3>1 DEF RecordFailure, Untouched, Typed
  <2>3. CASE i = j
    <3>1. latest'[j].status = FailureStatus(i)
      BY <1>a, <1>8, <2>1, <2>3, RecordHere DEF RecordFailure, Journaled
    <3> QED
      BY <1>a, <1>8, <2>1, <2>3, <3>1 DEF RecordFailure, Typed, Goal, Bytewise, Published
  <2> QED
    BY <2>2, <2>3
<1>9. ASSUME NEW l \in Lanes, NEW i \in Items, BeginProcessing(l, i) PROVE Goal
  <2>1. CASE i # j
    <3>1. latest'[j] = latest[j] /\ attempts'[j] = attempts[j]
      BY <1>a, <1>9, <2>1, RecordElsewhere DEF BeginProcessing, Journaled
    <3> QED
      BY <1>a, <1>b, <1>9, <2>1, <3>1 DEF BeginProcessing, Untouched, Typed
  <2>2. CASE i = j
    <3>1. latest'[j].status = "processing"
      BY <1>a, <1>9, <2>2, RecordHere DEF BeginProcessing, Journaled
    <3> QED
      BY <1>a, <1>9, <2>2, <3>1 DEF BeginProcessing, Typed, Goal, Bytewise, Published
  <2> QED
    BY <2>1, <2>2
<1>10. ASSUME NEW l \in Lanes, NEW i \in Items, JournalFreed(l, i) PROVE Goal
  <2>1. latest[i].detail \in Results \cup {None}
    BY <1>a DEF Typed, Journal!Event, Journal!NoEvent
  <2>2. CASE i # j
    <3>1. latest'[j] = latest[j] /\ attempts'[j] = attempts[j]
      BY <1>a, <1>10, <2>1, <2>2, RecordElsewhere DEF JournalFreed
    <3> QED
      BY <1>a, <1>b, <1>10, <2>2, <3>1 DEF JournalFreed, Untouched, Typed
  <2>3. CASE i = j
    <3>1. latest'[j] = [status |-> "freed", detail |-> latest[j].detail]
      BY <1>a, <1>10, <2>1, <2>3, RecordHere DEF JournalFreed
    <3>2. task[j] = "cleared" /\ task'[j] = "idle"
      BY <1>a, <1>10, <2>3 DEF JournalFreed, Typed
    <3>3. results[j] # None /\ results[j] = latest[j].detail /\ evidence[j] # None
      BY <1>a, <3>2 DEF Published
    <3> QED
      BY <1>a, <1>10, <3>1, <3>2, <3>3 DEF JournalFreed, Goal, Bytewise, Published
  <2> QED
    BY <2>2, <2>3
<1>11. ASSUME NEW l \in Lanes, Claim(l) PROVE Goal
  <2>1. lane[l] \in Items
    BY <1>a, <1>11 DEF Claim, Typed
  <2>2. CASE lane[l] # j
    BY <1>a, <1>b, <1>11, <2>2 DEF Claim, Untouched, Typed
  <2>3. CASE lane[l] = j
    BY <1>a, <1>11, <2>3 DEF Claim, Typed, Goal, Bytewise, Published, Product
  <2> QED
    BY <2>2, <2>3
<1>12. ASSUME Crash \/ (\E i \in Items : SwapSource(i)) \/ UNCHANGED vars PROVE Goal
  BY <1>12, <1>b DEF Crash, SwapSource, vars, Untouched
<1>13. Goal
  BY <1>1, <1>2, <1>3, <1>4, <1>5, <1>6, <1>7, <1>8, <1>9, <1>10, <1>11, <1>12
     DEF Next, ControllerStep, CohortStep, ItemStep, LaneStep
<1> QED
  BY <1>13

\* A report is only made when every result is there, and none is changed afterwards.
LEMMA StepReport == ASSUME IInv, [Next]_vars PROVE ReportInv'
<1> SUFFICES ASSUME report' # None
             PROVE  report' = results' /\ \A i \in Items : results'[i] # None
  BY DEF ReportInv
<1>a. Typed /\ ItemInv /\ ReportInv
  BY DEF IInv
<1>1. CASE Finish
  <2>1. CASE UNCHANGED report
    BY <1>1, <1>a, <2>1 DEF Finish, ReportInv
  <2>2. CASE Freed = Items /\ report' = results
    BY <1>1, <1>a, <2>2 DEF Finish, ItemInv, Published, Freed
  <2> QED
    BY <1>1, <2>1, <2>2 DEF Finish
<1>2. ASSUME NEW i \in Items, UploadResult(i)
      PROVE  report' = results' /\ \A k \in Items : results'[k] # None
  <2>1. report' = report
    BY <1>2 DEF UploadResult, LaneKeeps
  <2>2. results[i] # None
    BY <1>a, <2>1 DEF ReportInv
  <2>3. results'[i] = results[i] /\ results' = [results EXCEPT ![i] = results'[i]]
    BY <1>2, <1>a, <2>2 DEF UploadResult, Uploads, Typed
  <2>4. results' = results
    BY <1>a, <2>3 DEF Typed
  <2> QED
    BY <1>a, <2>1, <2>4 DEF ReportInv
<1>3. CASE UNCHANGED <<report, results>>
  BY <1>3, <1>a DEF ReportInv
<1>4. Finish \/ (\E i \in Items : UploadResult(i)) \/ UNCHANGED <<report, results>>
  <2> USE DEF bucketVars, SpendsFailures, LaneKeeps
  <2>1. ASSUME CohortStep PROVE Finish \/ UNCHANGED <<report, results>>
    BY <2>1 DEF CohortStep, PackStep, Pack, Packed, OpenCohort, Attempt, Downloaded, CloseCohort
  <2>2. ASSUME NEW i \in Items, DownloadStep(i) PROVE UNCHANGED <<report, results>>
    BY <2>2 DEF DownloadStep, BeginDownload, HeadSource, GetSource, ReplaceFile, JournalDownload
  <2>3. ASSUME NEW i \in Items, JudgeStep(i)
        PROVE  UploadResult(i) \/ UNCHANGED <<report, results>>
    BY <2>3 DEF JudgeStep, Judge, UploadEvidence, JournalUpload, Clear
  <2>4. ASSUME NEW i \in Items, RecordFailure(i) PROVE UNCHANGED <<report, results>>
    BY <2>4 DEF RecordFailure
  <2>5. ASSUME NEW l \in Lanes, LaneStep(l) PROVE UNCHANGED <<report, results>>
    BY <2>5 DEF LaneStep, BeginProcessing, JournalFreed, Claim
  <2>6. ASSUME NEW b \in BOOLEAN, Start(b) PROVE UNCHANGED <<report, results>>
    BY <2>6 DEF Start
  <2>7. ASSUME Crash \/ (\E i \in Items : SwapSource(i)) \/ UNCHANGED vars
        PROVE  UNCHANGED <<report, results>>
    BY <2>7 DEF Crash, SwapSource, vars
  <2> QED
    BY <2>1, <2>2, <2>3, <2>4, <2>5, <2>6, <2>7 DEF Next, ControllerStep, ItemStep
<1> QED
  BY <1>1, <1>2, <1>3, <1>4

\* The first detector is in one thread or unclaimed, and threads have detectors and
\* judge videos while a cohort is judged only.
LEMMA StepDetector == ASSUME IInv, [Next]_vars PROVE DetectorInv'
<1>a. Typed /\ DetectorInv
  BY DEF IInv
<1> DEFINE Same == UNCHANGED <<held, unclaimed>>
           Aside == phase # "judging" => \A i \in Items : task'[i] \notin Judging
<1>b. ASSUME Same, UNCHANGED phase, Aside PROVE DetectorInv'
  BY <1>a, <1>b DEF DetectorInv
<1> USE DEF Goes, Works, Fails, SpendsFailures, LaneKeeps, laneVars, Judging, Raised, Downloading
<1>1. ASSUME NEW b \in BOOLEAN, Start(b) PROVE DetectorInv'
  BY <1>1, <1>a DEF Start, DetectorInv
<1>2. ASSUME OpenCohort \/ PackStep PROVE DetectorInv'
  BY <1>2, <1>a DEF OpenCohort, PackStep, Pack, Packed, DetectorInv
<1>3. ASSUME Attempt PROVE DetectorInv'
  <2>1. PICK i : task[i] = "selected" /\ task' = [task EXCEPT ![i] = "queued"]
    BY <1>3 DEF Attempt
  <2>2. \A k \in Items : task'[k] \in {task[k], "queued"}
    BY <1>a, <2>1 DEF Typed
  <2>3. phase' # "judging" /\ phase # "judging" /\ Same
    BY <1>3 DEF Attempt
  <2> QED
    BY <1>a, <2>2, <2>3 DEF DetectorInv
<1>4. ASSUME Downloaded PROVE DetectorInv'
  BY <1>4, <1>a DEF Downloaded, DetectorInv
<1>5. ASSUME CloseCohort PROVE DetectorInv'
  BY <1>5, <1>a DEF CloseCohort, DetectorInv, Typed
<1>6. ASSUME Finish PROVE DetectorInv'
  BY <1>6, <1>a DEF Finish, DetectorInv
<1>7. ASSUME NEW i \in Items, DownloadStep(i) PROVE DetectorInv'
  <2>1. \A k \in Items : task'[k] \in {task[k]} \cup {"fetched", "heading", "getting", "replacing",
                                         "landed", "conflict", "failure"}
    BY <1>7, <1>a DEF Typed, DownloadStep, BeginDownload, HeadSource, GetSource, ReplaceFile,
                      JournalDownload
  <2>2. Same /\ UNCHANGED phase
    BY <1>7 DEF DownloadStep, BeginDownload, HeadSource, GetSource, ReplaceFile, JournalDownload
  <2> QED
    BY <1>a, <1>b, <2>1, <2>2 DEF DetectorInv
<1>8. ASSUME NEW i \in Items, JudgeStep(i) PROVE DetectorInv'
  <2>1. task[i] \in Judging /\ \A k \in Items : k # i => task'[k] = task[k]
    BY <1>8, <1>a DEF Typed, JudgeStep, Judge, UploadEvidence, UploadResult, Uploads,
                      JournalUpload, Clear
  <2>2. Same /\ UNCHANGED phase
    BY <1>8 DEF JudgeStep, Judge, UploadEvidence, UploadResult, JournalUpload, Clear
  <2>3. phase = "judging"
    BY <1>a, <2>1 DEF DetectorInv
  <2> QED
    BY <1>b, <2>2, <2>3
<1>9. ASSUME NEW i \in Items, RecordFailure(i) PROVE DetectorInv'
  BY <1>9, <1>a, <1>b DEF RecordFailure, DetectorInv, Typed
<1>10. ASSUME NEW l \in Lanes, NEW i \in Items, BeginProcessing(l, i) PROVE DetectorInv'
  BY <1>10, <1>b DEF BeginProcessing
<1>11. ASSUME NEW l \in Lanes, NEW i \in Items, JournalFreed(l, i) PROVE DetectorInv'
  BY <1>11, <1>a, <1>b DEF JournalFreed, DetectorInv, Typed
<1>12. ASSUME NEW l \in Lanes, Claim(l) PROVE DetectorInv'
  <2>1. lane[l] \in Items /\ task[lane[l]] = "claiming"
    BY <1>12, <1>a DEF Claim, Typed
  <2>2. phase = "judging" /\ phase' = phase
    BY <1>12, <1>a, <2>1 DEF Claim, DetectorInv
  <2>3. CASE held[l] # "none"
    <3>1. held' = held /\ unclaimed' = unclaimed
      BY <1>12, <1>a, <2>3 DEF Claim, Typed
    <3> QED
      BY <1>a, <2>2, <3>1 DEF DetectorInv
  <2>4. CASE held[l] = "none"
    <3>1. ~unclaimed' /\ held' = [held EXCEPT ![l] = IF unclaimed THEN "primary" ELSE "own"]
      BY <1>12, <1>a, <2>4 DEF Claim, Typed
    <3>2. \A m \in Lanes : held'[m] = "primary" =>
                IF m = l THEN unclaimed ELSE held[m] = "primary"
      BY <1>a, <3>1 DEF Typed
    <3>3. \A m, n \in Lanes : held'[m] = "primary" /\ held'[n] = "primary" => m = n
      BY <1>a, <3>2 DEF DetectorInv
    <3> QED
      BY <2>2, <3>1, <3>3 DEF DetectorInv
  <2> QED
    BY <2>3, <2>4
<1>13. ASSUME Crash PROVE DetectorInv'
  BY <1>13 DEF Crash, DetectorInv
<1>14. ASSUME (\E i \in Items : SwapSource(i)) \/ UNCHANGED vars PROVE DetectorInv'
  BY <1>14, <1>a DEF SwapSource, vars, DetectorInv
<1> QED
  BY <1>1, <1>2, <1>3, <1>4, <1>5, <1>6, <1>7, <1>8, <1>9, <1>10, <1>11, <1>12, <1>13, <1>14
     DEF Next, ControllerStep, CohortStep, ItemStep, LaneStep

\* Work on an item neither moves the run on nor takes an item up.
LEMMA WorkKeepsCohorts ==
    ASSUME Typed,
           ItemStep \/ \E l \in Lanes : LaneStep(l)
    PROVE  /\ phase' = phase /\ selected' = selected /\ cohorts' = cohorts
           /\ \A k \in Items : task'[k] # "idle" => task[k] # "idle"
<1> USE DEF Typed, Goes, Works, Fails, SpendsFailures, LaneKeeps, planVars
<1> DEFINE Goal ==
        /\ phase' = phase /\ selected' = selected /\ cohorts' = cohorts
        /\ \A k \in Items : task'[k] # "idle" => task[k] # "idle"
<1>1. ASSUME NEW i \in Items, DownloadStep(i) PROVE Goal
  BY <1>1 DEF DownloadStep, BeginDownload, HeadSource, GetSource, ReplaceFile, JournalDownload
<1>2. ASSUME NEW i \in Items, JudgeStep(i) PROVE Goal
  BY <1>2 DEF JudgeStep, Judge, UploadEvidence, UploadResult, Uploads, JournalUpload, Clear
<1>3. ASSUME NEW i \in Items, RecordFailure(i) PROVE Goal
  BY <1>3 DEF RecordFailure
<1>4. ASSUME NEW l \in Lanes, LaneStep(l) PROVE Goal
  BY <1>4 DEF LaneStep, BeginProcessing, JournalFreed, Claim
<1> QED
  BY <1>1, <1>2, <1>3, <1>4 DEF ItemStep

\* A cohort opens when no thread has an item and closes when none has one any more;
\* packing keeps every cohort within the limit.
LEMMA StepCohort == ASSUME IInv, [Next]_vars PROVE CohortInv'
<1>a. Typed /\ CohortInv
  BY DEF IInv
<1>b. ASSUME UNCHANGED <<phase, selected, cohorts>>,
             \A i \in Items : task'[i] # "idle" => task[i] # "idle"
      PROVE  CohortInv'
  BY <1>a, <1>b DEF CohortInv
<1> USE DEF AtWork
<1>1. ASSUME NEW r \in BOOLEAN, Start(r) PROVE CohortInv'
  <2>1. selected' \in SUBSET Items /\ \A i \in selected' : Size[i] <= MaxStaging
    BY <1>1 DEF Start
  <2> QED
    BY <1>1, <1>a, <2>1 DEF Start, CohortInv
<1>2. ASSUME NEW n \in DOMAIN Manifest, Pack(n) PROVE CohortInv'
  <2>1. Manifest[n] \in Items /\ Size[Manifest[n]] <= MaxStaging
    BY <1>2, <1>a DEF Pack, CohortInv
  <2>2. /\ cohorts' \in Seq(Seq(Items))
        /\ \A k \in DOMAIN cohorts' : Bytes(ToSet(cohorts'[k])) <= MaxStaging
    <3>1. cohorts' = Placed(cohorts, Manifest[n])
      BY <1>2 DEF Pack
    <3> QED
      BY <1>a, <2>1, <3>1, PlacedFits DEF CohortInv
  <2>3. phase = "packing" /\ phase' = phase /\ selected' \subseteq selected /\ task' = task
    BY <1>2 DEF Pack
  <2> QED
    BY <1>a, <2>2, <2>3 DEF CohortInv
<1>3. ASSUME Packed PROVE CohortInv'
  BY <1>3, <1>a DEF Packed, CohortInv, planVars
<1>4. ASSUME OpenCohort PROVE CohortInv'
  <2>1. phase' = "attempting" /\ cohorts # <<>> /\ UNCHANGED <<selected, cohorts>>
    BY <1>4 DEF OpenCohort, planVars
  <2>2. \A i \in Items : task'[i] # "idle" => i \in ToSet(Head(cohorts))
    BY <1>4 DEF OpenCohort
  <2> QED
    BY <1>a, <2>1, <2>2 DEF CohortInv
<1>5. ASSUME Attempt PROVE CohortInv'
  <2>1. PICK i : task[i] = "selected" /\ task' = [task EXCEPT ![i] = "queued"]
    BY <1>5 DEF Attempt
  <2>2. /\ UNCHANGED <<selected, cohorts>>
        /\ phase = "attempting" /\ phase' \in {phase, "downloading"}
    BY <1>5 DEF Attempt, planVars
  <2>3. \A k \in Items : task'[k] # "idle" => task[k] # "idle"
    BY <1>a, <2>1 DEF Typed
  <2> QED
    BY <1>a, <2>2, <2>3 DEF CohortInv
<1>6. ASSUME Downloaded PROVE CohortInv'
  BY <1>6, <1>a DEF Downloaded, CohortInv, planVars
<1>7. ASSUME CloseCohort PROVE CohortInv'
  <2>1. cohorts # <<>>
    BY <1>7, <1>a DEF CloseCohort, CohortInv
  <2>2. /\ cohorts' \in Seq(Seq(Items))
        /\ \A k \in DOMAIN cohorts' : k + 1 \in DOMAIN cohorts /\ cohorts'[k] = cohorts[k + 1]
    <3>1. /\ Tail(cohorts) \in Seq(Seq(Items))
          /\ Len(Tail(cohorts)) = Len(cohorts) - 1
          /\ \A k \in 1..Len(Tail(cohorts)) : Tail(cohorts)[k] = cohorts[k + 1]
      BY <1>a, <2>1, HeadTailProperties DEF CohortInv
    <3>2. DOMAIN Tail(cohorts) = 1..Len(Tail(cohorts)) /\ DOMAIN cohorts = 1..Len(cohorts)
          /\ Len(cohorts) \in Nat
      BY <1>a, <3>1, LenProperties DEF CohortInv
    <3> QED
      BY <1>7, <3>1, <3>2 DEF CloseCohort
  <2>3. phase' = "cohort" /\ selected' = selected /\ \A i \in Items : task'[i] = "idle"
    BY <1>7 DEF CloseCohort
  <2> QED
    BY <1>a, <2>2, <2>3 DEF CohortInv
<1>8. ASSUME Finish PROVE CohortInv'
  BY <1>8, <1>a DEF Finish, CohortInv, planVars
<1>9. ASSUME ItemStep \/ \E l \in Lanes : LaneStep(l) PROVE CohortInv'
  BY <1>9, <1>a, <1>b, WorkKeepsCohorts
<1>10. ASSUME Crash PROVE CohortInv'
  <2>1. phase' = "down" /\ selected' = {} /\ cohorts' = <<>> /\ \A i \in Items : task'[i] = "idle"
    BY <1>10 DEF Crash
  <2> QED
    BY <2>1, EmptySeq DEF CohortInv
<1>11. ASSUME (\E i \in Items : SwapSource(i)) \/ UNCHANGED vars PROVE CohortInv'
  BY <1>11, <1>b DEF SwapSource, vars, planVars
<1> QED
  BY <1>1, <1>2, <1>3, <1>4, <1>5, <1>6, <1>7, <1>8, <1>9, <1>10, <1>11
     DEF Next, ControllerStep, CohortStep, PackStep

\* A thread clears an item before it frees it, and a failure is recorded of any other
\* that it gives up.
LEMMA StepLeft == ASSUME IInv, [Next]_vars PROVE LeftInv'
<1>a. Typed /\ LeftInv /\ CohortInv /\ crashes \in Nat
  BY DEF IInv, SpentInv
<1> DEFINE Failed == {"failed-retryable", "conflict", "quarantined"}
           Left(k) == /\ task'[k] = "cleared" => file'[k] = None
                      /\ crashes' = 0 /\ file'[k] # None /\ task'[k] = "idle" =>
                            latest'[k].status \in Failed
<1>b. ASSUME NEW k \in Items, file'[k] = file[k], latest'[k] = latest[k], crashes' = crashes,
             task'[k] \in {task[k], "selected"}
      PROVE  Left(k)
  BY <1>a, <1>b DEF LeftInv
<1>c. ASSUME \A k \in Items : Left(k) PROVE LeftInv'
  BY <1>c DEF LeftInv
<1> SUFFICES ASSUME NEW k \in Items PROVE Left(k)
  BY <1>c
<1> HIDE DEF Left
<1> USE DEF Goes, Works, Fails, SpendsFailures, LaneKeeps, bucketVars, journalVars, diskVars,
        spentVars
<1>1. ASSUME \/ \E r \in BOOLEAN : Start(r)
             \/ PackStep \/ Downloaded \/ CloseCohort \/ Finish
             \/ \E i \in Items : SwapSource(i)
             \/ UNCHANGED vars
      PROVE  Left(k)
  BY <1>1, <1>b DEF Start, PackStep, Pack, Packed, Downloaded, CloseCohort, Finish, SwapSource, vars
<1>2. ASSUME OpenCohort PROVE Left(k)
  <2>1. task[k] = "idle"
    BY <1>2, <1>a DEF OpenCohort, CohortInv, AtWork
  <2>2. task'[k] \in {task[k], "selected"}
    BY <1>2, <2>1 DEF OpenCohort
  <2> QED
    BY <1>2, <1>b, <2>2 DEF OpenCohort
<1>3. ASSUME Attempt PROVE Left(k)
  <2>1. PICK i : /\ Journaled(i, "attempting")
                 /\ task' = [task EXCEPT ![i] = "queued"]
    BY <1>3 DEF Attempt
  <2>2. CASE i = k
    BY <1>a, <2>1, <2>2 DEF Typed, Left
  <2>3. CASE i # k
    BY <1>3, <1>a, <1>b, <2>1, <2>3, RecordElsewhere DEF Attempt, Journaled, Typed
  <2> QED
    BY <2>2, <2>3
<1>4. ASSUME Crash PROVE Left(k)
  BY <1>4, <1>a DEF Crash, Left
<1>5. ASSUME NEW i \in Items, i # k,
             DownloadStep(i) \/ JudgeStep(i) \/ RecordFailure(i)
             \/ \E l \in Lanes : BeginProcessing(l, i) \/ JournalFreed(l, i)
      PROVE  Left(k)
  <2>1. latest'[k] = latest[k]
    <3>1. ASSUME NEW s, NEW d, Journal!Recorded(i, s, d) PROVE latest'[k] = latest[k]
      BY <1>a, <1>5, <3>1, RecordElsewhere
    <3> QED
      BY <1>5, <3>1 DEF DownloadStep, BeginDownload, HeadSource, GetSource, ReplaceFile,
         JournalDownload, JudgeStep, Judge, UploadEvidence, UploadResult, JournalUpload, Clear,
         RecordFailure, BeginProcessing, JournalFreed, Journaled
  <2>2. file'[k] = file[k] /\ crashes' = crashes
    BY <1>5, <1>a DEF Typed, DownloadStep, BeginDownload, HeadSource, GetSource, ReplaceFile,
       JournalDownload, JudgeStep, Judge, UploadEvidence, UploadResult, JournalUpload, Clear,
       RecordFailure, BeginProcessing, JournalFreed
  <2>3. task'[k] = task[k]
    BY <1>5, <1>a DEF Typed, DownloadStep, BeginDownload, HeadSource, GetSource, ReplaceFile,
       JournalDownload, JudgeStep, Judge, UploadEvidence, UploadResult, Uploads, JournalUpload,
       Clear, RecordFailure, BeginProcessing, JournalFreed
  <2> QED
    BY <1>b, <2>1, <2>2, <2>3
<1>6. ASSUME DownloadStep(k) \/ \E l \in Lanes : BeginProcessing(l, k) PROVE Left(k)
  <2>1. task'[k] \notin {"idle", "cleared"}
    BY <1>6, <1>a DEF Typed, DownloadStep, BeginDownload, HeadSource, GetSource, ReplaceFile,
       JournalDownload, BeginProcessing
  <2> QED
    BY <2>1 DEF Left
<1>7. ASSUME JudgeStep(k) PROVE Left(k)
  <2>1. CASE Clear(k)
    BY <1>a, <2>1 DEF Clear, Typed, Left
  <2>2. CASE ~Clear(k)
    <3>1. task'[k] \notin {"idle", "cleared"}
      BY <1>7, <1>a, <2>2 DEF Typed, JudgeStep, Judge, UploadEvidence, UploadResult, Uploads,
         JournalUpload, Raised
    <3> QED
      BY <3>1 DEF Left
  <2> QED
    BY <2>1, <2>2
<1>8. ASSUME RecordFailure(k) PROVE Left(k)
  <2>1. latest'[k].status = FailureStatus(k) /\ task'[k] = "idle"
    BY <1>8, <1>a, RecordHere DEF RecordFailure, Journaled, Typed
  <2> QED
    BY <2>1 DEF FailureStatus, Left
<1>9. ASSUME NEW l \in Lanes, JournalFreed(l, k) PROVE Left(k)
  <2>1. file'[k] = None /\ task'[k] = "idle"
    BY <1>9, <1>a DEF JournalFreed, LeftInv, Typed
  <2> QED
    BY <2>1 DEF Left
<1>10. ASSUME NEW l \in Lanes, Claim(l) PROVE Left(k)
  <2>1. lane[l] \in Items
    BY <1>10, <1>a DEF Claim, Typed
  <2>2. file'[k] = file[k] /\ latest'[k] = latest[k] /\ crashes' = crashes
    BY <1>10 DEF Claim
  <2>3. task'[k] = IF lane[l] = k THEN "inferring" ELSE task[k]
    BY <1>10, <1>a, <2>1 DEF Claim, Typed
  <2>4. CASE lane[l] = k
    BY <2>3, <2>4 DEF Left
  <2>5. CASE lane[l] # k
    BY <1>b, <2>2, <2>3, <2>5
  <2> QED
    BY <2>4, <2>5
<1> QED
  BY <1>1, <1>2, <1>3, <1>4, <1>5, <1>6, <1>7, <1>8, <1>9, <1>10
     DEF Next, ControllerStep, CohortStep, ItemStep, LaneStep

\* The report is of results, and the bounds guard what they bound.
LEMMA StepSpent == ASSUME IInv, [Next]_vars PROVE SpentInv'
<1>a. Typed /\ SpentInv
  BY DEF IInv
<1> USE BoundsAssumption
        DEF Goes, Works, Fails, SpendsFailures, LaneKeeps, bucketVars, spentVars, SpentInv
<1>1. ASSUME NEW r \in BOOLEAN, Start(r) PROVE SpentInv'
  BY <1>1, <1>a DEF Start
<1>2. ASSUME PackStep \/ OpenCohort \/ Attempt \/ Downloaded \/ CloseCohort PROVE SpentInv'
  BY <1>2, <1>a DEF PackStep, Pack, Packed, OpenCohort, Attempt, Downloaded, CloseCohort
<1>3. ASSUME Finish PROVE SpentInv'
  BY <1>3, <1>a DEF Finish, Typed
<1>4. ASSUME NEW i \in Items, DownloadStep(i) \/ RecordFailure(i) PROVE SpentInv'
  BY <1>4, <1>a DEF DownloadStep, BeginDownload, HeadSource, GetSource, ReplaceFile,
     JournalDownload, RecordFailure
<1>5. ASSUME NEW i \in Items, JudgeStep(i) PROVE SpentInv'
  BY <1>5, <1>a DEF JudgeStep, Judge, UploadEvidence, UploadResult, Uploads, JournalUpload, Clear
<1>6. ASSUME NEW l \in Lanes, LaneStep(l) PROVE SpentInv'
  BY <1>6, <1>a DEF LaneStep, BeginProcessing, JournalFreed, Claim
<1>7. ASSUME Crash \/ (\E i \in Items : SwapSource(i)) \/ UNCHANGED vars PROVE SpentInv'
  BY <1>7, <1>a DEF Crash, SwapSource, vars
<1> QED
  BY <1>1, <1>2, <1>3, <1>4, <1>5, <1>6, <1>7 DEF Next, ControllerStep, CohortStep, ItemStep

THEOREM Invariant == Spec => []IInv
<1>1. IInv /\ [Next]_vars => IInv'
  <2> SUFFICES ASSUME IInv, [Next]_vars PROVE IInv'
    OBVIOUS
  <2>1. ItemInv'
    BY StepItem DEF ItemInv
  <2> QED
    BY <2>1, StepTyped, StepReport, StepDetector, StepCohort, StepLeft, StepSpent DEF IInv
<1> QED
  BY InitIInv, <1>1, PTL DEF Spec

\* Every reachable state has the declared types.
THEOREM ControllerTyped == Spec => []TypeOK
<1>1. IInv => TypeOK
  BY DEF IInv, Typed, CohortInv, AtWork, SpentInv, TypeOK, Journal!TypeOK,
         Journal!Health
<1> QED
  BY <1>1, Invariant, PTL

\* Whatever the manifest, the sizes and the number of threads, the items at work fit the
\* staging area; a run without a crash leaves only the files of failed items in it.
THEOREM StagingStaysBounded == Spec => []StagingBounded
<1>1. ASSUME IInv PROVE StagingBounded
  <2> DEFINE AtHand == {i \in Items : task[i] \in Staged}
  <2>1. Bytes(AtHand) <= MaxStaging
    <3>1. CASE AtHand = {}
      BY <3>1, FS_EmptySet, LimitAssumption DEF Bytes
    <3>2. CASE AtHand # {}
      <4>1. phase \in AtWork /\ \A i \in AtHand : i \in ToSet(Head(cohorts))
        BY <1>1, <3>2 DEF IInv, CohortInv, Staged
      <4>2. cohorts # <<>> /\ Len(cohorts) \in Nat \ {0} /\ 1 \in DOMAIN cohorts
        BY <1>1, <4>1, EmptySeq, LenProperties DEF IInv, CohortInv
      <4>3. Head(cohorts) = cohorts[1] /\ Head(cohorts) \in Seq(Items)
        BY <1>1, <4>2, HeadTailProperties, ElementOfSeq, LenProperties DEF IInv, CohortInv
      <4>4. Bytes(ToSet(Head(cohorts))) <= MaxStaging
        BY <1>1, <4>2, <4>3 DEF IInv, CohortInv
      <4>5. ToSet(Head(cohorts)) \in SUBSET Items /\ IsFiniteSet(ToSet(Head(cohorts)))
        BY <4>3, CohortFinite
      <4>6. AtHand \in SUBSET ToSet(Head(cohorts))
        BY <4>1
      <4> HIDE DEF AtHand
      <4>7. IsFiniteSet(AtHand) /\ AtHand \in SUBSET Items
        BY <4>5, <4>6, FS_Subset
      <4>8. /\ Bytes(AtHand) <= Bytes(ToSet(Head(cohorts)))
            /\ Bytes(AtHand) \in Nat /\ Bytes(ToSet(Head(cohorts))) \in Nat
        BY <4>5, <4>6, <4>7, BytesOfPart, BytesFinite
      <4> QED
        BY <4>4, <4>8, LimitAssumption
    <3> QED
      BY <3>1, <3>2
  <2> QED
    BY <1>1, <2>1 DEF IInv, LeftInv, StagingBounded
<1> QED
  BY <1>1, Invariant, PTL

\* Whatever is staged or published, of any manifest, through all crashes and retries,
\* was judged on the declared bytes.
THEOREM StagedStaysDeclared == Spec => []StagedIsDeclared
<1>1. IInv => StagedIsDeclared
  BY DEF IInv, ItemInv, Bytewise, StagedIsDeclared
<1> QED
  BY <1>1, Invariant, PTL

\* The journal never runs ahead of R2.
THEOREM ReleasedStaysPublished == Spec => []ReleasedIsPublished
<1>1. IInv => ReleasedIsPublished
  BY DEF IInv, ItemInv, Published, ReportInv, ReleasedIsPublished
<1> QED
  BY <1>1, Invariant, PTL

\* No two threads, of any number, share the first detector.
THEOREM DetectorsNotShared == Spec => []LanesOwnDetectors
<1>1. IInv => LanesOwnDetectors
  BY DEF IInv, DetectorInv, LanesOwnDetectors
<1> QED
  BY <1>1, Invariant, PTL
==============================================================================
