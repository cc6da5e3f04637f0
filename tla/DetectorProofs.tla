---------------------------- MODULE DetectorProofs ----------------------------
(***************************************************************************)
(* The batching thread serves every lane with the detections of its own    *)
(* frames, for any number of lanes, frames, calls and any batch size.      *)
(*                                                                         *)
(* The invariant has two sides.  Of a lane: where its call was cut, what a *)
(* set future holds and what the results add up to.  Of the thread: each   *)
(* request that is not answered carries the frames of its part of the call *)
(* it names, and the frames of a batch lie in the flattened list one       *)
(* request after the other, so that offset is where the next one starts.   *)
(***************************************************************************)
EXTENDS DetectorBatchService, SequenceTheorems, TLAPS

\* Request p of a call of n frames.
PortionOf(c, n, p) ==
    SubSeq(Frames(c, n), (p - 1) * MaxBatch + 1, Smaller(p * MaxBatch, n))

Portion(c, p) == PortionOf(c, asked[c], p)

\* What a lane has cut, seen and collected of its call.
LaneInv(c) ==
    /\ start[c] = Smaller(Len(future[c]) * MaxBatch, asked[c])
    /\ \A p \in 1..Len(future[c]) :
          /\ (p - 1) * MaxBatch < asked[c]
          /\ future[c][p] \in {Pending, Raised, Portion(c, p)}
    /\ read[c] <= Len(future[c])
    /\ results[c] = SubSeq(Frames(c, asked[c]), 1, Smaller(read[c] * MaxBatch, asked[c]))

\* A request belongs to a call its caller made and carries its part of it.
Proper(r) ==
    /\ r \in Request
    /\ Len(r.frames) <= MaxBatch
    /\ r.call <= calls[r.caller]
    /\ r.call = calls[r.caller] =>
          /\ r.part \in 1..Len(future[r.caller])
          /\ r.frames = Portion(r.caller, r.part)

PieceInv == \A i \in 1..Len(Outstanding) : Outstanding[i] = None \/ Proper(Outstanding[i])

PhaseInv ==
    /\ requests = <<>> <=> pc \in {"take", "stopped"}
    /\ requests = <<>> => flattened = <<>>
    /\ held = <<>> <=> pc # "return"
    /\ Len(held) <= 1
    /\ resolved <= Len(requests)
    /\ pc # "resolve" => resolved = 0 /\ offset = 0
    /\ pc = "resolve" => detections \in {flattened, Raised}

\* at[i] frames of the batch come before those of its request i.
Aligned(at) ==
    /\ at \in [1..(Len(requests) + 1) -> 0..Len(flattened)]
    /\ at[1] = 0
    /\ at[Len(requests) + 1] = Len(flattened)
    /\ \A i \in 1..Len(requests) :
          /\ at[i + 1] = at[i] + Len(requests[i].frames)
          /\ requests[i].frames = SubSeq(flattened, at[i] + 1, at[i + 1])
    /\ pc = "resolve" /\ detections # Raised => offset = at[resolved + 1]

AlignInv == \E at \in [1..(Len(requests) + 1) -> 0..Len(flattened)] : Aligned(at)

\* The requests made for part p of call k of c.
Asked(c, k, p) == {r \in Request : r.caller = c /\ r.call = k /\ r.part = p}

Gone(S, K) == \A i \in 1..Len(S) : S[i] \notin K

Sole(S, K) == \E i \in 1..Len(S) : \A j \in 1..Len(S) : S[j] \in K <=> j = i

\* WaitingIsServed, said of the requests instead of their places.
ServedInv ==
    \A c \in busy : \A p \in 1..Len(future[c]) :
        IF future[c][p] = Pending
          THEN Sole(Outstanding, Asked(c, calls[c], p))
          ELSE Gone(Outstanding, Asked(c, calls[c], p))

Inv ==
    /\ TypeOK
    /\ \A c \in Callers : LaneInv(c)
    /\ PieceInv
    /\ PhaseInv
    /\ AlignInv
    /\ ServedInv
    /\ BatchFits
    /\ StatsLagOneBatch

------------------------------------------------------------------------------
(* Cutting a call. *)

LEMMA FramesAre ==
    ASSUME NEW c \in Callers, NEW n \in Nat
    PROVE  Frames(c, n) \in Seq(Frame) /\ Len(Frames(c, n)) = n
<1>1. \A k \in 1..n : <<c, k>> \in Callers \X Nat
  OBVIOUS
<1> QED
  BY <1>1 DEF Frames, Frame

\* Rounds of the loop over range(0, len(frames), max_batch_size).
LEMMA CutBounds ==
    ASSUME NEW n \in Nat, NEW k \in Nat
    PROVE  /\ k * MaxBatch \in Nat
           /\ (k + 1) * MaxBatch = k * MaxBatch + MaxBatch
           /\ Smaller(k * MaxBatch, n) \in 0..n
           /\ Smaller(k * MaxBatch, n) < n => Smaller(k * MaxBatch, n) = k * MaxBatch
           /\ k * MaxBatch < n =>
                 /\ Smaller(k * MaxBatch, n) = k * MaxBatch
                 /\ k * MaxBatch < Smaller((k + 1) * MaxBatch, n)
                 /\ Smaller((k + 1) * MaxBatch, n) <= k * MaxBatch + MaxBatch
<1>1. MaxBatch \in Nat \ {0}
  BY MaxBatchAssumption
<1>2. k * MaxBatch \in Nat
  BY <1>1
<1>3. (k + 1) * MaxBatch = k * MaxBatch + MaxBatch
  BY <1>1
<1> QED
  BY <1>1, <1>2, <1>3 DEF Smaller

LEMMA PortionIs ==
    ASSUME NEW c \in Callers, NEW n \in Nat, NEW k \in Nat, k * MaxBatch < n
    PROVE  /\ PortionOf(c, n, k + 1) \in Seq(Frame)
           /\ Len(PortionOf(c, n, k + 1)) <= MaxBatch
           /\ SubSeq(Frames(c, n), 1, Smaller(k * MaxBatch, n)) \o PortionOf(c, n, k + 1)
              = SubSeq(Frames(c, n), 1, Smaller((k + 1) * MaxBatch, n))
<1> DEFINE a == k * MaxBatch
           b == Smaller((k + 1) * MaxBatch, n)
           F == Frames(c, n)
<1>1. /\ a \in Nat /\ b \in 0..n /\ a < b /\ b <= a + MaxBatch
      /\ Smaller(k * MaxBatch, n) = a
  BY CutBounds
<1>2. PortionOf(c, n, k + 1) = SubSeq(F, a + 1, b)
  BY <1>1, SMTT(30) DEF PortionOf
<1>3. F \in Seq(Frame) /\ Len(F) = n
  BY FramesAre
<1>0. Smaller((k + 1) * MaxBatch, n) = b /\ Frames(c, n) = F
  OBVIOUS
<1> HIDE DEF a, b, F
<1>4. \A i \in (a + 1)..b : F[i] \in Frame
  BY <1>1, <1>3, ElementOfSeq
<1>5. SubSeq(F, a + 1, b) \in Seq(Frame) /\ Len(SubSeq(F, a + 1, b)) = b - a
  <2>1. a + 1 \in Int /\ b \in Int /\ a + 1 <= b /\ b - (a + 1) + 1 = b - a
    BY <1>1
  <2> QED
    BY <1>4, <2>1, SubSeqProperties
<1>6. SubSeq(F, 1, a) \o SubSeq(F, a + 1, b) = SubSeq(F, 1, b)
  <2>1. 1 \in 1..Len(F) + 1 /\ a \in 1 - 1..Len(F) /\ b \in a..Len(F)
    BY <1>1, <1>3
  <2> QED
    BY <1>3, <2>1, ConcatAdjacentSubSeq
<1>7. MaxBatch \in Nat
  BY MaxBatchAssumption
<1>8. b - a <= MaxBatch
  BY <1>1, <1>7
<1> QED
  BY <1>0, <1>1, <1>2, <1>5, <1>6, <1>8

------------------------------------------------------------------------------
(* Where a request is in a list of requests. *)

Piece == Request \cup {None}

LEMMA AppendMarked ==
    ASSUME NEW S \in Seq(Piece), NEW r \in Piece, NEW K
    PROVE  /\ Sole(S, K) /\ r \notin K => Sole(Append(S, r), K)
           /\ Gone(S, K) /\ r \notin K => Gone(Append(S, r), K)
           /\ Gone(S, K) /\ r \in K => Sole(Append(S, r), K)
<1>1. PICK T : T = Append(S, r)
  OBVIOUS
<1>2. /\ Len(S) \in Nat /\ Len(T) = Len(S) + 1 /\ T[Len(S) + 1] = r
      /\ \A i \in 1..Len(S) : T[i] = S[i]
  BY <1>1, AppendProperties
<1>3. Sole(S, K) /\ r \notin K => Sole(T, K)
  <2> SUFFICES ASSUME Sole(S, K), r \notin K PROVE Sole(T, K)
    OBVIOUS
  <2>1. PICK i \in 1..Len(S) : \A j \in 1..Len(S) : S[j] \in K <=> j = i
    BY DEF Sole
  <2>2. i \in 1..Len(T) /\ i # Len(S) + 1
    BY <1>2
  <2>3. \A j \in 1..Len(T) : T[j] \in K <=> j = i
    BY <1>2, <2>1, <2>2
  <2> QED
    BY <2>2, <2>3 DEF Sole
<1>4. Gone(S, K) /\ r \notin K => Gone(T, K)
  BY <1>2 DEF Gone, Sole
<1>5. Gone(S, K) /\ r \in K => Sole(T, K)
  <2> SUFFICES ASSUME Gone(S, K), r \in K PROVE Sole(T, K)
    OBVIOUS
  <2>1. \A j \in 1..Len(T) : T[j] \in K <=> j = Len(S) + 1
    BY <1>2 DEF Gone
  <2>2. Len(S) + 1 \in 1..Len(T)
    BY <1>2
  <2> QED
    BY <2>1, <2>2 DEF Sole
<1> QED
  BY <1>1, <1>3, <1>4, <1>5

LEMMA TailMarked ==
    ASSUME NEW S \in Seq(Piece), S # <<>>, NEW K
    PROVE  /\ Sole(S, K) /\ S[1] \notin K => Sole(Tail(S), K)
           /\ Gone(S, K) => Gone(Tail(S), K)
           /\ Sole(S, K) /\ S[1] \in K => Gone(Tail(S), K)
<1>1. PICK T : T = Tail(S)
  OBVIOUS
<1>2. /\ Len(S) \in Nat \ {0} /\ Len(T) = Len(S) - 1
      /\ \A i \in 1..Len(T) : T[i] = S[i + 1]
  BY <1>1, HeadTailProperties, EmptySeq, LenProperties
<1>3. Sole(S, K) /\ S[1] \notin K => Sole(T, K)
  <2> SUFFICES ASSUME Sole(S, K), S[1] \notin K PROVE Sole(T, K)
    OBVIOUS
  <2>1. PICK i \in 1..Len(S) : \A j \in 1..Len(S) : S[j] \in K <=> j = i
    BY DEF Sole
  <2>2. i - 1 \in 1..Len(T)
    BY <1>2, <2>1
  <2>3. \A j \in 1..Len(T) : T[j] \in K <=> j = i - 1
    BY <1>2, <2>1
  <2> QED
    BY <2>2, <2>3 DEF Sole
<1>4. Gone(S, K) => Gone(T, K)
  BY <1>2 DEF Gone, Sole
<1>5. Sole(S, K) /\ S[1] \in K => Gone(T, K)
  <2> SUFFICES ASSUME Sole(S, K), S[1] \in K PROVE Gone(T, K)
    OBVIOUS
  <2>1. PICK i \in 1..Len(S) : \A j \in 1..Len(S) : S[j] \in K <=> j = i
    BY DEF Sole
  <2>2. i = 1
    BY <1>2, <2>1
  <2>3. \A j \in 1..Len(T) : T[j] \notin K
    BY <1>2, <2>1, <2>2
  <2> QED
    BY <2>3 DEF Gone
<1> QED
  BY <1>1, <1>3, <1>4, <1>5

\* What is put back changes places with the queue.
LEMMA RotateMarked ==
    ASSUME NEW R \in Seq(Piece), NEW h \in Seq(Piece), NEW q \in Seq(Piece),
           NEW K
    PROVE  /\ Sole((R \o h) \o q, K) => Sole((R \o q) \o h, K)
           /\ Gone((R \o h) \o q, K) => Gone((R \o q) \o h, K)
<1> DEFINE place(i, a, b) == IF i <= Len(R) THEN i
                             ELSE IF i <= Len(R) + a THEN i + b ELSE i - a
<1>1. PICK S, T : S = (R \o h) \o q /\ T = (R \o q) \o h
  OBVIOUS
<1>2. Len(R) \in Nat /\ Len(h) \in Nat /\ Len(q) \in Nat
  OBVIOUS
<1>3. Len(S) = Len(R) + Len(h) + Len(q) /\ Len(T) = Len(S)
  BY <1>1, <1>2, ConcatProperties
<1>4. \A i \in 1..Len(S) :
          S[i] = IF i <= Len(R) THEN R[i]
                 ELSE IF i <= Len(R) + Len(h) THEN h[i - Len(R)]
                 ELSE q[i - Len(R) - Len(h)]
  BY <1>1, <1>2, <1>3
<1>5. \A i \in 1..Len(T) :
          T[i] = IF i <= Len(R) THEN R[i]
                 ELSE IF i <= Len(R) + Len(q) THEN q[i - Len(R)]
                 ELSE h[i - Len(R) - Len(q)]
  BY <1>1, <1>2, <1>3
<1>6. ASSUME NEW i \in 1..Len(S)
      PROVE  /\ place(i, Len(h), Len(q)) \in 1..Len(T)
             /\ T[place(i, Len(h), Len(q))] = S[i]
             /\ place(place(i, Len(h), Len(q)), Len(q), Len(h)) = i
  <2>1. CASE i <= Len(R)
    BY <1>2, <1>3, <1>4, <1>5, <2>1
  <2>2. CASE i > Len(R) /\ i <= Len(R) + Len(h)
    BY <1>2, <1>3, <1>4, <1>5, <2>2
  <2>3. CASE i > Len(R) + Len(h)
    <3>1. place(i, Len(h), Len(q)) = i - Len(h)
      BY <1>2, <2>3
    <3>2. i - Len(h) \in 1..Len(T) /\ i - Len(h) > Len(R) /\ i - Len(h) <= Len(R) + Len(q)
      BY <1>2, <1>3, <2>3
    <3>3. T[i - Len(h)] = q[i - Len(h) - Len(R)]
      BY <1>2, <1>5, <3>2, SMTT(30)
    <3>4. S[i] = q[i - Len(R) - Len(h)]
      BY <1>2, <1>4, <2>3
    <3>5. i - Len(R) - Len(h) = i - Len(h) - Len(R)
      BY <1>2
    <3>6. place(i - Len(h), Len(q), Len(h)) = i
      BY <1>2, <3>2
    <3> QED
      BY <3>1, <3>2, <3>3, <3>4, <3>5, <3>6
  <2> QED
    BY <1>2, <2>1, <2>2, <2>3
<1>7. ASSUME NEW j \in 1..Len(T)
      PROVE  /\ place(j, Len(q), Len(h)) \in 1..Len(S)
             /\ S[place(j, Len(q), Len(h))] = T[j]
             /\ place(place(j, Len(q), Len(h)), Len(h), Len(q)) = j
  <2>1. CASE j <= Len(R)
    BY <1>2, <1>3, <1>4, <1>5, <2>1
  <2>2. CASE j > Len(R) /\ j <= Len(R) + Len(q)
    BY <1>2, <1>3, <1>4, <1>5, <2>2, SMTT(30)
  <2>3. CASE j > Len(R) + Len(q)
    <3>1. place(j, Len(q), Len(h)) = j - Len(q)
      BY <1>2, <2>3
    <3>2. j - Len(q) \in 1..Len(S) /\ j - Len(q) > Len(R) /\ j - Len(q) <= Len(R) + Len(h)
      BY <1>2, <1>3, <2>3
    <3>3. S[j - Len(q)] = h[j - Len(q) - Len(R)]
      BY <1>2, <1>4, <3>2
    <3>4. T[j] = h[j - Len(R) - Len(q)]
      BY <1>2, <1>5, <2>3
    <3>5. j - Len(R) - Len(q) = j - Len(q) - Len(R)
      BY <1>2
    <3>6. place(j - Len(q), Len(h), Len(q)) = j
      BY <1>2, <3>2
    <3> QED
      BY <3>1, <3>2, <3>3, <3>4, <3>5, <3>6
  <2> QED
    BY <1>2, <2>1, <2>2, <2>3
<1> HIDE DEF place
<1>8. Gone(S, K) => Gone(T, K)
  BY <1>7 DEF Gone
<1>9. ASSUME Sole(S, K) PROVE Sole(T, K)
  <2>1. PICK i \in 1..Len(S) : \A j \in 1..Len(S) : S[j] \in K <=> j = i
    BY <1>9 DEF Sole
  <2>2. \A j \in 1..Len(T) : T[j] \in K <=> j = place(i, Len(h), Len(q))
    BY <1>6, <1>7, <2>1
  <2> QED
    BY <1>6, <2>1, <2>2 DEF Sole
<1> QED
  BY <1>1, <1>8, <1>9
------------------------------------------------------------------------------
(* What a step does to the outstanding requests. *)

LineOf(rs, k, h, q) == SubSeq(rs, k + 1, Len(rs)) \o h \o q

LEMMA LineIs == Outstanding = LineOf(requests, resolved, held, queue)
  BY DEF Outstanding, LineOf

LEMMA HeadApart ==
    ASSUME NEW q \in Seq(Piece), q # <<>>
    PROVE  /\ Head(q) \in Piece /\ Tail(q) \in Seq(Piece) /\ Head(q) = q[1]
           /\ <<Head(q)>> \o Tail(q) = q
<1>1. Len(q) \in Nat \ {0} /\ \A i \in 1..Len(q) : q[i] \in Piece
  BY EmptySeq, ElementOfSeq
<1>2. /\ Head(q) \in Piece /\ Tail(q) \in Seq(Piece) /\ Len(Tail(q)) = Len(q) - 1
      /\ \A i \in 1..Len(Tail(q)) : Tail(q)[i] = q[i + 1]
  BY HeadTailProperties
<1>3. Head(q) = q[1]
  BY <1>1
<1>4. PICK s : s = <<Head(q)>> \o Tail(q)
  OBVIOUS
<1>5. <<Head(q)>> \in Seq(Piece) /\ Len(<<Head(q)>>) = 1 /\ <<Head(q)>>[1] = q[1]
  BY <1>2, <1>3
<1>6. s \in Seq(Piece) /\ Len(s) = Len(q)
  BY <1>1, <1>2, <1>4, <1>5, ConcatProperties
<1>7. \A i \in 1..Len(s) : s[i] = q[i]
  BY <1>1, <1>2, <1>4, <1>5, <1>6, ConcatProperties
<1>8. s = q
  BY <1>6, <1>7, SeqEqual
<1> QED
  BY <1>2, <1>3, <1>4, <1>8

LEMMA LineWhole ==
    ASSUME NEW rs \in Seq(Piece), NEW h \in Seq(Piece), NEW q \in Seq(Piece)
    PROVE  /\ LineOf(rs, 0, h, q) = (rs \o h) \o q
           /\ LineOf(rs, 0, <<>>, q) = rs \o q
           /\ LineOf(<<>>, 0, <<>>, q) = q
           /\ LineOf(rs, Len(rs), <<>>, q) = q
<1>1. SubSeq(rs, 0 + 1, Len(rs)) = rs /\ SubSeq(<<>>, 0 + 1, Len(<<>>)) = <<>>
  BY SubSeqFull, EmptySeq
<1>2. SubSeq(rs, Len(rs) + 1, Len(rs)) = <<>>
  BY SubSeqEmpty, LenProperties
<1>3. <<>> \in Seq(Piece) /\ rs \o <<>> = rs /\ <<>> \o <<>> = <<>> /\ <<>> \o q = q
  BY ConcatEmptySeq, EmptySeq
<1> QED
  BY <1>1, <1>2, <1>3 DEF LineOf

\* The line when nothing of the batch is resolved yet.
LEMMA LineHeld ==
    \A rs, h, q \in Seq(Piece) : LineOf(rs, 0, h, q) = (rs \o h) \o q
  BY LineWhole, ZenonT(40)

LEMMA ConcatShift ==
    \A s, t, u \in Seq(Piece) : (s \o t) \o u = s \o (t \o u)
  BY ConcatAssociative

\* A request that is taken moves on, and its place in the line stays.
LEMMA LineTaken ==
    ASSUME NEW rs \in Seq(Piece), NEW q \in Seq(Piece), q # <<>>
    PROVE  /\ LineOf(Append(rs, Head(q)), 0, <<>>, Tail(q)) = rs \o q
           /\ LineOf(rs, 0, <<Head(q)>>, Tail(q)) = rs \o q
           /\ LineOf(<<Head(q)>>, 0, <<>>, Tail(q)) = q
<1> DEFINE e == <<Head(q)>>
<1>1. /\ Head(q) \in Piece /\ Tail(q) \in Seq(Piece)
      /\ e \o Tail(q) = q
  BY HeadApart
<1>2. e \in Seq(Piece) /\ <<>> \in Seq(Piece)
  BY <1>1
<1>3. Append(rs, Head(q)) = rs \o e
  BY <1>1, AppendIsConcat
<1> HIDE DEF e
<1>4. rs \o e \in Seq(Piece)
  BY <1>2, ConcatProperties
<1>5. (rs \o e) \o Tail(q) = rs \o q
  <2>1. (rs \o e) \o Tail(q) = rs \o (e \o Tail(q))
    BY <1>1, <1>2, ConcatShift
  <2> QED
    BY <1>1, <2>1
<1>6. LineOf(rs \o e, 0, <<>>, Tail(q)) = rs \o q
  BY <1>1, <1>4, <1>5, LineWhole
<1>7. LineOf(rs, 0, e, Tail(q)) = rs \o q
  <2>1. e \in Seq(Piece) /\ Tail(q) \in Seq(Piece)
    BY <1>1, <1>2
  <2>2. LineOf(rs, 0, e, Tail(q)) = (rs \o e) \o Tail(q)
    BY <2>1, LineHeld
  <2> QED
    BY <1>5, <2>2
<1>8. LineOf(e, 0, <<>>, Tail(q)) = q
  BY <1>1, <1>2, LineWhole, ZenonT(40)
<1> QED
  BY <1>3, <1>6, <1>7, <1>8 DEF e

LEMMA LineDropped ==
    ASSUME NEW rs \in Seq(Piece), NEW h \in Seq(Piece), NEW q \in Seq(Piece),
           NEW k \in Nat, k < Len(rs)
    PROVE  /\ LineOf(rs, k, h, q) # <<>>
           /\ LineOf(rs, k, h, q)[1] = rs[k + 1]
           /\ LineOf(rs, k + 1, h, q) = Tail(LineOf(rs, k, h, q))
<1> DEFINE e == <<rs[k + 1]>>
           t == SubSeq(rs, k + 1 + 1, Len(rs))
<1>1. Len(rs) \in Nat /\ k + 1 \in 1..Len(rs) /\ Len(rs) \in k + 1..Len(rs)
  OBVIOUS
<1>2. SubSeq(rs, k + 1, Len(rs)) = e \o t
  BY <1>1, SubSeqRecursiveFirst
<1>3. e \in Seq(Piece) /\ Len(e) = 1 /\ e[1] = rs[k + 1]
  BY <1>1, ElementOfSeq
<1>4. t \in Seq(Piece)
  <2>1. \A i \in k + 1 + 1..Len(rs) : rs[i] \in Piece
    BY <1>1, ElementOfSeq
  <2> QED
    BY <1>1, <2>1, SubSeqProperties
<1> HIDE DEF e, t
<1>5. PICK u : u = (t \o h) \o q
  OBVIOUS
<1>6. u \in Seq(Piece) /\ t \o h \in Seq(Piece)
  BY <1>4, <1>5, ConcatProperties
<1>7. ((e \o t) \o h) \o q = e \o u
  <2>1. PICK th : th = t \o h
    OBVIOUS
  <2>2. e \in Seq(Piece) /\ t \in Seq(Piece) /\ th \in Seq(Piece)
    BY <1>3, <1>4, <1>6, <2>1
  <2>3. (e \o t) \o h = e \o (t \o h)
    BY <2>2, ConcatShift, SMTT(30)
  <2>4. (e \o th) \o q = e \o (th \o q)
    BY <2>2, ConcatShift, SMTT(30)
  <2> QED
    BY <1>5, <2>1, <2>3, <2>4
<1>8. PICK s : s = e \o u
  OBVIOUS
<1>9. /\ s \in Seq(Piece) /\ Len(s) = Len(u) + 1 /\ s # <<>> /\ s[1] = rs[k + 1]
      /\ \A i \in 1..Len(u) : s[i + 1] = u[i]
  <2>1. /\ e \o u \in Seq(Piece) /\ Len(e \o u) = Len(e) + Len(u)
        /\ \A i \in 1..Len(e) + Len(u) :
              (e \o u)[i] = IF i <= Len(e) THEN e[i] ELSE u[i - Len(e)]
    BY <1>3, <1>6, ConcatProperties, Zenon
  <2>2. Len(u) \in Nat
    BY <1>6
  <2>3. /\ Len(s) = Len(u) + 1 /\ s[1] = rs[k + 1]
        /\ \A i \in 1..Len(u) : s[i + 1] = u[i]
    BY <1>3, <1>8, <2>1, <2>2, SMTT(30)
  <2> QED
    BY <1>8, <2>1, <2>2, <2>3
<1>10. Tail(s) = u
  <2>1. /\ Tail(s) \in Seq(Piece) /\ Len(Tail(s)) = Len(s) - 1
        /\ \A i \in 1..Len(Tail(s)) : Tail(s)[i] = s[i + 1]
    BY <1>9, HeadTailProperties
  <2>2. Len(Tail(s)) = Len(u)
    BY <1>6, <1>9, <2>1
  <2> QED
    BY <1>6, <1>9, <2>1, <2>2, SeqEqual, SMTT(30)
<1>11. LineOf(rs, k, h, q) = s /\ LineOf(rs, k + 1, h, q) = u
  BY <1>2, <1>5, <1>7, <1>8 DEF LineOf, t
<1> QED
  BY <1>9, <1>10, <1>11

LEMMA LineAppended ==
    ASSUME NEW rs \in Seq(Piece), NEW h \in Seq(Piece), NEW q \in Seq(Piece),
           NEW k \in Nat, NEW r \in Piece
    PROVE  /\ LineOf(rs, k, h, q) \in Seq(Piece)
           /\ LineOf(rs, k, h, Append(q, r)) = Append(LineOf(rs, k, h, q), r)
<1>1. PICK t : t = SubSeq(rs, k + 1, Len(rs))
  OBVIOUS
<1>2. t \in Seq(Piece)
  <2>1. Len(rs) \in Nat /\ \A i \in k + 1..Len(rs) : rs[i] \in Piece
    BY ElementOfSeq
  <2> QED
    BY <1>1, <2>1, SubSeqProperties
<1>3. t \o h \in Seq(Piece) /\ (t \o h) \o q \in Seq(Piece)
  BY <1>2, ConcatProperties
<1>4. Append(q, r) = q \o <<r>> /\ <<r>> \in Seq(Piece)
  BY AppendIsConcat
<1>5. (t \o h) \o (q \o <<r>>) = ((t \o h) \o q) \o <<r>>
  BY <1>3, <1>4, ConcatAssociative, SMTT(30)
<1>6. Append((t \o h) \o q, r) = ((t \o h) \o q) \o <<r>>
  BY <1>3, AppendIsConcat
<1> QED
  BY <1>1, <1>3, <1>4, <1>5, <1>6 DEF LineOf

------------------------------------------------------------------------------
(* What a step leaves alone. *)

LEMMA LanesKept ==
    ASSUME UNCHANGED <<askVars, future, resultVars>>, \A c \in Callers : LaneInv(c)
    PROVE  \A c \in Callers : LaneInv(c)'
  BY DEF askVars, resultVars, LaneInv, Portion, PortionOf

LEMMA BatchKept ==
    ASSUME UNCHANGED <<pc, batchVars, detectorVars>>,
           PhaseInv, AlignInv, BatchFits, StatsLagOneBatch
    PROVE  PhaseInv' /\ AlignInv' /\ BatchFits' /\ StatsLagOneBatch'
<1> USE DEF batchVars, detectorVars
<1>1. PhaseInv'
  BY DEF PhaseInv
<1>2. AlignInv'
  BY DEF AlignInv, Aligned
<1>3. BatchFits' /\ StatsLagOneBatch'
  BY DEF BatchFits, StatsLagOneBatch
<1> QED
  BY <1>1, <1>2, <1>3

LEMMA OutstandingTyped ==
    ASSUME TypeOK
    PROVE  /\ Outstanding \in Seq(Piece)
           /\ requests \in Seq(Piece) /\ held \in Seq(Piece) /\ queue \in Seq(Piece)
<1>1. /\ requests \in Seq(Request) /\ held \in Seq(Piece) /\ queue \in Seq(Piece)
      /\ resolved \in Nat
  BY DEF TypeOK, Piece
<1>2. requests \in Seq(Piece)
  BY <1>1, SeqMonotonic DEF Piece
<1>3. PICK rs, h, q : rs = requests /\ h = held /\ q = queue
  OBVIOUS
<1>4. LineOf(rs, resolved, h, q) \in Seq(Piece)
  <2>1. PICK k \in Nat : k = resolved
    BY <1>1
  <2>2. \A r \in Piece : LineOf(rs, k, h, q) \in Seq(Piece)
    BY <1>1, <1>2, <1>3, LineAppended
  <2>3. None \in Piece
    BY DEF Piece
  <2> QED
    BY <2>1, <2>2, <2>3
<1> QED
  BY <1>1, <1>2, <1>3, <1>4, LineIs

\* A request keeps its meaning while its call goes on, and has none afterwards.
Onward ==
    \A c \in Callers :
        \/ calls'[c] > calls[c]
        \/ /\ calls'[c] = calls[c]
           /\ asked'[c] = asked[c]
           /\ Len(future'[c]) >= Len(future[c])

LEMMA ProperStays ==
    ASSUME TypeOK, TypeOK', Onward, NEW r, Proper(r)
    PROVE  Proper(r)'
<1>1. r \in Request /\ r.caller \in Callers /\ r.call \in Nat /\ r.part \in Nat
  BY DEF Proper, Request
<1>2. /\ calls[r.caller] \in Nat /\ calls'[r.caller] \in Nat
      /\ Len(future[r.caller]) \in Nat /\ Len(future'[r.caller]) \in Nat
  <2>1. /\ calls[r.caller] \in 0..MaxCalls /\ calls'[r.caller] \in 0..MaxCalls
        /\ future[r.caller] \in Seq({Pending, Raised} \cup Seq(Frame))
        /\ future'[r.caller] \in Seq({Pending, Raised} \cup Seq(Frame))
    BY <1>1 DEF TypeOK
  <2> QED
    BY <2>1, BoundAssumption
<1>3. CASE calls'[r.caller] > calls[r.caller]
  BY <1>1, <1>2, <1>3 DEF Proper
<1>4. CASE /\ calls'[r.caller] = calls[r.caller]
           /\ asked'[r.caller] = asked[r.caller]
           /\ Len(future'[r.caller]) >= Len(future[r.caller])
  BY <1>1, <1>2, <1>4 DEF Proper, Portion
<1> QED
  BY <1>1, <1>3, <1>4 DEF Onward

LEMMA PiecesStay ==
    ASSUME TypeOK, TypeOK', Onward, PieceInv,
           \A i \in 1..Len(Outstanding') :
              \/ Outstanding'[i] = None
              \/ \E j \in 1..Len(Outstanding) : Outstanding'[i] = Outstanding[j]
              \/ Proper(Outstanding[i])'
    PROVE  PieceInv'
<1> SUFFICES ASSUME NEW i \in 1..Len(Outstanding'), Outstanding'[i] # None
             PROVE  Proper(Outstanding[i])'
  BY DEF PieceInv
<1>1. CASE \E j \in 1..Len(Outstanding) : Outstanding'[i] = Outstanding[j]
  <2>1. PICK r : r = Outstanding'[i]
    OBVIOUS
  <2>2. Proper(r)
    BY <1>1, <2>1 DEF PieceInv
  <2>3. Proper(r)'
    BY <2>2, ProperStays
  <2> QED
    BY <2>1, <2>3 DEF Proper, Portion
<1>2. CASE Proper(Outstanding[i])'
  BY <1>2
<1> QED
  BY <1>1, <1>2

\* Steps of the thread that move requests about, and what they keep.
LEMMA QuietKept ==
    ASSUME TypeOK, TypeOK', UNCHANGED <<askVars, future, resultVars>>,
           Outstanding' = Outstanding, PieceInv, ServedInv
    PROVE  PieceInv' /\ ServedInv'
<1>1. PieceInv'
  <2>1. Onward
    BY DEF Onward, askVars, TypeOK
  <2> QED
    BY <2>1, PiecesStay
<1>2. ServedInv'
  <2> DEFINE Served(who, lane, call, line) ==
               \A c \in who : \A p \in 1..Len(lane[c]) :
                  IF lane[c][p] = Pending
                    THEN Sole(line, Asked(c, call[c], p))
                    ELSE Gone(line, Asked(c, call[c], p))
  <2>1. busy' = busy /\ calls' = calls /\ future' = future
    BY DEF askVars
  <2>2. Served(busy, future, calls, Outstanding)
    BY Zenon DEF ServedInv
  <2>3. Served(busy', future', calls', Outstanding')
    <3> HIDE DEF Served
    <3> QED
      BY <2>1, <2>2, Zenon
  <2> QED
    BY <2>3, Zenon DEF ServedInv, Sole, Gone, Asked
<1> QED
  BY <1>1, <1>2

------------------------------------------------------------------------------
(* Types. *)

\* offset stands before the detections of the next request of the batch.
LEMMA SliceIs ==
    ASSUME TypeOK, PhaseInv, AlignInv, Unresolved, detections # Raised
    PROVE  /\ resolved + 1 \in 1..Len(requests)
           /\ requests[resolved + 1] \in Request
           /\ Slice(requests[resolved + 1]) = requests[resolved + 1].frames
<1>1. PICK at : Aligned(at)
  BY DEF AlignInv
<1>2. /\ resolved \in Nat /\ Len(requests) \in Nat /\ resolved + 1 \in 1..Len(requests)
      /\ requests[resolved + 1] \in Request
  BY DEF TypeOK, Unresolved
<1>3. detections = flattened
  BY DEF PhaseInv, Unresolved
<1>4. offset = at[resolved + 1]
  BY <1>1 DEF Aligned, Unresolved
<1> QED
  BY <1>1, <1>2, <1>3, <1>4 DEF Aligned, Slice

\* The next request of the batch heads the line.
LEMMA NextProper ==
    ASSUME TypeOK, PhaseInv, PieceInv, Unresolved
    PROVE  /\ Outstanding # <<>>
           /\ Outstanding[1] = requests[resolved + 1]
           /\ requests[resolved + 1] # None
           /\ Proper(requests[resolved + 1])
<1>1. PICK rs, h, q, k : rs = requests /\ h = held /\ q = queue /\ k = resolved
  OBVIOUS
<1>2. /\ rs \in Seq(Piece) /\ h \in Seq(Piece) /\ q \in Seq(Piece) /\ k \in Nat
      /\ k < Len(rs)
  BY <1>1, OutstandingTyped DEF TypeOK, Unresolved
<1>3. Outstanding = LineOf(rs, k, h, q)
  BY <1>1, LineIs
<1>4. Outstanding # <<>> /\ Outstanding[1] = requests[resolved + 1]
  BY <1>1, <1>2, <1>3, LineDropped, SMTT(30)
<1>5. requests[resolved + 1] \in Request /\ requests[resolved + 1] # None
  BY <1>1, <1>2, NoneAssumption DEF TypeOK
<1>6. 1 \in 1..Len(Outstanding)
  BY <1>4, OutstandingTyped
<1> QED
  BY <1>4, <1>5, <1>6 DEF PieceInv

LEMMA QueueTyped ==
    ASSUME TypeOK, queue # <<>>
    PROVE  /\ Head(queue) \in Piece /\ Tail(queue) \in Seq(Piece)
           /\ Head(queue) # None => Head(queue) \in Request /\ Head(queue).frames \in Seq(Frame)
<1>1. queue \in Seq(Piece)
  BY OutstandingTyped
<1>2. PICK q \in Seq(Piece) : q = queue
  BY <1>1
<1>3. Head(q) \in Piece /\ Tail(q) \in Seq(Piece)
  BY <1>2, HeadApart
<1> QED
  BY <1>2, <1>3 DEF Piece, Request

LEMMA CallerTyped ==
    ASSUME TypeOK, \A d \in Callers : LaneInv(d), NEW c \in Callers, Caller(c)
    PROVE  TypeOK'
<1> USE BoundAssumption DEF TypeOK, askVars, resultVars, batchVars, detectorVars
<1>1. ASSUME NEW n \in 0..MaxFrames, Call(c, n) PROVE TypeOK'
  <2>1. /\ calls[c] \in 0..MaxCalls /\ calls[c] + 1 \in 0..MaxCalls /\ 0 \in 0..MaxFrames
        /\ <<>> \in Seq({Pending, Raised} \cup Seq(Frame)) /\ <<>> \in Seq(Frame)
    BY <1>1, SMTT(30) DEF Call
  <2> QED
    BY <1>1, <2>1 DEF Call
<1>2. ASSUME Put(c) PROVE TypeOK'
  <2> DEFINE stop == Smaller(start[c] + MaxBatch, asked[c])
             r == [caller |-> c, call |-> calls[c], part |-> Len(future[c]) + 1,
                   frames |-> SubSeq(Frames(c, asked[c]), start[c] + 1, stop)]
  <2>1. /\ asked[c] \in Nat /\ start[c] \in Nat /\ start[c] < asked[c] /\ asked[c] <= MaxFrames
        /\ MaxBatch \in Nat \ {0} /\ Len(future[c]) \in Nat /\ calls[c] \in Nat
    <3>1. future[c] \in Seq({Pending, Raised} \cup Seq(Frame))
      OBVIOUS
    <3> QED
      BY <1>2, <3>1, MaxBatchAssumption DEF Put
  <2>2. stop \in 0..MaxFrames /\ stop <= asked[c]
    BY <2>1, SMTT(30) DEF Smaller
  <2>3. SubSeq(Frames(c, asked[c]), start[c] + 1, stop) \in Seq(Frame)
    <3>1. PICK F, a, b : F = Frames(c, asked[c]) /\ a = start[c] + 1 /\ b = stop
      OBVIOUS
    <3>2. PICK n \in Nat : n = asked[c]
      BY <2>1
    <3>3. F \in Seq(Frame) /\ Len(F) = asked[c]
      BY <3>1, <3>2, FramesAre
    <3>4. a \in Int /\ b \in Int /\ \A i \in a..b : F[i] \in Frame
      <4>1. a \in Nat \ {0} /\ b \in Int /\ b <= Len(F)
        BY <2>1, <2>2, <3>1, <3>3, SMTT(30)
      <4>2. \A i \in a..b : i \in 1..Len(F)
        BY <3>3, <4>1
      <4> QED
        BY <3>3, <4>1, <4>2, ElementOfSeq
    <3>5. SubSeq(F, a, b) \in Seq(Frame)
      BY <3>4, SubSeqProperties
    <3> QED
      BY <3>1, <3>5
  <2>4. r \in Request
    BY <2>1, <2>3, SMTT(30) DEF Request
  <2>5. Append(queue, r) \in Seq(Request \cup {None})
    BY <2>4
  <2>6. queue' = Append(queue, r) /\ start' = [start EXCEPT ![c] = stop]
    BY <1>2 DEF Put
  <2>7. Append(future[c], Pending) \in Seq({Pending, Raised} \cup Seq(Frame))
    OBVIOUS
  <2> HIDE DEF stop, r
  <2> QED
    BY <1>2, <2>2, <2>5, <2>6, <2>7 DEF Put
<1>3. ASSUME Result(c) PROVE TypeOK'
  <2>1. future[c] \in Seq({Pending, Raised} \cup Seq(Frame)) /\ read[c] \in Nat
    OBVIOUS
  <2>2. read[c] + 1 \in 1..Len(future[c])
    BY <1>3, <2>1, SMTT(30) DEF Result
  <2>3. future[c][read[c] + 1] \in Seq(Frame)
    BY <1>3, <2>1, <2>2, ElementOfSeq, SMTT(30) DEF Result
  <2>4. results[c] \o future[c][read[c] + 1] \in Seq(Frame)
    BY <2>3
  <2>5. /\ read' \in [Callers -> Nat]
        /\ results' \in [Callers -> Seq(Frame)]
    <3>1. PICK t \in Seq(Frame) : t = results[c] \o future[c][read[c] + 1]
      BY <2>4
    <3>2. read' = [read EXCEPT ![c] = read[c] + 1] /\ results' = [results EXCEPT ![c] = t]
      BY <1>3, <3>1 DEF Result
    <3>3. read[c] + 1 \in Nat
      BY <2>1
    <3> HIDE DEF TypeOK
    <3>4. read \in [Callers -> Nat] /\ results \in [Callers -> Seq(Frame)]
      BY DEF TypeOK
    <3> QED
      BY <3>2, <3>3, <3>4
  <2> QED
    BY <1>3, <2>5 DEF Result
<1>4. ASSUME Returns(c) PROVE TypeOK'
  BY <1>4 DEF Returns
<1>5. ASSUME Raises(c) PROVE TypeOK'
  BY <1>5 DEF Raises
<1> QED
  BY <1>1, <1>2, <1>3, <1>4, <1>5 DEF Caller

LEMMA ThreadTyped ==
    ASSUME TypeOK, PhaseInv, AlignInv, PieceInv, StatsLagOneBatch, Thread
    PROVE  TypeOK'
<1> USE DEF TypeOK, askVars, resultVars, batchVars, detectorVars
<1>1. ASSUME Take PROVE TypeOK'
  <2>1. Head(queue) \in Piece /\ Tail(queue) \in Seq(Piece)
    BY <1>1, QueueTyped DEF Take
  <2>2. CASE Head(queue) = None
    BY <1>1, <2>1, <2>2 DEF Take, Piece
  <2>3. CASE Head(queue) # None
    <3>1. Head(queue) \in Request /\ Head(queue).frames \in Seq(Frame)
      BY <1>1, <2>3, QueueTyped DEF Take
    <3>2. <<Head(queue)>> \in Seq(Request)
      BY <3>1
    <3> QED
      BY <1>1, <2>1, <2>3, <3>1, <3>2 DEF Take, Piece
  <2> QED
    BY <2>2, <2>3
<1>2. ASSUME Gather PROVE TypeOK'
  <2>1. CASE Fits(Head(queue))
    <3>1. /\ Head(queue) \in Request /\ Head(queue).frames \in Seq(Frame)
          /\ Tail(queue) \in Seq(Piece)
      BY <1>2, <2>1, QueueTyped DEF Gather, Fits
    <3>2. /\ Append(requests, Head(queue)) \in Seq(Request)
          /\ flattened \o Head(queue).frames \in Seq(Frame)
      BY <3>1
    <3> QED
      BY <1>2, <2>1, <3>1, <3>2 DEF Gather, Piece
  <2>2. CASE ~Fits(Head(queue))
    <3>1. Head(queue) \in Piece /\ Tail(queue) \in Seq(Piece)
      BY <1>2, QueueTyped DEF Gather
    <3>2. <<Head(queue)>> \in Seq(Piece)
      BY <3>1
    <3> QED
      BY <1>2, <2>2, <3>1, <3>2 DEF Gather, Piece
  <2> QED
    BY <2>1, <2>2
<1>3. ASSUME PutBack PROVE TypeOK'
  BY <1>3, SMTT(30) DEF PutBack, Returned
<1>4. ASSUME StopGathering PROVE TypeOK'
  BY <1>4 DEF StopGathering
<1>5. ASSUME Infer PROVE TypeOK'
  BY <1>5, SMTT(30) DEF Infer
<1>6. ASSUME Unresolved, NEW r, r = requests[resolved + 1],
             NEW v \in {Raised} \cup Seq(Frame), Resolve(r, v)
      PROVE  future' \in [Callers -> Seq({Pending, Raised} \cup Seq(Frame))]
  <2>1. PICK O : O = {Pending, Raised} \cup Seq(Frame)
    OBVIOUS
  <2>2. future \in [Callers -> Seq(O)] /\ v \in O
    BY <2>1
  <2>3. CASE ~Awaited(r)
    BY <1>6, <2>1, <2>2, <2>3 DEF Resolve
  <2>4. CASE Awaited(r)
    <3>1. Proper(r)
      BY <1>6, NextProper
    <3>2. r.caller \in Callers /\ r.part \in 1..Len(future[r.caller])
      BY <2>4, <3>1 DEF Awaited, Proper, Request
    <3>3. [future[r.caller] EXCEPT ![r.part] = v] \in Seq(O)
      BY <2>2, <3>2, ExceptSeq
    <3>4. future' = [future EXCEPT ![r.caller] = [future[r.caller] EXCEPT ![r.part] = v]]
      BY <1>6, <2>2, <2>4, <3>2 DEF Resolve
    <3> QED
      BY <2>1, <2>2, <3>2, <3>3, <3>4
  <2> QED
    BY <2>3, <2>4
<1>7. ASSUME SetResult PROVE TypeOK'
  <2>1. PICK r : r = requests[resolved + 1]
    OBVIOUS
  <2>2. Unresolved /\ Slice(r) = r.frames /\ r \in Request
    BY <1>7, <2>1, SliceIs DEF SetResult
  <2>3. Slice(r) \in Seq(Frame) /\ Len(r.frames) \in Nat
    BY <2>2 DEF Request
  <2>4. Resolve(r, Slice(r)) /\ offset' = offset + Len(r.frames)
    BY <1>7, <2>1 DEF SetResult
  <2>5. future' \in [Callers -> Seq({Pending, Raised} \cup Seq(Frame))]
    BY <1>6, <2>1, <2>2, <2>3, <2>4
  <2>6. /\ resolved' = resolved + 1
        /\ UNCHANGED <<queue, askVars, resultVars, pc, batchVars, detections, uncounted, closed>>
    BY <2>4 DEF Resolve
  <2>7. offset' \in Nat /\ resolved' \in Nat
    BY <2>3, <2>4, <2>6
  <2> QED
    BY <2>5, <2>6, <2>7
<1>8. ASSUME SetException PROVE TypeOK'
  <2>1. PICK r : r = requests[resolved + 1]
    OBVIOUS
  <2>2. Unresolved /\ Resolve(r, Raised) /\ UNCHANGED offset
    BY <1>8, <2>1 DEF SetException
  <2>3. future' \in [Callers -> Seq({Pending, Raised} \cup Seq(Frame))]
    BY <1>6, <2>1, <2>2
  <2>4. /\ resolved' = resolved + 1
        /\ UNCHANGED <<queue, askVars, resultVars, pc, batchVars, detections, uncounted, closed>>
    BY <2>2 DEF Resolve
  <2> QED
    BY <2>2, <2>3, <2>4, SMTT(30)
<1>9. ASSUME EndBatch PROVE TypeOK'
  <2>1. uncounted' = 0
    BY <1>9 DEF EndBatch, Counted, StatsLagOneBatch
  <2>2. /\ <<>> \in Seq(Request) /\ <<>> \in Seq(Frame)
    OBVIOUS
  <2> QED
    BY <1>9, <2>1, <2>2 DEF EndBatch
<1> QED
  BY <1>1, <1>2, <1>3, <1>4, <1>5, <1>7, <1>8, <1>9 DEF Thread

------------------------------------------------------------------------------
(* The lanes. *)

LEMMA OtherLane ==
    ASSUME NEW d \in Callers, LaneInv(d), asked'[d] = asked[d], start'[d] = start[d],
           future'[d] = future[d], read'[d] = read[d], results'[d] = results[d]
    PROVE  LaneInv(d)'
  BY DEF LaneInv, Portion

LEMMA LaneTyped ==
    ASSUME TypeOK, NEW c \in Callers
    PROVE  /\ asked[c] \in Nat /\ start[c] \in Nat /\ read[c] \in Nat /\ calls[c] \in Nat
           /\ Len(future[c]) \in Nat
           /\ future[c] \in Seq({Pending, Raised} \cup Seq(Frame))
<1>1. future[c] \in Seq({Pending, Raised} \cup Seq(Frame))
  BY DEF TypeOK
<1> QED
  BY <1>1, BoundAssumption DEF TypeOK

LEMMA CallKept ==
    ASSUME TypeOK, TypeOK', \A d \in Callers : LaneInv(d), PieceInv, ServedInv,
           NEW c \in Callers, NEW n \in 0..MaxFrames, Call(c, n)
    PROVE  (\A d \in Callers : LaneInv(d)') /\ PieceInv' /\ ServedInv'
<1>1. /\ n \in Nat /\ calls[c] \in Nat
      /\ calls' = [calls EXCEPT ![c] = @ + 1] /\ asked' = [asked EXCEPT ![c] = n]
      /\ start' = [start EXCEPT ![c] = 0] /\ future' = [future EXCEPT ![c] = <<>>]
      /\ read' = [read EXCEPT ![c] = 0] /\ results' = [results EXCEPT ![c] = <<>>]
      /\ busy' = busy \cup {c} /\ busy \subseteq Callers
  BY BoundAssumption, LaneTyped DEF Call, TypeOK
<1>2. Outstanding' = Outstanding
  BY DEF Call, batchVars, detectorVars, Outstanding
<1>3. \A d \in Callers \ {c} : /\ calls'[d] = calls[d] /\ asked'[d] = asked[d]
                               /\ start'[d] = start[d] /\ future'[d] = future[d]
                               /\ read'[d] = read[d] /\ results'[d] = results[d]
  BY <1>1 DEF TypeOK
<1>4. /\ calls'[c] = calls[c] + 1 /\ asked'[c] = n /\ start'[c] = 0 /\ future'[c] = <<>>
      /\ read'[c] = 0 /\ results'[c] = <<>>
  BY <1>1 DEF TypeOK
<1>5. LaneInv(c)'
  <2>1. Smaller(0 * MaxBatch, n) = 0
    BY <1>1, MaxBatchAssumption DEF Smaller
  <2>2. SubSeq(Frames(c, n), 1, 0) = <<>>
    BY SubSeqEmpty
  <2>3. Len(<<>>) = 0
    OBVIOUS
  <2> QED
    BY <1>4, <2>1, <2>2, <2>3 DEF LaneInv
<1>6. \A d \in Callers \ {c} : LaneInv(d)'
  BY <1>3, OtherLane
<1>7. PieceInv'
  <2>1. \A d \in Callers : Len(future[d]) \in Nat
    BY LaneTyped
  <2>2. Onward
    BY <1>1, <1>3, <1>4, <2>1 DEF Onward
  <2> QED
    BY <1>2, <2>2, PiecesStay
<1>8. ServedInv'
  <2> SUFFICES ASSUME NEW d \in busy', NEW p \in 1..Len(future'[d])
               PROVE  IF future'[d][p] = Pending
                        THEN Sole(Outstanding', Asked(d, calls'[d], p))
                        ELSE Gone(Outstanding', Asked(d, calls'[d], p))
    BY DEF ServedInv
  <2>1. d # c
    BY <1>4
  <2> QED
    BY <1>1, <1>2, <1>3, <2>1 DEF ServedInv
<1> QED
  BY <1>5, <1>6, <1>7, <1>8

LEMMA PutKept ==
    ASSUME TypeOK, TypeOK', \A d \in Callers : LaneInv(d), PieceInv, ServedInv,
           NEW c \in Callers, Put(c)
    PROVE  (\A d \in Callers : LaneInv(d)') /\ PieceInv' /\ ServedInv'
<1>1. PICK n \in Nat, k \in Nat, m \in Nat :
          n = asked[c] /\ k = Len(future[c]) /\ m = calls[c]
  BY LaneTyped
<1>2. /\ start[c] = k * MaxBatch /\ k * MaxBatch < n /\ k * MaxBatch \in Nat
      /\ (k + 1 - 1) * MaxBatch = k * MaxBatch
      /\ Smaller(start[c] + MaxBatch, n) = Smaller((k + 1) * MaxBatch, n)
      /\ c \in busy
  <2>1. start[c] = Smaller(k * MaxBatch, n) /\ start[c] < n /\ c \in busy
    BY <1>1 DEF LaneInv, Put
  <2>2. /\ k * MaxBatch \in Nat
        /\ (k + 1) * MaxBatch = k * MaxBatch + MaxBatch
        /\ Smaller(k * MaxBatch, n) < n => Smaller(k * MaxBatch, n) = k * MaxBatch
    BY CutBounds
  <2>3. k + 1 - 1 = k
    OBVIOUS
  <2> QED
    BY <2>1, <2>2, <2>3
<1>3. PICK r : r = [caller |-> c, call |-> m, part |-> k + 1, frames |-> PortionOf(c, n, k + 1)]
  OBVIOUS
<1>4. PortionOf(c, n, k + 1) \in Seq(Frame) /\ Len(PortionOf(c, n, k + 1)) <= MaxBatch
  BY <1>2, PortionIs
<1>5. r \in Request /\ r # None
  BY <1>1, <1>3, <1>4, NoneAssumption DEF Request
<1>6. /\ queue' = Append(queue, r)
      /\ start' = [start EXCEPT ![c] = Smaller((k + 1) * MaxBatch, n)]
      /\ future' = [future EXCEPT ![c] = Append(@, Pending)]
      /\ UNCHANGED <<asked, busy, calls, read, results, requests, held, resolved>>
  <2>1. PICK stop : stop = Smaller((k + 1) * MaxBatch, n)
    OBVIOUS
  <2>2. PortionOf(c, n, k + 1) = SubSeq(Frames(c, n), start[c] + 1, stop)
    <3>1. PICK j, a : j = k + 1 /\ a = (j - 1) * MaxBatch
      OBVIOUS
    <3>2. a = start[c] /\ stop = Smaller(j * MaxBatch, n)
      BY <1>2, <2>1, <3>1
    <3>3. PortionOf(c, n, j) = SubSeq(Frames(c, n), a + 1, stop)
      BY <3>1, <3>2 DEF PortionOf
    <3> QED
      BY <3>1, <3>2, <3>3
  <2>3. stop = Smaller(start[c] + MaxBatch, asked[c])
    BY <1>1, <1>2, <2>1
  <2>4. /\ queue' = Append(queue, [caller |-> c, call |-> calls[c], part |-> Len(future[c]) + 1,
                                   frames |-> SubSeq(Frames(c, asked[c]), start[c] + 1, stop)])
        /\ start' = [start EXCEPT ![c] = stop]
    BY <2>3, Zenon DEF Put
  <2>5. /\ future' = [future EXCEPT ![c] = Append(@, Pending)]
        /\ UNCHANGED <<asked, busy, calls, read, results, requests, held, resolved>>
    BY DEF Put, resultVars, batchVars, detectorVars
  <2> QED
    BY <1>1, <1>3, <2>1, <2>2, <2>4, <2>5
<1>7. \A d \in Callers \ {c} : start'[d] = start[d] /\ future'[d] = future[d]
  BY <1>6 DEF TypeOK
<1>8. /\ start'[c] = Smaller((k + 1) * MaxBatch, n)
      /\ Len(future'[c]) = k + 1
      /\ future'[c][k + 1] = Pending
      /\ \A p \in 1..k : future'[c][p] = future[c][p]
  <2>1. future[c] \in Seq({Pending, Raised} \cup Seq(Frame))
    BY LaneTyped
  <2>2. future'[c] = Append(future[c], Pending) /\ start'[c] = Smaller((k + 1) * MaxBatch, n)
    BY <1>6 DEF TypeOK
  <2> QED
    BY <1>1, <2>1, <2>2
<1>9. LaneInv(c)'
  <2>1. asked'[c] = n /\ read'[c] = read[c] /\ results'[c] = results[c]
    BY <1>1, <1>6
  <2>2. \A p \in 1..k + 1 : /\ (p - 1) * MaxBatch < n
                            /\ future'[c][p] \in {Pending, Raised, PortionOf(c, n, p)}
    <3> TAKE p \in 1..k + 1
    <3>1. CASE p = k + 1
      BY <1>2, <1>8, <3>1
    <3>2. CASE p # k + 1
      <4>1. p \in 1..k
        BY <3>2
      <4> QED
        BY <1>1, <1>8, <4>1 DEF LaneInv, Portion
    <3> QED
      BY <3>1, <3>2
  <2>3. read[c] <= k + 1
    <3>1. read[c] <= k /\ read[c] \in Nat
      BY <1>1, LaneTyped DEF LaneInv
    <3> QED
      BY <3>1
  <2> QED
    BY <1>1, <1>8, <2>1, <2>2, <2>3 DEF LaneInv, Portion
<1>10. \A d \in Callers \ {c} : LaneInv(d)'
  BY <1>6, <1>7, OtherLane
<1>11. PICK S, T : S \in Seq(Piece) /\ S = Outstanding /\ T = Outstanding'
  BY OutstandingTyped
<1>12. T = Append(S, r)
  <2>1. PICK rs, h, q, j : rs = requests /\ h = held /\ q = queue /\ j = resolved
    OBVIOUS
  <2>2. /\ rs \in Seq(Piece) /\ h \in Seq(Piece) /\ q \in Seq(Piece) /\ j \in Nat
        /\ r \in Piece
    BY <1>5, <2>1, OutstandingTyped DEF TypeOK, Piece
  <2>3. S = LineOf(rs, j, h, q)
    BY <1>11, <2>1, LineIs
  <2>4. T = LineOf(rs, j, h, Append(q, r))
    BY <1>6, <1>11, <2>1 DEF Outstanding, LineOf
  <2> QED
    BY <2>2, <2>3, <2>4, LineAppended
<1>13. r \in Piece
  BY <1>5 DEF Piece
<1>14. \A d \in Callers : /\ calls'[d] = calls[d] /\ asked'[d] = asked[d]
                          /\ Len(future'[d]) >= Len(future[d])
  <2>1. \A d \in Callers : Len(future[d]) \in Nat
    BY LaneTyped
  <2> QED
    BY <1>1, <1>6, <1>7, <1>8, <2>1
<1>15. PieceInv'
  <2>1. Onward
    BY <1>14 DEF Onward
  <2>2. Proper(r)'
    <3>1. r.caller = c /\ r.call = m /\ r.part = k + 1 /\ r.frames = PortionOf(c, n, k + 1)
      BY <1>3
    <3>2. asked'[c] = n /\ calls'[c] = m
      BY <1>1, <1>6
    <3> QED
      BY <1>4, <1>5, <1>8, <3>1, <3>2 DEF Proper, Portion
  <2>3. /\ Len(S) \in Nat /\ Len(T) = Len(S) + 1 /\ T[Len(S) + 1] = r
        /\ \A i \in 1..Len(S) : T[i] = S[i]
    BY <1>12, <1>13, AppendProperties
  <2>4. ASSUME NEW i \in 1..Len(T)
        PROVE  (\E j \in 1..Len(S) : T[i] = S[j]) \/ Proper(Outstanding[i])'
    <3>1. CASE i = Len(S) + 1
      <4>1. Outstanding'[i] = r
        BY <1>11, <2>3, <3>1
      <4> QED
        BY <2>2, <4>1 DEF Proper, Portion
    <3>2. CASE i # Len(S) + 1
      BY <2>3, <3>2
    <3> QED
      BY <3>1, <3>2
  <2> QED
    BY <1>11, <2>1, <2>4, PiecesStay
<1>16. ServedInv'
  <2> SUFFICES ASSUME NEW d \in busy', NEW p \in 1..Len(future'[d])
               PROVE  IF future'[d][p] = Pending
                        THEN Sole(T, Asked(d, calls'[d], p))
                        ELSE Gone(T, Asked(d, calls'[d], p))
    BY <1>11 DEF ServedInv
  <2>1. d \in busy /\ d \in Callers /\ calls'[d] = calls[d]
    BY <1>6 DEF TypeOK
  <2>2. PICK K : K = Asked(d, calls[d], p)
    OBVIOUS
  <2>3. CASE d = c /\ p = k + 1
    <3>1. r \in K
      BY <1>1, <1>3, <1>5, <2>2, <2>3 DEF Asked
    <3>2. Gone(S, K)
      <4> SUFFICES ASSUME NEW i \in 1..Len(S), S[i] \in K PROVE FALSE
        BY DEF Gone
      <4>1. Proper(S[i])
        BY <1>11, <2>2, NoneAssumption DEF PieceInv, Asked
      <4>2. S[i].part = k + 1 /\ S[i].caller = c /\ S[i].call = calls[c]
        BY <2>2, <2>3 DEF Asked
      <4>3. k + 1 \in 1..k
        BY <1>1, <4>1, <4>2 DEF Proper
      <4> QED
        BY <4>3
    <3>3. Sole(T, K)
      BY <1>11, <1>12, <1>13, <3>1, <3>2, AppendMarked
    <3> QED
      BY <1>8, <2>1, <2>2, <2>3, <3>3
  <2>4. CASE ~(d = c /\ p = k + 1)
    <3>1. r \notin K
      BY <1>3, <2>2, <2>4 DEF Asked
    <3>2. p \in 1..Len(future[d]) /\ future'[d][p] = future[d][p]
      BY <1>1, <1>7, <1>8, <2>1, <2>4
    <3>3. IF future[d][p] = Pending THEN Sole(S, K) ELSE Gone(S, K)
      BY <1>11, <2>1, <2>2, <3>2 DEF ServedInv
    <3>4. IF future[d][p] = Pending THEN Sole(T, K) ELSE Gone(T, K)
      BY <1>11, <1>12, <1>13, <3>1, <3>3, AppendMarked
    <3> QED
      BY <2>1, <2>2, <3>2, <3>4
  <2> QED
    BY <2>3, <2>4
<1> QED
  BY <1>9, <1>10, <1>15, <1>16

\* The results so far are the first frames of the call.
LEMMA ResultKept ==
    ASSUME TypeOK, \A d \in Callers : LaneInv(d), NEW c \in Callers, Result(c)
    PROVE  \A d \in Callers : LaneInv(d)'
<1>1. PICK n \in Nat, k \in Nat : n = asked[c] /\ k = read[c]
  BY LaneTyped
<1>2. /\ k + 1 \in 1..Len(future[c]) /\ (k + 1 - 1) * MaxBatch < n
      /\ future[c][k + 1] = PortionOf(c, n, k + 1)
  <2>1. k + 1 \in 1..Len(future[c])
    BY <1>1, LaneTyped DEF Result
  <2> QED
    BY <1>1, <2>1 DEF LaneInv, Result, Portion
<1>3. k * MaxBatch < n
  <2>1. k + 1 - 1 = k
    OBVIOUS
  <2> QED
    BY <1>2, <2>1
<1>4. SubSeq(Frames(c, n), 1, Smaller(k * MaxBatch, n)) \o PortionOf(c, n, k + 1)
      = SubSeq(Frames(c, n), 1, Smaller((k + 1) * MaxBatch, n))
  BY <1>3, PortionIs
<1>5. /\ read' = [read EXCEPT ![c] = k + 1]
      /\ results' = [results EXCEPT ![c] = @ \o PortionOf(c, n, k + 1)]
      /\ UNCHANGED <<asked, start, future>>
  BY <1>1, <1>2 DEF Result, askVars
<1>6. read'[c] = k + 1 /\ results'[c] = results[c] \o PortionOf(c, n, k + 1)
  BY <1>5 DEF TypeOK
<1>7. LaneInv(c)'
  <2>1. results[c] = SubSeq(Frames(c, n), 1, Smaller(k * MaxBatch, n))
    BY <1>1 DEF LaneInv
  <2>2. k + 1 <= Len(future[c])
    BY <1>2, LaneTyped
  <2> QED
    BY <1>1, <1>4, <1>5, <1>6, <2>1, <2>2 DEF LaneInv, Portion
<1>8. \A d \in Callers \ {c} : read'[d] = read[d] /\ results'[d] = results[d]
  BY <1>5 DEF TypeOK
<1>9. \A d \in Callers \ {c} : LaneInv(d)'
  BY <1>5, <1>8, OtherLane
<1> QED
  BY <1>7, <1>9

LEMMA CallerKept ==
    ASSUME TypeOK, TypeOK', \A d \in Callers : LaneInv(d), PieceInv, ServedInv,
           NEW c \in Callers, Caller(c)
    PROVE  (\A d \in Callers : LaneInv(d)') /\ PieceInv' /\ ServedInv'
<1>1. CASE \E n \in 0..MaxFrames : Call(c, n)
  BY <1>1, CallKept
<1>2. CASE Put(c)
  BY <1>2, PutKept
<1>3. CASE Result(c)
  <2>1. /\ Outstanding' = Outstanding
        /\ UNCHANGED <<asked, busy, calls, start, future>>
    BY <1>3 DEF Result, askVars, batchVars, detectorVars, Outstanding
  <2>2. PieceInv'
    <3>1. Onward
      BY <2>1, LaneTyped DEF Onward
    <3> QED
      BY <2>1, <3>1, PiecesStay
  <2>3. ServedInv'
    BY <2>1 DEF ServedInv, Asked, Sole, Gone
  <2> QED
    BY <1>3, <2>2, <2>3, ResultKept
<1>4. CASE Returns(c) \/ Raises(c)
  <2>1. /\ Outstanding' = Outstanding /\ busy' \subseteq busy
        /\ UNCHANGED <<asked, calls, start, future, read, results>>
    BY <1>4 DEF Returns, Raises, batchVars, detectorVars, Outstanding
  <2>2. PieceInv'
    <3>1. Onward
      BY <2>1, LaneTyped DEF Onward
    <3> QED
      BY <2>1, <3>1, PiecesStay
  <2>3. ServedInv'
    BY <2>1 DEF ServedInv, Asked, Sole, Gone
  <2>4. \A d \in Callers : LaneInv(d)'
    BY <2>1, OtherLane
  <2> QED
    BY <2>2, <2>3, <2>4
<1> QED
  BY <1>1, <1>2, <1>3, <1>4 DEF Caller

------------------------------------------------------------------------------
(* The thread: the requests it moves about. *)

LEMMA TakeMoves ==
    ASSUME TypeOK, TypeOK', PhaseInv, PieceInv, ServedInv, Take
    PROVE  PieceInv' /\ ServedInv'
<1>1. /\ requests = <<>> /\ held = <<>> /\ resolved = 0 /\ queue # <<>>
      /\ queue' = Tail(queue) /\ held' = held /\ resolved' = resolved
      /\ UNCHANGED <<askVars, future, resultVars>>
  BY DEF Take, PhaseInv, detectorVars
<1>2. PICK q \in Seq(Piece) : q = queue
  BY OutstandingTyped
<1>3. <<>> \in Seq(Piece)
  OBVIOUS
<1>4. Outstanding = q
  <2>1. LineOf(<<>>, 0, <<>>, q) = q
    BY <1>3, LineWhole
  <2> QED
    BY <1>1, <1>2, <2>1 DEF Outstanding, LineOf
<1>5. CASE Head(queue) # None
  <2>1. requests' = <<Head(q)>>
    BY <1>2, <1>5 DEF Take
  <2>2. LineOf(<<Head(q)>>, 0, <<>>, Tail(q)) = q
    BY <1>1, <1>2, <1>3, LineTaken
  <2>3. Outstanding' = Outstanding
    BY <1>1, <1>2, <1>4, <2>1, <2>2 DEF Outstanding, LineOf
  <2> QED
    BY <1>1, <2>3, QuietKept
<1>6. CASE Head(queue) = None
  <2>1. requests' = <<>>
    BY <1>1, <1>6 DEF Take
  <2>2. /\ Tail(q) \in Seq(Piece) /\ q[1] = None
    BY <1>1, <1>2, <1>6, HeadApart
  <2>3. LineOf(<<>>, 0, <<>>, Tail(q)) = Tail(q)
    BY <1>3, <2>2, LineWhole
  <2>4. Outstanding' = Tail(q)
    BY <1>1, <1>2, <2>1, <2>3 DEF Outstanding, LineOf
  <2>5. /\ Len(q) \in Nat \ {0} /\ Len(Tail(q)) = Len(q) - 1
        /\ \A i \in 1..Len(Tail(q)) : Tail(q)[i] = q[i + 1]
    BY <1>1, <1>2, HeadTailProperties, EmptySeq
  <2>6. PieceInv'
    <3>1. Onward
      BY <1>1, LaneTyped DEF Onward, askVars
    <3>2. \A i \in 1..Len(Tail(q)) : \E j \in 1..Len(q) : Tail(q)[i] = q[j]
      <4> TAKE i \in 1..Len(Tail(q))
      <4>1. i + 1 \in 1..Len(q) /\ Tail(q)[i] = q[i + 1]
        BY <2>5
      <4> QED
        BY <4>1
    <3> QED
      BY <1>4, <2>4, <3>1, <3>2, PiecesStay
  <2>7. ServedInv'
    <3> SUFFICES ASSUME NEW d \in busy', NEW p \in 1..Len(future'[d])
                 PROVE  IF future'[d][p] = Pending
                          THEN Sole(Outstanding', Asked(d, calls'[d], p))
                          ELSE Gone(Outstanding', Asked(d, calls'[d], p))
      BY DEF ServedInv
    <3>0. /\ d \in busy /\ p \in 1..Len(future[d]) /\ future'[d][p] = future[d][p]
          /\ calls'[d] = calls[d]
      BY <1>1 DEF askVars
    <3>1. PICK K : K = Asked(d, calls[d], p)
      OBVIOUS
    <3>2. q[1] \notin K
      BY <2>2, <3>1, NoneAssumption DEF Asked
    <3>3. IF future[d][p] = Pending THEN Sole(q, K) ELSE Gone(q, K)
      BY <1>4, <3>0, <3>1 DEF ServedInv
    <3>4. q # <<>>
      BY <1>1, <1>2
    <3>5. IF future[d][p] = Pending THEN Sole(Tail(q), K) ELSE Gone(Tail(q), K)
      BY <3>2, <3>3, <3>4, TailMarked
    <3> QED
      BY <2>4, <3>0, <3>1, <3>5
  <2> QED
    BY <2>6, <2>7
<1> QED
  BY <1>5, <1>6

LEMMA GatherMoves ==
    ASSUME TypeOK, TypeOK', PhaseInv, PieceInv, ServedInv, Gather
    PROVE  PieceInv' /\ ServedInv'
<1>1. /\ held = <<>> /\ resolved = 0 /\ resolved' = resolved /\ queue # <<>>
      /\ queue' = Tail(queue) /\ UNCHANGED <<askVars, future, resultVars>>
  BY DEF Gather, PhaseInv, detectorVars
<1>2. PICK rs \in Seq(Piece), q \in Seq(Piece) : rs = requests /\ q = queue
  BY OutstandingTyped
<1>3. <<>> \in Seq(Piece)
  OBVIOUS
<1>4. Outstanding = rs \o q
  <2>1. LineOf(rs, 0, <<>>, q) = rs \o q
    BY <1>3, LineWhole
  <2> QED
    BY <1>1, <1>2, <2>1 DEF Outstanding, LineOf
<1>5. CASE Fits(Head(queue))
  <2>1. requests' = Append(rs, Head(q)) /\ held' = <<>>
    BY <1>1, <1>2, <1>5 DEF Gather
  <2>2. LineOf(Append(rs, Head(q)), 0, <<>>, Tail(q)) = rs \o q
    BY <1>1, <1>2, LineTaken
  <2>3. Outstanding' = Outstanding
    BY <1>1, <1>2, <1>4, <2>1, <2>2 DEF Outstanding, LineOf
  <2> QED
    BY <1>1, <2>3, QuietKept
<1>6. CASE ~Fits(Head(queue))
  <2>1. requests' = rs /\ held' = <<Head(q)>>
    BY <1>1, <1>2, <1>6 DEF Gather
  <2>2. LineOf(rs, 0, <<Head(q)>>, Tail(q)) = rs \o q
    BY <1>1, <1>2, LineTaken
  <2>3. Outstanding' = Outstanding
    BY <1>1, <1>2, <1>4, <2>1, <2>2 DEF Outstanding, LineOf
  <2> QED
    BY <1>1, <2>3, QuietKept
<1> QED
  BY <1>5, <1>6

\* What is put back at the tail keeps the only place it has.
LEMMA PutBackMoves ==
    ASSUME TypeOK, TypeOK', PhaseInv, PieceInv, ServedInv, PutBack
    PROVE  PieceInv' /\ ServedInv'
<1>1. /\ resolved = 0 /\ resolved' = 0 /\ queue' = queue \o held /\ held' = <<>>
      /\ requests' = requests /\ UNCHANGED <<askVars, future, resultVars>>
  BY DEF PutBack, Returned, PhaseInv, detectorVars
<1>2. PICK rs \in Seq(Piece), h \in Seq(Piece), q \in Seq(Piece) :
          rs = requests /\ h = held /\ q = queue
  BY OutstandingTyped
<1>3. Outstanding = (rs \o h) \o q
  <2>1. LineOf(rs, 0, h, q) = (rs \o h) \o q
    BY LineHeld
  <2> QED
    BY <1>1, <1>2, <2>1 DEF Outstanding, LineOf
<1>4. Outstanding' = (rs \o q) \o h
  <2>1. q \o h \in Seq(Piece)
    BY ConcatProperties
  <2>2. LineOf(rs, 0, <<>>, q \o h) = rs \o (q \o h)
    BY <2>1, LineWhole
  <2>3. rs \o (q \o h) = (rs \o q) \o h
    BY ConcatShift
  <2> QED
    BY <1>1, <1>2, <2>2, <2>3 DEF Outstanding, LineOf
<1>5. PICK S, T : S = (rs \o h) \o q /\ T = (rs \o q) \o h
  OBVIOUS
<1>6. PieceInv'
  <2>1. Onward
    BY <1>1, LaneTyped DEF Onward, askVars
  <2>2. \A i \in 1..Len(T) : \E j \in 1..Len(S) : T[i] = S[j]
    <3> SUFFICES ASSUME NEW i \in 1..Len(T), \A j \in 1..Len(S) : S[j] # T[i] PROVE FALSE
      OBVIOUS
    <3>1. Gone(S, {T[i]})
      BY DEF Gone
    <3>2. Gone(T, {T[i]})
      BY <1>5, <3>1, RotateMarked
    <3> QED
      BY <3>2 DEF Gone
  <2> QED
    BY <1>3, <1>4, <1>5, <2>1, <2>2, PiecesStay
<1>7. ServedInv'
  <2> SUFFICES ASSUME NEW d \in busy', NEW p \in 1..Len(future'[d])
               PROVE  IF future'[d][p] = Pending
                        THEN Sole(Outstanding', Asked(d, calls'[d], p))
                        ELSE Gone(Outstanding', Asked(d, calls'[d], p))
    BY DEF ServedInv
  <2>0. /\ d \in busy /\ p \in 1..Len(future[d]) /\ future'[d][p] = future[d][p]
        /\ calls'[d] = calls[d]
    BY <1>1 DEF askVars
  <2>1. PICK K : K = Asked(d, calls[d], p)
    OBVIOUS
  <2>2. IF future[d][p] = Pending THEN Sole(S, K) ELSE Gone(S, K)
    BY <1>3, <1>5, <2>0, <2>1 DEF ServedInv
  <2>3. IF future[d][p] = Pending THEN Sole(T, K) ELSE Gone(T, K)
    BY <1>5, <2>2, RotateMarked
  <2> QED
    BY <1>4, <1>5, <2>0, <2>1, <2>3
<1> QED
  BY <1>6, <1>7

LEMMA EndBatchMoves ==
    ASSUME TypeOK, TypeOK', PhaseInv, PieceInv, ServedInv, EndBatch
    PROVE  PieceInv' /\ ServedInv'
<1>1. /\ held = <<>> /\ held' = <<>> /\ resolved = Len(requests) /\ resolved' = 0
      /\ requests' = <<>> /\ queue' = queue /\ UNCHANGED <<askVars, future, resultVars>>
  BY DEF EndBatch, PhaseInv
<1>2. PICK rs \in Seq(Piece), q \in Seq(Piece) : rs = requests /\ q = queue
  BY OutstandingTyped
<1>3. <<>> \in Seq(Piece)
  OBVIOUS
<1>4. LineOf(rs, Len(rs), <<>>, q) = q /\ LineOf(<<>>, 0, <<>>, q) = q
  BY <1>3, LineWhole
<1>5. Outstanding' = Outstanding
  BY <1>1, <1>2, <1>4 DEF Outstanding, LineOf
<1> QED
  BY <1>1, <1>5, QuietKept

\* A future is set once, with the detections of its own request.
LEMMA ResolveMoves ==
    ASSUME TypeOK, TypeOK', PhaseInv, PieceInv, ServedInv, \A d \in Callers : LaneInv(d),
           Unresolved, NEW r, r = requests[resolved + 1], NEW v, v \in {Raised, r.frames},
           Resolve(r, v)
    PROVE  (\A d \in Callers : LaneInv(d)') /\ PieceInv' /\ ServedInv'
<1>1. /\ resolved' = resolved + 1
      /\ future' = IF Awaited(r) THEN [future EXCEPT ![r.caller][r.part] = v] ELSE future
      /\ UNCHANGED <<queue, requests, held, asked, busy, calls, start, read, results>>
  BY DEF Resolve, askVars, resultVars, batchVars
<1>2. Proper(r) /\ Outstanding # <<>> /\ Outstanding[1] = r
  BY NextProper
<1>3. r \in Request /\ r.caller \in Callers /\ r.frames \in Seq(Frame)
  BY <1>2 DEF Proper, Request
<1>4. v # Pending
  BY <1>3, OutcomeAssumption
<1>5. PICK S \in Seq(Piece) : S = Outstanding
  BY OutstandingTyped
<1>6. Outstanding' = Tail(S)
  <2>1. PICK rs, h, q, k : rs = requests /\ h = held /\ q = queue /\ k = resolved
    OBVIOUS
  <2>2. /\ rs \in Seq(Piece) /\ h \in Seq(Piece) /\ q \in Seq(Piece) /\ k \in Nat
        /\ k < Len(rs)
    BY <2>1, OutstandingTyped DEF TypeOK, Unresolved
  <2>3. S = LineOf(rs, k, h, q)
    BY <1>5, <2>1, LineIs
  <2>4. Outstanding' = LineOf(rs, k + 1, h, q)
    BY <1>1, <2>1 DEF Outstanding, LineOf
  <2>5. LineOf(rs, k + 1, h, q) = Tail(LineOf(rs, k, h, q))
    BY <2>2, LineDropped
  <2> QED
    BY <2>3, <2>4, <2>5
<1>7. /\ Len(S) \in Nat \ {0} /\ Len(Tail(S)) = Len(S) - 1
      /\ \A i \in 1..Len(Tail(S)) : Tail(S)[i] = S[i + 1]
  BY <1>2, <1>5, HeadTailProperties, EmptySeq
<1>8. ASSUME NEW d \in Callers
      PROVE  /\ Len(future'[d]) = Len(future[d])
             /\ \A p \in 1..Len(future[d]) :
                    future'[d][p] = IF Awaited(r) /\ r.caller = d /\ r.part = p THEN v
                                    ELSE future[d][p]
  <2>1. PICK O : O = {Pending, Raised} \cup Seq(Frame)
    OBVIOUS
  <2>2. future \in [Callers -> Seq(O)] /\ future[d] \in Seq(O) /\ v \in O
    BY <1>3, <2>1 DEF TypeOK
  <2>3. CASE ~(Awaited(r) /\ r.caller = d)
    <3>1. future'[d] = future[d]
      BY <1>1, <2>2, <2>3
    <3> QED
      BY <2>3, <3>1
  <2>4. CASE Awaited(r) /\ r.caller = d
    <3>1. r.part \in 1..Len(future[d])
      BY <1>2, <2>4 DEF Proper, Awaited
    <3>2. future'[d] = [future[d] EXCEPT ![r.part] = v]
      BY <1>1, <2>2, <2>4
    <3>3. /\ Len([future[d] EXCEPT ![r.part] = v]) = Len(future[d])
          /\ \A p \in 1..Len(future[d]) :
                [future[d] EXCEPT ![r.part] = v][p] = IF p = r.part THEN v ELSE future[d][p]
      <4>1. PICK f \in Seq(O) : f = future[d]
        BY <2>2
      <4> QED
        BY <2>2, <3>1, <4>1, ExceptSeq
    <3> QED
      BY <2>4, <3>2, <3>3
  <2> QED
    BY <2>3, <2>4
<1>9. ASSUME NEW d \in Callers PROVE LaneInv(d)'
  <2>1. \A p \in 1..Len(future[d]) : future'[d][p] \in {Pending, Raised, Portion(d, p)}
    <3> TAKE p \in 1..Len(future[d])
    <3>1. CASE Awaited(r) /\ r.caller = d /\ r.part = p
      <4>1. r.frames = Portion(d, p)
        BY <1>2, <3>1 DEF Proper, Awaited
      <4> QED
        BY <1>8, <3>1, <4>1
    <3>2. CASE ~(Awaited(r) /\ r.caller = d /\ r.part = p)
      BY <1>8, <3>2 DEF LaneInv
    <3> QED
      BY <3>1, <3>2
  <2> QED
    BY <1>1, <1>8, <2>1 DEF LaneInv, Portion
<1>10. PieceInv'
  <2>1. Onward
    BY <1>1, <1>8, LaneTyped DEF Onward
  <2>2. \A i \in 1..Len(Tail(S)) : \E j \in 1..Len(S) : Tail(S)[i] = S[j]
    <3> TAKE i \in 1..Len(Tail(S))
    <3>1. i + 1 \in 1..Len(S) /\ Tail(S)[i] = S[i + 1]
      BY <1>7
    <3> QED
      BY <3>1
  <2> QED
    BY <1>5, <1>6, <2>1, <2>2, PiecesStay
<1>11. ServedInv'
  <2> SUFFICES ASSUME NEW d \in busy', NEW p \in 1..Len(future'[d])
               PROVE  IF future'[d][p] = Pending
                        THEN Sole(Outstanding', Asked(d, calls'[d], p))
                        ELSE Gone(Outstanding', Asked(d, calls'[d], p))
    BY DEF ServedInv
  <2>1. d \in Callers /\ d \in busy /\ calls'[d] = calls[d]
    BY <1>1 DEF TypeOK
  <2>0. p \in 1..Len(future[d])
    BY <1>8, <2>1
  <2>2. PICK K : K = Asked(d, calls[d], p)
    OBVIOUS
  <2>3. IF future[d][p] = Pending THEN Sole(S, K) ELSE Gone(S, K)
    BY <1>5, <2>0, <2>1, <2>2 DEF ServedInv
  <2>4. S # <<>> /\ S[1] = r
    BY <1>2, <1>5
  <2>5. CASE r \in K
    <3>1. Awaited(r) /\ r.caller = d /\ r.part = p
      BY <2>1, <2>2, <2>5 DEF Asked, Awaited
    <3>2. future'[d][p] # Pending
      BY <1>4, <1>8, <2>0, <2>1, <3>1
    <3>3. Sole(S, K)
      <4>1. ~Gone(S, K)
        BY <1>7, <2>4, <2>5 DEF Gone
      <4> QED
        BY <2>3, <4>1
    <3>4. Gone(Tail(S), K)
      BY <2>4, <2>5, <3>3, TailMarked
    <3> QED
      BY <1>6, <2>1, <2>2, <3>2, <3>4
  <2>6. CASE r \notin K
    <3>1. ~(Awaited(r) /\ r.caller = d /\ r.part = p)
      BY <1>3, <2>2, <2>6 DEF Asked, Awaited
    <3>2. future'[d][p] = future[d][p]
      BY <1>8, <2>0, <2>1, <3>1
    <3>3. IF future[d][p] = Pending THEN Sole(Tail(S), K) ELSE Gone(Tail(S), K)
      BY <2>3, <2>4, <2>6, TailMarked
    <3> QED
      BY <1>6, <2>1, <2>2, <3>2, <3>3
  <2> QED
    BY <2>5, <2>6
<1> QED
  BY <1>9, <1>10, <1>11

------------------------------------------------------------------------------
(* The thread: its batch. *)

BatchInv == PhaseInv /\ AlignInv /\ BatchFits /\ StatsLagOneBatch

LEMMA SliceOfFirst ==
    ASSUME NEW s \in Seq(Frame), NEW t \in Seq(Frame), NEW a \in 0..Len(s), NEW b \in 0..Len(s)
    PROVE  SubSeq(s \o t, a + 1, b) = SubSeq(s, a + 1, b)
<1>1. CASE a + 1 <= b
  <2>1. a + 1 \in 1..Len(s) /\ b \in 1..Len(s)
    BY <1>1
  <2> QED
    BY <2>1, SubSeqOfConcat1
<1>2. CASE b < a + 1
  <2>1. a + 1 \in Int /\ b \in Int
    OBVIOUS
  <2>2. SubSeq(s \o t, a + 1, b) = <<>> /\ SubSeq(s, a + 1, b) = <<>>
    BY <1>2, <2>1, SubSeqEmpty
  <2> QED
    BY <2>2
<1> QED
  BY <1>1, <1>2

LEMMA SliceOfSecond ==
    ASSUME NEW s \in Seq(Frame), NEW t \in Seq(Frame)
    PROVE  /\ SubSeq(s \o t, Len(s) + 1, Len(s) + Len(t)) = t
           /\ s \o t \in Seq(Frame) /\ Len(s \o t) = Len(s) + Len(t)
<1>1. PICK a, b : a = Len(s) /\ b = Len(t)
  OBVIOUS
<1>2. a \in Nat /\ b \in Nat
  BY <1>1
<1>3. s \o t \in Seq(Frame) /\ Len(s \o t) = a + b
  BY <1>1, ConcatProperties
<1>4. CASE b = 0
  <2>1. SubSeq(s \o t, a + 1, a + b) = <<>>
    BY <1>2, <1>4, SubSeqEmpty
  <2>2. t = <<>>
    BY <1>1, <1>4, EmptySeq
  <2> QED
    BY <1>1, <1>3, <2>1, <2>2
<1>5. CASE b # 0
  <2>1. a + 1 \in a + 1..a + b /\ a + b \in a + 1..a + b
    BY <1>2, <1>5
  <2>2. SubSeq(s \o t, a + 1, a + b) = SubSeq(t, a + 1 - a, a + b - a)
    BY <1>1, <2>1, SubSeqOfConcat2
  <2>3. a + 1 - a = 1 /\ a + b - a = b
    BY <1>2
  <2>4. SubSeq(t, 1, b) = t
    BY <1>1, SubSeqFull
  <2> QED
    BY <1>1, <1>3, <2>2, <2>3, <2>4
<1> QED
  BY <1>4, <1>5

LEMMA AlignedTyped ==
    ASSUME TypeOK
    PROVE  /\ Len(requests) \in Nat /\ Len(flattened) \in Nat /\ resolved \in Nat
           /\ \A i \in 1..Len(requests) : /\ requests[i].frames \in Seq(Frame)
                                          /\ Len(requests[i].frames) \in Nat
<1>1. requests \in Seq(Request) /\ flattened \in Seq(Frame) /\ resolved \in Nat
  BY DEF TypeOK
<1>2. ASSUME NEW i \in 1..Len(requests) PROVE requests[i].frames \in Seq(Frame)
  <2>1. requests[i] \in Request
    BY <1>1, ElementOfSeq
  <2> QED
    BY <2>1 DEF Request
<1> QED
  BY <1>1, <1>2

LEMMA TakeBatches ==
    ASSUME TypeOK, PieceInv, BatchInv, Take
    PROVE  BatchInv'
<1> USE DEF BatchInv
<1>1. /\ requests = <<>> /\ held = <<>> /\ resolved = 0 /\ offset = 0 /\ flattened = <<>>
      /\ queue # <<>> /\ UNCHANGED <<held, detections, resolved, offset, uncounted>>
      /\ uncounted = 0
  BY DEF Take, PhaseInv, StatsLagOneBatch, detectorVars
<1>2. MaxBatch \in Nat
  BY MaxBatchAssumption
<1>3. CASE Head(queue) = None
  <2>1. pc' = "stopped" /\ requests' = requests /\ flattened' = flattened
    BY <1>3 DEF Take
  <2>2. PhaseInv'
    BY <1>1, <2>1 DEF PhaseInv
  <2>3. AlignInv'
    BY <1>1, <2>1 DEF AlignInv, Aligned
  <2> QED
    BY <1>1, <1>2, <2>1, <2>2, <2>3 DEF BatchFits, StatsLagOneBatch
<1>4. CASE Head(queue) # None
  <2>1. PICK r : r = Head(queue)
    OBVIOUS
  <2>2. pc' = "gather" /\ requests' = <<r>> /\ flattened' = r.frames
    BY <1>4, <2>1 DEF Take
  <2>3. Proper(r)
    <3>1. PICK q \in Seq(Piece) : q = queue
      BY OutstandingTyped
    <3>2. <<>> \in Seq(Piece)
      OBVIOUS
    <3>3. LineOf(<<>>, 0, <<>>, q) = q
      BY <3>2, LineWhole
    <3>4. Outstanding = q
      BY <1>1, <3>1, <3>3 DEF Outstanding, LineOf
    <3>5. r = q[1] /\ 1 \in 1..Len(q)
      BY <1>1, <2>1, <3>1, HeadApart
    <3> QED
      BY <1>4, <2>1, <3>4, <3>5 DEF PieceInv
  <2>4. r.frames \in Seq(Frame) /\ Len(r.frames) \in Nat /\ Len(r.frames) <= MaxBatch
    BY <2>3 DEF Proper, Request
  <2>5. PhaseInv'
    BY <1>1, <2>2 DEF PhaseInv
  <2>6. AlignInv'
    <3> DEFINE at == [i \in 1..2 |-> IF i = 1 THEN 0 ELSE Len(r.frames)]
    <3>1. SubSeq(r.frames, 1, Len(r.frames)) = r.frames
      BY <2>4, SubSeqFull
    <3>2. Len(requests') = 1 /\ requests'[1] = r
      BY <2>2
    <3>3. at \in [1..2 -> 0..Len(r.frames)]
      BY <2>4
    <3>4. at[1] = 0 /\ at[2] = Len(r.frames)
      OBVIOUS
    <3> HIDE DEF at
    <3>5. Aligned(at)'
      BY <2>2, <2>4, <3>1, <3>2, <3>3, <3>4 DEF Aligned
    <3> QED
      BY <2>2, <3>2, <3>3, <3>5 DEF AlignInv
  <2> QED
    BY <1>1, <1>2, <2>2, <2>4, <2>5, <2>6 DEF BatchFits, StatsLagOneBatch
<1> QED
  BY <1>3, <1>4

LEMMA GatherBatches ==
    ASSUME TypeOK, BatchInv, Gather
    PROVE  BatchInv'
<1> USE DEF BatchInv
<1>1. /\ pc = "gather" /\ requests # <<>> /\ held = <<>> /\ resolved = 0 /\ offset = 0
      /\ uncounted = 0 /\ UNCHANGED <<detections, resolved, offset, uncounted>>
      /\ queue # <<>>
  BY DEF Gather, PhaseInv, StatsLagOneBatch, detectorVars
<1>2. MaxBatch \in Nat
  BY MaxBatchAssumption
<1>3. CASE ~Fits(Head(queue))
  <2>1. pc' = "return" /\ UNCHANGED <<requests, flattened>> /\ held' = <<Head(queue)>>
    BY <1>3 DEF Gather
  <2>2. held' # <<>> /\ Len(held') = 1
    BY <2>1
  <2>3. PhaseInv'
    BY <1>1, <2>1, <2>2 DEF PhaseInv
  <2>4. AlignInv'
    BY <1>1, <2>1 DEF AlignInv, Aligned
  <2> QED
    BY <1>1, <2>1, <2>3, <2>4 DEF BatchFits, StatsLagOneBatch
<1>4. CASE Fits(Head(queue))
  <2>1. PICK r : r = Head(queue)
    OBVIOUS
  <2>2. /\ requests' = Append(requests, r) /\ flattened' = flattened \o r.frames
        /\ pc' = pc /\ held' = held /\ Len(flattened) + Len(r.frames) <= MaxBatch
        /\ r # None
    BY <1>4, <2>1 DEF Gather, Fits
  <2>3. /\ r \in Request /\ r.frames \in Seq(Frame) /\ Len(r.frames) \in Nat
        /\ flattened \in Seq(Frame)
    <3>1. r \in Request /\ r.frames \in Seq(Frame)
      BY <1>1, <2>1, <2>2, QueueTyped
    <3>2. flattened \in Seq(Frame)
      BY DEF TypeOK
    <3> QED
      BY <3>1, <3>2
  <2>4. PICK n \in Nat, m \in Nat, k \in Nat :
            n = Len(requests) /\ m = Len(flattened) /\ k = Len(r.frames)
    BY <2>3, AlignedTyped
  <2>5. /\ Len(requests') = n + 1 /\ requests'[n + 1] = r
        /\ \A i \in 1..n : requests'[i] = requests[i]
        /\ requests' # <<>>
    <3>1. requests \in Seq(Request)
      BY DEF TypeOK
    <3> QED
      BY <2>2, <2>3, <2>4, <3>1, AppendProperties
  <2>6. /\ flattened' \in Seq(Frame) /\ Len(flattened') = m + k
        /\ SubSeq(flattened', m + 1, m + k) = r.frames
        /\ \A a, b \in 0..m : SubSeq(flattened', a + 1, b) = SubSeq(flattened, a + 1, b)
    <3>1. PICK s \in Seq(Frame), t \in Seq(Frame) : s = flattened /\ t = r.frames
      BY <2>3
    <3>2. flattened' = s \o t /\ m = Len(s) /\ k = Len(t)
      BY <2>2, <2>4, <3>1
    <3>3. SubSeq(s \o t, Len(s) + 1, Len(s) + Len(t)) = t
          /\ s \o t \in Seq(Frame) /\ Len(s \o t) = Len(s) + Len(t)
      BY SliceOfSecond
    <3>4. \A a, b \in 0..Len(s) : SubSeq(s \o t, a + 1, b) = SubSeq(s, a + 1, b)
      BY SliceOfFirst
    <3> QED
      BY <3>1, <3>2, <3>3, <3>4
  <2>7. PhaseInv'
    BY <1>1, <2>2, <2>4, <2>5 DEF PhaseInv
  <2>8. AlignInv'
    <3>1. PICK at : Aligned(at)
      BY DEF AlignInv
    <3>2. /\ at \in [1..n + 1 -> 0..m] /\ at[1] = 0 /\ at[n + 1] = m
          /\ \A i \in 1..n : /\ at[i + 1] = at[i] + Len(requests[i].frames)
                             /\ requests[i].frames = SubSeq(flattened, at[i] + 1, at[i + 1])
      BY <2>4, <3>1 DEF Aligned
    <3> DEFINE next == [i \in 1..n + 1 + 1 |-> IF i = n + 1 + 1 THEN m + k ELSE at[i]]
    <3>3. next \in [1..n + 1 + 1 -> 0..m + k]
      <4>1. \A i \in 1..n + 1 + 1 : i # n + 1 + 1 => at[i] \in 0..m + k
        BY <3>2
      <4> QED
        BY <4>1
    <3>4. next[n + 1 + 1] = m + k /\ \A i \in 1..n + 1 : next[i] = at[i]
      OBVIOUS
    <3> HIDE DEF next
    <3>5. ASSUME NEW i \in 1..n + 1
          PROVE  /\ next[i + 1] = next[i] + Len(requests'[i].frames)
                 /\ requests'[i].frames = SubSeq(flattened', next[i] + 1, next[i + 1])
      <4>1. CASE i = n + 1
        BY <2>4, <2>5, <2>6, <3>2, <3>4, <4>1
      <4>2. CASE i # n + 1
        <5>1. i \in 1..n /\ i \in 1..n + 1 /\ i + 1 \in 1..n + 1
          BY <4>2
        <5>2. at[i] \in 0..m /\ at[i + 1] \in 0..m
          BY <3>2, <5>1
        <5>3. next[i] = at[i] /\ next[i + 1] = at[i + 1] /\ requests'[i] = requests[i]
          BY <2>5, <3>4, <5>1
        <5> QED
          BY <2>6, <3>2, <5>1, <5>2, <5>3, ZenonT(40)
      <4> QED
        BY <4>1, <4>2
    <3>6. next[1] = 0
      BY <3>2, <3>4
    <3>7. Aligned(next)'
      BY <1>1, <2>2, <2>5, <2>6, <3>3, <3>4, <3>5, <3>6 DEF Aligned
    <3> QED
      BY <2>5, <2>6, <3>3, <3>7 DEF AlignInv
  <2>9. Len(flattened') <= MaxBatch
    BY <2>2, <2>4, <2>6
  <2> QED
    BY <1>1, <2>2, <2>7, <2>8, <2>9 DEF BatchFits, StatsLagOneBatch
<1> QED
  BY <1>3, <1>4

LEMMA OtherBatches ==
    ASSUME TypeOK, BatchInv, PutBack \/ StopGathering \/ Infer \/ EndBatch
    PROVE  BatchInv'
<1> USE MaxBatchAssumption DEF BatchInv, detectorVars, batchVars
<1>1. Len(flattened) \in Nat /\ Len(<<>>) = 0
  BY AlignedTyped
<1>2. CASE PutBack \/ StopGathering
  <2>1. pc' = "infer" /\ held' = <<>> /\ UNCHANGED <<requests, flattened, detectorVars>>
        /\ pc \in {"gather", "return"}
    BY <1>2 DEF PutBack, StopGathering, PhaseInv
  <2>2. PhaseInv'
    BY <1>1, <2>1 DEF PhaseInv
  <2>3. AlignInv'
    BY <2>1 DEF AlignInv, Aligned
  <2>4. BatchFits' /\ StatsLagOneBatch'
    BY <2>1 DEF BatchFits, StatsLagOneBatch
  <2> QED
    BY <2>2, <2>3, <2>4
<1>3. CASE Infer
  <2>1. /\ pc = "infer" /\ pc' = "resolve" /\ detections' \in {flattened, Raised}
        /\ uncounted' = uncounted + Len(flattened)
        /\ UNCHANGED <<requests, flattened, held, resolved, offset>>
    BY <1>3 DEF Infer
  <2>2. PhaseInv'
    BY <2>1 DEF PhaseInv
  <2>3. AlignInv'
    <3>1. PICK at : Aligned(at)
      BY DEF AlignInv
    <3>2. offset' = at[resolved' + 1]
      BY <2>1, <3>1 DEF Aligned, PhaseInv
    <3>3. Aligned(at)'
      BY <2>1, <3>1, <3>2 DEF Aligned
    <3> QED
      BY <2>1, <3>1, <3>3 DEF AlignInv, Aligned
  <2>4. BatchFits' /\ StatsLagOneBatch'
    BY <1>1, <2>1 DEF BatchFits, StatsLagOneBatch
  <2> QED
    BY <2>2, <2>3, <2>4
<1>4. CASE EndBatch
  <2>1. /\ pc = "resolve" /\ pc' = "take" /\ requests' = <<>> /\ flattened' = <<>>
        /\ resolved' = 0 /\ offset' = 0 /\ held' = held
        /\ uncounted' = uncounted - Len(flattened)
    BY <1>4 DEF EndBatch, Counted
  <2>2. PhaseInv'
    BY <1>1, <2>1 DEF PhaseInv
  <2>3. AlignInv'
    <3> DEFINE at == [i \in 1..1 |-> 0]
    <3>1. at \in [1..1 -> 0..0] /\ at[1] = 0
      OBVIOUS
    <3>2. Len(requests') = 0 /\ Len(flattened') = 0
      BY <2>1
    <3> HIDE DEF at
    <3>3. Aligned(at)'
      BY <2>1, <3>1, <3>2 DEF Aligned
    <3> QED
      BY <3>1, <3>2, <3>3 DEF AlignInv
  <2>4. BatchFits' /\ StatsLagOneBatch'
    BY <1>1, <2>1 DEF BatchFits, StatsLagOneBatch
  <2> QED
    BY <2>2, <2>3, <2>4
<1> QED
  BY <1>2, <1>3, <1>4

LEMMA ResolveBatches ==
    ASSUME TypeOK, BatchInv, SetResult \/ SetException
    PROVE  BatchInv'
<1> USE DEF BatchInv
<1>1. /\ pc = "resolve" /\ resolved < Len(requests) /\ resolved' = resolved + 1
      /\ UNCHANGED <<pc, requests, flattened, held, detections, uncounted>>
  BY DEF SetResult, SetException, Unresolved, Resolve, batchVars
<1>2. Len(requests) \in Nat /\ resolved \in Nat
  BY AlignedTyped
<1>3. PhaseInv'
  BY <1>1, <1>2 DEF PhaseInv
<1>4. AlignInv'
  <2>1. PICK at : Aligned(at)
    BY DEF AlignInv
  <2>2. detections # Raised => offset' = at[resolved' + 1]
    <3> SUFFICES ASSUME detections # Raised PROVE offset' = at[resolved' + 1]
      OBVIOUS
    <3>1. offset' = offset + Len(requests[resolved + 1].frames)
      BY DEF SetResult, SetException
    <3>2. offset = at[resolved + 1]
      BY <1>1, <2>1 DEF Aligned
    <3>3. resolved + 1 \in 1..Len(requests)
      BY <1>1, <1>2
    <3>4. at[resolved + 1 + 1] = at[resolved + 1] + Len(requests[resolved + 1].frames)
      BY <2>1, <3>3 DEF Aligned
    <3> QED
      BY <1>1, <3>1, <3>2, <3>4
  <2>3. Aligned(at)'
    BY <1>1, <2>1, <2>2 DEF Aligned
  <2> QED
    BY <1>1, <2>1, <2>3 DEF AlignInv, Aligned
<1>5. BatchFits' /\ StatsLagOneBatch'
  BY <1>1 DEF BatchFits, StatsLagOneBatch
<1> QED
  BY <1>3, <1>4, <1>5

------------------------------------------------------------------------------
(* The invariant. *)

LEMMA InitInv == Init => Inv
<1> SUFFICES ASSUME Init PROVE Inv
  OBVIOUS
<1> USE DEF Init
<1>1. /\ Len(<<>>) = 0 /\ MaxBatch \in Nat /\ 0 \in 0..MaxFrames /\ 0 \in 0..MaxCalls
      /\ <<>> \in Seq({Pending, Raised} \cup Seq(Frame)) /\ <<>> \in Seq(Frame)
      /\ <<>> \in Seq(Request \cup {None}) /\ <<>> \in Seq(Request)
  BY MaxBatchAssumption, BoundAssumption
<1>2. TypeOK
  BY <1>1 DEF TypeOK
<1>3. \A c \in Callers : LaneInv(c)
  <2> TAKE c \in Callers
  <2>1. Smaller(0 * MaxBatch, 0) = 0
    BY <1>1 DEF Smaller
  <2>2. SubSeq(Frames(c, 0), 1, 0) = <<>>
    BY SubSeqEmpty
  <2>3. /\ asked[c] = 0 /\ start[c] = 0 /\ read[c] = 0 /\ future[c] = <<>>
        /\ results[c] = <<>>
    OBVIOUS
  <2> QED
    BY <1>1, <2>1, <2>2, <2>3 DEF LaneInv
<1>4. PieceInv
  <2>1. <<>> \in Seq(Piece)
    OBVIOUS
  <2>2. LineOf(<<>>, 0, <<>>, <<>>) = <<>>
    BY <2>1, LineWhole
  <2>3. Len(Outstanding) = 0
    BY <1>1, <2>2, LineIs
  <2> QED
    BY <2>3 DEF PieceInv
<1>5. PhaseInv
  BY <1>1 DEF PhaseInv
<1>6. AlignInv
  <2> DEFINE at == [i \in 1..1 |-> 0]
  <2>1. at \in [1..1 -> 0..0] /\ at[1] = 0
    OBVIOUS
  <2> HIDE DEF at
  <2>2. Aligned(at)
    BY <1>1, <2>1 DEF Aligned
  <2> QED
    BY <1>1, <2>1, <2>2 DEF AlignInv
<1>7. ServedInv /\ BatchFits /\ StatsLagOneBatch
  BY <1>1 DEF ServedInv, BatchFits, StatsLagOneBatch
<1> QED
  BY <1>2, <1>3, <1>4, <1>5, <1>6, <1>7 DEF Inv

LEMMA StepInv == Inv /\ [Next]_vars => Inv'
<1> SUFFICES ASSUME Inv, [Next]_vars PROVE Inv'
  OBVIOUS
<1>1. TypeOK /\ (\A c \in Callers : LaneInv(c)) /\ PieceInv /\ ServedInv /\ BatchInv
  BY DEF Inv, BatchInv
<1>2. ASSUME NEW c \in Callers, Caller(c) PROVE Inv'
  <2>1. TypeOK'
    BY <1>1, <1>2, CallerTyped
  <2>2. (\A d \in Callers : LaneInv(d)') /\ PieceInv' /\ ServedInv'
    BY <1>1, <1>2, <2>1, CallerKept
  <2>3. UNCHANGED <<pc, batchVars, detectorVars>>
    BY <1>2 DEF Caller, Call, Put, Result, Returns, Raises
  <2>4. PhaseInv' /\ AlignInv' /\ BatchFits' /\ StatsLagOneBatch'
    BY <1>1, <2>3, BatchKept DEF BatchInv
  <2> QED
    BY <2>1, <2>2, <2>4 DEF Inv
<1>3. ASSUME Close PROVE Inv'
  <2>1. /\ UNCHANGED <<askVars, future, resultVars, pc, batchVars, detectorVars>>
        /\ queue' = Append(queue, None) /\ closed' = TRUE /\ busy = {}
    BY <1>3 DEF Close
  <2>2. TypeOK'
    <3>1. Append(queue, None) \in Seq(Request \cup {None})
      BY <1>1 DEF TypeOK
    <3> QED
      BY <1>1, <2>1, <3>1 DEF TypeOK, askVars, resultVars, batchVars, detectorVars
  <2>3. \A c \in Callers : LaneInv(c)'
    BY <1>1, <2>1, LanesKept
  <2>4. PhaseInv' /\ AlignInv' /\ BatchFits' /\ StatsLagOneBatch'
    BY <1>1, <2>1, BatchKept DEF BatchInv
  <2>5. ServedInv'
    BY <2>1 DEF ServedInv, askVars
  <2>6. PieceInv'
    <3>1. PICK rs, h, q, k : rs = requests /\ h = held /\ q = queue /\ k = resolved
      OBVIOUS
    <3>2. /\ rs \in Seq(Piece) /\ h \in Seq(Piece) /\ q \in Seq(Piece) /\ k \in Nat
          /\ None \in Piece
      BY <1>1, <3>1, OutstandingTyped DEF TypeOK, Piece
    <3>3. PICK S, T : S = Outstanding /\ T = Outstanding'
      OBVIOUS
    <3>4. S = LineOf(rs, k, h, q) /\ T = LineOf(rs, k, h, Append(q, None))
      BY <2>1, <3>1, <3>3 DEF Outstanding, LineOf, batchVars, detectorVars
    <3>5. S \in Seq(Piece) /\ T = Append(S, None)
      BY <3>2, <3>4, LineAppended
    <3>6. /\ Len(S) \in Nat /\ Len(T) = Len(S) + 1 /\ T[Len(S) + 1] = None
          /\ \A i \in 1..Len(S) : T[i] = S[i]
      BY <3>2, <3>5, AppendProperties
    <3>7. \A i \in 1..Len(T) : T[i] = None \/ \E j \in 1..Len(S) : T[i] = S[j]
      BY <3>6
    <3>8. Onward
      BY <1>1, <2>1, LaneTyped DEF Onward, askVars
    <3> QED
      BY <1>1, <2>2, <3>3, <3>7, <3>8, PiecesStay
  <2> QED
    BY <2>2, <2>3, <2>4, <2>5, <2>6 DEF Inv
<1>4. ASSUME Thread PROVE Inv'
  <2>1. TypeOK'
    BY <1>1, <1>4, ThreadTyped DEF BatchInv
  <2>2. CASE SetResult \/ SetException
    <3>1. PICK r : r = requests[resolved + 1]
      OBVIOUS
    <3>2. \E v \in {Raised, r.frames} : Unresolved /\ Resolve(r, v)
      <4>1. CASE SetResult
        <5>1. Slice(r) = r.frames
          BY <1>1, <3>1, <4>1, SliceIs DEF SetResult, BatchInv
        <5> QED
          BY <3>1, <4>1, <5>1 DEF SetResult
      <4>2. CASE SetException
        BY <3>1, <4>2 DEF SetException
      <4> QED
        BY <2>2, <4>1, <4>2
    <3>3. (\A d \in Callers : LaneInv(d)') /\ PieceInv' /\ ServedInv'
      BY <1>1, <2>1, <3>1, <3>2, ResolveMoves DEF BatchInv
    <3>4. BatchInv'
      BY <1>1, <2>2, ResolveBatches
    <3> QED
      BY <2>1, <3>3, <3>4 DEF Inv, BatchInv
  <2>3. CASE ~(SetResult \/ SetException)
    <3>1. UNCHANGED <<askVars, future, resultVars>>
      BY <1>4, <2>3 DEF Thread, Take, Gather, PutBack, StopGathering, Infer, EndBatch
    <3>2. \A c \in Callers : LaneInv(c)'
      BY <1>1, <3>1, LanesKept
    <3>3. PieceInv' /\ ServedInv'
      <4>1. CASE Take
        BY <1>1, <2>1, <4>1, TakeMoves DEF BatchInv
      <4>2. CASE Gather
        BY <1>1, <2>1, <4>2, GatherMoves DEF BatchInv
      <4>3. CASE PutBack
        BY <1>1, <2>1, <4>3, PutBackMoves DEF BatchInv
      <4>4. CASE StopGathering \/ Infer
        <5>1. Outstanding' = Outstanding
          BY <4>4 DEF StopGathering, Infer, batchVars, detectorVars, Outstanding
        <5> QED
          BY <1>1, <2>1, <3>1, <5>1, QuietKept
      <4>5. CASE EndBatch
        BY <1>1, <2>1, <4>5, EndBatchMoves DEF BatchInv
      <4> QED
        BY <1>4, <2>3, <4>1, <4>2, <4>3, <4>4, <4>5 DEF Thread
    <3>4. BatchInv'
      BY <1>1, <1>4, <2>3, TakeBatches, GatherBatches, OtherBatches DEF Thread
    <3> QED
      BY <2>1, <3>2, <3>3, <3>4 DEF Inv, BatchInv
  <2> QED
    BY <2>2, <2>3
<1>5. ASSUME UNCHANGED vars PROVE Inv'
  <2>1. /\ UNCHANGED <<askVars, future, resultVars, pc, batchVars, detectorVars>>
        /\ queue' = queue /\ closed' = closed
    BY <1>5 DEF vars
  <2>2. TypeOK'
    BY <1>1, <2>1 DEF TypeOK, askVars, resultVars, batchVars, detectorVars
  <2>3. Outstanding' = Outstanding
    BY <2>1 DEF Outstanding, batchVars, detectorVars
  <2>4. PieceInv' /\ ServedInv'
    BY <1>1, <2>1, <2>2, <2>3, QuietKept
  <2>5. \A c \in Callers : LaneInv(c)'
    BY <1>1, <2>1, LanesKept
  <2>6. PhaseInv' /\ AlignInv' /\ BatchFits' /\ StatsLagOneBatch'
    BY <1>1, <2>1, BatchKept DEF BatchInv
  <2> QED
    BY <2>2, <2>4, <2>5, <2>6 DEF Inv
<1> QED
  BY <1>2, <1>3, <1>4, <1>5 DEF Next, Finished

LEMMA InvHolds == Spec => []Inv
  BY InitInv, StepInv, PTL DEF Spec

\* The queue, the requests, the futures and the counters are what the code takes
\* them for.
THEOREM DetectorTyped == Spec => []TypeOK
<1>1. Inv => TypeOK
  BY DEF Inv
<1> QED
  BY <1>1, InvHolds, PTL

\* No batch has more frames than the engine was built for.
THEOREM BatchAlwaysFits == Spec => []BatchFits
<1>1. Inv => BatchFits
  BY DEF Inv
<1> QED
  BY <1>1, InvHolds, PTL

\* provenance() may miss the batch whose lanes were just woken, and nothing else.
THEOREM StatsLag == Spec => []StatsLagOneBatch
<1>1. Inv => StatsLagOneBatch
  BY DEF Inv
<1> QED
  BY <1>1, InvHolds, PTL

\* A request a lane waits for is in one place until its future is set, also when
\* the batch it was taken for goes on without it.
THEOREM WaitingServed == Spec => []WaitingIsServed
<1>1. Inv => WaitingIsServed
  <2> SUFFICES ASSUME Inv, NEW c \in busy, NEW p \in 1..Len(future[c])
               PROVE  IF future[c][p] = Pending
                        THEN \E i \in Places(c, p) : Places(c, p) = {i}
                        ELSE Places(c, p) = {}
    BY DEF WaitingIsServed
  <2>1. PICK S \in Seq(Piece) : S = Outstanding
    BY OutstandingTyped DEF Inv
  <2>2. PICK K : K = Asked(c, calls[c], p)
    OBVIOUS
  <2>3. IF future[c][p] = Pending THEN Sole(S, K) ELSE Gone(S, K)
    BY <2>1, <2>2 DEF Inv, ServedInv
  <2>4. Places(c, p) = {i \in 1..Len(S) : S[i] \in K}
    <3>1. \A i \in 1..Len(S) : S[i] \in Request \/ S[i] = None
      BY <2>1, ElementOfSeq DEF Piece
    <3>2. \A i \in 1..Len(S) :
              S[i] \in K <=> /\ S[i] # None
                             /\ S[i].caller = c
                             /\ S[i].call = calls[c]
                             /\ S[i].part = p
      BY <2>2, <3>1, NoneAssumption DEF Asked
    <3> QED
      BY <2>1, <3>2 DEF Places
  <2>5. PICK P : P = Places(c, p)
    OBVIOUS
  <2>6. Sole(S, K) => \E i \in P : P = {i}
    BY <2>4, <2>5 DEF Sole
  <2>7. Gone(S, K) => P = {}
    BY <2>4, <2>5 DEF Gone
  <2> QED
    BY <2>3, <2>5, <2>6, <2>7
<1> QED
  BY <1>1, InvHolds, PTL

------------------------------------------------------------------------------
(* What the lanes see. *)

LEMMA StepImplements ==
    ASSUME Inv, [Next]_vars
    PROVE  [Seen!Next]_(Seen!vars)
<1>1. ASSUME NEW c \in Callers, NEW n \in 0..MaxFrames, Call(c, n) PROVE Seen!Ask(c, n)
  BY <1>1 DEF Call, Seen!Ask
<1>2. ASSUME NEW c \in Callers, Returns(c) PROVE Seen!Answer(c)
  <2>1. PICK n \in Nat, k \in Nat : n = asked[c] /\ k = read[c]
    BY LaneTyped DEF Inv
  <2>2. Smaller(k * MaxBatch, n) = n
    <3>1. start[c] = n /\ k = Len(future[c])
      BY <1>2, <2>1 DEF Returns, AllPut
    <3> QED
      BY <2>1, <3>1 DEF Inv, LaneInv
  <2>3. results[c] = SubSeq(Frames(c, n), 1, n)
    BY <2>1, <2>2 DEF Inv, LaneInv
  <2>4. SubSeq(Frames(c, n), 1, n) = Frames(c, n)
    BY FramesAre, SubSeqFull
  <2>5. results[c] = Seen!Detections(c, asked[c])
    BY <2>1, <2>3, <2>4 DEF Frames, Seen!Detections
  <2> QED
    BY <1>2, <2>5 DEF Returns, AllPut, Seen!Answer
<1>3. ASSUME NEW c \in Callers, Raises(c) PROVE Seen!Raise(c)
  BY <1>3 DEF Raises, AllPut, Seen!Raise
<1>4. ASSUME NEW c \in Callers, Put(c) \/ Result(c) PROVE UNCHANGED Seen!vars
  BY <1>4 DEF Put, Result, askVars, resultVars, Seen!vars
<1>5. ASSUME Close \/ Thread \/ Finished \/ UNCHANGED vars PROVE UNCHANGED Seen!vars
  <2>1. ASSUME Close \/ Thread PROVE UNCHANGED <<askVars, resultVars>>
    BY <2>1 DEF Close, Thread, Take, Gather, PutBack, StopGathering, Infer, SetResult,
                SetException, Resolve, EndBatch
  <2> QED
    BY <1>5, <2>1 DEF Finished, vars, askVars, resultVars, Seen!vars
<1> QED
  BY <1>1, <1>2, <1>3, <1>4, <1>5 DEF Next, Caller, Seen!Next

\* Batching is invisible: each lane gets the detections of its own frames, in their
\* order, or an exception.
THEOREM DetectorImplemented == Spec => ImplementsDetector
<1>1. Init => Seen!Init
  BY DEF Init, Seen!Init
<1>2. Inv /\ [Next]_vars => [Seen!Next]_(Seen!vars)
  BY StepImplements
<1> QED
  BY <1>1, <1>2, InvHolds, PTL DEF Spec, ImplementsDetector, Seen!Spec
===============================================================================
