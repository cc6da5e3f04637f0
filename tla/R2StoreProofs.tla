---------------------------- MODULE R2StoreProofs ----------------------------
(***************************************************************************)
(* What the create-only upload guarantees for every set of writers, keys   *)
(* and contents.                                                           *)
(***************************************************************************)
EXTENDS R2Store, TLAPS

\* A call's own bytes are at its key from the moment R2 accepted the PUT, not
\* only when the answer is given: this is what the second HEAD relies on.
VerifyingMeansStored ==
    \A w \in Writers : Phase(w) \in {"verify", "done"} => Stored(w) = upload[w].content

IInv == TypeOK /\ VerifyingMeansStored

LEMMA InitIInv == Init => IInv
  BY DEF Init, IInv, TypeOK, VerifyingMeansStored, NoUpload, Phase, Phases

\* Whatever a step does to the bucket, it fills empty keys and nothing else.
LEMMA StepKeepsObjects ==
    ASSUME TypeOK, [Next]_vars
    PROVE  \A k \in Keys : objects[k] # Absent => objects'[k] = objects[k]
<1>1. ASSUME NEW w \in Writers, Exchange(w)
      PROVE  \A k \in Keys : objects[k] # Absent => objects'[k] = objects[k]
  BY <1>1 DEF Exchange, HeadFound, HeadMissing, HeadFails, PutAccepted, PutResponseLost,
              PutRefused, PutFails, Verify, Admitted, TypeOK, Phase, Target
<1>2. ASSUME NEW k \in Keys, NEW c \in Contents, LateArrival(k, c)
      PROVE  \A x \in Keys : objects[x] # Absent => objects'[x] = objects[x]
  BY <1>2 DEF LateArrival, Admitted, TypeOK
<1>3. QED
  BY <1>1, <1>2 DEF Next, vars, Begin, Return, Die

LEMMA StepIInv == IInv /\ [Next]_vars => IInv'
<1> SUFFICES ASSUME IInv, [Next]_vars PROVE IInv'
  OBVIOUS
<1> USE DEF IInv
<1>1. ASSUME NEW w \in Writers, NEW k \in Keys, NEW c \in Contents, Begin(w, k, c)
      PROVE  IInv'
  BY <1>1 DEF Begin, TypeOK, VerifyingMeansStored, Phase, Phases, Stored, Target
<1>2. ASSUME NEW w \in Writers, Exchange(w)
      PROVE  IInv'
  <2>1. CASE HeadFound(w)
    BY <2>1 DEF HeadFound, TypeOK, VerifyingMeansStored, Phase, Phases, Stored, Target, MoveTo
  <2>2. CASE HeadMissing(w)
    BY <2>2 DEF HeadMissing, TypeOK, VerifyingMeansStored, Phase, Phases, Stored, Target, MoveTo
  <2>3. CASE HeadFails(w)
    BY <2>3 DEF HeadFails, TypeOK, VerifyingMeansStored, Phase, Phases, Stored, Target, MoveTo
  <2>4. CASE PutAccepted(w)
    BY <2>4, AbsentIsNoObject
       DEF PutAccepted, Admitted, TypeOK, VerifyingMeansStored, Phase, Phases, Stored,
           Target, MoveTo
  <2>5. CASE PutResponseLost(w)
    BY <2>5, AbsentIsNoObject
       DEF PutResponseLost, Admitted, TypeOK, VerifyingMeansStored, Phase, Phases, Stored,
           Target
  <2>6. CASE PutRefused(w)
    BY <2>6 DEF PutRefused, TypeOK, VerifyingMeansStored, Phase, Phases, Stored, Target, MoveTo
  <2>7. CASE PutFails(w)
    BY <2>7 DEF PutFails, TypeOK, VerifyingMeansStored, Phase, Phases, Stored, Target, MoveTo
  <2>8. CASE Verify(w)
    BY <2>8 DEF Verify, TypeOK, VerifyingMeansStored, Phase, Phases, Stored, Target, MoveTo
  <2>9. QED
    BY <1>2, <2>1, <2>2, <2>3, <2>4, <2>5, <2>6, <2>7, <2>8 DEF Exchange
<1>3. ASSUME NEW w \in Writers, Return(w)
      PROVE  IInv'
  BY <1>3 DEF Return, NoUpload, TypeOK, VerifyingMeansStored, Phase, Phases, Stored, Target
<1>4. ASSUME NEW w \in Writers, Die(w)
      PROVE  IInv'
  BY <1>4 DEF Die, NoUpload, TypeOK, VerifyingMeansStored, Phase, Phases, Stored, Target
<1>5. ASSUME NEW k \in Keys, NEW c \in Contents, LateArrival(k, c)
      PROVE  IInv'
  BY <1>5, AbsentIsNoObject
     DEF LateArrival, Admitted, TypeOK, VerifyingMeansStored, Phase, Phases, Stored, Target
<1>6. CASE UNCHANGED vars
  BY <1>6 DEF vars, TypeOK, VerifyingMeansStored, Phase, Stored, Target
<1>7. QED
  BY <1>1, <1>2, <1>3, <1>4, <1>5, <1>6 DEF Next

THEOREM IInvHolds == Spec => []IInv
  BY InitIInv, StepIInv, PTL DEF Spec

\* The store's variables keep their types (upload_create_only always works on
\* one key and one file).
THEOREM TypeCorrect == Spec => []TypeOK
<1>1. IInv => TypeOK
  BY DEF IInv
<1>2. QED
  BY <1>1, IInvHolds, PTL

\* A writer that upload_create_only returned to finds its bytes at its key,
\* whatever the other writers, the SDK's retries and late PUTs did.
THEOREM DoneIsStored == Spec => []DoneMeansStored
<1>1. IInv => DoneMeansStored
  BY DEF IInv, VerifyingMeansStored, DoneMeansStored
<1>2. QED
  BY <1>1, IInvHolds, PTL

\* No object at R2 is ever replaced through upload_create_only.
THEOREM CreateOnly == Spec => NeverOverwritten
<1>1. TypeOK /\ [Next]_vars
        => [\A k \in Keys : objects[k] # Absent => objects'[k] = objects[k]]_vars
  BY StepKeepsObjects
<1>2. QED
  BY <1>1, TypeCorrect, PTL DEF Spec, NeverOverwritten

------------------------------------------------------------------------------
(* Refinement. *)

LEMMA InitMaps == Init => Abstract!Init
  BY DEF Init, Abstract!Init, Asked, AnswerOf, Abstract!NoCall, NoUpload, Phase

LEMMA StepMaps == IInv /\ [Next]_vars => [Abstract!Next]_(Abstract!vars)
<1> SUFFICES ASSUME IInv, [Next]_vars PROVE [Abstract!Next]_(Abstract!vars)
  OBVIOUS
<1> USE DEF IInv
<1>1. ASSUME NEW w \in Writers, NEW k \in Keys, NEW c \in Contents, Begin(w, k, c)
      PROVE  Abstract!Ask(w, k, c)
  <2> DEFINE call == [phase |-> "head", key |-> k, content |-> c]
  <2>1. upload' = [upload EXCEPT ![w] = call]
    BY <1>1 DEF Begin
  <2>2. \A v \in Writers : upload'[v] = IF v = w THEN call ELSE upload[v]
    BY <2>1 DEF TypeOK
  <2>3. Asked[w] = Abstract!NoCall
    BY <1>1 DEF Begin, Asked, AnswerOf, NoUpload, Phase, Abstract!NoCall
  <2>4. Asked' = [Asked EXCEPT ![w] = [answer |-> "pending", key |-> k, content |-> c]]
    <3>1. AnswerOf(call.phase) = "pending" /\ call.key = k /\ call.content = c
      BY DEF AnswerOf
    <3>2. Asked' = [v \in Writers |-> IF v = w
                                       THEN [answer |-> "pending", key |-> k, content |-> c]
                                       ELSE Asked[v]]
      BY <2>2, <3>1, Zenon DEF Asked, Phase
    <3>3. QED
      BY <3>2 DEF Asked
  <2>5. UNCHANGED objects
    BY <1>1 DEF Begin
  <2>6. QED
    BY <2>3, <2>4, <2>5 DEF Abstract!Ask
<1>2. ASSUME NEW w \in Writers, Exchange(w)
      PROVE  [Abstract!Next]_(Abstract!vars)
  <2> DEFINE Told(a) == Abstract!Answer(w, a) /\ UNCHANGED objects
  <2>1. CASE HeadFound(w)
    <3>1. CASE Stored(w) = upload[w].content
      <4>1. Told("done")
        BY <2>1, <3>1
           DEF HeadFound, Abstract!Answer, Abstract!Justified, Asked, AnswerOf, Phase,
               Stored, Target, MoveTo, TypeOK
      <4>2. QED
        BY <4>1 DEF Abstract!Next
    <3>2. CASE Stored(w) # upload[w].content
      <4>1. Told("conflict")
        BY <2>1, <3>2
           DEF HeadFound, Abstract!Answer, Abstract!Justified, Asked, AnswerOf, Phase,
               Stored, Target, MoveTo, TypeOK
      <4>2. QED
        BY <4>1 DEF Abstract!Next
    <3>3. QED
      BY <3>1, <3>2
  <2>2. CASE HeadMissing(w)
    BY <2>2 DEF HeadMissing, Abstract!vars, Asked, AnswerOf, Phase, MoveTo, TypeOK
  <2>3. CASE HeadFails(w)
    <3>1. Told("error")
      BY <2>3 DEF HeadFails, Abstract!Answer, Abstract!Justified, Asked, AnswerOf, Phase,
                  MoveTo, TypeOK
    <3>2. QED
      BY <3>1 DEF Abstract!Next
  <2>4. CASE PutAccepted(w)
    <3>1. Abstract!Write(Target(w), upload[w].content)
      BY <2>4 DEF PutAccepted, Admitted, Abstract!Write
    <3>2. UNCHANGED Asked
      BY <2>4 DEF PutAccepted, Asked, AnswerOf, Phase, MoveTo, TypeOK
    <3>3. Target(w) \in Keys /\ upload[w].content \in Contents
      BY <2>4 DEF PutAccepted, Phase, Target, TypeOK
    <3>4. QED
      BY <3>1, <3>2, <3>3 DEF Abstract!Next
  <2>5. CASE PutResponseLost(w)
    <3>1. Abstract!Write(Target(w), upload[w].content)
      BY <2>5 DEF PutResponseLost, Admitted, Abstract!Write
    <3>2. UNCHANGED Asked
      BY <2>5 DEF PutResponseLost, Asked, AnswerOf, Phase
    <3>3. Target(w) \in Keys /\ upload[w].content \in Contents
      BY <2>5 DEF PutResponseLost, Phase, Target, TypeOK
    <3>4. QED
      BY <3>1, <3>2, <3>3 DEF Abstract!Next
  <2>6. CASE PutRefused(w)
    <3>1. Told("conflict")
      BY <2>6 DEF PutRefused, Abstract!Answer, Abstract!Justified, Asked, AnswerOf, Phase,
                  Stored, Target, MoveTo, TypeOK
    <3>2. QED
      BY <3>1 DEF Abstract!Next
  <2>7. CASE PutFails(w)
    <3>1. Told("error")
      BY <2>7 DEF PutFails, Abstract!Answer, Abstract!Justified, Asked, AnswerOf, Phase,
                  MoveTo, TypeOK
    <3>2. QED
      BY <3>1 DEF Abstract!Next
  <2>8. CASE Verify(w)
    <3>1. Stored(w) = upload[w].content
      BY <2>8 DEF Verify, VerifyingMeansStored
    <3>2. Told("done")
      BY <2>8, <3>1
         DEF Verify, Abstract!Answer, Abstract!Justified, Asked, AnswerOf, Phase, Stored,
             Target, MoveTo, TypeOK
    <3>3. QED
      BY <3>2 DEF Abstract!Next
  <2>9. QED
    BY <1>2, <2>1, <2>2, <2>3, <2>4, <2>5, <2>6, <2>7, <2>8 DEF Exchange
<1>3. ASSUME NEW w \in Writers, Return(w)
      PROVE  Abstract!Forget(w)
  BY <1>3 DEF Return, Abstract!Forget, Abstract!NoCall, Asked, AnswerOf, NoUpload, Phase,
              TypeOK
<1>4. ASSUME NEW w \in Writers, Die(w)
      PROVE  Abstract!Forget(w)
  BY <1>4 DEF Die, Abstract!Forget, Abstract!NoCall, Asked, AnswerOf, NoUpload, Phase,
              TypeOK
<1>5. ASSUME NEW k \in Keys, NEW c \in Contents, LateArrival(k, c)
      PROVE  [Abstract!Next]_(Abstract!vars)
  <2>1. UNCHANGED Asked
    BY <1>5 DEF LateArrival, Asked, Phase
  <2>2. CASE Admitted(k)
    <3>1. Abstract!Write(k, c)
      BY <1>5, <2>2 DEF LateArrival, Admitted, Abstract!Write
    <3>2. QED
      BY <2>1, <3>1 DEF Abstract!Next
  <2>3. CASE ~Admitted(k)
    BY <1>5, <2>1, <2>3 DEF LateArrival, Abstract!vars
  <2>4. QED
    BY <2>2, <2>3
<1>6. CASE UNCHANGED vars
  BY <1>6 DEF vars, Abstract!vars, Asked, Phase
<1>7. QED
  BY <1>1, <1>2, <1>3, <1>4, <1>5, <1>6 DEF Next, Abstract!Next

\* The HEAD / PUT / HEAD exchange implements the write-once bucket.
THEOREM WriteOnceImplemented == Spec => ImplementsWriteOnce
  BY InitMaps, StepMaps, IInvHolds, PTL DEF Spec, Abstract!Spec, ImplementsWriteOnce
==============================================================================
