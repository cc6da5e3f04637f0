------------------------------- MODULE R2Store -------------------------------
(***************************************************************************)
(* qc_pipeline/storage.py: R2Store.upload_create_only, the one way this    *)
(* program writes to R2, run by several writers against one bucket.        *)
(*                                                                         *)
(* A call is HEAD, then a PUT with If-None-Match: *, then a second HEAD.   *)
(* Between any two of them another writer may move.  The PUT is sent by    *)
(* botocore, which re-sends it when no response arrives (max_attempts 8,   *)
(* mode "standard"), and a request that was given up on may still be       *)
(* carried out by R2 later.                                                *)
(*                                                                         *)
(* An object is its bytes; equal bytes stand for equal size and equal      *)
(* sha256 metadata.  R2 itself (atomic conditional PUT, HEAD that sees     *)
(* every completed PUT, no deletion) is modelled from its use.             *)
(***************************************************************************)

CONSTANTS Writers,    \* concurrent callers of upload_create_only
          Keys,       \* destination keys
          Contents,   \* distinguishable uploads
          Absent      \* "no object": the 404 of HEAD

ASSUME AbsentIsNoObject == Absent \notin Contents \cup Keys

VARIABLES objects,    \* objects[k]: the object at key k
          upload,     \* upload[w]: the call writer w is in, and how far it is
          late        \* PUTs nobody waits for any more that R2 may still apply

vars == <<objects, upload, late>>

Phases == {"idle", "head", "put", "verify", "done", "conflict", "error"}

NoUpload == [phase |-> "idle", key |-> Absent, content |-> Absent]

TypeOK ==
    /\ objects \in [Keys -> Contents \cup {Absent}]
    /\ upload \in [Writers -> [phase : Phases,
                               key : Keys \cup {Absent},
                               content : Contents \cup {Absent}]]
    /\ \A w \in Writers : upload[w].phase # "idle" =>
            upload[w].key \in Keys /\ upload[w].content \in Contents
    /\ late \subseteq Keys \X Contents

\* The bucket may hold objects of earlier work: of another host, of a run
\* directory that was lost.
Init ==
    /\ objects \in [Keys -> Contents \cup {Absent}]
    /\ upload = [w \in Writers |-> NoUpload]
    /\ late = {}

Target(w) == upload[w].key
Phase(w) == upload[w].phase
Stored(w) == objects[Target(w)]
MoveTo(w, p) == upload' = [upload EXCEPT ![w].phase = p]

------------------------------------------------------------------------------
(* The call. *)

BeginKeepingOldTarget(w, k, c) ==
    /\ upload[w] = NoUpload
    /\ upload' = [upload EXCEPT ![w].phase = "head", ![w].content = c]
    /\ UNCHANGED <<objects, late>>

Begin(w, k, c) ==
    /\ upload[w] = NoUpload
    /\ upload' = [upload EXCEPT ![w] = [phase |-> "head", key |-> k, content |-> c]]
    /\ UNCHANGED <<objects, late>>

\* The first HEAD finds an object: the caller's own bytes count as done.
HeadFoundAnything(w) ==
    /\ Phase(w) = "head"
    /\ Stored(w) # Absent
    /\ MoveTo(w, "done")
    /\ UNCHANGED <<objects, late>>

HeadFound(w) ==
    /\ Phase(w) = "head"
    /\ Stored(w) # Absent
    /\ MoveTo(w, IF Stored(w) = upload[w].content THEN "done" ELSE "conflict")
    /\ UNCHANGED <<objects, late>>

HeadMissing(w) ==
    /\ Phase(w) = "head"
    /\ Stored(w) = Absent
    /\ MoveTo(w, "put")
    /\ UNCHANGED <<objects, late>>

\* Either HEAD fails with anything but a 404.
HeadFails(w) ==
    /\ Phase(w) \in {"head", "verify"}
    /\ MoveTo(w, "error")
    /\ UNCHANGED <<objects, late>>

\* If-None-Match: * lets the PUT through only while there is no object.
Admitted(k) == objects[k] = Absent

PutUnconditional(w) ==
    /\ Phase(w) = "put"
    /\ objects' = [objects EXCEPT ![Target(w)] = upload[w].content]
    /\ MoveTo(w, "verify")
    /\ UNCHANGED late

PutAccepted(w) ==
    /\ Phase(w) = "put"
    /\ Admitted(Target(w))
    /\ objects' = [objects EXCEPT ![Target(w)] = upload[w].content]
    /\ MoveTo(w, "verify")
    /\ UNCHANGED late

\* R2 applies the PUT, its response is lost, and botocore sends it again.
PutResponseLost(w) ==
    /\ Phase(w) = "put"
    /\ Admitted(Target(w))
    /\ objects' = [objects EXCEPT ![Target(w)] = upload[w].content]
    /\ UNCHANGED <<upload, late>>

\* 412: somebody created the key since the HEAD, perhaps this very call.
RefusalTakenAsDone(w) ==
    /\ Phase(w) = "put"
    /\ Stored(w) # Absent
    /\ MoveTo(w, "done")
    /\ UNCHANGED <<objects, late>>

PutRefused(w) ==
    /\ Phase(w) = "put"
    /\ Stored(w) # Absent
    /\ MoveTo(w, "conflict")
    /\ UNCHANGED <<objects, late>>

\* The SDK gives up: the request is gone, or still on its way.
PutFails(w) ==
    /\ Phase(w) = "put"
    /\ MoveTo(w, "error")
    /\ late' \in {late, late \cup {<<Target(w), upload[w].content>>}}
    /\ UNCHANGED objects

\* The second HEAD compares what is stored with what was sent.
Verify(w) ==
    /\ Phase(w) = "verify"
    /\ MoveTo(w, IF Stored(w) = upload[w].content THEN "done" ELSE "error")
    /\ UNCHANGED <<objects, late>>

\* The caller takes the returned identity or the exception.
Return(w) ==
    /\ Phase(w) \in {"done", "conflict", "error"}
    /\ upload' = [upload EXCEPT ![w] = NoUpload]
    /\ UNCHANGED <<objects, late>>

\* The caller's process dies inside the call.
Die(w) ==
    /\ Phase(w) # "idle"
    /\ upload' = [upload EXCEPT ![w] = NoUpload]
    /\ late' \in {late} \cup (IF Phase(w) = "put"
                                THEN {late \cup {<<Target(w), upload[w].content>>}}
                                ELSE {})
    /\ UNCHANGED objects

\* R2 carries out a PUT whose sender no longer waits.
LateArrival(k, c) ==
    /\ <<k, c>> \in late
    /\ late' = late \ {<<k, c>>}
    /\ objects' = IF Admitted(k) THEN [objects EXCEPT ![k] = c] ELSE objects
    /\ UNCHANGED upload

Exchange(w) ==
    \/ HeadFound(w)
    \/ HeadMissing(w)
    \/ HeadFails(w)
    \/ PutAccepted(w)
    \/ PutResponseLost(w)
    \/ PutRefused(w)
    \/ PutFails(w)
    \/ Verify(w)

Next ==
    \/ \E w \in Writers, k \in Keys, c \in Contents : Begin(w, k, c)
    \/ \E w \in Writers : Exchange(w) \/ Return(w) \/ Die(w)
    \/ \E k \in Keys, c \in Contents : LateArrival(k, c)

Spec == Init /\ [][Next]_vars

------------------------------------------------------------------------------
(* Properties. *)

\* A call that returned an identity left its caller's bytes at its key, and
\* they are still there however the other writers moved since
\* (upload_create_only returns `existing` or `verified`).
DoneMeansStored ==
    \A w \in Writers : Phase(w) = "done" => Stored(w) = upload[w].content

\* No writer, no re-sent PUT and no late PUT replaces an object
\* (IfNoneMatch="*").
NeverOverwritten ==
    [][\A k \in Keys : objects[k] # Absent => objects'[k] = objects[k]]_vars

\* The exchange implements the write-once bucket: while a call is between its
\* first HEAD and its answer the caller is simply waiting.
AnswerOf(p) == IF p \in {"head", "put", "verify"} THEN "pending" ELSE p

Asked == [w \in Writers |-> [answer |-> AnswerOf(Phase(w)),
                             key |-> upload[w].key,
                             content |-> upload[w].content]]

Abstract == INSTANCE WriteOnce WITH asked <- Asked

ImplementsWriteOnce == Abstract!Spec
==============================================================================
