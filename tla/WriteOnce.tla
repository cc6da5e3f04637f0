------------------------------ MODULE WriteOnce ------------------------------
(***************************************************************************)
(* What R2Store.upload_create_only promises its callers, with the HTTP     *)
(* exchange hidden: a bucket whose keys are written at most once, and      *)
(* writers that are told "done" only when the key holds their own bytes,   *)
(* "conflict" only when the key is taken.  A writer told "error" knows     *)
(* nothing: its bytes may be there already, arrive later, or never.        *)
(***************************************************************************)

CONSTANTS Writers, Keys, Contents, Absent

VARIABLES objects,   \* objects[k]: what the bucket holds at key k
          asked      \* asked[w]: the call of writer w and the answer it has

Answers == {"idle", "pending", "done", "conflict", "error"}

NoCall == [answer |-> "idle", key |-> Absent, content |-> Absent]

TypeOK ==
    /\ objects \in [Keys -> Contents \cup {Absent}]
    /\ asked \in [Writers -> [answer : Answers,
                              key : Keys \cup {Absent},
                              content : Contents \cup {Absent}]]

Init ==
    /\ objects \in [Keys -> Contents \cup {Absent}]
    /\ asked = [w \in Writers |-> NoCall]

Ask(w, k, c) ==
    /\ asked[w] = NoCall
    /\ asked' = [asked EXCEPT ![w] = [answer |-> "pending", key |-> k, content |-> c]]
    /\ UNCHANGED objects

\* A key is written while it is empty, and never again.
Write(k, c) ==
    /\ objects[k] = Absent
    /\ objects' = [objects EXCEPT ![k] = c]

\* The answer a writer may be given, as the bucket stands when it is given.
Justified(w, a) ==
    /\ a = "done" => objects'[asked[w].key] = asked[w].content
    /\ a = "conflict" => objects'[asked[w].key] # Absent

Answer(w, a) ==
    /\ asked[w].answer = "pending"
    /\ Justified(w, a)
    /\ asked' = [asked EXCEPT ![w].answer = a]

Forget(w) ==
    /\ asked' = [asked EXCEPT ![w] = NoCall]
    /\ UNCHANGED objects

Next ==
    \/ \E w \in Writers, k \in Keys, c \in Contents : Ask(w, k, c)
    \/ \E w \in Writers, a \in {"done", "conflict", "error"} :
            Answer(w, a) /\ UNCHANGED objects
    \/ \E k \in Keys, c \in Contents : Write(k, c) /\ UNCHANGED asked
    \/ \E w \in Writers : Forget(w)

vars == <<objects, asked>>

Spec == Init /\ [][Next]_vars
==============================================================================
