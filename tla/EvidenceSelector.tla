--------------------------- MODULE EvidenceSelector ---------------------------
(***************************************************************************)
(* qc_pipeline/evidence.py: per reason, the first, the worst and the last  *)
(* image that was offered.  A candidate is [time, score]; a frame is       *)
(* offered at most once per reason, so its time stands for its image.      *)
(* Encoding an image always succeeds here.                                 *)
(***************************************************************************)
EXTENDS Integers

CONSTANT NoImage

Slots == {"first", "worst", "last"}

NoImages == [slot \in Slots |-> NoImage]

\* A plausible slip: of equally bad images the last one stays.
WorseOrEqual(candidate, image) == image = NoImage \/ candidate.score >= image.score

Worse(candidate, image) == image = NoImage \/ candidate.score > image.score

Offered(slots, candidate) ==
    [first |-> IF slots.first = NoImage THEN candidate ELSE slots.first,
     worst |-> IF Worse(candidate, slots.worst) THEN candidate ELSE slots.worst,
     last |-> candidate]

\* add(), for every reason in a function from reasons to scores.
Add(images, time, scores) ==
    [reason \in DOMAIN images |->
        IF reason \in DOMAIN scores
        THEN Offered(images[reason], [time |-> time, score |-> scores[reason]])
        ELSE images[reason]]

\* selected() and write(): an image in two slots is kept once.
Selected(images, reasons) ==
    UNION {{<<reason, images[reason][slot].time>> :
                slot \in {s \in Slots : images[reason][s] # NoImage}} :
            reason \in reasons \cap DOMAIN images}
==============================================================================
