--------------------------- MODULE MCEvidenceLoss ---------------------------
(* Writers over a sound store, or over a store that loses tails: a behaviour *)
(* is of one of the two instances of EvidenceWriter.                         *)
EXTENDS MCEvidenceWriter

CONSTANT Losing       \* whether the stores a run looks at lose tails

Lossy == INSTANCE EvidenceWriter WITH
    TailLoss <- TRUE, Requests <- LossRequests, MaxLen <- One,
    MaxManifests <- 2, Stamps <- {t1, t2}

VARIABLE lossy

EitherInit == Init /\ lossy \in Losing

EitherNext == (IF lossy THEN Lossy!Next ELSE Next) /\ UNCHANGED lossy

EitherSpec == EitherInit /\ [][EitherNext]_<<vars, lossy>>

FairEitherSpec == EitherSpec /\ \A w \in Writers : WF_vars(Serve(w))
=============================================================================
