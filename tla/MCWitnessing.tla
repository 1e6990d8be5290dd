--------------------------- MODULE MCWitnessing ---------------------------
(* Instances of Checkpointing and Anchoring for TLC, side by side: a         *)
(* behaviour is of the one protocol or of the other, and leaves the other's  *)
(* variables as they are. What joins the two is the stored manifest, which   *)
(* Anchoring takes as given (publisher.ts, assertCheckpointStored).          *)
EXTENDS Checkpointing, Anchoring

CONSTANTS Parts         \* the protocols that are looked at

VARIABLE part

witnessVars == <<part, cpVars, anVars>>

\* The first run's publisher is called twice and dies once.
Submits == [c \in Checkpoints |-> IF c = "run-1" THEN 2 ELSE 1]
Deaths == [c \in Checkpoints |-> IF c = "run-1" THEN 1 ELSE 0]

Init ==
    /\ part \in Parts
    /\ CheckpointingInit
    /\ AnchoringInit

Next ==
    \/ part = "checkpointing" /\ CheckpointingNext /\ UNCHANGED <<part, anVars>>
    \/ part = "anchoring" /\ AnchoringNext /\ UNCHANGED <<part, cpVars>>

Spec == Init /\ [][Next]_witnessVars

\* The fairness is of checkpointing; what anchoring promises is safety.
FairSpec == Spec /\ CheckpointingFairness
=============================================================================
