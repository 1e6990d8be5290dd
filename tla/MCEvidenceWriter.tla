-------------------------- MODULE MCEvidenceWriter --------------------------
(* Instances of EvidenceWriter for TLC. *)
EXTENDS EvidenceWriter, TLC

CONSTANTS w1, w2, t1, t2, p1

\* A turn of Baby A delivered to Baby B, and the silence of a turn.
Speak == [op |-> "commitTurn", role |-> "baby-a", to |-> "baby-b"]
Silence == [op |-> "commitTurn", role |-> "baby-b", to |-> None]

Simple(op) == [op |-> op, role |-> "baby-b", to |-> None]

TurnRequests == {Speak, Simple("appendInterventionEvent")}

RecordRequests ==
    {Speak, Silence, Simple("commitRejection"),
     [Simple("commitControlArtifact") EXCEPT !.to = "baby-b"],
     Simple("appendInterpretation"), Simple("appendLedgerEvent"),
     Simple("appendAuditLedgerEntry"), Simple("appendAnalysisAttachment"),
     Simple("appendAffectEvent")}

LossRequests == {Simple("appendTurnRecord")}

\* One row in every stream, or in the intervention stream two.
One == [s \in EventStreams |-> 1]
Two == [s \in EventStreams |-> 2]
OneOrTwo == [One EXCEPT !["intervention"] = 2]

WriterSymmetry == Permutations({w1, w2}) \cup Permutations({t1, t2})
=============================================================================
