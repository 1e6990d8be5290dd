---------------------------- MODULE MCOperations ----------------------------
(* Instances for TLC of what works beside the turns: snapshots and retention *)
(* and a run's causal probes. A behaviour is of one of them; they share no   *)
(* state.                                                                    *)
EXTENDS Snapshots, Retention, Probes

CONSTANT Parts          \* the parts a run looks at

VARIABLE part           \* the part of this behaviour

operationsVars == <<part, snapVars, retVars, probeVars>>

MCPurgeable == <<"ledgers", "policies">>

\* What an analysis reports: the delivery under the probe, the receiver's action and the unprobed one.
Outcome(c, a, b) == [candidates |-> c, action |-> a, baseline |-> b]
MCObservations == {Outcome({0, 1}, 0, 1), Outcome({0, 1}, 1, 1), Outcome({0, 1}, 1, None)}

MCSuite(a, s, n) == [ablation |-> a, substitution |-> s, share |-> n]
MCSuites == {MCSuite(TRUE, TRUE, 2), MCSuite(FALSE, TRUE, 1)}

\* A ledger's events: a claim on a form, its contradiction, its withdrawal, a message.
MCEvent(type, f, c, symbols) ==
    [type |-> type, form |-> f, code |-> c, confidence |-> 2, symbols |-> symbols]
MCWritings ==
    {MCEvent("created", 2, 1, <<>>), MCEvent("contradicted", 2, 0, <<>>),
     MCEvent("contradicted", 1, 1, <<>>), MCEvent("abandoned", 2, 0, <<>>),
     MCEvent("message", 2, 0, <<3, 2>>)}
MCBelief(f, c) ==
    [type |-> "created", form |-> f, code |-> c, confidence |-> 1, symbols |-> <<>>, turn |-> 0]
MCFirstEvents ==
    {<<>>, <<MCBelief(2, 0), MCBelief(1, 1)>>, <<MCBelief(2, 0), MCBelief(3, 1)>>}

\* The parts a behaviour is not of start in one state only.
Init ==
    /\ part \in Parts
    /\ SnapshotsInit /\ RetentionInit /\ ProbesInit
    /\ part # "probes" => suite = MCSuite(TRUE, TRUE, 2) /\ ledger = [b \in Babies |-> <<>>]

Next ==
    \/ part = "snapshots" /\ SnapshotsNext /\ UNCHANGED <<part, retVars, probeVars>>
    \/ part = "retention" /\ RetentionNext /\ UNCHANGED <<part, snapVars, probeVars>>
    \/ part = "probes" /\ ProbesNext /\ UNCHANGED <<part, snapVars, retVars>>

Spec == Init /\ [][Next]_operationsVars

\* The promise chain takes its next trigger, a write settles, and a shutdown
\* ends the process once its snapshot has settled.
FairSpec ==
    /\ Spec
    /\ WF_snapVars(part = "snapshots" /\ TakeNext)
    /\ WF_snapVars(part = "snapshots" /\ Settle)
    /\ WF_snapVars(part = "snapshots" /\ ShutDown)

(* A shutdown ends and every trigger is settled.                             *)
OperationsLive == SignalEnds /\ TriggersSettle
=============================================================================
