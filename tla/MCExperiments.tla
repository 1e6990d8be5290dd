---------------------------- MODULE MCExperiments ----------------------------
(* Instances for TLC of the experiments: the treatments of a batch, the      *)
(* stage of LV01, the dyads of ALA, the schedule of their cases, and the     *)
(* scenario engine the episodes come from. A behaviour is of one of them;    *)
(* they share no state.                                                      *)
EXTENDS Treatments, Collection, Dyads, Schedules, Scenarios

CONSTANT Parts          \* the parts a run looks at

VARIABLE part           \* the part of this behaviour

experimentsVars == <<part, treatVars, collVars, dyadVars, schedVars, scenVars>>

MCScheduled == <<"s1", "s2", "s3">>
MCBranches == <<"normal", "shuffled">>

MCFrozenCounts == [training |-> 1, fit |-> 2, test |-> 2]
MCPlanPartitions == <<"fit", "test">>

\* A run's id, by what the hygiene filter sees in it, and an engine's config.
Text(token, long, words, fn, form) ==
    [token |-> token, long |-> long, words |-> words, function |-> fn, form |-> form, picto |-> FALSE]
Plain == Text(FALSE, FALSE, 2, "word", TRUE)
Config(attrs, values, cands, held, inventory, mode) ==
    [runId |-> Plain, attrs |-> attrs, values |-> values, cands |-> cands, held |-> held,
     inventory |-> inventory, mode |-> mode]
Named(runId) ==
    [Config(1, 2, 2, {}, <<"x", "y">>, "cooperative-signaling") EXCEPT !.runId = runId]
MCFrozenConfig == Config(2, 2, 3, {0}, <<"x", "y", "z">>, "cooperative-signaling")
MCConfigInputs == {
    MCFrozenConfig,
    Named(Text(TRUE, TRUE, 3, "letter", TRUE)),
    Named(Text(FALSE, TRUE, 3, "letter", FALSE)),
    Config(2, 2, 3, {1}, <<"x", "y">>, "asymmetric-information"),
    Config(2, 2, 2, {}, <<"x", "y">>, "cooperative-signaling"),
    Config(1, 3, 2, {2}, <<"x", "y">>, "semi-cooperative-negotiation"),
    Config(1, 2, 2, {}, <<"x", "y">>, "conflicting-negotiation"),
    Config(1, 2, 2, {}, <<"x", "y">>, "no-agreement-control"),
    Config(2, 2, 3, {0, 3}, <<"x", "y">>, "cooperative-signaling"),
    Config(2, 2, 2, {4}, <<"x", "y">>, "cooperative-signaling"),
    Config(2, 2, 2, {}, <<"x", "x">>, "cooperative-signaling"),
    Config(3, 2, 2, {}, <<"x", "y">>, "cooperative-signaling")}
MCPartitionCases == [training |-> 4, test |-> 2]

Symmetric ==
    Permutations(Runners) \cup Permutations(Budgeted) \cup Permutations(Collectors)

\* When a gate or an append acted on an older journal, nothing is promised of the
\* dyads from there on.
Explored == part = "dyads" => ~raced

Init ==
    /\ part \in Parts
    /\ CollectionInit /\ DyadsInit /\ SchedulesInit /\ ScenariosInit
    /\ IF part = "treatments" THEN TreatmentsInit
       ELSE scheduledAs = <<>> /\ native = <<>> /\ entries = <<>> /\ batch = <<>> /\ built = "none"

Next ==
    \/ part = "treatments" /\ TreatmentsNext /\ UNCHANGED <<part, collVars, dyadVars, schedVars, scenVars>>
    \/ part = "collection" /\ CollectionNext /\ UNCHANGED <<part, treatVars, dyadVars, schedVars, scenVars>>
    \/ part = "dyads" /\ DyadsNext /\ UNCHANGED <<part, treatVars, collVars, schedVars, scenVars>>
    \/ part = "schedules" /\ SchedulesNext /\ UNCHANGED <<part, treatVars, collVars, dyadVars, scenVars>>
    \/ part = "scenarios" /\ ScenariosNext /\ UNCHANGED <<part, treatVars, collVars, dyadVars, schedVars>>

Spec == Init /\ [][Next]_experimentsVars

(* What the plan of an experiment promises: the treatments of a batch, the   *)
(* cases of a dyad.                                                          *)
PlansSafe == (part = "treatments" => TreatmentsSafe) /\ SchedulesSafe
=============================================================================
