----------------------------- MODULE Schedules -----------------------------
(* The committed schedule of evaluation cases (lv01-schedule.ts), the plan   *)
(* that gives a dyad's slots their cases (planAlaDyadSlots), and the check   *)
(* of the executed cases that a dyad's receipt rests on. The records of the  *)
(* slots are read back from disk: some may be of another case.               *)
EXTENDS Integers, Sequences, FiniteSets, SequencesExt, FiniteSetsExt

CONSTANTS
    FrozenCounts,       \* the most cases of each partition, per receiver role
    PlanPartitions,     \* the partitions of a plan, in their order
    Types,              \* number of eligible target types
    Versions,           \* protocol versions, of 1 and 2
    MaxOffPlan          \* bound: slot records that are of another case

ASSUME SchedulesAssumption ==
    /\ Types \in Nat \ {0} /\ MaxOffPlan \in Nat
    /\ Range(PlanPartitions) \subseteq DOMAIN FrozenCounts

VARIABLES
    schedule,           \* the scheduled cases, or Unbuilt
    counts,             \* the counts the schedule was built for
    version,            \* the protocol version of the plan
    slots,              \* the plan: the case of each slot
    executed,           \* the case ids the slots recorded
    coverage            \* "none", "accepted" or "refused"

schedVars == <<schedule, counts, version, slots, executed, coverage>>

Receivers == {"baby-a", "baby-b"}
Unbuilt == {"unbuilt"}
CaseOf(partition, receiver, i) == [partition |-> partition, receiver |-> receiver, index |-> i]

\* The eligible type a case's target is of: round and round.
TargetOf(case) == case.index % Types

\* buildLv01Schedule: every case of every partition and role, the counts
\* within the frozen ones.
BuildSchedule(c) ==
    /\ schedule = Unbuilt
    /\ \A p \in DOMAIN FrozenCounts : c[p] <= FrozenCounts[p]
    /\ schedule' = {CaseOf(p, r, i) : p \in DOMAIN FrozenCounts, r \in Receivers, i \in 0 .. Max(Range(FrozenCounts))}
                     \cap UNION {{CaseOf(p, r, i) : r \in Receivers, i \in 0 .. c[p] - 1} : p \in DOMAIN FrozenCounts}
    /\ counts' = c
    /\ UNCHANGED <<version, slots, executed, coverage>>

\* The slots of one partition: the receivers alternate; in version 1 the
\* case goes on with the slot, in version 2 both roles see it in turn.
PartitionSlots(p, count, v) ==
    [k \in 1 .. 2 * count |->
        CaseOf(p, IF (k - 1) % 2 = 0 THEN "baby-b" ELSE "baby-a",
             IF v = 1 THEN (k - 1) % count ELSE (k - 1) \div 2)]

\* planAlaDyadSlots: version 1 has the last partition only.
PlanAlaDyadSlots(c, v) ==
    IF v = 1 THEN PartitionSlots(Last(PlanPartitions), c[Last(PlanPartitions)], 1)
    ELSE FoldLeft(LAMBDA plan, p : plan \o PartitionSlots(p, c[p], 2), <<>>, PlanPartitions)

Plan(v) ==
    /\ schedule # Unbuilt /\ version = 0
    /\ version' = v
    /\ slots' = PlanAlaDyadSlots(counts, v)
    /\ UNCHANGED <<schedule, counts, executed, coverage>>

OffPlan == Cardinality({k \in DOMAIN executed : executed[k] # slots[k]})

\* One slot's schedule.json: of the planned case, which must be scheduled, or
\* of another one.
Execute(case) ==
    /\ version # 0 /\ Len(executed) < Len(slots)
    /\ slots[Len(executed) + 1] \in schedule
    /\ case # slots[Len(executed) + 1] => OffPlan < MaxOffPlan
    /\ executed' = Append(executed, case)
    /\ UNCHANGED <<schedule, counts, version, slots, coverage>>

VerifyScheduleCoverage(ids) == Range(ids) \subseteq schedule

Multiplicity(ids, case) == Cardinality({k \in DOMAIN ids : ids[k] = case})

\* Mutant: executed cases are scheduled, and every planned one is among them.
ExecutedByMembership(planned, ids) ==
    VerifyScheduleCoverage(ids) /\ Range(ids) \subseteq Range(planned)

\* verifyLv01ExecutedCoverage: every planned case as often as it is planned,
\* and no other.
VerifyExecutedCoverage(planned, ids) ==
    /\ VerifyScheduleCoverage(ids)
    /\ Range(ids) = Range(planned)
    /\ \A case \in Range(planned) : Multiplicity(ids, case) = Multiplicity(planned, case)

\* The end of a dyad: version 1 looks at the cases it planned only.
Verify ==
    /\ version # 0 /\ coverage = "none" /\ Len(executed) = Len(slots)
    /\ LET fits == IF version = 1 THEN VerifyScheduleCoverage(slots)
                   ELSE VerifyExecutedCoverage(slots, executed) IN
       coverage' = IF fits THEN "accepted" ELSE "refused"
    /\ UNCHANGED <<schedule, counts, version, slots, executed>>

SchedulesInit ==
    /\ schedule = Unbuilt /\ counts = <<>> /\ version = 0
    /\ slots = <<>> /\ executed = <<>> /\ coverage = "none"

SchedulesNext ==
    \/ \E c \in [DOMAIN FrozenCounts -> 0 .. Max(Range(FrozenCounts))] : BuildSchedule(c)
    \/ \E v \in Versions : Plan(v)
    \/ \E case \in schedule : Execute(case)
    \/ Verify

---------------------------------------------------------------------------
(* Properties *)

\* A dyad of protocol version 2 whose coverage was accepted showed each role
\* each of its cases exactly once, in every partition: membership alone would
\* accept a repeated subset (lv01-schedule.ts:177-181).
AcceptedOnceEach ==
    version = 2 /\ coverage = "accepted" =>
        \A case \in schedule :
            case.partition \in Range(PlanPartitions) => Multiplicity(executed, case) = 1

\* It met the target types evenly: in a partition, no type was a role's
\* target more than once oftener than another.
AcceptedIsBalanced ==
    version = 2 /\ coverage = "accepted" =>
        \A p \in Range(PlanPartitions), r \in Receivers, t, u \in 0 .. Types - 1 :
            Cardinality({k \in DOMAIN executed : executed[k].partition = p
                            /\ executed[k].receiver = r /\ TargetOf(executed[k]) = t})
              <= 1 + Cardinality({k \in DOMAIN executed : executed[k].partition = p
                            /\ executed[k].receiver = r /\ TargetOf(executed[k]) = u})

(* What the plan of a dyad's cases and the check of what was executed        *)
(* promise.                                                                  *)
SchedulesSafe == AcceptedOnceEach /\ AcceptedIsBalanced
=============================================================================
