----------------------------- MODULE Treatments -----------------------------
(* The ledger treatments of LV01 and ALA (lv01-ledger-treatments.ts): the    *)
(* token each case's receiver would act on best, the derangement that gives  *)
(* a case another's token, the three ways a batch is built, and the gate     *)
(* that a batch must pass before it is collected (lv01-treatment-gate.ts).   *)
EXTENDS Integers, Sequences, FiniteSets, TLC, SequencesExt

CONSTANTS
    Roles,              \* receiver roles
    Scheduled,          \* scheduled cases, in the order of their ids
    Targets,            \* target types
    Tokens              \* tokens a selection may pick

ASSUME TreatmentsAssumption == Scheduled \in Seq(STRING) /\ Len(Scheduled) > 0 /\ Roles # {}

VARIABLES
    scheduledAs,        \* of each scheduled case: its receiver role and its target
    native,             \* the native predictor: the token of a role and a target
    entries,            \* the records a batch is built for, in the caller's order
    batch,              \* the batch that was built, or refused
    built               \* which construction built it

treatVars == <<scheduledAs, native, entries, batch, built>>

Refused == <<>>

\* The two records of a scheduled case: consistent, then shuffled.
Record(s, b) == [id |-> <<s, b>>, scheduled |-> s]
BuildTreatmentCases(s) == <<Record(s, 1), Record(s, 2)>>

RoleOf(e) == scheduledAs[e.scheduled].role

\* A token that maximises the target in the ledger of the receiver's role.
SelectToken(e) == native[RoleOf(e), scheduledAs[e.scheduled].target]

Positions == [i \in DOMAIN entries |-> i]

\* The permutations without a fixed point: a seed picks one; a set of one
\* element has none.
Derangements(S) == {p \in Permutations(S) : \A i \in S : p[i] # i}

\* An assignment of donors, by index, as a batch of treated records.
Treated(donor) ==
    [i \in DOMAIN entries |->
        [record |-> entries[i], selection |-> SelectToken(entries[i]),
         source |-> entries[donor[i]].id, delivered |-> SelectToken(entries[donor[i]])]]

\* buildLedgerTreatmentBatch: the records of each role are deranged.
PlainDonors ==
    {p \in Derangements(DOMAIN entries) : \A i \in DOMAIN entries : RoleOf(entries[p[i]]) = RoleOf(entries[i])}

---------------------------------------------------------------------------
(* The gate *)

\* diagnoseLedgerBatch over recorded fields: ids are distinct, donors are
\* injective, each role has two scheduled cases, and a donor is a record of
\* the batch, of the same role, of another scheduled case, whose selection
\* was delivered.
DiagnoseLedgerBatch(b) ==
    /\ b # <<>>
    /\ \A i, j \in DOMAIN b : b[i].record.id = b[j].record.id => i = j
    /\ \A i, j \in DOMAIN b : b[i].source = b[j].source => i = j
    /\ \A role \in Roles :
          Cardinality({b[i].record.scheduled : i \in {k \in DOMAIN b : RoleOf(b[k].record) = role}}) # 1
    /\ \A i \in DOMAIN b : \E j \in DOMAIN b :
          /\ b[j].record.id = b[i].source /\ i # j
          /\ RoleOf(b[j].record) = RoleOf(b[i].record)
          /\ b[j].record.scheduled # b[i].record.scheduled
          /\ b[i].delivered = b[j].selection

---------------------------------------------------------------------------
(* The constructions *)

IdsCollide == \E i, j \in DOMAIN entries : i # j /\ entries[i].id = entries[j].id

RecordsOf(s) == {i \in DOMAIN entries : entries[i].scheduled = s}
CasesOf(role) == {s \in {entries[i].scheduled : i \in DOMAIN entries} : scheduledAs[s].role = role}

Build(way, batches) ==
    /\ built = "none" /\ built' = way
    /\ IF batches = {} THEN batch' = Refused ELSE batch' \in batches
    /\ UNCHANGED <<scheduledAs, native, entries>>

\* The frozen construction of one slot.
BuildPlain ==
    Build("plain", IF entries = <<>> \/ IdsCollide THEN {} ELSE {Treated(d) : d \in PlainDonors})

\* buildValidLedgerTreatmentBatch: two scheduled cases of each role that has
\* records; the frozen derangement, which the gate may refuse.
BuildValid ==
    Build("valid",
        IF entries = <<>> \/ IdsCollide \/ \E role \in Roles : Cardinality(CasesOf(role)) = 1 THEN {}
        ELSE LET plain == {Treated(d) : d \in PlainDonors}
             IN  IF \A b \in plain : DiagnoseLedgerBatch(b) THEN plain
                 ELSE {b \in plain : DiagnoseLedgerBatch(b)} \cup {Refused})

\* The records of a scheduled case sorted by id, which is the caller's order.
Sorted(s) == SelectSeq(Positions, LAMBDA i : entries[i].scheduled = s)

\* assignCaseAwareDonors: scheduled cases are deranged, and records taken by
\* position within the pair.
CaseAwareDonors(role) ==
    LET rank(i) == CHOOSE k \in DOMAIN Sorted(entries[i].scheduled) : Sorted(entries[i].scheduled)[k] = i
    IN  {[i \in DOMAIN entries |-> Sorted(p[entries[i].scheduled])[rank(i)]] : p \in Derangements(CasesOf(role))}

\* buildValidLedgerTreatmentBlock: one role, at least two scheduled cases,
\* as many records of each.
BuildBlock ==
    LET roles == {RoleOf(entries[i]) : i \in DOMAIN entries}
        role == CHOOSE r \in Roles : r \in roles
        uneven == \E s, t \in CasesOf(role) : Cardinality(RecordsOf(s)) # Cardinality(RecordsOf(t))
    IN  Build("block",
            IF \/ entries = <<>> \/ IdsCollide \/ Cardinality(roles) # 1
               \/ Cardinality(CasesOf(role)) < 2 \/ uneven
            THEN {}
            ELSE LET blocks == {Treated(d) : d \in CaseAwareDonors(role)}
                 IN  {IF DiagnoseLedgerBatch(b) THEN b ELSE Refused : b \in blocks})

---------------------------------------------------------------------------

CaseSet == Range(Scheduled)

\* The records of some of the scheduled cases, in the order of their slots;
\* one may be missing.
TreatmentsInit ==
    /\ scheduledAs \in [CaseSet -> [role : Roles, target : Targets]]
    /\ native \in [Roles \X Targets -> Tokens]
    /\ \E cases \in SUBSET CaseSet, dropped \in {<<>>, Record(Scheduled[1], 2)} :
          entries = SelectSeq(FlattenSeq([i \in DOMAIN Scheduled |-> BuildTreatmentCases(Scheduled[i])]),
                              LAMBDA e : e.scheduled \in cases /\ e # dropped)
    /\ batch = Refused /\ built = "none"

TreatmentsNext == BuildPlain \/ BuildValid \/ BuildBlock

TreatmentsSpec == TreatmentsInit /\ [][TreatmentsNext]_treatVars

---------------------------------------------------------------------------
(* Properties *)

\* What a gate lets through is a real shuffle: every record gets the token
\* that another scheduled case of its role selected, and every record's token
\* goes to exactly one (the blocks and batches of version 2).
NoShamPasses ==
    built \in {"valid", "block"} /\ batch # Refused =>
        /\ \A i \in DOMAIN batch :
              \E j \in DOMAIN batch :
                 /\ scheduledAs[batch[j].record.scheduled].role = RoleOf(batch[i].record)
                 /\ batch[j].record.scheduled # batch[i].record.scheduled
                 /\ batch[i].source = batch[j].record.id /\ batch[i].delivered = batch[j].selection
        /\ {batch[i].source : i \in DOMAIN batch} = {batch[i].record.id : i \in DOMAIN batch}

\* The case-aware assignment never meets the gate's refusal: a block of one
\* role with two scheduled cases is built, whatever the seed.
BlockIsNeverRefused ==
    (/\ built = "block"
     /\ Cardinality({RoleOf(entries[i]) : i \in DOMAIN entries}) = 1
     /\ Cardinality({entries[i].scheduled : i \in DOMAIN entries}) >= 2
     /\ Len(entries) = 2 * Cardinality({entries[i].scheduled : i \in DOMAIN entries}))
    => batch # Refused

(* What the builders of a batch's treatments promise.                        *)
TreatmentsSafe == NoShamPasses /\ BlockIsNeverRefused
=============================================================================
