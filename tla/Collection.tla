----------------------------- MODULE Collection -----------------------------
(* The collection of an LV01 stage (lv01-collector.ts, ledger-value.ts,      *)
(* ledger-value-journal.ts): collectors that take the stage's lock, walk its *)
(* primary slots and as many reserves as were invalid, run each slot's       *)
(* branches in the evidence store and journal every transition; processes    *)
(* that end with the lock held, writes that fail, and the audit that replays *)
(* the slots into a receipt (lv01-stage-audit.ts).                           *)
EXTENDS Integers, Sequences, FiniteSets, SequencesExt

CONSTANTS
    Collectors,         \* processes that collect the stage
    Primaries, Reserves,\* numbers of slots
    Branches,           \* branches of a paired case, in order
    MaxFaults,          \* bound: slots that go wrong, and calls on the lock and
                        \* the journal that fail
    MaxDeaths           \* bound: collectors whose process ends

ASSUME CollectionAssumption ==
    /\ {Primaries, Reserves, MaxFaults, MaxDeaths} \subseteq Nat /\ Primaries > 0
    /\ Branches \in Seq(STRING) /\ "free" \notin Collectors

VARIABLES
    lock,               \* journal.jsonl.lock: the collector that made it, or "free"
    journal,            \* journal.jsonl: its lines
    at,                 \* each collector's step
    mem,                \* its journal in memory, its slot, and its count of invalid primaries
    slotDir,            \* of each slot: the committed batch, and the branch bundles by the case they served
    runsOf,             \* of each slot: the branch runs in the evidence store
    receipt,            \* audit-receipt.json
    auditing,           \* the journal event an audit has read
    faults, deaths      \* counters of the bounds

stageFiles == <<lock, journal, slotDir, runsOf, receipt>>
collVars == <<stageFiles, at, mem, auditing, faults, deaths>>

Slots == 1..(Primaries + Reserves)
IsPrimary(s) == s <= Primaries

\* createLv01StageJournal.
CreateStageJournal == [slots |-> [s \in Slots |-> "unattempted"], terminal |-> "open"]

NoReceipt == [status |-> "none"]
NotAuditing == [terminal |-> "none"]

---------------------------------------------------------------------------
(* The journal *)

TornLine == [terminal |-> "torn"]

\* readLv01Journal: every line is an event, and only the last is terminal.
Readable ==
    /\ journal # <<>>
    /\ \A i \in DOMAIN journal : journal[i] # TornLine
    /\ \A i \in 1..(Len(journal) - 1) : journal[i].terminal = "open"

Fault == faults < MaxFaults /\ faults' = faults + 1

\* acquireLv01JournalLock: a lock that exists is never taken over. When the line
\* that names its owner cannot be written, the lock stays and nobody holds it.
Acquire(c) ==
    /\ at[c] = "off"
    /\ IF lock = "free"
       THEN /\ lock' = c
            /\ \/ at' = [at EXCEPT ![c] = "initialize"] /\ UNCHANGED faults
               \/ at' = [at EXCEPT ![c] = "ended"] /\ Fault
       ELSE at' = [at EXCEPT ![c] = "ended"] /\ UNCHANGED <<lock, faults>>
    /\ UNCHANGED <<journal, slotDir, runsOf, receipt, mem, auditing, deaths>>

\* The operator has inspected the evidence of a collection that is over.
RemoveLock ==
    /\ lock # "free" /\ at[lock] \in {"ended", "dead"}
    /\ lock' = "free"
    /\ UNCHANGED <<journal, slotDir, runsOf, receipt, at, mem, auditing, faults, deaths>>

\* Every way out of runStageLocked goes through the finally of collectLv01Stage.
Leave(c) == at' = [at EXCEPT ![c] = "release"] /\ UNCHANGED lock

\* initializeLv01Journal: a journal that exists ends the collection, and so does
\* a line that cannot be written (a file without a line is as unreadable).
Initialize(c) ==
    /\ at[c] = "initialize"
    /\ \/ /\ journal = <<>> /\ journal' = <<CreateStageJournal>>
          /\ at' = [at EXCEPT ![c] = "slot"] /\ UNCHANGED <<lock, faults>>
          /\ mem' = [mem EXCEPT ![c] = [journal |-> CreateStageJournal, slot |-> 1, invalid |-> 0]]
       \/ journal = <<>> /\ Fault /\ journal' = <<TornLine>> /\ Leave(c) /\ UNCHANGED mem
       \/ journal # <<>> /\ Leave(c) /\ UNCHANGED <<journal, mem, faults>>
    /\ UNCHANGED <<slotDir, runsOf, receipt, auditing, deaths>>

\* appendLv01Journal: only to a journal that can be read and is open; a write
\* that fails may leave a torn line, or the whole one. Either error ends the
\* collection.
AppendEvent(c, event, next) ==
    \/ /\ Readable /\ Last(journal).terminal = "open"
       /\ journal' = Append(journal, event)
       /\ at' = [at EXCEPT ![c] = next] /\ UNCHANGED <<lock, faults>>
    \/ /\ ~(Readable /\ Last(journal).terminal = "open")
       /\ Leave(c) /\ UNCHANGED <<journal, faults>>
    \/ /\ Readable /\ Last(journal).terminal = "open"
       /\ Fault /\ journal' \in {journal, Append(journal, TornLine), Append(journal, event)}
       /\ Leave(c)

---------------------------------------------------------------------------
(* A slot *)

\* transitionLv01Slot on one slot's status.
WithStatus(j, s, status) == [j EXCEPT !.slots[s] = status]

\* Mutant: a reserve that was invalid is replaced too.
PlannedAlsoReserves(c) ==
    mem[c].slot <= Primaries +
        (LET bad == Cardinality({s \in Slots : mem[c].journal.slots[s] = "invalid"})
         IN  IF bad < Reserves THEN bad ELSE Reserves)

\* The reserves that may run: one for each primary that was invalid.
Planned(c) == mem[c].slot <= Primaries + (IF mem[c].invalid < Reserves THEN mem[c].invalid ELSE Reserves)

\* The running marker is journaled, not kept.
StartSlot(c) ==
    /\ at[c] = "slot" /\ Planned(c)
    /\ AppendEvent(c, WithStatus(mem[c].journal, mem[c].slot, "running"), "prepare")
    /\ UNCHANGED <<slotDir, runsOf, receipt, mem, auditing, deaths>>

\* Whatever is thrown in a slot makes it invalid.
Throws(c) ==
    /\ mem' = [mem EXCEPT ![c].journal = WithStatus(@, mem[c].slot, "invalid"),
                          ![c].invalid = IF IsPrimary(mem[c].slot) THEN @ + 1 ELSE @]
    /\ at' = [at EXCEPT ![c] = "journal"]

\* collectLv01Slot up to the branches: the parent, the schedule and the plan;
\* the treatment batch and the schedule are written before any branch runs.
PrepareSlot(c) ==
    /\ at[c] = "prepare"
    /\ \/ /\ slotDir' = [slotDir EXCEPT ![mem[c].slot].batch = TRUE]
          /\ at' = [at EXCEPT ![c] = "branches"] /\ UNCHANGED <<mem, faults>>
       \/ Fault /\ Throws(c) /\ UNCHANGED slotDir
    /\ UNCHANGED <<lock, journal, runsOf, receipt, auditing, deaths>>

\* executeOneBranch: the derived run is created in the store, refused there
\* when it exists, and stepped; its bundle is exported after the delivery was
\* compared with the slice. The case it serves may have drifted.
RunBranch(c) ==
    /\ at[c] = "branches"
    /\ LET s == mem[c].slot
           b == Branches[Len(slotDir[s].served) + 1]
       IN  /\ Len(slotDir[s].served) < Len(Branches)
           /\ IF b \in runsOf[s]
              THEN Throws(c) /\ UNCHANGED <<slotDir, runsOf, faults>>
              ELSE /\ runsOf' = [runsOf EXCEPT ![s] = @ \cup {b}]
                   /\ \/ /\ slotDir' = [slotDir EXCEPT ![s].served = Append(@, s)]
                         /\ UNCHANGED <<at, mem, faults>>
                      \/ /\ Fault /\ slotDir' = [slotDir EXCEPT ![s].served = Append(@, 0)]
                         /\ UNCHANGED <<at, mem>>
                      \/ Fault /\ Throws(c) /\ UNCHANGED slotDir
    /\ UNCHANGED <<lock, journal, receipt, auditing, deaths>>

\* Every branch is there and served the scheduled case, the batch with them.
CaseHolds(s) ==
    /\ slotDir[s].batch
    /\ slotDir[s].served = [b \in DOMAIN Branches |-> s]

\* auditLv01PairedCase of the slot that ran.
AuditPasses(s) == CaseHolds(s)

\* The self-audit. The parent's place is looked at after the slot is valid in
\* memory: one that escapes the stage directory is thrown again from the
\* catch, and ends the collection.
AuditSlot(c) ==
    /\ at[c] = "branches" /\ Len(slotDir[mem[c].slot].served) = Len(Branches)
    /\ IF AuditPasses(mem[c].slot)
       THEN \/ /\ mem' = [mem EXCEPT ![c].journal = WithStatus(@, mem[c].slot, "valid")]
               /\ at' = [at EXCEPT ![c] = "journal"] /\ UNCHANGED <<lock, faults>>
            \/ Fault /\ Leave(c) /\ UNCHANGED mem
       ELSE Throws(c) /\ UNCHANGED <<lock, faults>>
    /\ UNCHANGED <<journal, slotDir, runsOf, receipt, auditing, deaths>>

JournalSlot(c) ==
    /\ at[c] = "journal"
    /\ AppendEvent(c, mem[c].journal, "slot")
    /\ mem' = [mem EXCEPT ![c].slot = @ + 1]
    /\ UNCHANGED <<slotDir, runsOf, receipt, auditing, deaths>>

\* finalizeLv01Stage: completed when every primary is valid.
Terminal(j) ==
    IF \A s \in Slots : IsPrimary(s) => j.slots[s] = "valid" THEN "completed" ELSE "failed"

FinalizeStage(c) ==
    /\ at[c] = "slot" /\ ~Planned(c)
    /\ AppendEvent(c, [mem[c].journal EXCEPT !.terminal = Terminal(mem[c].journal)], "release")
    /\ UNCHANGED <<slotDir, runsOf, receipt, mem, auditing, deaths>>

\* release: the handle is closed, then the file removed; either may fail.
Release(c) ==
    /\ at[c] = "release" /\ at' = [at EXCEPT ![c] = "ended"]
    /\ \/ lock' = "free" /\ UNCHANGED faults
       \/ Fault /\ UNCHANGED lock
    /\ UNCHANGED <<journal, slotDir, runsOf, receipt, mem, auditing, deaths>>

\* The process ends; a line it was writing may be torn.
Die(c) ==
    /\ at[c] \notin {"off", "ended", "dead"} /\ deaths < MaxDeaths
    /\ deaths' = deaths + 1 /\ at' = [at EXCEPT ![c] = "dead"]
    /\ \/ UNCHANGED journal
       \/ /\ \/ at[c] = "initialize" /\ journal = <<>>
             \/ at[c] \in {"slot", "journal"} /\ Readable
          /\ journal' = Append(journal, TornLine)
    /\ UNCHANGED <<lock, slotDir, runsOf, receipt, mem, auditing, faults>>

---------------------------------------------------------------------------
(* The audit of the stage *)

\* It takes no lock.
ReadForAudit ==
    /\ auditing = NotAuditing /\ Readable
    /\ auditing' = Last(journal)
    /\ UNCHANGED <<stageFiles, at, mem, faults, deaths>>

AuditStatus == IF auditing.terminal = "open" THEN "blocked" ELSE "verified"

\* The valid slots are replayed from their bundles; a slot that is running,
\* or one whose replay disagrees, ends the audit without a receipt.
JudgeStage ==
    /\ auditing # NotAuditing
    /\ LET valid == {s \in Slots : auditing.slots[s] = "valid"}
       IN  receipt' = IF /\ \A s \in Slots : auditing.slots[s] # "running"
                         /\ \A s \in valid : CaseHolds(s)
                      THEN [status |-> AuditStatus, event |-> auditing, cases |-> valid]
                      ELSE receipt
    /\ auditing' = NotAuditing
    /\ UNCHANGED <<lock, journal, slotDir, runsOf, at, mem, faults, deaths>>

---------------------------------------------------------------------------

CollectionInit ==
    /\ lock = "free" /\ journal = <<>>
    /\ at = [c \in Collectors |-> "off"]
    /\ mem = [c \in Collectors |-> [journal |-> CreateStageJournal, slot |-> 1, invalid |-> 0]]
    /\ slotDir = [s \in Slots |-> [batch |-> FALSE, served |-> <<>>]]
    /\ runsOf = [s \in Slots |-> {}]
    /\ receipt = NoReceipt /\ auditing = NotAuditing
    /\ faults = 0 /\ deaths = 0

Collect(c) ==
    \/ Acquire(c) \/ Initialize(c) \/ StartSlot(c) \/ PrepareSlot(c) \/ RunBranch(c)
    \/ AuditSlot(c) \/ JournalSlot(c) \/ FinalizeStage(c) \/ Release(c)

CollectionNext ==
    \/ \E c \in Collectors : Collect(c) \/ Die(c)
    \/ RemoveLock \/ ReadForAudit \/ JudgeStage

CollectionSpec == CollectionInit /\ [][CollectionNext]_collVars

---------------------------------------------------------------------------
(* Properties *)

Statuses(s) == {journal[i].slots[s] : i \in {k \in DOMAIN journal : journal[k] # TornLine}}

\* A slot that the journal calls valid is a case whole: its batch is there
\* and all its branches served the scheduled case; and no branch of any slot
\* ran before its batch was committed (collectLv01Slot).
ValidIsWhole ==
    \A s \in Slots :
        /\ "valid" \in Statuses(s) => CaseHolds(s)
        /\ runsOf[s] # {} => slotDir[s].batch

\* Where the journal says that a slot was attempted.
Marks(s) ==
    {i \in DOMAIN journal : journal[i] # TornLine /\ journal[i].slots[s] # "unattempted"}

\* A slot is tried once and its verdict stands, whatever processes ended on
\* the way and whoever came after them (acquireLv01JournalLock,
\* initializeLv01Journal, appendLv01Journal).
SlotTriedOnce ==
    \A s \in Slots : \A i, j \in Marks(s) : i < j =>
        /\ journal[j].slots[s] # "running"
        /\ \A k \in Marks(s) : j < k => journal[k].slots[s] = journal[j].slots[s]

\* Reserves are used in order, one for each primary that was invalid and
\* none for another reserve, once every primary has its verdict
\* (runStageLocked).
ReservesReplacePrimaries ==
    \A i \in {k \in DOMAIN journal : journal[k] # TornLine} :
        LET used == {s \in Slots : ~IsPrimary(s) /\ journal[i].slots[s] # "unattempted"}
        IN  used # {} =>
                /\ used = (Primaries + 1)..(Primaries + Cardinality(used))
                /\ Cardinality(used) <= Cardinality({s \in Slots : IsPrimary(s) /\ journal[i].slots[s] = "invalid"})
                /\ \A s \in Slots : IsPrimary(s) => journal[i].slots[s] \in {"valid", "invalid"}

\* A verified receipt is of the journal's last word, whatever the collectors
\* do after the audit read it: no later event, and its cases are the slots
\* that the stage ended with (auditLv01Stage).
ReceiptIsFinal ==
    receipt.status = "verified" =>
        /\ receipt.event = Last(journal) /\ receipt.event.terminal # "open"
        /\ \A s \in receipt.cases : CaseHolds(s)

\* One collector at a time is at the stage, whatever locks were left behind by
\* processes that ended and by acquisitions and releases that failed, and
\* whichever of them the operator removed (acquireLv01JournalLock).
OneAtStage ==
    \A c, d \in Collectors :
        at[c] \notin {"off", "ended", "dead"} /\ at[d] \notin {"off", "ended", "dead"}
            => c = d

\* Not so: a collection that is over has given its lock back, unless its process
\* ended (the finally of collectLv01Stage).
LockIsGivenBack == lock # "free" => at[lock] \notin {"off", "ended"}

(* What the collection of an LV01 stage promises.                            *)
CollectionSafe ==
    /\ ValidIsWhole /\ SlotTriedOnce /\ ReservesReplacePrimaries /\ ReceiptIsFinal
    /\ OneAtStage
=============================================================================
