----------------------------- MODULE NurseryRun -----------------------------
(* One run under the nursery controller                                      *)
(* (packages/orchestrator/src/nursery-runtime.ts): turns and their budgets,  *)
(* pause and resume, abort, the seal and its retries, and recovery from the  *)
(* evidence store after a restart.                                           *)
(*                                                                           *)
(* The runtime is one process. Its methods are asynchronous and take no      *)
(* lock: a method runs from one await to the next, and a call of the         *)
(* operator may start while the driver's call awaits. Each action below is   *)
(* such a stretch: the evidence that is appended (atomically: see            *)
(* EvidenceWriter) and the code that runs until the next await.              *)
EXTENDS RunLifecycle, Integers, Sequences, FiniteSets, SequencesExt

CONSTANTS
    Configurations,     \* what a run may be created with: see Config
    Operations,         \* the operator calls that are made
    Overlap,            \* operator calls may start while a driver call awaits
    MaxCalls,           \* bound: operator calls
    Mishaps,            \* what may go wrong, of
                        \*   "crash"    the runtime process ends
                        \*   "fault"    an evidence call rejects
                        \*   "lost"     the answer to a turn record is lost
                        \*   "signers"  the registry does not hold the run's keys
                        \*   "fork"     the store preserves a fork
    MaxMishaps          \* bound: mishaps

\* maxTurnsPerRun, evaluationTurns, evaluationOnly (a frozen policy, no
\* training), interventionPlan.repair.enabled, whether the host has an anchor
\* publisher, and whether the communication condition is `disabled'.
ConfigurationType ==
    [training : Nat \ {0}, evaluation : Nat, evaluationOnly : BOOLEAN,
     repair : BOOLEAN, publisher : BOOLEAN, disabled : BOOLEAN]

ASSUME ConfigurationsAssumption == Configurations \subseteq ConfigurationType
ASSUME OverlapAssumption == Overlap \in BOOLEAN
ASSUME CountsAssumption == {MaxCalls, MaxMishaps} \subseteq Nat

VARIABLES
    (* The evidence store *)
    metadata,           \* run_metadata: the run's row, none before createRun
    channel,            \* turns that have a channel event
    turns,              \* the turn records, in order
    scheduled,          \* repair-turn interventions
    sealed,             \* run.sealed events in each Baby's ledger
    journal,            \* interventions and checkpoints, in order of time
    records,            \* experiment records
    receipt,            \* the anchor receipt of the final checkpoint
    forked,             \* a preserved fork
    quarantined,        \* the Gateway's write-intent journal has an open intent
    (* The runtime process *)
    loaded,             \* the run is in #runs
    state,              \* the lifecycle's state, kept after a crash
    mem,                \* the counters of the run
    task,               \* what each caller's method awaits
    used                \* how much of each bound is used up

evidence == <<metadata, channel, turns, scheduled, sealed, journal, records,
              receipt, forked, quarantined>>
vars == <<metadata, channel, turns, scheduled, sealed, journal, records,
          receipt, forked, quarantined, loaded, state, mem, task, used>>

Roles == {"baby-a", "baby-b"}
Callers == {"driver", "operator"}
None == -1

Registered == metadata /= <<>>
Config == metadata[1]

---------------------------------------------------------------------------
(* What is read back from the evidence *)

Count(phase) ==
    Cardinality({i \in DOMAIN turns : turns[i].phase = phase /\ turns[i].of = None})

\* trainingCount, of a run that createRun or recover sets up.
Trained(configuration) ==
    IF configuration.evaluationOnly THEN configuration.training ELSE Count("running")

NextTurn == IF turns = <<>> THEN 0 ELSE Last(turns).turn + 1

Orphans == channel \ {turns[i].turn : i \in DOMAIN turns}

\* The last scheduled repair that no turn record completes.
PendingRepair ==
    LET open == {r \in scheduled : \A i \in DOMAIN turns : turns[i].of /= r.turn}
    IN IF open = {} THEN [turn |-> None, phase |-> "running"]
       ELSE CHOOSE r \in open : \A q \in open : q.turn <= r.turn

LastOf(whats) ==
    LET at == {i \in DOMAIN journal : journal[i] \in whats}
    IN IF at = {} THEN 0 ELSE CHOOSE i \in at : \A j \in at : j <= i

FinalReasons == {"run-sealed", "run-aborted"}

\* Position of the first final checkpoint, 0 when there is none.
FinalCheckpoint ==
    LET at == {i \in DOMAIN journal : journal[i] \in FinalReasons}
    IN IF at = {} THEN 0 ELSE CHOOSE i \in at : \A j \in at : i <= j

SealEvidenceExists == FinalCheckpoint /= 0 /\ \A b \in Roles : sealed[b] > 0

PausedByEvidence == LastOf({"pause", "pause-checkpoint"}) > LastOf({"resume"})

\* The governance decisions that end a run.
Ended == LastOf({"seal-abandoned", "abort-seal-completed", "anchoring-skipped"}) > 0

\* The experiment record in force.
Current ==
    IF records = <<>> THEN [disposition |-> "none", anchored |-> FALSE]
                      ELSE Last(records)

TerminalStateFrom ==
    CASE forked -> "forked-invalid"
      [] ~forked /\ Current.disposition = "valid" -> "sealed"
      [] ~forked /\ Current.disposition = "aborted" /\ Current.anchored
            -> "aborted-sealed"
      [] OTHER -> IF Ended THEN "aborted-sealed" ELSE "sealing-blocked"

StageByCounts ==
    IF \/ Count("evaluating") > 0
       \/ /\ Count("running") >= Config.training
          /\ PendingRepair.turn = None \/ PendingRepair.phase /= "running"
    THEN "evaluating" ELSE "running"

\* Mutant: the evidence of the seal is overlooked.
ReconstructedByCounts == IF PausedByEvidence THEN "paused" ELSE StageByCounts

Reconstructed ==
    CASE forked \/ SealEvidenceExists -> TerminalStateFrom
      [] ~(forked \/ SealEvidenceExists) /\ PausedByEvidence -> "paused"
      [] OTHER -> StageByCounts

---------------------------------------------------------------------------
(* Control *)

Idle == [at |-> "idle", turn |-> 0, phase |-> "running", of |-> None,
         trigger |-> FALSE, aborting |-> FALSE, aborted |-> FALSE,
         anchored |-> FALSE, passed |-> FALSE]

\* `adapter' is deadlineQuarantine, negated.
Fresh == [turn |-> 0, training |-> 0, evaluation |-> 0, repair |-> None,
          phase |-> "running", adapter |-> TRUE, incomplete |-> FALSE]

At(c, label) == task[c].at = label
Go(c, label) == task' = [task EXCEPT ![c].at = label]
Return(c) == task' = [task EXCEPT ![c] = Idle]

Record(disposition, anchored) ==
    records' = Append(records, [disposition |-> disposition, anchored |-> anchored])

\* Something goes wrong, and is counted.
Mishap(what) ==
    /\ what \in Mishaps
    /\ used.mishaps < MaxMishaps
    /\ used' = [used EXCEPT !.mishaps = @ + 1]

Write(what) == journal' = Append(journal, what)

\* Ledger events through the Gateway, and a checkpoint around them; nothing
\* when neither Baby learns.
PolicyCheckpoint == UNCHANGED journal \/ (~quarantined /\ Write("checkpoint"))

\* Mutant: one turn too many.
TrainingDoneLate(m) == m.training > Config.training /\ m.repair = None

TrainingDone(m) == m.training >= Config.training /\ m.repair = None

EvaluationDone(m) == m.evaluation >= Config.evaluation /\ m.repair = None

\* #applyStageTransitions in state s with counters m; then the method returns.
ApplyStageTransitions(c, s, m) ==
    /\ mem' = m
    /\ \/ /\ s = "running" /\ TrainingDone(m)
          /\ state' = s
          /\ Go(c, "begin-evaluation")
       \/ /\ s = "evaluating" /\ EvaluationDone(m)
          /\ state' = "sealing"
          /\ Return(c)
       \/ /\ s = "running" => ~TrainingDone(m)
          /\ s = "evaluating" => ~EvaluationDone(m)
          /\ state' = s
          /\ Return(c)

\* lifecycle.apply(event), and the method returns; from a state that does not
\* list the event, it throws.
ApplyAndReturn(c, event) ==
    /\ state' = IF CanApply(state, event) THEN After(state, event) ELSE state
    /\ Return(c)

---------------------------------------------------------------------------
(* createRun *)

CreateRun ==
    /\ ~Registered /\ ~loaded /\ At("driver", "idle")
    /\ \E configuration \in Configurations :
        /\ metadata' = <<configuration>>
        /\ mem' = [Fresh EXCEPT !.training = Trained(configuration)]
    /\ loaded' = TRUE
    /\ state' = "initializing"
    /\ Go("driver", "initial-record")
    /\ UNCHANGED <<channel, turns, scheduled, sealed, journal, records, receipt,
                   forked, quarantined, used>>

InitialRecord ==
    /\ At("driver", "initial-record")
    /\ Record("invalid", FALSE)
    /\ Go("driver", "checkpoint-zero")
    /\ UNCHANGED <<metadata, channel, turns, scheduled, sealed, journal, receipt,
                   forked, quarantined, loaded, state, mem, used>>

CheckpointZero ==
    /\ At("driver", "checkpoint-zero")
    /\ Write("checkpoint")
    /\ \/ /\ CanApply(state, "ready")
          /\ ApplyStageTransitions("driver", "running", mem)
       \/ /\ ~CanApply(state, "ready")
          /\ Return("driver")
          /\ UNCHANGED <<state, mem>>
    /\ UNCHANGED <<metadata, channel, turns, scheduled, sealed, records, receipt,
                   forked, quarantined, loaded, used>>

\* The policy checkpoint before the held-out turns.
BeginEvaluation(c) ==
    /\ At(c, "begin-evaluation")
    /\ PolicyCheckpoint
    /\ ApplyAndReturn(c, "begin-evaluation")
    /\ UNCHANGED <<metadata, channel, turns, scheduled, sealed, records, receipt,
                   forked, quarantined, loaded, mem, used>>

---------------------------------------------------------------------------
(* step *)

DriverFree ==
    /\ loaded /\ At("driver", "idle")
    /\ Overlap \/ At("operator", "idle")

\* Mutant: the state is not looked at.
StartStepAnytime ==
    /\ DriverFree
    /\ ~quarantined /\ ~mem.incomplete
    /\ task' = [task EXCEPT !["driver"] =
            [Idle EXCEPT !.at = "channel", !.turn = mem.turn, !.of = mem.repair,
                         !.phase = IF mem.repair = None THEN state ELSE mem.phase]]
    /\ UNCHANGED <<evidence, loaded, state, mem, used>>

StartStep ==
    /\ DriverFree
    /\ ~quarantined /\ ~mem.incomplete
    /\ AcceptsTurns(state)
    /\ task' = [task EXCEPT !["driver"] =
            [Idle EXCEPT !.at = "channel", !.turn = mem.turn, !.of = mem.repair,
                         !.phase = IF mem.repair = None THEN state ELSE mem.phase]]
    /\ UNCHANGED <<evidence, loaded, state, mem, used>>

\* #executeTurn: an accepted, rejected or timed-out message is committed; or there is
\* none, as an adapter failed before it or the condition delivers none. A rejection streak or a failed adapter
\* writes its safety trigger and asks for a pause; so does a remote adapter that
\* missed its deadline, which is quarantined for good.
ExecuteTurn ==
    /\ At("driver", "channel") /\ ~quarantined
    /\ \E sent, trigger, late \in BOOLEAN :
        /\ sent \/ trigger \/ Config.disabled
        /\ late => sent /\ trigger
        /\ channel' = IF sent THEN channel \cup {task["driver"].turn} ELSE channel
        /\ IF trigger THEN Write(IF late THEN "adapter-quarantined" ELSE "trigger")
                      ELSE UNCHANGED journal
        /\ mem' = IF late THEN [mem EXCEPT !.adapter = FALSE] ELSE mem
        /\ task' = [task EXCEPT !["driver"].at = "turn-record",
                                !["driver"].trigger = trigger]
    /\ UNCHANGED <<metadata, turns, scheduled, sealed, records, receipt,
                   forked, quarantined, loaded, state, used>>

TurnRecord(t) == [turn |-> t.turn, phase |-> t.phase, of |-> t.of]

\* Mutant: a repair turn takes the number of the turn it repairs.
CountedByEpisode(t) ==
    [mem EXCEPT !.turn = IF t.of = None THEN t.turn + 1 ELSE t.turn,
                !.repair = IF t.of = None THEN @ ELSE None,
                !.training = IF t.of = None /\ t.phase = "running" THEN @ + 1 ELSE @,
                !.evaluation = IF t.of = None /\ t.phase = "evaluating" THEN @ + 1 ELSE @]

\* The counters after the record of a turn.
Counted(t) ==
    [mem EXCEPT !.turn = t.turn + 1,
                !.repair = IF t.of = None THEN @ ELSE None,
                !.training = IF t.of = None /\ t.phase = "running" THEN @ + 1 ELSE @,
                !.evaluation = IF t.of = None /\ t.phase = "evaluating" THEN @ + 1 ELSE @]

AppendTurnRecord ==
    /\ At("driver", "turn-record")
    /\ LET t == task["driver"]
       IN /\ turns' = Append(turns, TurnRecord(t))
          /\ \/ /\ mem' = Counted(t)
                /\ Go("driver", "boundaries")
             \/ /\ Config.repair /\ t.of = None /\ ~t.trigger         \* no success
                /\ mem' = [Counted(t) EXCEPT !.repair = t.turn, !.phase = t.phase]
                /\ Go("driver", "repair-turn")
    /\ UNCHANGED <<metadata, channel, scheduled, sealed, journal, records, receipt,
                   forked, quarantined, loaded, state, used>>

ScheduleRepair ==
    /\ At("driver", "repair-turn")
    /\ scheduled' = scheduled \cup {[turn |-> mem.repair, phase |-> mem.phase]}
    /\ Go("driver", "boundaries")
    /\ UNCHANGED <<metadata, channel, turns, sealed, journal, records, receipt,
                   forked, quarantined, loaded, state, mem, used>>

\* #checkpointEventBoundaries (or the policy checkpoint of an interval), then
\* #autoPause or the stage transition.
EventBoundaries ==
    /\ At("driver", "boundaries")
    /\ Write("checkpoint") \/ UNCHANGED journal
    /\ \/ /\ task["driver"].trigger /\ CanApply(state, "pause")
          /\ state' = "pausing"
          /\ Go("driver", "pause-checkpoint")
          /\ UNCHANGED mem
       \/ /\ task["driver"].trigger /\ ~CanApply(state, "pause")
          /\ Go("driver", "pause-not-available")
          /\ UNCHANGED <<state, mem>>
       \/ /\ ~task["driver"].trigger
          /\ ApplyStageTransitions("driver", state, mem)
    /\ UNCHANGED <<metadata, channel, turns, scheduled, sealed, records, receipt,
                   forked, quarantined, loaded, used>>

\* Out of `evaluating' there is no pause: the budget ends the run, or the run
\* is aborted.
PauseNotAvailable ==
    /\ At("driver", "pause-not-available")
    /\ Write("note")
    /\ LET due == \/ state = "running" /\ TrainingDone(mem)
                  \/ state = "evaluating" /\ EvaluationDone(mem)
       IN \/ /\ due \/ ~CanApply(state, "abort")
             /\ ApplyStageTransitions("driver", state, mem)
          \/ /\ ~due /\ CanApply(state, "abort")
             /\ state' = "aborting"
             /\ Go("driver", "abort")
             /\ UNCHANGED mem
    /\ UNCHANGED <<metadata, channel, turns, scheduled, sealed, records, receipt,
                   forked, quarantined, loaded, used>>

---------------------------------------------------------------------------
(* The operator: pause, resume, annotate, abort *)

OperatorCalls(operation) ==
    /\ operation \in Operations
    /\ loaded /\ At("operator", "idle")
    /\ Overlap \/ At("driver", "idle")
    /\ used.calls < MaxCalls
    /\ used' = [used EXCEPT !.calls = @ + 1]

StartPause ==
    /\ OperatorCalls("pause")
    /\ CanApply(state, "pause")
    /\ state' = "pausing"
    /\ Go("operator", "pause")
    /\ UNCHANGED <<evidence, loaded, mem>>

PauseEvent ==
    /\ At("operator", "pause")
    /\ Write("pause")
    /\ Go("operator", "pause-checkpoint")
    /\ UNCHANGED <<metadata, channel, turns, scheduled, sealed, records, receipt,
                   forked, quarantined, loaded, state, mem, used>>

\* Mutant: the pause is never completed.
PauseIncomplete(c) ==
    /\ At(c, "pause-checkpoint")
    /\ Write("pause-checkpoint")
    /\ Return(c)
    /\ UNCHANGED <<metadata, channel, turns, scheduled, sealed, records, receipt,
                   forked, quarantined, loaded, state, mem, used>>

PauseCheckpoint(c) ==
    /\ At(c, "pause-checkpoint")
    /\ Write("pause-checkpoint")
    /\ ApplyAndReturn(c, "pause-complete")
    /\ UNCHANGED <<metadata, channel, turns, scheduled, sealed, records, receipt,
                   forked, quarantined, loaded, mem, used>>

\* Mutant: with the adapter that is quarantined.
StartResumeAnyway ==
    /\ OperatorCalls("resume")
    /\ ~quarantined /\ ~mem.incomplete
    /\ CanApply(state, "resume")
    /\ state' = "resuming"
    /\ Go("operator", "resume-prefix")
    /\ UNCHANGED <<evidence, loaded, mem>>

StartResume ==
    /\ OperatorCalls("resume")
    /\ ~quarantined /\ ~mem.incomplete /\ mem.adapter
    /\ CanApply(state, "resume")
    /\ state' = "resuming"
    /\ Go("operator", "resume-prefix")
    /\ UNCHANGED <<evidence, loaded, mem>>

\* #verifyCommittedPrefix
ResumePrefix ==
    /\ At("operator", "resume-prefix")
    /\ \/ /\ forked
          /\ ApplyAndReturn("operator", "fork-detected")
       \/ /\ ~forked
          /\ Go("operator", "resume")
          /\ UNCHANGED state
    /\ UNCHANGED <<evidence, loaded, mem, used>>

ResumeEvent ==
    /\ At("operator", "resume")
    /\ Write("resume")
    /\ Go("operator", "resume-checkpoint")
    /\ UNCHANGED <<metadata, channel, turns, scheduled, sealed, records, receipt,
                   forked, quarantined, loaded, state, mem, used>>

\* The transition that the paused turn owed is applied before another turn.
ResumeCheckpoint ==
    /\ At("operator", "resume-checkpoint")
    /\ Write("checkpoint")
    /\ \/ /\ CanApply(state, "resume-complete")
          /\ ApplyStageTransitions("operator", "running", mem)
       \/ /\ ~CanApply(state, "resume-complete")
          /\ Return("operator")
          /\ UNCHANGED <<state, mem>>
    /\ UNCHANGED <<metadata, channel, turns, scheduled, sealed, records, receipt,
                   forked, quarantined, loaded, used>>

StartAnnotate ==
    /\ OperatorCalls("annotate")
    /\ ~IsTerminal(state)
    /\ Go("operator", "annotate")
    /\ UNCHANGED <<evidence, loaded, state, mem>>

AnnotateEvent ==
    /\ At("operator", "annotate")
    /\ Write("note")
    /\ Go("operator", "annotate-check")
    /\ UNCHANGED <<metadata, channel, turns, scheduled, sealed, records, receipt,
                   forked, quarantined, loaded, state, mem, used>>

\* Once the final checkpoint exists, a note gets no checkpoint of its own.
AnnotateCheck ==
    /\ At("operator", "annotate-check")
    /\ IF FinalCheckpoint /= 0 THEN Return("operator")
                               ELSE Go("operator", "annotate-checkpoint")
    /\ UNCHANGED <<evidence, loaded, state, mem, used>>

AnnotateCheckpoint ==
    /\ At("operator", "annotate-checkpoint")
    /\ Write("checkpoint")
    /\ Go("operator", "annotate-record")
    /\ UNCHANGED <<metadata, channel, turns, scheduled, sealed, records, receipt,
                   forked, quarantined, loaded, state, mem, used>>

AnnotateRecord ==
    /\ At("operator", "annotate-record")
    /\ Record("invalid", FALSE)
    /\ Return("operator")
    /\ UNCHANGED <<metadata, channel, turns, scheduled, sealed, journal, receipt,
                   forked, quarantined, loaded, state, mem, used>>

StartAbort ==
    /\ OperatorCalls("abort")
    /\ CanApply(state, "abort")
    /\ state' = "aborting"
    /\ Go("operator", "abort")
    /\ UNCHANGED <<evidence, loaded, mem>>

AbortEvent(c) ==
    /\ At(c, "abort")
    /\ Write("abort")
    /\ task' = [task EXCEPT ![c].at = "seal-a", ![c].aborting = TRUE,
                            ![c].aborted = TRUE]
    /\ UNCHANGED <<metadata, channel, turns, scheduled, sealed, records, receipt,
                   forked, quarantined, loaded, state, mem, used>>

---------------------------------------------------------------------------
(* The seal: seal, retrySeal, abandonSeal, and the evidence half of abort *)

StartSeal ==
    /\ DriverFree
    /\ state = "sealing"
    /\ Go("driver", "seal-check")
    /\ UNCHANGED <<evidence, loaded, state, mem, used>>

StartRetrySeal ==
    /\ OperatorCalls("retrySeal")
    /\ CanApply(state, "seal-retry")
    /\ state' = "sealing"
    /\ Go("operator", "seal-retry")
    /\ UNCHANGED <<evidence, loaded, mem>>

RetryEvent ==
    /\ At("operator", "seal-retry")
    /\ Write("note")
    /\ Go("operator", "seal-check")
    /\ UNCHANGED <<metadata, channel, turns, scheduled, sealed, records, receipt,
                   forked, quarantined, loaded, state, mem, used>>

\* #sealEvidence: the evidence that is there is not written again, and an
\* aborted run stays aborted. Otherwise the policy checkpoint comes first.
\* Mutant: a retried abort is sealed like a completed run.
SealCheckForgetsAbort(c) ==
    /\ At(c, "seal-check")
    /\ \/ /\ SealEvidenceExists
          /\ Go(c, "anchor")
          /\ UNCHANGED journal
       \/ /\ ~SealEvidenceExists
          /\ PolicyCheckpoint
          /\ Go(c, "seal-a")
    /\ UNCHANGED <<metadata, channel, turns, scheduled, sealed, records, receipt,
                   forked, quarantined, loaded, state, mem, used>>

SealCheck(c) ==
    /\ At(c, "seal-check")
    /\ \/ /\ SealEvidenceExists
          /\ task' = [task EXCEPT ![c].at = "anchor",
                        ![c].aborted = journal[FinalCheckpoint] = "run-aborted"]
          /\ UNCHANGED journal
       \/ /\ ~SealEvidenceExists
          /\ PolicyCheckpoint
          /\ Go(c, "seal-a")
    /\ UNCHANGED <<metadata, channel, turns, scheduled, sealed, records, receipt,
                   forked, quarantined, loaded, state, mem, used>>

\* #appendRunSealedEvents
RunSealedEvent(c) ==
    /\ ~quarantined
    /\ \/ /\ At(c, "seal-a")
          /\ sealed' = [sealed EXCEPT !["baby-a"] = @ + 1]
          /\ Go(c, "seal-b")
       \/ /\ At(c, "seal-b")
          /\ sealed' = [sealed EXCEPT !["baby-b"] = @ + 1]
          /\ Go(c, "final-checkpoint")
    /\ UNCHANGED <<metadata, channel, turns, scheduled, journal, records, receipt,
                   forked, quarantined, loaded, state, mem, used>>

CreateFinalCheckpoint(c) ==
    /\ At(c, "final-checkpoint")
    /\ Write(IF task[c].aborted THEN "run-aborted" ELSE "run-sealed")
    /\ Go(c, "anchor")
    /\ UNCHANGED <<metadata, channel, turns, scheduled, sealed, records, receipt,
                   forked, quarantined, loaded, state, mem, used>>

Confirmed(r) == r = "confirmed"

\* #anchor. The publisher stores one receipt, at its terminal decision; when it
\* gives up waiting it stores none. Without a publisher the skipped anchor is a
\* governance decision and not an obstacle.
Anchor(c) ==
    /\ At(c, "anchor")
    /\ receipt' \in (IF Config.publisher /\ receipt = "none"
                     THEN {"none", "confirmed", "failed"} ELSE {receipt})
    /\ IF Config.publisher THEN UNCHANGED journal ELSE Write("anchoring-skipped")
    /\ LET blocked == Config.publisher /\ ~Confirmed(receipt')
       IN /\ task' =
                IF blocked /\ ~task[c].aborting /\ ~CanApply(state, "seal-blocked")
                THEN [task EXCEPT ![c] = Idle]
                ELSE [task EXCEPT
                        ![c].at = IF task[c].aborting THEN "abort-record"
                                  ELSE IF blocked THEN "blocked-record"
                                  ELSE "pending-record",
                        ![c].anchored = Confirmed(receipt')]
          /\ state' = IF blocked /\ ~task[c].aborting /\ CanApply(state, "seal-blocked")
                      THEN "sealing-blocked" ELSE state
    /\ UNCHANGED <<metadata, channel, turns, scheduled, sealed, records,
                   forked, quarantined, loaded, mem, used>>

OpenDisposition(c) == IF task[c].aborted THEN "aborted" ELSE "invalid"

\* The rest of abort(): the record, the export, the last transition.
AbortRecord(c) ==
    /\ At(c, "abort-record")
    /\ Record("aborted", task[c].anchored)
    /\ ApplyAndReturn(c, IF Config.publisher /\ ~task[c].anchored
                         THEN "seal-blocked" ELSE "abort-complete")
    /\ UNCHANGED <<metadata, channel, turns, scheduled, sealed, journal, receipt,
                   forked, quarantined, loaded, mem, used>>

BlockedRecord(c) ==
    /\ At(c, "blocked-record")
    /\ Record(OpenDisposition(c), FALSE)
    /\ Return(c)
    /\ UNCHANGED <<metadata, channel, turns, scheduled, sealed, journal, receipt,
                   forked, quarantined, loaded, state, mem, used>>

PendingRecord(c) ==
    /\ At(c, "pending-record")
    /\ Record(OpenDisposition(c), task[c].anchored)
    /\ Go(c, "verify")
    /\ UNCHANGED <<metadata, channel, turns, scheduled, sealed, journal, receipt,
                   forked, quarantined, loaded, state, mem, used>>

\* Export, and the verifier's report on the bundle. A failure is a safety
\* trigger.
Verify(c) ==
    /\ At(c, "verify")
    /\ \E passed \in BOOLEAN :
        /\ IF passed THEN UNCHANGED journal ELSE Write("note")
        /\ task' = [task EXCEPT ![c].at = "verdict-record", ![c].passed = passed]
    /\ UNCHANGED <<metadata, channel, turns, scheduled, sealed, records, receipt,
                   forked, quarantined, loaded, state, mem, used>>

\* seal-complete, or seal-blocked and abandon-recovery at once.
VerdictRecord(c) ==
    /\ At(c, "verdict-record")
    /\ Record(IF task[c].aborted THEN "aborted"
              ELSE IF task[c].anchored /\ task[c].passed THEN "valid"
              ELSE "invalid", task[c].anchored)
    /\ \/ /\ task[c].aborted
          /\ Go(c, "abort-decision")
          /\ UNCHANGED state
       \/ /\ ~task[c].aborted
          /\ state' = IF state /= "sealing" THEN state
                      ELSE IF task[c].anchored THEN "sealed" ELSE "aborted-sealed"
          /\ Return(c)
    /\ UNCHANGED <<metadata, channel, turns, scheduled, sealed, journal, receipt,
                   forked, quarantined, loaded, mem, used>>

AbortDecision(c) ==
    /\ At(c, "abort-decision")
    /\ Write("abort-seal-completed")
    /\ state' = IF state = "sealing" THEN "aborted-sealed" ELSE state
    /\ Return(c)
    /\ UNCHANGED <<metadata, channel, turns, scheduled, sealed, records, receipt,
                   forked, quarantined, loaded, mem, used>>

StartAbandonSeal ==
    /\ OperatorCalls("abandonSeal")
    /\ CanApply(state, "abandon-recovery")
    /\ state' = "aborted-sealed"
    /\ Go("operator", "abandon")
    /\ UNCHANGED <<evidence, loaded, mem>>

AbandonEvent ==
    /\ At("operator", "abandon")
    /\ Write("seal-abandoned")
    /\ Go("operator", "abandon-record")
    /\ UNCHANGED <<metadata, channel, turns, scheduled, sealed, records, receipt,
                   forked, quarantined, loaded, state, mem, used>>

AbandonRecord ==
    /\ At("operator", "abandon-record")
    /\ Record("invalid", FALSE)
    /\ Return("operator")
    /\ UNCHANGED <<metadata, channel, turns, scheduled, sealed, journal, receipt,
                   forked, quarantined, loaded, state, mem, used>>

---------------------------------------------------------------------------
(* recover *)

\* The run is rebuilt from the evidence, when the process does not hold it.
StartRecover ==
    /\ Registered /\ At("driver", "idle")
    /\ Overlap \/ At("operator", "idle")
    /\ \/ /\ ~loaded
          /\ loaded' = TRUE
          /\ state' = Reconstructed
          /\ mem' = [Fresh EXCEPT !.turn = NextTurn,
                                  !.training = Count("running"),
                                  !.evaluation = Count("evaluating"),
                                  !.repair = PendingRepair.turn,
                                  !.phase = PendingRepair.phase,
                                  !.adapter = LastOf({"adapter-quarantined"}) = 0]
          /\ UNCHANGED used
       \/ /\ loaded
          /\ "recover" \in Operations /\ used.calls < MaxCalls
          /\ used' = [used EXCEPT !.calls = @ + 1]
          /\ UNCHANGED <<loaded, state, mem>>
    /\ IF quarantined \/ mem.incomplete THEN UNCHANGED task ELSE Go("driver", "signers")
    /\ UNCHANGED evidence

\* #signerMismatches: the refusal is audited. The run stays in #runs.
CheckSigners ==
    /\ At("driver", "signers")
    /\ \/ /\ Go("driver", "prefix")
          /\ UNCHANGED <<journal, used>>
       \/ /\ Mishap("signers")
          /\ Write("note")
          /\ Return("driver")
    /\ UNCHANGED <<metadata, channel, turns, scheduled, sealed, records, receipt,
                   forked, quarantined, loaded, state, mem>>

\* The counters, read again from the evidence.
Recounted ==
    [mem EXCEPT !.turn = NextTurn, !.training = Trained(Config),
                !.evaluation = Count("evaluating")]

\* Mutant: a turn without a record is not looked for.
RecoverAnyPrefix ==
    /\ At("driver", "prefix")
    /\ mem' = Recounted
    /\ IF IsTerminal(state) \/ SealEvidenceExists THEN Return("driver")
                                                  ELSE Go("driver", "recovery")
    /\ UNCHANGED <<evidence, loaded, state, used>>

\* Mutant: a run that is sealed already is recovered like any other.
RecoverReopens ==
    /\ At("driver", "prefix") /\ ~forked /\ Orphans = {}
    /\ mem' = Recounted
    /\ Go("driver", "recovery")
    /\ UNCHANGED <<evidence, loaded, state, used>>

RecoverPrefix ==
    /\ At("driver", "prefix")
    /\ \/ /\ forked
          /\ ApplyAndReturn("driver", "fork-detected")
          /\ UNCHANGED mem
       \/ /\ ~forked /\ Orphans /= {}
          /\ mem' = [mem EXCEPT !.incomplete = TRUE]
          /\ Return("driver")
          /\ UNCHANGED state
       \/ /\ ~forked /\ Orphans = {}
          /\ mem' = Recounted
          /\ IF IsTerminal(state) \/ SealEvidenceExists
             THEN Return("driver") ELSE Go("driver", "recovery")
          /\ UNCHANGED state
    /\ UNCHANGED <<evidence, loaded, used>>

RecoveryEvent ==
    /\ At("driver", "recovery")
    /\ Write("note")
    /\ Go("driver", "recovery-checkpoint")
    /\ UNCHANGED <<metadata, channel, turns, scheduled, sealed, records, receipt,
                   forked, quarantined, loaded, state, mem, used>>

RecoveryCheckpoint ==
    /\ At("driver", "recovery-checkpoint")
    /\ Write("checkpoint")
    /\ ApplyStageTransitions("driver", state, mem)
    /\ UNCHANGED <<metadata, channel, turns, scheduled, sealed, records, receipt,
                   forked, quarantined, loaded, used>>

---------------------------------------------------------------------------
(* What goes wrong *)

ThroughGateway(c) == task[c].at \in {"channel", "seal-a", "seal-b"}

\* The places of a policy checkpoint: ledger events through the Gateway, then a
\* checkpoint that is not.
AtPolicyCheckpoint(c) ==
    \/ At(c, "begin-evaluation")
    \/ At(c, "boundaries") /\ ~task[c].trigger /\ state = "running"
    \/ At(c, "seal-check") /\ ~SealEvidenceExists

\* What a call through the Gateway that is in flight may have committed.
MayHaveCommitted(c) ==
    /\ channel' \in (IF At(c, "channel") THEN {channel, channel \cup {task[c].turn}}
                     ELSE {channel})
    /\ sealed' \in (CASE At(c, "seal-a") -> {sealed, [sealed EXCEPT !["baby-a"] = @ + 1]}
                      [] At(c, "seal-b") -> {sealed, [sealed EXCEPT !["baby-b"] = @ + 1]}
                      [] OTHER -> {sealed})

\* The Gateway refuses every append of a quarantined run.
GatewayRefuses(c) ==
    /\ quarantined
    /\ ThroughGateway(c) \/ AtPolicyCheckpoint(c)
    /\ Return(c)
    /\ UNCHANGED <<evidence, loaded, state, mem, used>>

\* A call rejects, and the method throws where it awaits. A failure behind the
\* Gateway leaves its write intent open.
CallFails(c) ==
    /\ ~At(c, "idle")
    /\ ~(Config.publisher /\ At(c, "anchor"))
    /\ Mishap("fault")
    /\ MayHaveCommitted(c)
    /\ quarantined' \in {quarantined \/ ThroughGateway(c),
                         quarantined \/ ThroughGateway(c) \/ AtPolicyCheckpoint(c)}
    /\ Return(c)
    /\ UNCHANGED <<metadata, turns, scheduled, journal, records, receipt, forked,
                   loaded, state, mem>>

\* The record of the turn is committed and the answer is lost: step() throws
\* before it counts the turn.
LoseTurnRecord ==
    /\ At("driver", "turn-record")
    /\ Mishap("lost")
    /\ turns' = Append(turns, TurnRecord(task["driver"]))
    /\ Return("driver")
    /\ UNCHANGED <<metadata, channel, scheduled, sealed, journal, records, receipt,
                   forked, quarantined, loaded, state, mem>>

\* The store preserves a fork (see EvidenceWriter).
Fork ==
    /\ Registered /\ ~forked
    /\ Mishap("fork")
    /\ forked' = TRUE
    /\ UNCHANGED <<metadata, channel, turns, scheduled, sealed, journal, records,
                   receipt, quarantined, loaded, state, mem, task>>

\* The process ends. A write intent that is open then quarantines the run when
\* the Gateway opens its journal again.
Crash ==
    /\ loaded
    /\ Mishap("crash")
    /\ loaded' = FALSE
    /\ mem' = Fresh
    /\ task' = [c \in Callers |-> Idle]
    /\ \/ UNCHANGED <<channel, sealed, quarantined>>
       \/ /\ \E c \in Callers :
                (ThroughGateway(c) \/ AtPolicyCheckpoint(c)) /\ MayHaveCommitted(c)
          /\ quarantined' = TRUE
    /\ UNCHANGED <<metadata, turns, scheduled, journal, records, receipt, forked,
                   state>>

---------------------------------------------------------------------------
Init ==
    /\ metadata = <<>>
    /\ channel = {} /\ turns = <<>> /\ scheduled = {}
    /\ sealed = [b \in Roles |-> 0]
    /\ journal = <<>> /\ records = <<>> /\ receipt = "none"
    /\ forked = FALSE /\ quarantined = FALSE
    /\ loaded = FALSE /\ state = "preregistered"
    /\ mem = Fresh
    /\ task = [c \in Callers |-> Idle]
    /\ used = [calls |-> 0, mishaps |-> 0]

Turn ==
    \/ ExecuteTurn \/ AppendTurnRecord \/ ScheduleRepair \/ EventBoundaries
    \/ PauseNotAvailable

Recovery ==
    \/ CheckSigners \/ RecoverPrefix \/ RecoveryEvent \/ RecoveryCheckpoint

Intervention ==
    \/ PauseEvent \/ ResumePrefix \/ ResumeEvent \/ ResumeCheckpoint
    \/ AnnotateEvent \/ AnnotateCheck \/ AnnotateCheckpoint \/ AnnotateRecord
    \/ RetryEvent \/ AbandonEvent \/ AbandonRecord

Seal(c) ==
    \/ SealCheck(c) \/ RunSealedEvent(c) \/ CreateFinalCheckpoint(c) \/ Anchor(c)
    \/ BlockedRecord(c) \/ PendingRecord(c) \/ Verify(c) \/ VerdictRecord(c)
    \/ AbortDecision(c)

\* A call that is under way goes on.
Proceed(c) ==
    \/ c = "driver" /\ (InitialRecord \/ CheckpointZero \/ Turn \/ Recovery)
    \/ c = "operator" /\ Intervention
    \/ BeginEvaluation(c) \/ PauseCheckpoint(c) \/ AbortEvent(c) \/ AbortRecord(c)
    \/ Seal(c) \/ GatewayRefuses(c)

Operator ==
    \/ StartPause \/ StartResume \/ StartAnnotate \/ StartAbort
    \/ StartRetrySeal \/ StartAbandonSeal

Next ==
    \/ CreateRun \/ StartStep \/ StartSeal \/ StartRecover
    \/ Operator
    \/ \E c \in Callers : Proceed(c) \/ CallFails(c)
    \/ LoseTurnRecord \/ Fork \/ Crash

Spec == Init /\ [][Next]_vars

\* A call that was made goes on while the process lives; runToCompletion steps
\* and seals, and a run that the process lost is recovered.
FairSpec ==
    /\ Spec
    /\ \A c \in Callers : WF_vars(Proceed(c))
    /\ WF_vars(StartStep \/ StartSeal \/ (~loaded /\ StartRecover))

---------------------------------------------------------------------------
(* Properties *)

Phases == {"running", "evaluating"}
Labels == {"idle", "initial-record", "checkpoint-zero", "begin-evaluation",
           "channel", "turn-record", "repair-turn", "boundaries",
           "pause-not-available", "pause", "pause-checkpoint", "resume-prefix",
           "resume", "resume-checkpoint", "annotate", "annotate-check",
           "annotate-checkpoint", "annotate-record", "abort", "seal-retry",
           "seal-check", "seal-a", "seal-b", "final-checkpoint", "anchor",
           "abort-record", "blocked-record", "pending-record", "verify",
           "verdict-record", "abort-decision", "abandon", "abandon-record",
           "signers", "prefix", "recovery", "recovery-checkpoint"}
JournalEntries == {"note", "trigger", "adapter-quarantined", "checkpoint", "pause", "pause-checkpoint", "resume",
                   "abort", "anchoring-skipped", "seal-abandoned",
                   "abort-seal-completed"} \cup FinalReasons

TurnType == [turn : Nat, phase : Phases, of : Nat \cup {None}]
RepairType == [turn : Nat, phase : Phases]
RecordType == [disposition : {"valid", "invalid", "aborted"}, anchored : BOOLEAN]
MemType ==
    [turn : Nat, training : Nat, evaluation : Nat, repair : Nat \cup {None},
     phase : Phases, adapter : BOOLEAN, incomplete : BOOLEAN]
TaskType ==
    [at : Labels, turn : Nat, phase : Phases, of : Nat \cup {None},
     trigger : BOOLEAN, aborting : BOOLEAN, aborted : BOOLEAN,
     anchored : BOOLEAN, passed : BOOLEAN]

\* Every variable holds values of the shape its declaration says
\* (RunRuntime, TurnRecord, ExperimentRecord).
TypeOK ==
    /\ metadata \in {<<>>} \cup {<<c>> : c \in Configurations}
    /\ forked \in BOOLEAN /\ quarantined \in BOOLEAN
    /\ loaded \in BOOLEAN
    /\ state \in RunStates
    /\ channel \subseteq Nat
    /\ turns \in Seq(TurnType)
    /\ scheduled \subseteq RepairType
    /\ sealed \in [Roles -> Nat]
    /\ journal \in Seq(JournalEntries)
    /\ records \in Seq(RecordType)
    /\ receipt \in {"none", "confirmed", "failed"}
    /\ mem \in MemType
    /\ task \in [Callers -> TaskType]
    /\ used \in [calls : 0..MaxCalls, mishaps : 0..MaxMishaps]

\* Neither a pause, nor a trigger, nor a restart buys a turn beyond
\* maxTurnsPerRun or evaluationTurns (#applyStageTransitions; SPECIFICATION
\* section 18). A repair is no turn of the budget.
WithinBudget ==
    Registered =>
        /\ Count("running") <= IF Config.evaluationOnly THEN 0 ELSE Config.training
        /\ Count("evaluating") <= Config.evaluation

\* The budgets of a run that has a held-out turn to play: the transition to the
\* held-out turns looks at the first budget only, so that a budget of zero is
\* one turn (#applyStageTransitions).
BudgetsHold == Registered /\ Config.evaluation > 0 => WithinBudget

\* The turn records are numbered 0, 1, 2, ...: none is executed again, and none
\* is left out, whatever was paused, aborted or restarted between them (step).
TurnsNumbered == \A i \in DOMAIN turns : turns[i].turn = i - 1

StartsTurn == At("driver", "idle") /\ task'["driver"].at = "channel"

\* No turn starts under a number whose message is in the channel already: a turn
\* that a crash left without its record stops the run (recover).
NoTurnTwice ==
    [][StartsTurn => task'["driver"].turn \notin channel]_vars

\* The seal evidence is written once: one run.sealed in each ledger and one final
\* checkpoint, however often the seal is tried (#sealEvidence).
SealedOnce ==
    /\ \A b \in Roles : sealed[b] <= 1
    /\ Cardinality({i \in DOMAIN journal : journal[i] \in FinalReasons}) <= 1

\* No checkpoint displaces the final one, which is the one that is exported and
\* anchored (annotate, recover).
FinalCheckpointIsTip ==
    FinalCheckpoint /= 0 =>
        \A i \in FinalCheckpoint + 1 .. Len(journal) :
            journal[i] \notin {"checkpoint", "pause-checkpoint"} \cup FinalReasons

\* An aborted run is never published as valid, nor sealed, whatever the anchor
\* and the verifier say later (#runSealSteps).
AbortedNeverValid ==
    LastOf({"abort"}) > 0 =>
        /\ \A i \in DOMAIN records : records[i].disposition /= "valid"
        /\ state /= "sealed"

\* A run is valid only when its final checkpoint, of a completed run, is anchored
\* (#runSealSteps, #anchor).
ValidIsAnchored ==
    (\E i \in DOMAIN records : records[i].disposition = "valid") =>
        receipt = "confirmed" /\ journal[FinalCheckpoint] = "run-sealed"

\* Whatever way a run ends (sealed, aborted, or abandoned), it ends with
\* run.sealed in both ledgers and a final checkpoint (abort, abandonSeal).
EndsWithEvidence ==
    state \in {"sealed", "aborted-sealed"} => SealEvidenceExists

\* Once the seal evidence exists no turn starts, under this process or the next
\* (#terminalStateFrom).
SealedStaysShut == SealEvidenceExists /\ loaded => ~AcceptsTurns(state)

\* Between a pause and the resume that answers it no turn starts, even when the
\* process is restarted in between (pause, #reconstruct).
PauseHolds ==
    [][StartsTurn => LastOf({"pause", "pause-checkpoint"}) <= LastOf({"resume"})]_vars

\* While no call fails and the process lives, and calls do not overlap, no turn
\* starts after a safety trigger before a pause was taken or a resume was asked
\* for, and none once a remote adapter was quarantined (#autoPause, resume;
\* SPECIFICATION section 14.5).
StopsHold ==
    [][used.mishaps = 0 /\ StartsTurn =>
        /\ LastOf({"trigger", "adapter-quarantined"})
                <= LastOf({"pause-checkpoint", "resume"})
        /\ LastOf({"adapter-quarantined"}) = 0]_vars

\* A terminal state is left by no operation of the process that reached it
\* (packages/lifecycle, RunLifecycle.apply). A restart may find a run that was
\* sealed with an invalid record in sealing-blocked (#terminalStateFrom).
TerminalStays == [][loaded /\ IsTerminal(state) => state' = state]_vars

(* While no call fails and the process lives, a run is sealed once, and      *)
(* never as valid when it was aborted (#sealEvidence, #runSealSteps).        *)
VerdictOnce == used.mishaps = 0 => SealedOnce /\ AbortedNeverValid

(* No turn is played twice, and no operation leaves a terminal state (step,  *)
(* RunLifecycle.apply).                                                      *)
NoStepBack == NoTurnTwice /\ TerminalStays

(* A run whose seal evidence exists takes no events, and its reaching a      *)
(* terminal state is in evidence (seal, abort).                              *)
SealedIsFinal == SealedStaysShut /\ EndsWithEvidence

(* A run that is sealed valid is anchored, up to a final checkpoint of its   *)
(* last event (seal, #anchor).                                               *)
SealIsCovered == ValidIsAnchored /\ FinalCheckpointIsTip
=============================================================================
