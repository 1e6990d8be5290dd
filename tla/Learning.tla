------------------------------ MODULE Learning ------------------------------
(* One Baby's learner under the Nursery runtime (nursery-runtime.ts): the    *)
(* turn's calls with their retries, the private ledger it writes, the        *)
(* policy file an update leaves, the curriculum, and what a restart makes of *)
(* them. The partner and the channel are what they do to this learner.       *)
EXTENDS Learner

CONSTANTS
    Settings,           \* the runs that are looked at: [track, condition, staged, derived]
    TrainingTurns,      \* maxTurnsPerRun
    Attempts,           \* the retry budget and the first attempt
    MaxFaults,          \* bound: refused or lost appends, lost answers, partner failures
    MaxCrashes          \* bound: process ends

ASSUME LearningAssumption ==
    /\ TrainingTurns \in 1..LastTurn /\ Attempts \in Nat \ {0} /\ {MaxFaults, MaxCrashes} \subseteq Nat
    /\ \A s \in Settings :
          /\ s.track \in Tracks /\ s.condition \in {"normal", "disabled"}
          /\ s.staged => s.track \in {"self-supervised", "hybrid"}

\* A schedule begins with the run, and its stages follow one another
\* (curriculum.ts validateCurriculumStages).
ASSUME ScheduleAssumption ==
    (\E s \in Settings : s.staged) =>
        /\ Stages # <<>> /\ Stages[1].start = 0
        /\ \A i, j \in DOMAIN Stages : i < j => Stages[i].start < Stages[j].start

VARIABLES
    setting,            \* the run
    mem,                \* the learner's private memory; lost with the process
    ledger,             \* its private ledger
    latest,             \* <role>-latest.json
    turn,               \* the runtime's cursor
    pc,                 \* the call the turn has reached
    attempt,            \* attempts at that call that failed
    heard,              \* the mark delivered this turn
    bit,                \* whether the turn succeeded
    channel,            \* turns with an event on the channel chain
    turns,              \* turn records: whether each turn was forfeited to a failure
    stages,             \* curriculum transitions on the intervention chain: [stage, turn]
    policyRef,          \* the answer of the last update this process saw
    policies,           \* policy.checkpointed events: [ref, policy]
    faults, crashes     \* counters of the bounds

learning == <<mem, ledger, latest, policyRef>>
course == <<turn, pc, attempt, heard, bit, channel, turns, stages>>
learnVars == <<setting, learning, course, policies, faults, crashes>>

None == [run |-> "none"]
Torn == [run |-> "torn"]

\* The turn number that stands for a parent run's turns.
ParentTurn == -1
ParentPolicy == [ExportPolicy(setting.track, [Fresh EXCEPT !.learnt = <<ParentTurn>>]) EXCEPT !.run = "parent"]

Initialized(policy) ==
    IF policy \in {None, Torn} THEN Fresh ELSE Loaded(setting.track, policy)

Phase(t) == IF t < TrainingTurns THEN "running" ELSE "evaluating"

\* Roles reverse every turn.
IsSender(t) == t % 2 = 0

FirstCall(t) ==
    IF IsSender(t) THEN "act" ELSE IF setting.condition = "disabled" THEN "select" ELSE "deliver"

---------------------------------------------------------------------------
(* Calls *)

\* A call that returned may still be lost to the host.
Answers(results) == results \cup {[r EXCEPT !.fault = "unanswered"] : r \in {s \in results : s.fault = "none"}}

\* One attempt at a call: it returns and the turn goes on to `next`, or it
\* fails and is tried again until the budget forfeits the turn.
Call(results, next) ==
    \E r \in Answers(results) :
        /\ mem' = r.mem /\ ledger' = r.ledger
        /\ IF r.fault = "none"
           THEN pc' = next /\ attempt' = 0 /\ UNCHANGED faults
           ELSE /\ faults < MaxFaults /\ faults' = faults + 1
                /\ pc' = IF attempt + 1 < Attempts THEN pc ELSE "forfeit"
                /\ attempt' = IF attempt + 1 < Attempts THEN attempt + 1 ELSE 0

\* Stages whose start is after the last recorded transition and not after the turn.
StageDue == {i \in DOMAIN Stages :
    setting.staged /\ Stages[i].start <= turn /\ \A s \in Range(stages) : s.turn < Stages[i].start}

\* The transition is applied to the learner, then recorded.
ApplyTransition ==
    /\ pc = "begin" /\ StageDue # {}
    /\ LET i == CHOOSE j \in StageDue : \A k \in StageDue : j <= k
       IN  /\ mem' = ApplyStage(setting.track, mem, i)
           /\ stages' = Append(stages, [stage |-> i, turn |-> Stages[i].start])
    /\ UNCHANGED <<setting, ledger, latest, policyRef, turn, pc, attempt, heard, bit, channel, turns,
                   policies, faults, crashes>>

Begin ==
    /\ pc = "begin" /\ StageDue = {}
    /\ pc' = FirstCall(turn) /\ heard' = NoMark
    /\ UNCHANGED <<setting, learning, turn, attempt, bit, channel, turns, stages, policies, faults, crashes>>

SenderActs ==
    /\ pc = "act"
    /\ Call(Sends(setting.track, mem, ledger, turn), "submit")
    /\ UNCHANGED <<setting, latest, policyRef, turn, heard, bit, channel, turns, stages, policies, crashes>>

\* The Gateway commits the intention with its channel event, or rejects it;
\* a disabled channel has the intention only.
Submit ==
    /\ pc = "submit"
    /\ \E accepted \in BOOLEAN, b \in {0, 1} :
        /\ ~accepted => setting.condition = "normal" /\ b = 0
        /\ ledger' = IF accepted
                     THEN Append(ledger, Event("intention", turn, mem.pending[turn].mark, 0, 0))
                     ELSE ledger
        /\ bit' = b
    /\ channel' = IF setting.condition = "normal" THEN channel \cup {turn} ELSE channel
    /\ pc' = "outcome"
    /\ UNCHANGED <<setting, mem, latest, policyRef, turn, attempt, heard, turns, stages, policies, faults,
                   crashes>>

\* The partner's message, or its rejection, is on the channel chain before
\* this learner hears of it.
Deliver ==
    /\ pc = "deliver"
    /\ channel' = channel \cup {turn}
    /\ \/ /\ heard' \in Marks
          /\ pc' = "receive" /\ UNCHANGED bit
       \/ /\ pc' = "outcome" /\ bit' = 0 /\ UNCHANGED heard
    /\ UNCHANGED <<setting, learning, turn, attempt, turns, stages, policies, faults, crashes>>

ReceiverReceives ==
    /\ pc = "receive"
    /\ Call(Receives(setting.track, mem, ledger, turn, heard), "select")
    /\ UNCHANGED <<setting, latest, policyRef, turn, heard, bit, channel, turns, stages, policies, crashes>>

ReceiverActs ==
    /\ pc = "select"
    /\ Call(Selects(setting.track, mem, ledger, turn, heard), "outcome")
    /\ bit' \in {0, 1}
    /\ UNCHANGED <<setting, latest, policyRef, turn, heard, channel, turns, stages, policies, crashes>>

AfterOutcome ==
    IF Phase(turn) = "running" /\ setting.track \in Updating THEN "update" ELSE "record"

Outcome ==
    /\ pc = "outcome"
    /\ Call(OnOutcome(setting.track, mem, ledger, turn, bit), AfterOutcome)
    /\ UNCHANGED <<setting, latest, policyRef, turn, heard, bit, channel, turns, stages, policies, crashes>>

\* The update's answer names the policy it exported.
Update ==
    /\ pc = "update"
    /\ Call({Returns(m, ledger) : m \in UpdatePolicy(setting.track, mem, turn)}, "write")
    /\ policyRef' = IF pc' = "write" THEN ExportPolicy(setting.track, mem') ELSE policyRef
    /\ UNCHANGED <<setting, latest, turn, heard, bit, channel, turns, stages, policies, crashes>>

WriteLatest ==
    /\ pc = "write"
    /\ latest' = ExportPolicy(setting.track, mem)
    /\ pc' = "record"
    /\ UNCHANGED <<setting, mem, ledger, policyRef, turn, attempt, heard, bit, channel, turns, stages,
                   policies, faults, crashes>>

\* The partner's own call exhausts its attempts, before, between or after
\* this learner's.
PartnerFails ==
    /\ pc \in {"act", "deliver", "receive", "select", "outcome", "update", "record"}
    /\ faults < MaxFaults /\ faults' = faults + 1
    /\ pc' = "forfeit" /\ attempt' = 0
    /\ UNCHANGED <<setting, learning, turn, heard, bit, channel, turns, stages, policies, crashes>>

\* The turn is recorded, a failed one too: it pauses the run, and a resume
\* takes the transitions the turn owed.
RecordTurn ==
    /\ pc \in {"record", "forfeit"}
    /\ turns' = Append(turns, pc = "forfeit")
    /\ turn' = turn + 1
    /\ pc' = IF turn + 1 = TrainingTurns THEN "checkpoint"
             ELSE IF turn = LastTurn THEN "done" ELSE "begin"
    /\ UNCHANGED <<setting, learning, attempt, heard, bit, channel, stages, policies, faults, crashes>>

\* policy.checkpointed before the evaluation begins.
PolicyCheckpoint ==
    /\ pc = "checkpoint"
    /\ policies' = IF setting.track \notin Updating THEN policies
                   ELSE LET live == ExportPolicy(setting.track, mem)
                        IN  Append(policies, [ref |-> IF policyRef = None THEN live ELSE policyRef,
                                              policy |-> live])
    /\ pc' = "begin"
    /\ UNCHANGED <<setting, learning, turn, attempt, heard, bit, channel, turns, stages, faults, crashes>>

---------------------------------------------------------------------------
(* Crash and recovery *)

\* The process ends; a policy file that was being written is left torn.
Crash ==
    /\ pc \notin {"down", "done", "stuck"} /\ crashes < MaxCrashes
    /\ crashes' = crashes + 1
    /\ mem' = Fresh /\ policyRef' = None
    /\ latest' \in IF pc = "write" THEN {latest, Torn} ELSE {latest}
    /\ pc' = "down" /\ attempt' = 0
    /\ UNCHANGED <<setting, ledger, turn, heard, bit, channel, turns, stages, policies, faults>>

\* The stage that governed the last consumed turn.
StageForTurn(t) ==
    CHOOSE i \in DOMAIN Stages :
        /\ Stages[i].start <= t
        /\ \A j \in DOMAIN Stages : Stages[j].start <= t => Stages[j].start <= Stages[i].start

\* A turn with a channel event and no record stops the run. Otherwise the
\* learner is initialised from its latest policy file, or afresh when there
\* is none that can be read, and takes the stage of the last consumed turn.
Recover ==
    /\ pc = "down"
    /\ turn' = Len(turns)
    /\ IF \E t \in channel : t >= Len(turns)
       THEN pc' = "stuck" /\ UNCHANGED mem
       ELSE /\ mem' = LET m == Initialized(latest)
                      IN  IF stages = <<>> THEN m
                          ELSE ApplyStage(setting.track, m, StageForTurn(IF turn' = 0 THEN 0 ELSE turn' - 1))
            /\ pc' = IF turn' > LastTurn THEN "done" ELSE "begin"
    /\ UNCHANGED <<setting, ledger, latest, policyRef, attempt, heard, bit, channel, turns, stages,
                   policies, faults, crashes>>

---------------------------------------------------------------------------

LearningInit ==
    /\ setting \in Settings
    /\ mem = IF setting.derived THEN Initialized(ParentPolicy) ELSE Fresh
    /\ ledger = <<>> /\ latest = None /\ policyRef = None
    /\ turn = 0 /\ pc = "begin" /\ attempt = 0 /\ heard = NoMark /\ bit = 0
    /\ channel = {} /\ turns = <<>> /\ stages = <<>> /\ policies = <<>>
    /\ faults = 0 /\ crashes = 0

Turn ==
    \/ ApplyTransition \/ Begin \/ SenderActs \/ Submit \/ Deliver \/ ReceiverReceives \/ ReceiverActs
    \/ Outcome \/ Update \/ WriteLatest \/ RecordTurn \/ PolicyCheckpoint

LearningNext == Turn \/ PartnerFails \/ Crash \/ Recover

LearningSpec == LearningInit /\ [][LearningNext]_learnVars

---------------------------------------------------------------------------
(* Properties *)

Alive == pc \notin {"down", "done", "stuck"}

LearningTypeOK ==
    /\ setting \in Settings
    /\ mem.emitted \subseteq Marks /\ mem.received \subseteq Marks
    /\ \A k \in Marks : mem.hyp[k].version \in Nat /\ mem.hyp[k].type \in Types /\ mem.belief[k] \in Types
    /\ turn \in 0..(LastTurn + 1) /\ attempt \in 0..(Attempts - 1) /\ bit \in {0, 1}
    /\ channel \subseteq Turns /\ turns \in Seq(BOOLEAN) /\ Len(turns) <= LastTurn + 1
    /\ heard \in Marks \cup {NoMark}

Uses(kind) == {e.mark : e \in {f \in Range(ledger) : f.kind = kind}}

\* What the learner takes for recorded is recorded: a mark it holds for seen
\* has its first-use event on its ledger, whatever append was refused or lost
\* and whatever policy a restart loaded (tabular-reinforce.ts recordFirstUse,
\* restoreRegistries).
SeenIsRecorded ==
    mem.emitted \subseteq Uses("emitted") /\ mem.received \subseteq Uses("received")

\* No dangling reference: a hypothesis event that names a version before it,
\* and the version the learner holds, are those of an earlier event for the
\* same mark (tabular-reinforce.ts recordHypotheses, LEDGER section 5).
NoDanglingPrior ==
    LET named(k, v, before) ==
            v = 0 \/ \E i \in 1..before :
                ledger[i].kind = "hypothesis" /\ ledger[i].mark = k /\ ledger[i].version = v
    IN  /\ \A i \in DOMAIN ledger : named(ledger[i].mark, ledger[i].prior, i - 1)
        /\ \A k \in Marks : named(k, mem.hyp[k].version, Len(ledger))

\* While the channel delivers, no turn moves the tables twice, nor the
\* private predictor, whatever is retried, forfeited or replayed after a
\* restart (tabular-reinforce.ts onOutcome, updatePolicy). The hybrid's
\* payload head does count a retried outcome again.
LearntOnce ==
    setting.condition = "normal" =>
        /\ \A i, j \in DOMAIN mem.learnt : i < j => mem.learnt[i] < mem.learnt[j]
        /\ setting.track # "hybrid" =>
              \A i, j \in DOMAIN mem.sensed : i < j => mem.sensed[i] < mem.sensed[j]

\* A first use that is recorded for a turn is of the mark the turn sent, as
\* every attempt sends the same; the control without learning draws again
\* (tabular-reinforce.ts senderTurn).
FirstUseWasSent ==
    setting.track # "no-learning" /\ crashes = 0 =>
        \A i, j \in DOMAIN ledger :
            ledger[i].kind = "emitted" /\ ledger[j].kind = "intention" /\ ledger[i].turn = ledger[j].turn
                => ledger[i].mark = ledger[j].mark

\* The policy that is checkpointed before the evaluation is the one its
\* reference names, unless a turn was forfeited to a failure; the hybrid's
\* moves between the two (nursery-runtime.ts #policyCheckpoint).
RefNamesPolicy ==
    setting.track # "hybrid" /\ (\A i \in DOMAIN turns : ~turns[i]) =>
        \A p \in Range(policies) : p.ref = p.policy

\* What the stages up to a turn set, one after the other.
KnobsAt(t) ==
    [set |-> [k \in Knobs |->
        LET setters == {i \in DOMAIN Stages : k \in Stages[i].knobs /\ Stages[i].start <= t}
        IN  IF setters = {} THEN 0 ELSE CHOOSE i \in setters : \A j \in setters : j <= i],
     consolidating |-> Stages[StageForTurn(t)].consolidation]

Governed == setting.staged /\ Alive /\ pc \notin {"begin", "checkpoint"}

\* In a process that was not restarted every call of a turn is made under the
\* stage the schedule names for it (nursery-runtime.ts #applyCurriculumTransitions).
StageInForce == Governed /\ crashes = 0 => mem.knobs = KnobsAt(turn)

\* After a restart, too.
StageSurvivesRestart == Governed => mem.knobs = KnobsAt(turn)

\* A derived run's learner goes on from its parent's policy, whatever happens.
DerivedKeepsParent ==
    setting.derived /\ setting.track \in Updating /\ Alive =>
        mem.learnt # <<>> /\ mem.learnt[1] = ParentTurn

\* In an evaluation no call changes the policy the learner exports, although
\* its registries grow; the hybrid's payload head and the memory of a frozen
\* model do change (tabular-reinforce.ts exportPolicy).
EvaluationFixed ==
    [][turn >= TrainingTurns /\ pc \notin {"down", "checkpoint"} /\ pc' # "down"
         /\ setting.track \in {"scratch-rl", "self-supervised", "no-learning"} /\ ~setting.staged
       => ExportPolicy(setting.track, mem') = ExportPolicy(setting.track, mem)]_learnVars

\* A learner with tables that saw a turn through has a hypothesis for the mark
\* the turn carried, of the type its tables then named, although an append was
\* refused or an answer lost on the way (tabular-reinforce.ts recordHypotheses).
\* A frozen model's turn is folded before, and a retry leaves its events out.
TurnHasHypothesis ==
    [][pc = "outcome" /\ pc' \in {"update", "record"} /\ setting.track \in Updating
         /\ mem.pending[turn].mark # NoMark
       => LET k == mem.pending[turn].mark
          IN  mem'.hyp[k].version > 0 /\ mem'.hyp[k].type = mem.belief[k]]_learnVars

(* What a learner's ledger promises its reader, whatever was refused, lost,  *)
(* retried or restarted.                                                     *)
LedgerKept ==
    /\ [](LearningTypeOK /\ SeenIsRecorded /\ NoDanglingPrior /\ FirstUseWasSent)
    /\ TurnHasHypothesis

(* What a learner's policy promises: learnt once, named as announced, under  *)
(* the stage in force, and fixed in evaluation.                              *)
PolicyKept == [](LearntOnce /\ RefNamesPolicy /\ StageInForce) /\ EvaluationFixed
=============================================================================
