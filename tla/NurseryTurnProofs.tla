-------------------------- MODULE NurseryTurnProofs --------------------------
(* Proofs about NurseryRun: which turns a run may play.                      *)
(*                                                                           *)
(* No run plays a turn beyond its budgets (BudgetsAreKept). The counters of  *)
(* a process that plays turns are those of the evidence (CountersFit); while *)
(* no call is under way they leave room for the next turn, as the stage was  *)
(* changed by the turn that took the last of it (StageFits), or by the       *)
(* resume of a pause that came between; and a run with a held-out turn was   *)
(* never paused (EarlyFits), so that a rebuilt one goes on with its held-out *)
(* turns.                                                                    *)
(*                                                                           *)
(* After a safety trigger no turn starts before the run was paused, and none *)
(* without the adapter (StopsAreHeld): in every state that leads to a turn   *)
(* the triggers are answered (StopsInv), unless the turn that raised one is  *)
(* still on its way to its pause or its abort (Escalates).                   *)
EXTENDS NurseryRunProofs

---------------------------------------------------------------------------
(* The invariant *)

Early == {"initializing", "running", "pausing", "paused", "resuming"}

\* The states in which the counters still matter.
Playing == Early \cup {"evaluating"}

\* A process that plays turns, and the room that the budgets leave for the next.
Steady == loaded /\ ~quarantined /\ ~mem.incomplete
Room(s, m) ==
    /\ s = "running" => m.training < Config.training
    /\ s = "evaluating" => m.evaluation < Config.evaluation

\* The counters are those of the evidence, unless they are about to be read back.
CountersFit ==
    Steady /\ state \in Playing /\ task["driver"].at \notin {"signers", "prefix"} =>
        mem.training = Trained(Config) /\ mem.evaluation = Count("evaluating")

\* The turn under way has room, if it is one that counts ...
PlayedFits ==
    task["driver"].at \in {"channel", "turn-record"} =>
        /\ Steady
        /\ task["driver"].of = None => state = task["driver"].phase /\ Room(state, mem)

\* ... and so has the next, as the stage was changed when the last one counted.
StageFits ==
    /\ Steady /\ At("driver", "idle") /\ ~At("operator", "begin-evaluation") /\ mem.repair = None
            => Room(state, mem)
    /\ \A c \in Callers : At(c, "begin-evaluation") => state = "running"
    /\ task["driver"].at \in {"initial-record", "checkpoint-zero"} => state = "initializing"

\* A run that has played a held-out turn was not paused, and is no more.
EarlyFits ==
    /\ Count("evaluating") > 0 => ~PausedByEvidence /\ (loaded => state \notin Early)
    /\ \A c \in Callers : task[c].at \in PauseLabels => state = "pausing"

BudgetInv ==
    /\ \E c \in Callers : At(c, "idle")
    /\ ~Registered => turns = <<>>
    /\ Registered /\ Config.evaluation > 0 =>
            WithinBudget /\ CountersFit /\ PlayedFits /\ StageFits /\ EarlyFits

\* A step of caller c that plays no turn, as this invariant sees it.
BudgetMoves(c) ==
    /\ loaded
    /\ \A d \in Callers : d # c => task'[d] = task[d] /\ At(d, "idle")
    /\ UNCHANGED <<metadata, turns, quarantined, loaded, mem>>
    /\ task'[c].at \notin {"channel", "turn-record", "initial-record"}
    /\ task'[c].at = "checkpoint-zero" => state' = state /\ At(c, "initial-record")
    /\ task[c].at \in {"signers", "prefix"} => task'[c].at = "prefix"
    /\ state' \in Playing => state \in Playing
    /\ state' \in Early => state \in Early
    /\ task'[c].at \in PauseLabels => state' = "pausing"
    /\ task'[c].at = "begin-evaluation" => state' = "running"
    /\ \/ journal' = journal
       \/ \E w \in JournalEntries \ PauseEntries : Write(w)
       \/ state = "pausing"
    /\ \/ ~AcceptsTurns(state')
       \/ c = "driver" /\ task'[c].at # "idle"
       \/ task'[c].at = "begin-evaluation"
       \/ state' = state /\ c = "operator" /\ ~At(c, "begin-evaluation")
       \/ Steady /\ mem.repair = None => Room(state', mem)

---------------------------------------------------------------------------
(* Steps that play no turn *)

\* A pause is in evidence only when it was written.
LEMMA PausedOnlyByPause ==
    ASSUME journal \in Seq(JournalEntries), NEW w \in JournalEntries \ PauseEntries, Write(w),
           PausedByEvidence'
    PROVE  PausedByEvidence
BY PausedMoves DEF JournalEntries

LEMMA BudgetMoved ==
    ASSUME IInv, BudgetInv, NEW c \in Callers, BudgetMoves(c)
    PROVE  BudgetInv'
<1>0. journal \in Seq(JournalEntries) /\ {"driver", "operator"} = Callers
  BY NormalTypes DEF IInv, Callers
<1>1. (\E d \in Callers : At(d, "idle"))' /\ (~Registered => turns = <<>>)'
  BY <1>0 DEF BudgetMoves, BudgetInv, At, Registered
<1> SUFFICES ASSUME Registered, Config.evaluation > 0
             PROVE  (WithinBudget /\ CountersFit /\ PlayedFits /\ StageFits /\ EarlyFits)'
  BY <1>1 DEF BudgetInv, BudgetMoves, Registered, Config
<1>2. WithinBudget /\ CountersFit /\ PlayedFits /\ StageFits /\ EarlyFits
  BY DEF BudgetInv
<1>3. /\ \A phase : Count(phase)' = Count(phase)
      /\ Trained(Config)' = Trained(Config) /\ Config' = Config /\ Steady' = Steady
      /\ \A s, m : Room(s, m)' = Room(s, m)
  BY DEF BudgetMoves, Count, Trained, Config, Steady, Room
<1>4. WithinBudget'
  BY <1>2, <1>3 DEF WithinBudget, BudgetMoves, Registered
<1>5. CountersFit'
  BY <1>0, <1>2, <1>3 DEF CountersFit, BudgetMoves
<1>6. PlayedFits'
  BY <1>0 DEF PlayedFits, BudgetMoves, At
<1>7. StageFits'
  <2>1. (Steady /\ At("driver", "idle") /\ ~At("operator", "begin-evaluation") /\ mem.repair = None
            => Room(state, mem))'
    <3> SUFFICES ASSUME Steady, task'["driver"].at = "idle",
                        task'["operator"].at # "begin-evaluation", mem.repair = None
                 PROVE  Room(state', mem)
      BY <1>3 DEF BudgetMoves, At, Room, Config
    <3>1. CASE ~AcceptsTurns(state')
      BY <3>1 DEF AcceptsTurns, Room
    <3>2. CASE state' = state /\ c = "operator" /\ ~At(c, "begin-evaluation")
      BY <1>0, <1>2, <3>2 DEF StageFits, BudgetMoves
    <3> QED BY <1>0, <3>1, <3>2 DEF BudgetMoves, At
  <2>2. (\A d \in Callers : At(d, "begin-evaluation") => state = "running")'
    BY DEF BudgetMoves, At
  <2>3. (task["driver"].at \in {"initial-record", "checkpoint-zero"} => state = "initializing")'
    BY <1>0, <1>2 DEF StageFits, BudgetMoves, At
  <2> QED BY <2>1, <2>2, <2>3 DEF StageFits
<1>8. EarlyFits'
  <2>1. Count("evaluating") > 0 => ~PausedByEvidence' /\ (loaded' => state' \notin Early)
    <3> SUFFICES ASSUME Count("evaluating") > 0
                 PROVE  ~PausedByEvidence' /\ state' \notin Early
      OBVIOUS
    <3>1. ~PausedByEvidence /\ state \notin Early
      BY <1>2 DEF EarlyFits, BudgetMoves
    <3>2. journal' = journal \/ \E w \in JournalEntries \ PauseEntries : Write(w)
      BY <3>1 DEF BudgetMoves, Early
    <3>3. ~PausedByEvidence'
      BY <1>0, <3>1, <3>2, PausedMoves, PausedOnlyByPause
    <3> QED BY <3>1, <3>3 DEF BudgetMoves
  <2>2. (\A d \in Callers : task[d].at \in PauseLabels => state = "pausing")'
    BY DEF BudgetMoves, At, PauseLabels
  <2> QED BY <1>3, <2>1, <2>2 DEF EarlyFits
<1> QED BY <1>4, <1>5, <1>6, <1>7, <1>8

\* A stage transition leaves room for the next turn, or ends the phase.
LEMMA StageRoom ==
    ASSUME IInv, Registered, NEW c \in Callers, NEW s \in RunStates, ApplyStageTransitions(c, s, mem)
    PROVE  /\ mem' = mem
           /\ \A d \in Callers : d # c => task'[d] = task[d]
           /\ \/ task'[c].at = "begin-evaluation" /\ state' = "running" /\ s = "running"
              \/ task'[c].at = "idle" /\ state' = "sealing" /\ s = "evaluating"
              \/ task'[c].at = "idle" /\ state' = s /\ (mem.repair = None => Room(s, mem))
<1>1. /\ mem.training \in Nat /\ mem.evaluation \in Nat
      /\ Config.training \in Nat /\ Config.evaluation \in Nat
  BY NormalTypes DEF IInv, MemType, ConfigurationType, Registered
<1>2. /\ \A label : Go(c, label) => task'[c].at = label
      /\ Return(c) => task'[c].at = "idle"
      /\ \A d \in Callers : d # c => task'[d] = task[d]
  BY StageAt, GoAt, ReturnAt
<1>3. CASE s = "running" /\ TrainingDone(mem) /\ state' = s /\ Go(c, "begin-evaluation")
  BY <1>2, <1>3 DEF ApplyStageTransitions
<1>4. CASE s = "evaluating" /\ EvaluationDone(mem) /\ state' = "sealing" /\ Return(c)
  BY <1>2, <1>4 DEF ApplyStageTransitions
<1>5. CASE /\ s = "running" => ~TrainingDone(mem)
           /\ s = "evaluating" => ~EvaluationDone(mem)
           /\ state' = s /\ Return(c)
  <2>1. mem.repair = None => Room(s, mem)
    BY <1>1, <1>5 DEF TrainingDone, EvaluationDone, Room
  <2> QED BY <1>2, <1>5, <2>1 DEF ApplyStageTransitions
<1> QED BY <1>3, <1>4, <1>5 DEF ApplyStageTransitions

\* The places a call has to be at, or goes to, for this invariant.
LEMMA StageMoves ==
    ASSUME IInv, BudgetInv, Registered, NEW c \in Callers, NEW s \in RunStates,
           ApplyStageTransitions(c, s, mem), loaded,
           \A d \in Callers : d # c => At(d, "idle"),
           task[c].at \notin {"signers", "prefix"},
           s = state \/ (s = "running" /\ state \in {"initializing", "resuming"}),
           UNCHANGED <<metadata, turns, quarantined, loaded>>,
           journal' = journal \/ \E w \in JournalEntries \ PauseEntries : Write(w)
    PROVE  BudgetMoves(c)
<1>1. /\ mem' = mem
      /\ \A d \in Callers : d # c => task'[d] = task[d]
      /\ \/ task'[c].at = "begin-evaluation" /\ state' = "running" /\ s = "running"
         \/ task'[c].at = "idle" /\ state' = "sealing" /\ s = "evaluating"
         \/ task'[c].at = "idle" /\ state' = s /\ (mem.repair = None => Room(s, mem))
  BY StageRoom
<1>2. /\ task'[c].at \notin {"channel", "turn-record", "initial-record", "checkpoint-zero"} \cup PauseLabels
      /\ task'[c].at = "begin-evaluation" => state' = "running"
  BY <1>1 DEF PauseLabels
<1>3. (state' \in Playing => state \in Playing) /\ (state' \in Early => state \in Early)
  BY <1>1 DEF Closing, Early, Playing
<1>4. \/ ~AcceptsTurns(state')
      \/ task'[c].at = "begin-evaluation"
      \/ Steady /\ mem.repair = None => Room(state', mem)
  BY <1>1 DEF AcceptsTurns
<1> QED BY <1>1, <1>2, <1>3, <1>4 DEF BudgetMoves

\* A step that changes no state, on the way to another await or of a note.
LEMMA StayMoves ==
    ASSUME IInv, NEW c \in Callers, NEW label, Go(c, label) \/ (Return(c) /\ label = "idle"),
           loaded, \A d \in Callers : d # c => At(d, "idle"),
           UNCHANGED <<metadata, turns, quarantined, loaded, mem, state>>,
           label \notin {"channel", "turn-record", "initial-record", "begin-evaluation"} \cup PauseLabels,
           label = "checkpoint-zero" => At(c, "initial-record"),
           task[c].at \in {"signers", "prefix"} => label = "prefix",
           \/ journal' = journal
           \/ \E w \in JournalEntries \ PauseEntries : Write(w),
           \/ ~AcceptsTurns(state)
           \/ c = "driver" /\ label # "idle"
           \/ c = "operator" /\ ~At(c, "begin-evaluation")
           \/ quarantined
    PROVE  BudgetMoves(c)
<1>1. task'[c].at = label /\ \A d \in Callers : d # c => task'[d] = task[d]
  BY GoAt, ReturnAt
<1> QED BY <1>1 DEF BudgetMoves, Steady

LEMMA TurnBudget ==
    ASSUME IInv, BudgetInv, TipInv, ScheduleRepair \/ EventBoundaries \/ PauseNotAvailable
    PROVE  BudgetMoves("driver")
<1>0. /\ "driver" \in Callers /\ state \in RunStates
      /\ task["driver"].at \in {"repair-turn", "boundaries", "pause-not-available"}
  BY NormalTypes DEF IInv, Callers, ScheduleRepair, EventBoundaries, PauseNotAvailable, At
<1>1. loaded /\ Registered /\ \A d \in Callers : d # "driver" => At(d, "idle")
  BY <1>0, Busy, OneBusy DEF IInv, At
<1>2. /\ UNCHANGED <<metadata, turns, quarantined, loaded>>
      /\ \/ journal' = journal
         \/ \E w \in JournalEntries \ PauseEntries : Write(w)
  BY DEF ScheduleRepair, EventBoundaries, PauseNotAvailable, JournalEntries, PauseEntries, FinalReasons
<1>3. CASE ScheduleRepair
  BY <1>0, <1>1, <1>2, <1>3, StayMoves DEF ScheduleRepair, PauseLabels
<1>4. CASE ApplyStageTransitions("driver", state, mem)
  BY <1>0, <1>1, <1>2, <1>4, StageMoves
<1>5. CASE EventBoundaries /\ state' = "pausing" /\ CanApply(state, "pause")
           /\ Go("driver", "pause-checkpoint") /\ mem' = mem
  <2>1. state = "running"
    BY <1>5, Applicable
  <2>2. task'["driver"].at = "pause-checkpoint" /\ \A d \in Callers : d # "driver" => task'[d] = task[d]
    BY <1>0, <1>5, GoAt
  <2> QED BY <1>0, <1>1, <1>2, <1>5, <2>1, <2>2 DEF BudgetMoves, Early, Playing, Closing
<1>6. CASE EventBoundaries /\ Go("driver", "pause-not-available") /\ UNCHANGED <<state, mem>>
  BY <1>0, <1>1, <1>2, <1>6, StayMoves DEF PauseLabels
<1>7. CASE PauseNotAvailable /\ CanApply(state, "abort") /\ state' = "aborting"
           /\ Go("driver", "abort") /\ mem' = mem
  <2>1. task'["driver"].at = "abort" /\ \A d \in Callers : d # "driver" => task'[d] = task[d]
    BY <1>0, <1>7, GoAt
  <2> QED BY <1>0, <1>1, <1>2, <1>7, <2>1 DEF BudgetMoves, Early, Playing, Closing, PauseLabels, AcceptsTurns
<1> QED BY <1>3, <1>4, <1>5, <1>6, <1>7 DEF EventBoundaries, PauseNotAvailable

LEMMA RecoveryBudget ==
    ASSUME IInv, BudgetInv, TipInv, CheckSigners \/ RecoveryEvent \/ RecoveryCheckpoint,
           "signers" \notin Mishaps
    PROVE  BudgetMoves("driver")
<1>0. /\ "driver" \in Callers /\ state \in RunStates
      /\ task["driver"].at \in {"signers", "recovery", "recovery-checkpoint"}
  BY NormalTypes DEF IInv, Callers, CheckSigners, RecoveryEvent, RecoveryCheckpoint, At
<1>1. loaded /\ Registered /\ \A d \in Callers : d # "driver" => At(d, "idle")
  BY <1>0, Busy, OneBusy DEF IInv, At
<1>2. /\ UNCHANGED <<metadata, turns, quarantined, loaded>>
      /\ \/ journal' = journal
         \/ \E w \in JournalEntries \ PauseEntries : Write(w)
  BY DEF CheckSigners, RecoveryEvent, RecoveryCheckpoint, JournalEntries, PauseEntries, FinalReasons
<1>3. CASE CheckSigners
  <2>1. Go("driver", "prefix") /\ UNCHANGED <<state, mem>>
    BY <1>3 DEF CheckSigners, Mishap
  <2> QED BY <1>0, <1>1, <1>2, <2>1, StayMoves DEF PauseLabels
<1>4. CASE RecoveryEvent
  <2>1. At("driver", "recovery") /\ Go("driver", "recovery-checkpoint") /\ UNCHANGED <<state, mem>>
    BY <1>4 DEF RecoveryEvent
  <2> QED BY <1>0, <1>1, <1>2, <2>1, StayMoves DEF PauseLabels, At
<1>5. CASE RecoveryCheckpoint
  <2>1. At("driver", "recovery-checkpoint") /\ ApplyStageTransitions("driver", state, mem)
    BY <1>5 DEF RecoveryCheckpoint
  <2> QED BY <1>0, <1>1, <1>2, <2>1, StageMoves DEF At
<1> QED BY <1>3, <1>4, <1>5

LEMMA InterventionBudget ==
    ASSUME IInv, BudgetInv, TipInv, Intervention, Config.evaluation > 0
    PROVE  BudgetMoves("operator")
<1>0. /\ "operator" \in Callers /\ state \in RunStates
      /\ task["operator"].at \notin {"idle", "signers", "prefix", "begin-evaluation"}
  BY NormalTypes DEF IInv, Callers, Intervention, PauseEvent, ResumePrefix, ResumeEvent,
     ResumeCheckpoint, AnnotateEvent, AnnotateCheck, AnnotateCheckpoint, AnnotateRecord,
     RetryEvent, AbandonEvent, AbandonRecord, At
<1>1. loaded /\ Registered /\ \A d \in Callers : d # "operator" => At(d, "idle")
  BY <1>0, Busy, OneBusy DEF IInv, At
<1>2. UNCHANGED <<metadata, turns, quarantined, loaded>>
  BY DEF Intervention, PauseEvent, ResumePrefix, ResumeEvent, ResumeCheckpoint, AnnotateEvent,
     AnnotateCheck, AnnotateCheckpoint, AnnotateRecord, RetryEvent, AbandonEvent, AbandonRecord,
     evidence
<1>3. ~PauseEvent => journal' = journal \/ \E w \in JournalEntries \ PauseEntries : Write(w)
  BY DEF Intervention, ResumePrefix, ResumeEvent, ResumeCheckpoint, AnnotateEvent,
     AnnotateCheck, AnnotateCheckpoint, AnnotateRecord, RetryEvent, AbandonEvent, AbandonRecord,
     evidence, JournalEntries, PauseEntries, FinalReasons
<1>4. CASE PauseEvent
  <2>1. state = "pausing"
    BY <1>0, <1>1, <1>4 DEF BudgetInv, EarlyFits, PauseEvent, At, PauseLabels
  <2>2. /\ task'["operator"].at = "pause-checkpoint"
        /\ \A d \in Callers : d # "operator" => task'[d] = task[d]
        /\ state' = state /\ mem' = mem
    BY <1>0, <1>4, GoAt DEF PauseEvent
  <2> QED BY <1>0, <1>1, <1>2, <2>1, <2>2 DEF BudgetMoves, AcceptsTurns
<1>5. CASE ResumePrefix /\ ApplyAndReturn("operator", "fork-detected")
  <2>1. state \in {"resuming"} \cup Closing /\ mem' = mem
    BY <1>0, <1>5 DEF ResumePrefix, IInv, CallsInv, CallOf, At, ResumeLabels
  <2>2. state' = state \/ state' = "forked-invalid"
    BY <1>0, <1>5, ApplyEffect, Arrivals
  <2>3. task'["operator"].at = "idle" /\ \A d \in Callers : d # "operator" => task'[d] = task[d]
    BY <1>0, <1>5, ApplyAt
  <2>4. ~PauseEvent
    BY <1>5 DEF ResumePrefix, PauseEvent, At
  <2> QED BY <1>0, <1>1, <1>2, <1>3, <2>1, <2>2, <2>3, <2>4
          DEF BudgetMoves, AcceptsTurns, Closing, Early, Playing, PauseLabels
<1>6. CASE ResumeCheckpoint /\ CanApply(state, "resume-complete")
  <2>1. state = "resuming" /\ ApplyStageTransitions("operator", "running", mem) /\ "running" \in RunStates
    BY <1>6, Applicable, TransitionStates DEF ResumeCheckpoint
  <2>2. ~PauseEvent
    BY <1>6 DEF ResumeCheckpoint, PauseEvent, At
  <2> QED BY <1>0, <1>1, <1>2, <1>3, <2>1, <2>2, StageMoves
<1>7. CASE ~PauseEvent /\ ~(ResumePrefix /\ forked) /\ ~(ResumeCheckpoint /\ CanApply(state, "resume-complete"))
  <2>1. PICK label \in {"resume", "resume-checkpoint", "idle", "annotate-check", "annotate-checkpoint",
                        "annotate-record", "seal-check", "abandon-record"} :
          Go("operator", label) \/ (Return("operator") /\ label = "idle")
    BY <1>7 DEF Intervention, ResumePrefix, ResumeEvent, ResumeCheckpoint, AnnotateEvent,
       AnnotateCheck, AnnotateCheckpoint, AnnotateRecord, RetryEvent, AbandonEvent, AbandonRecord
  <2>2. UNCHANGED <<state, mem>>
    BY <1>7 DEF Intervention, ResumePrefix, ResumeEvent, ResumeCheckpoint, AnnotateEvent,
       AnnotateCheck, AnnotateCheckpoint, AnnotateRecord, RetryEvent, AbandonEvent, AbandonRecord
  <2>3. label \notin {"channel", "turn-record", "initial-record", "begin-evaluation", "checkpoint-zero",
                      "prefix"} \cup PauseLabels
    BY DEF PauseLabels
  <2> QED BY <1>0, <1>1, <1>2, <1>3, <1>7, <2>1, <2>2, <2>3, StayMoves DEF At
<1> QED BY <1>4, <1>5, <1>6, <1>7 DEF ResumePrefix, ResumeCheckpoint

LEMMA OperatorBudget ==
    ASSUME IInv, BudgetInv, ~Overlap, Operator
    PROVE  BudgetMoves("operator")
<1>0. "operator" \in Callers /\ {"driver", "operator"} = Callers /\ At("operator", "idle")
      /\ At("driver", "idle") /\ loaded
  BY DEF Callers, Operator, StartPause, StartResume, StartAnnotate, StartAbort, StartRetrySeal,
     StartAbandonSeal, OperatorCalls
<1>1. UNCHANGED <<metadata, turns, quarantined, loaded, mem, journal>>
  BY DEF Operator, StartPause, StartResume, StartAnnotate, StartAbort, StartRetrySeal,
     StartAbandonSeal, OperatorCalls, evidence
<1>2. \A label : Go("operator", label) => task'["operator"].at = label /\ task'["driver"] = task["driver"]
  BY <1>0, GoAt
<1>3. CASE StartPause
  BY <1>0, <1>1, <1>2, <1>3, Applicable DEF StartPause, BudgetMoves, At, Closing, Early, Playing, AcceptsTurns
<1>4. CASE StartResume
  BY <1>0, <1>1, <1>2, <1>4, Applicable DEF StartResume, BudgetMoves, At, Closing, Early, Playing, AcceptsTurns,
     PauseLabels
<1>5. CASE StartAnnotate
  BY <1>0, <1>1, <1>2, <1>5 DEF StartAnnotate, BudgetMoves, At, PauseLabels
<1>6. CASE StartAbort \/ StartRetrySeal \/ StartAbandonSeal
  BY <1>0, <1>1, <1>2, <1>6 DEF StartAbort, StartRetrySeal, StartAbandonSeal, BudgetMoves, At, Closing,
     Early, Playing, AcceptsTurns, PauseLabels
<1> QED BY <1>3, <1>4, <1>5, <1>6 DEF Operator

\* Where a seal is, and where it goes.
LEMMA SealPlaces ==
    ASSUME IInv, NEW c \in Callers, Seal(c)
    PROVE  /\ task[c].at \in {"seal-check", "seal-a", "seal-b", "final-checkpoint", "anchor",
                "blocked-record", "pending-record", "verify", "verdict-record", "abort-decision"}
           /\ task'[c].at \in {"idle", "seal-a", "seal-b", "final-checkpoint", "anchor", "abort-record",
                "blocked-record", "pending-record", "verify", "verdict-record", "abort-decision"}
           /\ state \in Closing /\ state' \in Closing
           /\ UNCHANGED <<metadata, turns, quarantined, loaded, mem>>
           /\ \/ journal' = journal
              \/ \E w \in JournalEntries \ (PauseEntries \cup {"trigger", "adapter-quarantined"}) : Write(w)
<1>0. task[c].at \in {"seal-check", "seal-a", "seal-b", "final-checkpoint", "anchor", "blocked-record",
                      "pending-record", "verify", "verdict-record", "abort-decision"}
  BY DEF Seal, SealCheck, RunSealedEvent, CreateFinalCheckpoint, Anchor, BlockedRecord,
     PendingRecord, Verify, VerdictRecord, AbortDecision, At
<1>1. task \in [Callers -> TaskType]
  BY NormalTypes DEF IInv
<1>2. /\ UNCHANGED <<metadata, turns, quarantined, loaded, mem>>
      /\ \/ journal' = journal
         \/ \E w \in JournalEntries \ (PauseEntries \cup {"trigger", "adapter-quarantined"}) : Write(w)
  BY DEF Seal, SealCheck, RunSealedEvent, CreateFinalCheckpoint, Anchor, BlockedRecord,
     PendingRecord, Verify, VerdictRecord, AbortDecision, PolicyCheckpoint, JournalEntries,
     FinalReasons, PauseEntries
<1>3. state \in Closing
  BY <1>0 DEF IInv, CallsInv, CallOf, Seals, Aborts, WritingLabels, Closing, SealStates
<1>4. state' \in Closing
  BY <1>3 DEF Seal, SealCheck, RunSealedEvent, CreateFinalCheckpoint, Anchor, BlockedRecord,
     PendingRecord, Verify, VerdictRecord, AbortDecision, Closing
<1>5. task'[c].at \in {"idle", "seal-a", "seal-b", "final-checkpoint", "anchor", "abort-record",
                      "blocked-record", "pending-record", "verify", "verdict-record", "abort-decision"}
  <2>1. CASE SealCheck(c) \/ Anchor(c) \/ Verify(c)
    <3>1. CASE SealCheck(c)
      BY <1>1, <3>1, WhereItGoes DEF SealCheck, TaskType
    <3>2. CASE Anchor(c)
      BY <1>1, <3>2 DEF Anchor, TaskType, Idle
    <3>3. CASE Verify(c)
      BY <1>1, <3>3 DEF Verify, TaskType
    <3> QED BY <2>1, <3>1, <3>2, <3>3
  <2>2. CASE RunSealedEvent(c) \/ CreateFinalCheckpoint(c) \/ BlockedRecord(c) \/ PendingRecord(c)
             \/ VerdictRecord(c) \/ AbortDecision(c)
    BY <2>2, WhereItGoes DEF RunSealedEvent, CreateFinalCheckpoint, BlockedRecord, PendingRecord,
       VerdictRecord, AbortDecision
  <2> QED BY <2>1, <2>2 DEF Seal
<1> QED BY <1>0, <1>2, <1>3, <1>4, <1>5

LEMMA SealBudget ==
    ASSUME IInv, BudgetInv, TipInv, NEW c \in Callers, Seal(c)
    PROVE  BudgetMoves(c)
<1>1. ~At(c, "idle")
  BY SealPlaces DEF At
<1>2. /\ loaded /\ (\A d \in Callers : d # c => At(d, "idle"))
      /\ \A d \in Callers : d # c => task'[d] = task[d]
  BY <1>1, Busy, OneBusy, SealPause DEF IInv, PauseMoves
<1> QED BY <1>1, <1>2, SealPlaces DEF BudgetMoves, Closing, Early, Playing, AcceptsTurns, PauseLabels, At

LEMMA CallBudget ==
    ASSUME IInv, BudgetInv, TipInv, Registered, Config.evaluation > 0, NEW c \in Callers,
           \/ c = "driver" /\ (InitialRecord \/ CheckpointZero)
           \/ BeginEvaluation(c) \/ PauseCheckpoint(c) \/ AbortEvent(c) \/ AbortRecord(c)
           \/ GatewayRefuses(c)
    PROVE  BudgetMoves(c)
<1>0. ~At(c, "idle") /\ task[c].at \notin {"signers", "prefix"} /\ state \in RunStates
  BY NormalTypes DEF InitialRecord, CheckpointZero, BeginEvaluation, PauseCheckpoint, AbortEvent,
     AbortRecord, GatewayRefuses, ThroughGateway, AtPolicyCheckpoint, At, IInv
<1>1. loaded /\ \A d \in Callers : d # c => At(d, "idle")
  BY <1>0, Busy, OneBusy DEF IInv
<1>2. /\ UNCHANGED <<metadata, turns, quarantined, loaded, mem>>
      /\ \A d \in Callers : d # c => task'[d] = task[d]
  <2>1. UNCHANGED <<metadata, turns, quarantined, loaded, mem>>
    BY DEF InitialRecord, CheckpointZero, ApplyStageTransitions, BeginEvaluation, PauseCheckpoint,
       AbortEvent, AbortRecord, GatewayRefuses, evidence
  <2>2. Proceed(c)
    BY DEF Proceed
  <2> QED BY <2>1, <2>2, ProceedPause DEF PauseMoves
<1>3. ~PauseCheckpoint(c) => journal' = journal \/ \E w \in JournalEntries \ PauseEntries : Write(w)
  BY DEF InitialRecord, CheckpointZero, BeginEvaluation, AbortEvent, AbortRecord, GatewayRefuses,
     evidence, PolicyCheckpoint, JournalEntries, FinalReasons, PauseEntries
<1>4. StageFits /\ CountersFit /\ EarlyFits
  BY DEF BudgetInv
<1>5. CASE c = "driver" /\ InitialRecord
  <2>1. Go(c, "checkpoint-zero") /\ state' = state /\ At(c, "initial-record") /\ ~PauseCheckpoint(c)
    BY <1>5 DEF InitialRecord, PauseCheckpoint, At
  <2> QED BY <1>0, <1>1, <1>2, <1>3, <1>5, <2>1, StayMoves DEF PauseLabels
<1>6. CASE c = "driver" /\ CheckpointZero
  <2>1. state = "initializing" /\ ~PauseCheckpoint(c)
    BY <1>4, <1>6 DEF CheckpointZero, StageFits, At, PauseCheckpoint
  <2>2. ApplyStageTransitions(c, "running", mem) /\ "running" \in RunStates
    BY <1>6, <2>1, Applicable, TransitionStates DEF CheckpointZero
  <2> QED BY <1>0, <1>1, <1>2, <1>3, <2>1, <2>2, StageMoves
<1>7. CASE BeginEvaluation(c)
  <2>1. state = "running" /\ ~PauseCheckpoint(c)
    BY <1>4, <1>7 DEF BeginEvaluation, StageFits, At, PauseCheckpoint
  <2>2. state' = "evaluating"
    BY <1>7, <2>1, Applicable, Arrivals DEF BeginEvaluation, ApplyAndReturn
  <2>3. task'[c].at = "idle"
    BY <1>7, ApplyAt DEF BeginEvaluation
  <2>4. Steady => Room(state', mem)
    <3>1. Count("evaluating") \in Nat /\ ~(Count("evaluating") > 0)
      BY <1>1, <1>4, <2>1, CountIsNat, NormalTypes DEF EarlyFits, Early, Playing, IInv
    <3>2. task["driver"].at \notin {"signers", "prefix"}
      BY <1>0, <1>1 DEF At, Callers
    <3>3. Steady => mem.evaluation = Count("evaluating")
      BY <1>4, <2>1, <3>2 DEF CountersFit, Playing, Early
    <3> QED BY <2>2, <3>1, <3>3 DEF Room
  <2> QED BY <1>0, <1>1, <1>2, <1>3, <2>1, <2>2, <2>3, <2>4
          DEF BudgetMoves, Closing, Early, Playing, PauseLabels
<1>8. CASE PauseCheckpoint(c)
  <2>1. state = "pausing"
    BY <1>4, <1>8 DEF PauseCheckpoint, EarlyFits, At, PauseLabels
  <2>2. state' = "paused"
    BY <1>8, <2>1, Applicable, Arrivals DEF PauseCheckpoint, ApplyAndReturn
  <2>3. task'[c].at = "idle"
    BY <1>8, ApplyAt DEF PauseCheckpoint
  <2> QED BY <1>0, <1>1, <1>2, <2>1, <2>2, <2>3 DEF BudgetMoves, Closing, Early, Playing, PauseLabels, AcceptsTurns
<1>9. CASE AbortEvent(c)
  <2>1. state \in Closing /\ state' = state /\ ~PauseCheckpoint(c)
    BY <1>9 DEF AbortEvent, IInv, CallsInv, CallOf, Aborts, At, Closing, PauseCheckpoint
  <2>2. task'[c].at = "seal-a"
    BY <1>9, NormalTypes DEF AbortEvent, IInv, TaskType
  <2> QED BY <1>0, <1>1, <1>2, <1>3, <2>1, <2>2 DEF BudgetMoves, Closing, Early, Playing, PauseLabels, AcceptsTurns
<1>10. CASE AbortRecord(c)
  <2>1. state \in Closing /\ ~PauseCheckpoint(c)
    BY <1>10 DEF AbortRecord, IInv, CallsInv, CallOf, Aborts, At, Closing, PauseCheckpoint
  <2>2. state' \in Closing
    <3>1. \E event \in {"seal-blocked", "abort-complete"} : ApplyAndReturn(c, event)
      BY <1>10 DEF AbortRecord
    <3> QED BY <1>0, <2>1, <3>1, ApplyEffect, Arrivals DEF Closing
  <2>3. task'[c].at = "idle"
    BY <1>10, ApplyAt DEF AbortRecord
  <2> QED BY <1>0, <1>1, <1>2, <1>3, <2>1, <2>2, <2>3 DEF BudgetMoves, Closing, Early, Playing, PauseLabels, AcceptsTurns
<1>11. CASE GatewayRefuses(c)
  <2>1. Return(c) /\ state' = state /\ journal' = journal /\ quarantined
    BY <1>11 DEF GatewayRefuses, evidence
  <2> QED BY <1>0, <1>1, <1>2, <2>1, StayMoves DEF PauseLabels
<1> QED BY <1>5, <1>6, <1>7, <1>8, <1>9, <1>10, <1>11

---------------------------------------------------------------------------
(* Turns, recovery, crashes *)

\* One turn record more.
LEMMA CountAppend ==
    ASSUME NEW CONSTANT phase, turns \in Seq(TurnType), NEW t \in TurnType, turns' = Append(turns, t)
    PROVE  /\ Count(phase) \in Nat
           /\ t.phase = phase /\ t.of = None => Count(phase)' = Count(phase) + 1
           /\ ~(t.phase = phase /\ t.of = None) => Count(phase)' = Count(phase)
<1> DEFINE S == {i \in DOMAIN turns : turns[i].phase = phase /\ turns[i].of = None}
           U == {i \in DOMAIN turns' : turns'[i].phase = phase /\ turns'[i].of = None}
           n == Len(turns)
<1>1. /\ n \in Nat /\ DOMAIN turns = 1..n /\ DOMAIN turns' = 1..(n + 1)
      /\ \A i \in 1..n : turns'[i] = turns[i]
      /\ turns'[n + 1] = t
  OBVIOUS
<1>2. IsFiniteSet(S) /\ n + 1 \notin S
  <2>1. IsFiniteSet(1..n)
    BY <1>1, FS_Interval
  <2> QED BY <1>1, <2>1, FS_Subset
<1>3. Count(phase) = Cardinality(S) /\ Count(phase)' = Cardinality(U) /\ Count(phase) \in Nat
  BY <1>2, FS_CardinalityType DEF Count
<1>4. t.phase = phase /\ t.of = None => U = S \cup {n + 1}
  BY <1>1
<1>5. ~(t.phase = phase /\ t.of = None) => U = S
  BY <1>1
<1> HIDE DEF S, U, n
<1>6. Cardinality(S \cup {n + 1}) = Cardinality(S) + 1
  BY <1>2, FS_AddElement
<1> QED BY <1>3, <1>4, <1>5, <1>6

LEMMA ExecuteTurnBudget ==
    ASSUME IInv, BudgetInv, TipInv, ExecuteTurn
    PROVE  BudgetInv'
<1>0. /\ "driver" \in Callers /\ {"driver", "operator"} = Callers /\ At("driver", "channel")
      /\ mem \in MemType /\ task \in [Callers -> TaskType] /\ journal \in Seq(JournalEntries)
  BY NormalTypes DEF Callers, ExecuteTurn, IInv
<1>1. loaded /\ Registered /\ At("operator", "idle")
  BY <1>0, Busy, OneBusy DEF IInv, At
<1>2. PICK trigger \in BOOLEAN :
        task' = [task EXCEPT !["driver"].at = "turn-record", !["driver"].trigger = trigger]
  BY DEF ExecuteTurn
<1>3. /\ task'["driver"].at = "turn-record" /\ task'["operator"] = task["operator"]
      /\ task'["driver"].of = task["driver"].of /\ task'["driver"].phase = task["driver"].phase
  BY <1>0, <1>2 DEF TaskType
<1>4. /\ mem'.training = mem.training /\ mem'.evaluation = mem.evaluation
      /\ mem'.repair = mem.repair /\ mem'.incomplete = mem.incomplete
  <2>1. mem' = mem \/ mem' = [mem EXCEPT !.adapter = FALSE]
    BY DEF ExecuteTurn
  <2> QED BY <1>0, <2>1 DEF MemType
<1>5. /\ UNCHANGED <<metadata, turns, quarantined, loaded, state>>
      /\ journal' = journal \/ \E w \in JournalEntries \ PauseEntries : Write(w)
  BY DEF ExecuteTurn, JournalEntries, PauseEntries, FinalReasons
<1>6. PausedByEvidence' => PausedByEvidence
  BY <1>0, <1>5, PausedMoves, PausedOnlyByPause
<1>7. /\ \A phase : Count(phase)' = Count(phase)
      /\ Trained(Config)' = Trained(Config) /\ Config' = Config /\ Steady' = Steady
      /\ Room(state', mem') = Room(state, mem) /\ Room(state, mem)' = Room(state, mem)
  BY <1>4, <1>5 DEF Count, Trained, Config, Steady, Room
<1> SUFFICES ASSUME Config.evaluation > 0
             PROVE  (WithinBudget /\ CountersFit /\ PlayedFits /\ StageFits /\ EarlyFits)'
  BY <1>0, <1>1, <1>3, <1>5, <1>7 DEF BudgetInv, Registered, At
<1>8. WithinBudget /\ CountersFit /\ PlayedFits /\ StageFits /\ EarlyFits
  BY <1>1 DEF BudgetInv
<1>9. WithinBudget'
  BY <1>7, <1>8, <1>1 DEF WithinBudget, Registered
<1>10. CountersFit'
  BY <1>0, <1>4, <1>5, <1>7, <1>8 DEF CountersFit, At
<1>11. PlayedFits'
  BY <1>0, <1>3, <1>5, <1>7, <1>8 DEF PlayedFits, At
<1>12. StageFits'
  BY <1>0, <1>1, <1>3 DEF StageFits, At
<1>13. EarlyFits'
  BY <1>0, <1>1, <1>3, <1>5, <1>6, <1>7, <1>8 DEF EarlyFits, At, PauseLabels
<1> QED BY <1>9, <1>10, <1>11, <1>12, <1>13

\* What the record of a turn does to the counters.
LEMMA CountedFields ==
    ASSUME IInv, AppendTurnRecord
    PROVE  LET t == task["driver"] IN
           /\ mem'.training = IF t.of = None /\ t.phase = "running"
                              THEN mem.training + 1 ELSE mem.training
           /\ mem'.evaluation = IF t.of = None /\ t.phase = "evaluating"
                                THEN mem.evaluation + 1 ELSE mem.evaluation
           /\ mem'.incomplete = mem.incomplete
<1>0. "driver" \in Callers /\ mem \in MemType /\ task["driver"] \in TaskType
  BY NormalTypes DEF Callers, IInv
<1>1. PICK t \in TaskType : t = task["driver"]
  BY <1>0
<1>2. PICK x : x = IF t.of = None /\ t.phase = "running" THEN mem.training + 1 ELSE mem.training
  OBVIOUS
<1>3. PICK y : y = IF t.of = None /\ t.phase = "evaluating" THEN mem.evaluation + 1 ELSE mem.evaluation
  OBVIOUS
<1>4. PICK r : r = IF t.of = None THEN mem.repair ELSE None
  OBVIOUS
<1>5. Counted(t) = [mem EXCEPT !.turn = t.turn + 1, !.repair = r, !.training = x, !.evaluation = y]
  BY <1>2, <1>3, <1>4 DEF Counted
<1>6. Counted(t) \in MemType
  BY CountedType DEF IInv
<1>7. PICK m \in MemType : m = Counted(t)
  BY <1>6
<1>8. m.training = x /\ m.evaluation = y /\ m.incomplete = mem.incomplete
  BY <1>0, <1>5, <1>7 DEF MemType
<1>9. mem' = m \/ mem' = [m EXCEPT !.repair = t.turn, !.phase = t.phase]
  BY <1>1, <1>7 DEF AppendTurnRecord
<1>10. mem'.training = m.training /\ mem'.evaluation = m.evaluation /\ mem'.incomplete = m.incomplete
  BY <1>7, <1>9 DEF MemType
<1> QED BY <1>1, <1>2, <1>3, <1>8, <1>10

LEMMA AppendTurnRecordBudget ==
    ASSUME IInv, PauseInv, BudgetInv, TipInv, AppendTurnRecord
    PROVE  BudgetInv'
<1>0. /\ "driver" \in Callers /\ {"driver", "operator"} = Callers /\ At("driver", "turn-record")
      /\ mem \in MemType /\ task \in [Callers -> TaskType] /\ turns \in Seq(TurnType)
  BY NormalTypes DEF Callers, AppendTurnRecord, IInv
<1>1. loaded /\ Registered /\ At("operator", "idle")
  BY <1>0, Busy, OneBusy DEF IInv, At
<1>2. PICK t \in TaskType : t = task["driver"]
  BY <1>0
<1>3. /\ task'["driver"].at \in {"boundaries", "repair-turn"}
      /\ task'["operator"] = task["operator"]
  BY <1>0, GoAt DEF AppendTurnRecord
<1>4. /\ mem'.training = IF t.of = None /\ t.phase = "running"
                         THEN mem.training + 1 ELSE mem.training
      /\ mem'.evaluation = IF t.of = None /\ t.phase = "evaluating"
                           THEN mem.evaluation + 1 ELSE mem.evaluation
      /\ mem'.incomplete = mem.incomplete
  BY <1>2, CountedFields
<1>5. UNCHANGED <<metadata, quarantined, loaded, state, journal>>
  BY DEF AppendTurnRecord
<1> SUFFICES ASSUME Config.evaluation > 0
             PROVE  (WithinBudget /\ CountersFit /\ PlayedFits /\ StageFits /\ EarlyFits)'
  BY <1>0, <1>1, <1>3, <1>5 DEF BudgetInv, Registered, At, Config
<1>6. WithinBudget /\ CountersFit /\ PlayedFits /\ StageFits /\ EarlyFits
  BY <1>1 DEF BudgetInv
<1>7. PICK u \in TurnType : u = TurnRecord(t) /\ u.phase = t.phase /\ u.of = t.of
  <2>1. [turn |-> t.turn, phase |-> t.phase, of |-> t.of] \in TurnType
    BY <1>2 DEF TurnType, TaskType
  <2> QED BY <2>1 DEF TurnRecord
<1>8. turns' = Append(turns, u)
  BY <1>2, <1>7 DEF AppendTurnRecord
<1>9. PICK a \in Nat, e \in Nat : a = Count("running") /\ e = Count("evaluating")
  BY <1>0, CountIsNat
<1>10. PICK a1 \in Nat, e1 \in Nat :
        /\ a1 = Count("running")' /\ a1 = IF t.of = None /\ t.phase = "running" THEN a + 1 ELSE a
        /\ e1 = Count("evaluating")' /\ e1 = IF t.of = None /\ t.phase = "evaluating" THEN e + 1 ELSE e
  <2>1. Count("running")' = IF t.of = None /\ t.phase = "running" THEN a + 1 ELSE a
    BY <1>0, <1>7, <1>8, <1>9, CountAppend
  <2>2. Count("evaluating")' = IF t.of = None /\ t.phase = "evaluating" THEN e + 1 ELSE e
    BY <1>0, <1>7, <1>8, <1>9, CountAppend
  <2> QED BY <1>9, <2>1, <2>2
<1>11. /\ Steady /\ Steady'
       /\ t.of = None => state = t.phase /\ Room(state, mem)
  BY <1>0, <1>2, <1>4, <1>5, <1>6 DEF PlayedFits, At, Steady
<1>12. state \in Playing => mem.training = Trained(Config) /\ mem.evaluation = e
  BY <1>0, <1>6, <1>9, <1>11 DEF CountersFit, At
<1>13. PICK c \in ConfigurationType : c = Config /\ Config' = c
  BY <1>1, <1>5, NormalTypes DEF IInv, Registered, Config
<1>14. mem.training \in Nat /\ mem.evaluation \in Nat /\ c.training \in Nat /\ c.evaluation \in Nat
       /\ c.evaluationOnly \in BOOLEAN /\ t.phase \in Phases
  BY <1>0, <1>13 DEF MemType, ConfigurationType, TaskType
<1>15. t.of = None => t.phase \in Playing
  BY <1>14 DEF Phases, Playing, Early
<1>16. ~(t.of = None /\ t.phase = "running" /\ c.evaluationOnly)
  <2> SUFFICES ASSUME t.of = None, t.phase = "running", c.evaluationOnly PROVE FALSE
    OBVIOUS
  <2>1. mem.training = c.training /\ mem.training < c.training
    BY <1>11, <1>12, <1>13, <1>15 DEF Trained, Room
  <2> QED BY <1>14, <2>1
<1>17. /\ a <= IF c.evaluationOnly THEN 0 ELSE c.training
       /\ e <= c.evaluation
  BY <1>1, <1>6, <1>9, <1>13 DEF WithinBudget
<1>18. t.of = None /\ t.phase = "running" => a < c.training
  BY <1>9, <1>11, <1>12, <1>13, <1>15, <1>16 DEF Trained, Room
<1>19. t.of = None /\ t.phase = "evaluating" => e < c.evaluation
  BY <1>11, <1>12, <1>13, <1>15 DEF Room
<1>20. /\ a1 <= IF c.evaluationOnly THEN 0 ELSE c.training
       /\ e1 <= c.evaluation
  BY <1>10, <1>14, <1>16, <1>17, <1>18, <1>19
<1>21. WithinBudget'
  BY <1>10, <1>13, <1>20 DEF WithinBudget
<1>22. state \in Playing => mem'.training = IF c.evaluationOnly THEN c.training ELSE a1
  BY <1>4, <1>9, <1>10, <1>12, <1>13, <1>16 DEF Trained
<1>23. state \in Playing => mem'.evaluation = e1
  BY <1>4, <1>10, <1>12
<1>24. CountersFit'
  BY <1>5, <1>10, <1>13, <1>22, <1>23 DEF CountersFit, Trained
<1>25. PlayedFits'
  BY <1>3 DEF PlayedFits
<1>26. StageFits'
  BY <1>0, <1>1, <1>3 DEF StageFits, At
<1>27. EarlyFits'
  <2>1. e1 > 0 => ~PausedByEvidence /\ (loaded => state \notin Early)
    <3>1. CASE t.of = None /\ t.phase = "evaluating"
      BY <1>1, <1>11, <3>1 DEF PauseInv, Stopped, Closing, Early, Playing
    <3>2. CASE ~(t.of = None /\ t.phase = "evaluating")
      BY <1>6, <1>9, <1>10, <3>2 DEF EarlyFits
    <3> QED BY <3>1, <3>2
  <2>2. PausedByEvidence' <=> PausedByEvidence
    BY <1>5 DEF PausedByEvidence, LastOf
  <2>3. \A d \in Callers : task'[d].at \notin PauseLabels
    BY <1>0, <1>1, <1>3 DEF At, PauseLabels
  <2> QED BY <1>5, <1>10, <2>1, <2>2, <2>3 DEF EarlyFits
<1> QED BY <1>21, <1>24, <1>25, <1>26, <1>27

LEMMA StartStepBudget ==
    ASSUME IInv, BudgetInv, ~Overlap, StartStep
    PROVE  BudgetInv'
<1>0. /\ "driver" \in Callers /\ {"driver", "operator"} = Callers
      /\ mem \in MemType /\ task \in [Callers -> TaskType] /\ loaded
      /\ At("driver", "idle") /\ At("operator", "idle")
  BY NormalTypes DEF Callers, StartStep, DriverFree, IInv
<1>1. /\ UNCHANGED <<metadata, turns, quarantined, loaded, state, mem, journal>>
      /\ ~quarantined /\ ~mem.incomplete /\ AcceptsTurns(state)
  BY DEF StartStep, evidence
<1>2. PICK p : p = IF mem.repair = None THEN state ELSE mem.phase
  OBVIOUS
<1>3. PICK i \in TaskType : i = Idle
  BY IdleTask
<1>4. task' = [task EXCEPT !["driver"] = [i EXCEPT !.at = "channel", !.turn = mem.turn,
                                                   !.of = mem.repair, !.phase = p]]
  BY <1>2, <1>3 DEF StartStep
<1>5. /\ task'["driver"].at = "channel" /\ task'["driver"].of = mem.repair
      /\ task'["driver"].phase = p /\ task'["operator"] = task["operator"]
  BY <1>0, <1>3, <1>4 DEF TaskType
<1>6. /\ \A phase : Count(phase)' = Count(phase)
      /\ Trained(Config)' = Trained(Config) /\ Config' = Config /\ Steady' = Steady
      /\ Room(state, mem)' = Room(state, mem)
      /\ (PausedByEvidence' <=> PausedByEvidence)
  BY <1>1 DEF Count, Trained, Config, Steady, Room, PausedByEvidence, LastOf
<1> SUFFICES ASSUME Registered, Config.evaluation > 0
             PROVE  (WithinBudget /\ CountersFit /\ PlayedFits /\ StageFits /\ EarlyFits)'
  BY <1>0, <1>1, <1>5, <1>6 DEF BudgetInv, Registered, At
<1>7. WithinBudget /\ CountersFit /\ PlayedFits /\ StageFits /\ EarlyFits
  BY DEF BudgetInv
<1>8. WithinBudget'
  BY <1>6, <1>7 DEF WithinBudget
<1>9. CountersFit'
  BY <1>0, <1>1, <1>6, <1>7 DEF CountersFit, At
<1>10. PlayedFits'
  <2>1. Steady
    BY <1>0, <1>1 DEF Steady
  <2>2. mem.repair = None => Room(state, mem) /\ state = p
    BY <1>0, <1>2, <1>7, <2>1 DEF StageFits, At
  <2> QED BY <1>1, <1>5, <1>6, <2>1, <2>2 DEF PlayedFits
<1>11. StageFits'
  BY <1>0, <1>5 DEF StageFits, At
<1>12. EarlyFits'
  BY <1>0, <1>1, <1>5, <1>6, <1>7 DEF EarlyFits, At, PauseLabels
<1> QED BY <1>8, <1>9, <1>10, <1>11, <1>12

\* A step that the invariant does not see.
LEMMA BudgetSame ==
    ASSUME BudgetInv, UNCHANGED <<metadata, turns, journal, quarantined, loaded, state, mem, task>>
    PROVE  BudgetInv'
<1>1. /\ \A phase : Count(phase)' = Count(phase)
      /\ Trained(Config)' = Trained(Config) /\ Config' = Config /\ Steady' = Steady
      /\ Room(state, mem)' = Room(state, mem)
      /\ (PausedByEvidence' <=> PausedByEvidence)
      /\ \A c \in Callers : \A label : At(c, label)' <=> At(c, label)
  BY DEF Count, Trained, Config, Steady, Room, PausedByEvidence, LastOf, At
<1>2. WithinBudget => WithinBudget'
  BY <1>1 DEF WithinBudget, Registered
<1>3. CountersFit => CountersFit'
  BY <1>1 DEF CountersFit
<1>4. PlayedFits => PlayedFits'
  BY <1>1 DEF PlayedFits
<1>5. StageFits => StageFits'
  BY <1>1 DEF StageFits, Callers
<1>6. EarlyFits => EarlyFits'
  BY <1>1 DEF EarlyFits
<1> QED BY <1>1, <1>2, <1>3, <1>4, <1>5, <1>6 DEF BudgetInv, Registered

LEMMA StartRecoverBudget ==
    ASSUME IInv, BudgetInv, ~loaded => ~mem.incomplete, ~Overlap, StartRecover
    PROVE  BudgetInv'
<1>0. /\ "driver" \in Callers /\ {"driver", "operator"} = Callers /\ Registered
      /\ task \in [Callers -> TaskType] /\ At("driver", "idle") /\ At("operator", "idle")
  BY NormalTypes DEF Callers, StartRecover, IInv
<1>1. /\ UNCHANGED <<metadata, turns, quarantined, journal>> /\ loaded'
      /\ task' = task \/ Go("driver", "signers")
      /\ ~quarantined /\ ~mem.incomplete => Go("driver", "signers")
  BY DEF StartRecover, evidence, IInv, Shape, TypeOK
<1>2. Go("driver", "signers") => task'["driver"].at = "signers" /\ task'["operator"] = task["operator"]
  BY <1>0, GoAt
<1>3. CASE loaded
  <2>1. UNCHANGED <<loaded, state, mem>>
    BY <1>3 DEF StartRecover
  <2>2. task'["driver"].at \in {"idle", "signers"} /\ task'["operator"] = task["operator"]
        /\ (task'["driver"].at = "idle" => ~Steady)
    BY <1>0, <1>1, <1>2 DEF At, Steady
  <2>3. BudgetMoves("driver")
    BY <1>0, <1>1, <1>3, <2>1, <2>2 DEF BudgetMoves, At, PauseLabels
  <2> QED BY <1>0, <2>3, BudgetMoved
<1>4. CASE ~loaded
  <2>1. state' = Reconstructed
    BY <1>4 DEF StartRecover
  <2>2. ~quarantined => task'["driver"].at = "signers"
    BY <1>1, <1>2, <1>4
  <2>3. task'["driver"].at \in {"idle", "signers"} /\ task'["operator"].at = "idle"
    BY <1>0, <1>1, <1>2 DEF At
  <2>4. /\ \A phase : Count(phase)' = Count(phase)
        /\ Trained(Config)' = Trained(Config) /\ Config' = Config
        /\ (PausedByEvidence' <=> PausedByEvidence)
    BY <1>1 DEF Count, Trained, Config, PausedByEvidence, LastOf
  <2> SUFFICES ASSUME Config.evaluation > 0
               PROVE  (WithinBudget /\ CountersFit /\ PlayedFits /\ StageFits /\ EarlyFits)'
    BY <1>0, <1>1, <2>3, <2>4 DEF BudgetInv, Registered, At
  <2>5. WithinBudget /\ EarlyFits
    BY <1>0 DEF BudgetInv
  <2>6. WithinBudget'
    BY <1>0, <1>1, <2>4, <2>5 DEF WithinBudget, Registered
  <2>7. CountersFit' /\ PlayedFits' /\ StageFits'
    BY <1>0, <1>1, <2>2, <2>3 DEF CountersFit, PlayedFits, StageFits, Steady, At
  <2>8. EarlyFits'
    <3>1. ASSUME Count("evaluating") > 0 PROVE Reconstructed \notin Early
      <4>1. StageByCounts = "evaluating" /\ ~PausedByEvidence
        BY <2>5, <3>1 DEF EarlyFits, StageByCounts
      <4>2. TerminalStateFrom \notin Early
        BY DEF TerminalStateFrom, Early
      <4> QED BY <4>1, <4>2 DEF Reconstructed, Early
    <3>2. \A d \in Callers : task'[d].at \notin PauseLabels
      BY <1>0, <2>3 DEF PauseLabels
    <3> QED BY <2>1, <2>4, <2>5, <3>1, <3>2 DEF EarlyFits
  <2> QED BY <2>6, <2>7, <2>8
<1> QED BY <1>3, <1>4

LEMMA RecoverPrefixBudget ==
    ASSUME IInv, TipInv, BudgetInv, RecoverPrefix
    PROVE  BudgetInv'
<1>0. /\ "driver" \in Callers /\ {"driver", "operator"} = Callers /\ At("driver", "prefix")
      /\ mem \in MemType /\ task \in [Callers -> TaskType] /\ turns \in Seq(TurnType)
      /\ state \in RunStates
  BY NormalTypes DEF Callers, RecoverPrefix, IInv
<1>1. loaded /\ Registered /\ At("operator", "idle")
  BY <1>0, Busy, OneBusy DEF IInv, At
<1>2. UNCHANGED <<metadata, turns, quarantined, loaded, journal>>
  BY DEF RecoverPrefix, evidence
<1>3. /\ Return("driver") => task'["driver"].at = "idle" /\ task'["operator"] = task["operator"]
      /\ Go("driver", "recovery") => task'["driver"].at = "recovery" /\ task'["operator"] = task["operator"]
  BY <1>0, GoAt, ReturnAt
<1>4. task'["driver"].at \in {"idle", "recovery"} /\ task'["operator"].at = "idle"
  BY <1>0, <1>1, <1>3 DEF RecoverPrefix, ApplyAndReturn, At
<1>5. /\ \A phase : Count(phase)' = Count(phase)
      /\ Trained(Config)' = Trained(Config) /\ Config' = Config
      /\ (PausedByEvidence' <=> PausedByEvidence)
  BY <1>2 DEF Count, Trained, Config, PausedByEvidence, LastOf
<1>6. state' = state \/ (state' \notin Playing /\ ~AcceptsTurns(state'))
  <2>1. ApplyAndReturn("driver", "fork-detected") => state' = state \/ state' = "forked-invalid"
    BY <1>0, ApplyEffect, Arrivals
  <2> QED BY <2>1 DEF RecoverPrefix, Playing, Early, AcceptsTurns
<1> SUFFICES ASSUME Config.evaluation > 0
             PROVE  (WithinBudget /\ CountersFit /\ PlayedFits /\ StageFits /\ EarlyFits)'
  BY <1>0, <1>1, <1>2, <1>4, <1>5 DEF BudgetInv, Registered, At
<1>7. WithinBudget /\ EarlyFits
  BY <1>1 DEF BudgetInv
<1>8. WithinBudget'
  BY <1>2, <1>5, <1>7 DEF WithinBudget, Registered
<1>9. PlayedFits'
  BY <1>4 DEF PlayedFits
<1>10. EarlyFits'
  <2>1. \A d \in Callers : task'[d].at \notin PauseLabels
    BY <1>0, <1>4 DEF PauseLabels
  <2> QED BY <1>1, <1>2, <1>5, <1>6, <1>7, <2>1 DEF EarlyFits, Playing
<1>11. \A d \in Callers : task'[d].at \notin {"begin-evaluation", "initial-record", "checkpoint-zero"}
  BY <1>0, <1>4
<1>12. CASE forked /\ ApplyAndReturn("driver", "fork-detected")
  <2>1. state' \notin Playing /\ ~AcceptsTurns(state')
    <3>1. CanApply(state, "fork-detected") => state' = "forked-invalid"
      BY <1>12, Arrivals DEF ApplyAndReturn
    <3>2. ~CanApply(state, "fork-detected") => state' = state /\ state \notin ActiveRunStates
      BY <1>12, Applicable DEF ApplyAndReturn
    <3>3. Playing \subseteq ActiveRunStates
      BY DEF Playing, Early, ActiveRunStates, RunStates, TerminalRunStates
    <3> QED BY <3>1, <3>2, <3>3, ActiveStates DEF Playing, Early, AcceptsTurns
  <2>2. CountersFit'
    BY <2>1 DEF CountersFit
  <2>3. StageFits'
    BY <1>0, <1>11, <2>1 DEF StageFits, Room, AcceptsTurns, At
  <2> QED BY <1>8, <1>9, <1>10, <2>2, <2>3
<1>13. CASE mem' = [mem EXCEPT !.incomplete = TRUE]
  <2>1. mem'.incomplete
    BY <1>0, <1>13 DEF MemType
  <2>2. CountersFit' /\ StageFits'
    BY <1>0, <1>11, <2>1 DEF CountersFit, StageFits, Steady, At
  <2> QED BY <1>8, <1>9, <1>10, <2>2
<1>14. CASE /\ mem' = Recounted /\ state' = state
            /\ IF IsTerminal(state) \/ SealEvidenceExists THEN Return("driver") ELSE Go("driver", "recovery")
  <2>1. mem'.training = Trained(Config) /\ mem'.evaluation = Count("evaluating")
    BY <1>0, <1>14 DEF Recounted, MemType
  <2>2. CountersFit'
    BY <1>5, <2>1 DEF CountersFit
  <2>3. task'["driver"].at = "idle" => ~AcceptsTurns(state')
    <3>1. task'["driver"].at = "idle" => IsTerminal(state) \/ SealEvidenceExists
      BY <1>3, <1>14
    <3>2. SealEvidenceExists => state \in Closing
      BY <1>1, NotClosing DEF IInv, SealInv
    <3> QED BY <1>14, <3>1, <3>2 DEF IsTerminal, TerminalRunStates, Closing, AcceptsTurns
  <2>4. StageFits'
    BY <1>0, <1>11, <2>3 DEF StageFits, Room, AcceptsTurns, At
  <2> QED BY <1>8, <1>9, <1>10, <2>2, <2>4
<1> QED BY <1>12, <1>13, <1>14 DEF RecoverPrefix

LEMMA CreateRunBudget ==
    ASSUME IInv, BudgetInv, CreateRun
    PROVE  BudgetInv'
<1>0. /\ "driver" \in Callers /\ {"driver", "operator"} = Callers
      /\ turns = <<>> /\ turns' = <<>> /\ At("operator", "idle")
  BY IdleTask DEF Callers, CreateRun, BudgetInv, IInv, Shape, At
<1>1. PICK configuration \in Configurations :
        metadata' = <<configuration>> /\ mem' = [Fresh EXCEPT !.training = Trained(configuration)]
  BY DEF CreateRun
<1>2. Registered' /\ Config' = configuration /\ configuration \in ConfigurationType
  BY <1>1, ConfigurationsAssumption DEF Registered, Config
<1>3. \A phase : Count(phase) = 0 /\ Count(phase)' = 0
  <2>1. ASSUME NEW phase
        PROVE  /\ {i \in DOMAIN turns : turns[i].phase = phase /\ turns[i].of = None} = {}
               /\ {i \in DOMAIN turns' : turns'[i].phase = phase /\ turns'[i].of = None} = {}
    BY <1>0
  <2>2. Cardinality({}) = 0
    BY FS_EmptySet
  <2> QED BY <2>1, <2>2 DEF Count
<1>4. mem'.training = Trained(configuration) /\ mem'.evaluation = 0
  BY <1>1 DEF Fresh
<1>5. /\ task'["driver"].at = "initial-record" /\ task'["operator"] = task["operator"]
      /\ state' = "initializing"
  BY <1>0, GoAt DEF CreateRun
<1>6. WithinBudget'
  BY <1>2, <1>3 DEF WithinBudget, ConfigurationType
<1>7. CountersFit'
  <2>1. Trained(Config)' = Trained(configuration)
    BY <1>2, <1>3 DEF Trained
  <2> QED BY <1>3, <1>4, <2>1 DEF CountersFit
<1>8. PlayedFits' /\ StageFits'
  BY <1>0, <1>5 DEF PlayedFits, StageFits, At
<1>9. EarlyFits'
  BY <1>0, <1>3, <1>5 DEF EarlyFits, At, PauseLabels
<1> QED BY <1>0, <1>2, <1>5, <1>6, <1>7, <1>8, <1>9 DEF BudgetInv, At

LEMMA CrashBudget ==
    ASSUME IInv, BudgetInv, Crash
    PROVE  BudgetInv'
<1>0. /\ UNCHANGED <<metadata, turns, journal>> /\ ~loaded' /\ Registered
      /\ \A c \in Callers : task'[c].at = "idle"
  BY IdleTask DEF Crash, IInv, Shape
<1>1. /\ \A phase : Count(phase)' = Count(phase) /\ Config' = Config
      /\ (PausedByEvidence' <=> PausedByEvidence)
  BY <1>0 DEF Count, Config, PausedByEvidence, LastOf
<1>2. Config.evaluation > 0 => WithinBudget' /\ EarlyFits'
  BY <1>0, <1>1 DEF BudgetInv, WithinBudget, EarlyFits, Registered, PauseLabels
<1>3. CountersFit' /\ PlayedFits' /\ StageFits'
  BY <1>0 DEF CountersFit, PlayedFits, StageFits, Steady, Callers, At
<1> QED BY <1>0, <1>1, <1>2, <1>3 DEF BudgetInv, Registered, At, Callers

LEMMA StartSealBudget ==
    ASSUME IInv, ~Overlap, StartSeal
    PROVE  BudgetMoves("driver")
<1>1. /\ "driver" \in Callers /\ loaded /\ At("driver", "idle")
      /\ \A d \in Callers : d # "driver" => At(d, "idle")
  BY DEF Callers, StartSeal, DriverFree
<1>2. /\ UNCHANGED <<metadata, turns, quarantined, loaded, mem, state, journal>>
      /\ Go("driver", "seal-check") /\ ~AcceptsTurns(state)
  BY DEF StartSeal, evidence, AcceptsTurns
<1> QED BY <1>1, <1>2, StayMoves DEF PauseLabels, At

---------------------------------------------------------------------------
(* The invariant holds *)

LEMMA ProceedKeepsRun ==
    ASSUME NEW c \in Callers, Proceed(c)
    PROVE  metadata' = metadata /\ loaded' = loaded
<1>1. CASE InitialRecord \/ CheckpointZero \/ BeginEvaluation(c) \/ PauseCheckpoint(c)
           \/ AbortEvent(c) \/ AbortRecord(c) \/ GatewayRefuses(c)
  BY <1>1 DEF InitialRecord, CheckpointZero, BeginEvaluation, PauseCheckpoint, AbortEvent,
     AbortRecord, GatewayRefuses, evidence
<1>2. CASE Turn
  BY <1>2 DEF Turn, ExecuteTurn, AppendTurnRecord, ScheduleRepair, EventBoundaries, PauseNotAvailable
<1>3. CASE Recovery
  BY <1>3 DEF Recovery, CheckSigners, RecoverPrefix, RecoveryEvent, RecoveryCheckpoint, evidence
<1>4. CASE Intervention
  BY <1>4 DEF Intervention, PauseEvent, ResumePrefix, ResumeEvent, ResumeCheckpoint, AnnotateEvent,
     AnnotateCheck, AnnotateCheckpoint, AnnotateRecord, RetryEvent, AbandonEvent, AbandonRecord, evidence
<1>5. CASE Seal(c)
  BY <1>5 DEF Seal, SealCheck, RunSealedEvent, CreateFinalCheckpoint, Anchor, BlockedRecord,
     PendingRecord, Verify, VerdictRecord, AbortDecision
<1> QED BY <1>1, <1>2, <1>3, <1>4, <1>5 DEF Proceed

LEMMA ProceedBudget ==
    ASSUME IInv, PauseInv, TipInv, TipInv', BudgetInv, "signers" \notin Mishaps,
           NEW c \in Callers, Proceed(c)
    PROVE  BudgetInv'
<1>1. loaded /\ Registered
  BY ProceedPause DEF PauseMoves, IInv, Shape
<1>2. CASE ~(Config.evaluation > 0)
  <2>1. Registered' /\ ~(Config'.evaluation > 0)
    BY <1>1, <1>2, ProceedKeepsRun DEF Registered, Config
  <2> QED BY <2>1 DEF BudgetInv, TipInv
<1>3. CASE Config.evaluation > 0
  <2>1. CASE c = "driver" /\ Turn
    <3>1. ScheduleRepair \/ EventBoundaries \/ PauseNotAvailable => BudgetMoves("driver")
      BY TurnBudget
    <3> QED BY <2>1, <3>1, BudgetMoved, ExecuteTurnBudget, AppendTurnRecordBudget DEF Turn
  <2>2. CASE c = "driver" /\ Recovery
    <3>1. CheckSigners \/ RecoveryEvent \/ RecoveryCheckpoint => BudgetMoves("driver")
      BY RecoveryBudget
    <3> QED BY <2>2, <3>1, BudgetMoved, RecoverPrefixBudget DEF Recovery
  <2>3. CASE c = "operator" /\ Intervention
    BY <1>3, <2>3, InterventionBudget, BudgetMoved
  <2>4. CASE Seal(c)
    BY <2>4, SealBudget, BudgetMoved
  <2>5. CASE \/ c = "driver" /\ (InitialRecord \/ CheckpointZero)
             \/ BeginEvaluation(c) \/ PauseCheckpoint(c) \/ AbortEvent(c) \/ AbortRecord(c)
             \/ GatewayRefuses(c)
    <3>1. BudgetMoves(c)
      BY <1>1, <1>3, <2>5, CallBudget
    <3> QED BY <3>1, BudgetMoved
  <2> QED BY <2>1, <2>2, <2>3, <2>4, <2>5 DEF Proceed
<1> QED BY <1>2, <1>3

LEMMA BudgetNext ==
    ASSUME ~Overlap, Mishaps \subseteq {"crash", "fork"}
    PROVE  IInv /\ PauseInv /\ TipInv /\ ChannelInv /\ BudgetInv /\ [Next]_vars => BudgetInv'
<1> SUFFICES ASSUME IInv, PauseInv, TipInv, ChannelInv, BudgetInv, [Next]_vars PROVE BudgetInv'
  OBVIOUS
<1>1. CASE UNCHANGED vars \/ Fork
  <2>1. UNCHANGED <<metadata, turns, journal, quarantined, loaded, state, mem, task>>
    BY <1>1 DEF vars, Fork
  <2> QED BY <2>1, BudgetSame
<1>2. CASE \E c \in Callers : BudgetMoves(c)
  BY <1>2, BudgetMoved
<1>3. {"driver", "operator"} = Callers /\ (~loaded => ~mem.incomplete)
  BY DEF Callers, ChannelInv
<1>4. CASE StartSeal \/ Operator
  <2>1. BudgetMoves("driver") \/ BudgetMoves("operator")
    BY <1>4, StartSealBudget, OperatorBudget
  <2> QED BY <1>2, <1>3, <2>1
<1>5. ASSUME NEW c \in Callers, Proceed(c) PROVE BudgetInv'
  <2>1. TipInv'
    BY TipNext
  <2>2. "signers" \notin Mishaps
    OBVIOUS
  <2> QED BY <1>5, <2>1, <2>2, ProceedBudget
<1>6. CASE CreateRun \/ StartStep \/ StartRecover \/ Crash
  BY <1>3, <1>6, CreateRunBudget, StartStepBudget, StartRecoverBudget, CrashBudget
<1>7. ~LoseTurnRecord /\ \A c \in Callers : ~CallFails(c)
  BY DEF LoseTurnRecord, CallFails, Mishap
<1> QED BY <1>1, <1>4, <1>5, <1>6, <1>7 DEF Next

\* While the calls of the driver and of the operator do not overlap, a run that
\* has held-out turns to play never plays a turn beyond its budgets, whatever is
\* paused, resumed, repaired or aborted and however often the process ends and is
\* recovered. With calls that overlap, and with a call that rejects or an answer
\* that is lost, the code plays turns that it does not count.
THEOREM BudgetsAreKept ==
    ASSUME ~Overlap, Mishaps \subseteq {"crash", "fork"}
    PROVE  Spec => []BudgetsHold
<1>1. Init => PauseInv /\ TipInv /\ ChannelInv /\ BudgetInv
  <2> SUFFICES ASSUME Init PROVE PauseInv /\ TipInv /\ ChannelInv /\ BudgetInv
    OBVIOUS
  <2>1. PauseInv
    BY DEF Init, PauseInv, PausedByEvidence, LastOf, At, Idle
  <2>2. ChannelInv /\ ~Registered /\ turns = <<>>
    BY DEF Init, ChannelInv, Registered, Fresh
  <2>3. TipInv
    BY TipInit
  <2> QED BY <2>1, <2>2, <2>3 DEF BudgetInv, TipInv
<1>2. {"signers", "fault", "lost"} \cap Mishaps = {}
  OBVIOUS
<1>3. IInv /\ PauseInv /\ TipInv /\ ChannelInv /\ BudgetInv /\ [Next]_vars
        => (PauseInv /\ TipInv /\ ChannelInv /\ BudgetInv)'
  BY <1>2, SealNext, PauseNext, TipNext, ChannelNext, BudgetNext
<1>4. BudgetInv => BudgetsHold
  BY DEF BudgetInv, BudgetsHold
<1> QED BY <1>1, <1>3, <1>4, IInvHolds, PTL DEF Spec

---------------------------------------------------------------------------
(* A safety trigger stops the turns *)

Strikes == {"trigger", "adapter-quarantined"}
Answers == {"pause-checkpoint", "resume"}
Struck == LastOf(Strikes) > LastOf(Answers)

\* The states that lead to a turn without the operator's resume.
Live == {"initializing", "running", "evaluating", "resuming"}

TurnLabels == {"channel", "turn-record", "repair-turn", "boundaries"}

\* The turn under way has raised a trigger, which it has still to answer.
Escalates ==
    /\ task["driver"].at \in {"turn-record", "boundaries", "pause-not-available"}
    /\ task["driver"].trigger

StopsInv ==
    /\ Registered => loaded
    /\ loaded => (mem.adapter <=> LastOf({"adapter-quarantined"}) = 0)
    /\ state \in Live /\ ~Escalates => ~Struck /\ mem.adapter
    /\ state = "paused" => ~Struck
    /\ task["driver"].at \in TurnLabels => AcceptsTurns(state)
    /\ At("driver", "pause-not-available") => state = "evaluating"

\* A step of caller c that plays no message, as this invariant sees it.
StopMoves ==
    /\ loaded /\ loaded'
    /\ mem'.adapter = mem.adapter
    /\ journal' = journal \/ \E w \in JournalEntries \ Strikes : Write(w)
    /\ state' \in Live => state \in Live \/ (state = "paused" /\ mem.adapter)
    /\ state' = "paused" => state = "paused" \/ Write("pause-checkpoint")
    /\ state' \in Live /\ Escalates => Escalates'
    /\ task'["driver"].at \in TurnLabels => AcceptsTurns(state')
    /\ task'["driver"].at = "pause-not-available" => state' = "evaluating"

\* Only a strike makes a run struck.
LEMMA StrikesOnly ==
    ASSUME journal \in Seq(JournalEntries)
    PROVE  /\ journal' = journal => (Struck' <=> Struck)
              /\ LastOf({"adapter-quarantined"})' = LastOf({"adapter-quarantined"})
           /\ \A w \in JournalEntries \ Strikes : Write(w) =>
                /\ Struck' => Struck
                /\ LastOf({"adapter-quarantined"})' = LastOf({"adapter-quarantined"})
           /\ Write("pause-checkpoint") => ~Struck'
<1>1. journal' = journal => /\ Struck' <=> Struck
                            /\ LastOf({"adapter-quarantined"})' = LastOf({"adapter-quarantined"})
  BY DEF Struck, LastOf
<1>2. ASSUME NEW w \in JournalEntries \ Strikes, Write(w)
      PROVE  /\ Struck' => Struck
             /\ LastOf({"adapter-quarantined"})' = LastOf({"adapter-quarantined"})
             /\ w \in Answers => ~Struck'
  <2>1. /\ LastOf(Strikes)' = LastOf(Strikes) /\ LastOf(Strikes) \in 0..Len(journal)
        /\ LastOf({"adapter-quarantined"})' = LastOf({"adapter-quarantined"})
    <3>1. w \notin Strikes /\ w \notin {"adapter-quarantined"} /\ w \in JournalEntries
      BY DEF Strikes
    <3> QED BY <1>2, <3>1, LastMoves
  <2>2. /\ LastOf(Answers) \in 0..Len(journal)
        /\ w \notin Answers => LastOf(Answers)' = LastOf(Answers)
        /\ w \in Answers => LastOf(Answers)' = Len(journal) + 1
    BY <1>2, LastMoves
  <2> QED BY <2>1, <2>2 DEF Struck
<1>3. "pause-checkpoint" \in JournalEntries \ Strikes /\ "pause-checkpoint" \in Answers
  BY DEF JournalEntries, Strikes, Answers
<1> QED BY <1>1, <1>2, <1>3

LEMMA StopsKept ==
    ASSUME IInv, StopsInv, StopMoves
    PROVE  StopsInv'
<1>1. journal \in Seq(JournalEntries)
  BY NormalTypes DEF IInv
<1>2. /\ Struck' => Struck
      /\ LastOf({"adapter-quarantined"})' = LastOf({"adapter-quarantined"})
      /\ Write("pause-checkpoint") => ~Struck'
  BY <1>1, StrikesOnly DEF StopMoves
<1>3. state' \in Live /\ ~Escalates' => ~Struck /\ mem.adapter
  BY DEF StopMoves, StopsInv
<1> QED BY <1>2, <1>3 DEF StopMoves, StopsInv, At

LEMMA ExecuteTurnStops ==
    ASSUME IInv, StopsInv, ExecuteTurn
    PROVE  StopsInv'
<1>0. /\ "driver" \in Callers /\ At("driver", "channel") /\ loaded /\ Registered
      /\ mem \in MemType /\ task \in [Callers -> TaskType] /\ journal \in Seq(JournalEntries)
  BY Busy, NormalTypes DEF Callers, ExecuteTurn, IInv, At
<1>1. PICK sent \in BOOLEAN, trigger \in BOOLEAN, late \in BOOLEAN :
        /\ late => sent /\ trigger
        /\ IF trigger THEN Write(IF late THEN "adapter-quarantined" ELSE "trigger")
                      ELSE UNCHANGED journal
        /\ mem' = IF late THEN [mem EXCEPT !.adapter = FALSE] ELSE mem
        /\ task' = [task EXCEPT !["driver"].at = "turn-record", !["driver"].trigger = trigger]
  BY DEF ExecuteTurn
<1>2. task'["driver"].at = "turn-record" /\ task'["driver"].trigger = trigger
  BY <1>0, <1>1 DEF TaskType
<1>3. UNCHANGED <<metadata, loaded, state>> /\ AcceptsTurns(state) /\ state \in Live
  BY <1>0 DEF ExecuteTurn, StopsInv, TurnLabels, At, AcceptsTurns, Live
<1>4. ~Struck /\ mem.adapter /\ LastOf({"adapter-quarantined"}) = 0
  BY <1>0, <1>3 DEF StopsInv, Escalates, At
<1>5. mem'.adapter <=> ~late
  BY <1>0, <1>1, <1>4 DEF MemType
<1>6. LastOf({"adapter-quarantined"})' = 0 <=> ~late
  <2>1. CASE ~trigger
    BY <1>0, <1>1, <1>4, <2>1, StrikesOnly
  <2>2. CASE trigger /\ ~late
    <3>1. "trigger" \in JournalEntries /\ "trigger" \notin {"adapter-quarantined"} /\ Write("trigger")
      BY <1>1, <2>2 DEF JournalEntries
    <3> QED BY <1>0, <1>4, <2>2, <3>1, LastMoves
  <2>3. CASE late
    <3>1. "adapter-quarantined" \in JournalEntries /\ Write("adapter-quarantined") /\ Len(journal) \in Nat
      BY <1>0, <1>1, <2>3 DEF JournalEntries
    <3>2. LastOf({"adapter-quarantined"})' = Len(journal) + 1
      BY <1>0, <3>1, LastMoves
    <3> QED BY <2>3, <3>1, <3>2
  <2> QED BY <2>1, <2>2, <2>3
<1>7. ~trigger => ~Struck' /\ mem'.adapter
  BY <1>0, <1>1, <1>4, <1>5, StrikesOnly
<1>8. Escalates' <=> trigger
  BY <1>2 DEF Escalates
<1>9. (state \in Live /\ ~Escalates => ~Struck /\ mem.adapter)'
  BY <1>7, <1>8
<1>10. (state = "paused" => ~Struck)' /\ (task["driver"].at \in TurnLabels => AcceptsTurns(state))'
       /\ (At("driver", "pause-not-available") => state = "evaluating")'
  BY <1>2, <1>3 DEF Live, At
<1> QED BY <1>0, <1>3, <1>5, <1>6, <1>9, <1>10 DEF StopsInv

\* A step of the operator, or of a call of the driver that is in no turn.
LEMMA AsideStops ==
    ASSUME IInv, NEW c \in Callers, ~Escalates, loaded, loaded', mem'.adapter = mem.adapter,
           journal' = journal \/ \E w \in JournalEntries \ Strikes : Write(w),
           state' \in Live => state \in Live \/ (state = "paused" /\ mem.adapter),
           state' = "paused" => state = "paused" \/ Write("pause-checkpoint"),
           task'["driver"].at \notin TurnLabels \cup {"pause-not-available"}
    PROVE  StopMoves
BY DEF StopMoves

LEMMA TurnStops ==
    ASSUME IInv, StopsInv, AppendTurnRecord \/ ScheduleRepair \/ EventBoundaries \/ PauseNotAvailable
    PROVE  StopMoves
<1>0. /\ "driver" \in Callers /\ state \in RunStates /\ mem \in MemType
      /\ task \in [Callers -> TaskType] /\ task["driver"] \in TaskType
      /\ task["driver"].at \in {"turn-record", "repair-turn", "boundaries", "pause-not-available"}
      /\ loaded /\ loaded' /\ Registered
  <2>1. task["driver"].at \in {"turn-record", "repair-turn", "boundaries", "pause-not-available"}
        /\ loaded' = loaded
    BY DEF AppendTurnRecord, ScheduleRepair, EventBoundaries, PauseNotAvailable, At
  <2> QED BY <2>1, Busy, NormalTypes DEF IInv, Callers, At
<1>1. AcceptsTurns(state) /\ (At("driver", "pause-not-available") => state = "evaluating")
  BY <1>0 DEF StopsInv, TurnLabels, At, AcceptsTurns
<1>2. state \in Live /\ state # "paused"
  BY <1>1 DEF AcceptsTurns, Live
<1>3. journal' = journal \/ \E w \in JournalEntries \ Strikes : Write(w)
  BY DEF AppendTurnRecord, ScheduleRepair, EventBoundaries, PauseNotAvailable, JournalEntries, Strikes
<1>4. ASSUME NEW label, Go("driver", label)
      PROVE  task'["driver"].at = label /\ task'["driver"].trigger = task["driver"].trigger
  BY <1>0, <1>4 DEF Go, TaskType
<1>5. ASSUME ApplyStageTransitions("driver", state, mem)
      PROVE  /\ mem' = mem /\ task'["driver"].at \in {"idle", "begin-evaluation"}
             /\ state' = state \/ state' = "sealing"
             /\ state = "evaluating" /\ EvaluationDone(mem) => state' = "sealing"
  BY <1>0, <1>5, StageAt DEF ApplyStageTransitions
<1>6. CASE AppendTurnRecord
  <2>1. state' = state /\ task'["driver"].at \in TurnLabels
    BY <1>4, <1>6 DEF AppendTurnRecord, TurnLabels
  <2>2. Escalates => Escalates'
    <3>1. task["driver"].trigger => Go("driver", "boundaries")
      BY <1>6 DEF AppendTurnRecord
    <3> QED BY <1>4, <3>1 DEF Escalates
  <2>3. mem'.adapter = mem.adapter
    <3>1. PICK t \in TaskType : t = task["driver"]
      BY <1>0
    <3>2. PICK m \in MemType : m = Counted(t)
      BY CountedType DEF IInv
    <3>3. m.adapter = mem.adapter
      <4>1. \A r, x, y : [mem EXCEPT !.turn = t.turn + 1, !.repair = r, !.training = x,
                                     !.evaluation = y].adapter = mem.adapter
        BY <1>0 DEF MemType
      <4> QED BY <3>2, <4>1 DEF Counted
    <3>4. mem' = m \/ mem' = [m EXCEPT !.repair = t.turn, !.phase = t.phase]
      BY <1>6, <3>1, <3>2 DEF AppendTurnRecord
    <3> QED BY <3>2, <3>3, <3>4 DEF MemType
  <2>4. task'["driver"].at # "pause-not-available"
    BY <2>1 DEF TurnLabels
  <2> QED BY <1>0, <1>1, <1>2, <1>3, <2>1, <2>2, <2>3, <2>4 DEF StopMoves
<1>7. CASE ScheduleRepair
  <2>1. state' = state /\ mem' = mem /\ task'["driver"].at = "boundaries" /\ ~Escalates
    BY <1>4, <1>7 DEF ScheduleRepair, Escalates, At
  <2> QED BY <1>0, <1>1, <1>2, <1>3, <2>1 DEF StopMoves
<1>8. CASE EventBoundaries /\ ~task["driver"].trigger
  <2>1. ApplyStageTransitions("driver", state, mem) /\ ~Escalates
    BY <1>8 DEF EventBoundaries, Escalates
  <2>2. state' # "paused"
    BY <1>2, <1>5, <2>1
  <2> QED BY <1>0, <1>2, <1>3, <1>5, <2>1, <2>2 DEF StopMoves, TurnLabels
<1>9. CASE EventBoundaries /\ task["driver"].trigger /\ CanApply(state, "pause")
  <2>1. state' = "pausing" /\ Go("driver", "pause-checkpoint") /\ mem' = mem
    BY <1>9 DEF EventBoundaries
  <2>2. task'["driver"].at = "pause-checkpoint"
    BY <1>4, <2>1
  <2> QED BY <1>0, <1>3, <2>1, <2>2 DEF StopMoves, Live, TurnLabels
<1>10. CASE EventBoundaries /\ task["driver"].trigger /\ ~CanApply(state, "pause")
  <2>1. Go("driver", "pause-not-available") /\ UNCHANGED <<state, mem>>
    BY <1>10 DEF EventBoundaries
  <2>2. task'["driver"].at = "pause-not-available" /\ task'["driver"].trigger
    BY <1>4, <1>10, <2>1
  <2>3. state = "evaluating"
    BY <1>1, <1>10, Applicable DEF AcceptsTurns
  <2> QED BY <1>0, <1>2, <1>3, <2>1, <2>2, <2>3 DEF StopMoves, Escalates, TurnLabels
<1>11. CASE PauseNotAvailable
  <2>1. state = "evaluating" /\ CanApply(state, "abort")
    BY <1>1, <1>11, Applicable DEF PauseNotAvailable, Abortable
  <2>2. \/ ApplyStageTransitions("driver", state, mem) /\ EvaluationDone(mem)
        \/ state' = "aborting" /\ Go("driver", "abort") /\ mem' = mem
    BY <1>11, <2>1 DEF PauseNotAvailable
  <2>3. state' \in {"sealing", "aborting"} /\ mem' = mem /\ task'["driver"].at \in {"idle", "begin-evaluation", "abort"}
    BY <1>4, <1>5, <2>1, <2>2
  <2> QED BY <1>0, <1>3, <2>3 DEF StopMoves, Live, TurnLabels
<1> QED BY <1>6, <1>7, <1>8, <1>9, <1>10, <1>11

\* The driver is in no turn, and its call neither.
LEMMA NoTurnNow ==
    ASSUME task["driver"].at \notin {"turn-record", "boundaries", "pause-not-available"}
    PROVE  ~Escalates
BY DEF Escalates

LEMMA RecoveryStops ==
    ASSUME IInv, StopsInv, Recovery, \A what : ~Mishap(what)
    PROVE  StopMoves
<1>0. /\ "driver" \in Callers /\ state \in RunStates /\ mem \in MemType
      /\ task["driver"].at \in {"signers", "prefix", "recovery", "recovery-checkpoint"}
  BY NormalTypes DEF IInv, Callers, Recovery, CheckSigners, RecoverPrefix, RecoveryEvent,
     RecoveryCheckpoint, At
<1>1. loaded /\ loaded' /\ ~Escalates
  <2>1. loaded' = loaded
    BY DEF Recovery, CheckSigners, RecoverPrefix, RecoveryEvent, RecoveryCheckpoint
  <2> QED BY <1>0, <2>1, Busy, NoTurnNow DEF IInv, At
<1>2. journal' = journal \/ \E w \in JournalEntries \ Strikes : Write(w)
  BY DEF Recovery, CheckSigners, RecoverPrefix, RecoveryEvent, RecoveryCheckpoint, evidence,
     JournalEntries, Strikes
<1>3. CASE CheckSigners \/ RecoveryEvent
  <2>1. \E label \in {"prefix", "recovery-checkpoint"} : Go("driver", label)
    BY <1>3 DEF CheckSigners, RecoveryEvent
  <2>2. UNCHANGED <<state, mem>>
    BY <1>3 DEF CheckSigners, RecoveryEvent
  <2>3. task'["driver"].at \in {"prefix", "recovery-checkpoint"}
    BY <1>0, <2>1, GoAt
  <2> QED BY <1>0, <1>1, <1>2, <2>2, <2>3, AsideStops DEF TurnLabels
<1>4. CASE RecoverPrefix
  <2>1. mem'.adapter = mem.adapter
    BY <1>0, <1>4 DEF RecoverPrefix, Recounted, MemType
  <2>2. state' = state \/ state' = "forked-invalid"
    <3>1. ApplyAndReturn("driver", "fork-detected") => state' = state \/ state' = "forked-invalid"
      BY <1>0, ApplyEffect, Arrivals
    <3> QED BY <1>4, <3>1 DEF RecoverPrefix
  <2>3. task'["driver"].at \in {"idle", "recovery"}
    <3>1. Return("driver") \/ Go("driver", "recovery")
      BY <1>4 DEF RecoverPrefix, ApplyAndReturn
    <3> QED BY <1>0, <3>1, GoAt, ReturnAt
  <2> QED BY <1>0, <1>1, <1>2, <2>1, <2>2, <2>3, AsideStops DEF TurnLabels, Live
<1>5. CASE RecoveryCheckpoint
  <2>1. ApplyStageTransitions("driver", state, mem)
    BY <1>5 DEF RecoveryCheckpoint
  <2>2. mem' = mem /\ (state' = state \/ state' = "sealing")
    BY <2>1 DEF ApplyStageTransitions
  <2>3. task'["driver"].at \in {"idle", "begin-evaluation"}
    BY <1>0, <2>1, StageAt
  <2> QED BY <1>0, <1>1, <1>2, <2>2, <2>3, AsideStops DEF TurnLabels, Live
<1> QED BY <1>3, <1>4, <1>5 DEF Recovery

LEMMA InterventionStops ==
    ASSUME IInv, TipInv, StopsInv, Intervention
    PROVE  StopMoves
<1>0. /\ "operator" \in Callers /\ "driver" \in Callers /\ state \in RunStates
      /\ ~At("operator", "idle")
  BY NormalTypes DEF IInv, Callers, Intervention, PauseEvent, ResumePrefix, ResumeEvent,
     ResumeCheckpoint, AnnotateEvent, AnnotateCheck, AnnotateCheckpoint, AnnotateRecord,
     RetryEvent, AbandonEvent, AbandonRecord, At
<1>1. loaded /\ task["driver"].at = "idle" /\ ~Escalates
  BY <1>0, Busy, OneBusy, NoTurnNow DEF IInv, At
<1>2. loaded' /\ mem' = mem
  BY <1>1 DEF Intervention, PauseEvent, ResumePrefix, ResumeEvent, ResumeCheckpoint, AnnotateEvent,
     AnnotateCheck, AnnotateCheckpoint, AnnotateRecord, RetryEvent, AbandonEvent, AbandonRecord,
     ApplyStageTransitions
<1>3. task'["driver"].at = "idle"
  <2>1. task'["driver"] = task["driver"]
    BY <1>0, InterventionPause DEF PauseMoves
  <2> QED BY <1>1, <2>1
<1>4. journal' = journal \/ \E w \in JournalEntries \ Strikes : Write(w)
  BY DEF Intervention, PauseEvent, ResumePrefix, ResumeEvent, ResumeCheckpoint, AnnotateEvent,
     AnnotateCheck, AnnotateCheckpoint, AnnotateRecord, RetryEvent, AbandonEvent, AbandonRecord,
     evidence, JournalEntries, Strikes
<1>5. (state' \in Live => state \in Live) /\ (state' = "paused" => state = "paused")
  <2>1. CASE ResumePrefix
    <3>1. ApplyAndReturn("operator", "fork-detected") => state' = state \/ state' = "forked-invalid"
      BY <1>0, ApplyEffect, Arrivals
    <3> QED BY <2>1, <3>1 DEF ResumePrefix, Live
  <2>2. CASE ResumeCheckpoint
    <3>1. CanApply(state, "resume-complete") => state = "resuming"
      BY Applicable
    <3> QED BY <2>2, <3>1 DEF ResumeCheckpoint, ApplyStageTransitions, Live
  <2>3. CASE ~ResumePrefix /\ ~ResumeCheckpoint
    <3>1. state' = state
      BY <2>3 DEF Intervention, PauseEvent, ResumeEvent, AnnotateEvent,
         AnnotateCheck, AnnotateCheckpoint, AnnotateRecord, RetryEvent, AbandonEvent, AbandonRecord
    <3> QED BY <3>1
  <2> QED BY <2>1, <2>2, <2>3
<1> QED BY <1>0, <1>1, <1>2, <1>3, <1>4, <1>5, AsideStops DEF TurnLabels

\* A call that is in no turn, or at the end of one without a trigger, whoever made it.
LEMMA CallAside ==
    ASSUME IInv, TipInv, NEW c \in Callers, Proceed(c), ~At(c, "idle"),
           task[c].at \notin {"turn-record", "pause-not-available"},
           task[c].at = "boundaries" => ~task[c].trigger,
           task'[c].at \notin TurnLabels \cup {"pause-not-available"}
    PROVE  /\ ~Escalates /\ loaded
           /\ task'["driver"].at \notin TurnLabels \cup {"pause-not-available"}
<1>1. loaded /\ \A d \in Callers : d # c => task[d].at = "idle" /\ task'[d] = task[d]
  BY Busy, OneBusy, ProceedPause DEF IInv, PauseMoves, At
<1> QED BY <1>1 DEF Escalates, Callers, TurnLabels

LEMMA SealStops ==
    ASSUME IInv, TipInv, StopsInv, NEW c \in Callers, Seal(c)
    PROVE  StopMoves
<1>1. /\ ~At(c, "idle") /\ Proceed(c)
      /\ task[c].at \notin {"turn-record", "boundaries", "pause-not-available"}
      /\ task'[c].at \notin TurnLabels \cup {"pause-not-available"}
  BY SealPlaces DEF At, TurnLabels, Proceed
<1>2. ~Escalates /\ loaded /\ task'["driver"].at \notin TurnLabels \cup {"pause-not-available"}
  BY <1>1, CallAside
<1>3. /\ loaded' = loaded /\ mem'.adapter = mem.adapter
      /\ journal' = journal \/ \E w \in JournalEntries \ Strikes : Write(w)
      /\ state' \notin Live /\ state' # "paused"
  BY SealPlaces DEF Strikes, Closing, Live
<1> QED BY <1>2, <1>3, AsideStops

LEMMA CallStops ==
    ASSUME IInv, TipInv, StopsInv, NEW c \in Callers,
           \/ c = "driver" /\ (InitialRecord \/ CheckpointZero)
           \/ BeginEvaluation(c) \/ PauseCheckpoint(c) \/ AbortEvent(c) \/ AbortRecord(c)
           \/ GatewayRefuses(c)
    PROVE  StopMoves
<1>0. /\ ~At(c, "idle") /\ Proceed(c) /\ state \in RunStates
      /\ task[c].at \notin {"turn-record", "pause-not-available"}
      /\ task[c].at = "boundaries" => ~task[c].trigger
  BY NormalTypes DEF InitialRecord, CheckpointZero, BeginEvaluation, PauseCheckpoint, AbortEvent,
     AbortRecord, GatewayRefuses, ThroughGateway, AtPolicyCheckpoint, At, IInv, Proceed
<1>1. /\ UNCHANGED <<loaded, mem>>
      /\ journal' = journal \/ \E w \in JournalEntries \ Strikes : Write(w)
  BY DEF InitialRecord, CheckpointZero, ApplyStageTransitions, BeginEvaluation, PauseCheckpoint,
     AbortEvent, AbortRecord, GatewayRefuses, evidence, PolicyCheckpoint, JournalEntries, Strikes
<1>2. task'[c].at \in {"checkpoint-zero", "idle", "begin-evaluation", "seal-a"}
  <2>1. CASE c = "driver" /\ (InitialRecord \/ CheckpointZero)
    <3>1. \/ Go(c, "checkpoint-zero") \/ Return(c)
          \/ ApplyStageTransitions(c, "running", mem)
      BY <2>1 DEF InitialRecord, CheckpointZero
    <3> QED BY <3>1, GoAt, ReturnAt, StageAt, TransitionStates
  <2>2. CASE AbortEvent(c)
    BY <2>2, NormalTypes DEF AbortEvent, IInv, TaskType
  <2>3. CASE BeginEvaluation(c) \/ PauseCheckpoint(c) \/ AbortRecord(c) \/ GatewayRefuses(c)
    <3>1. Return(c)
      BY <2>3 DEF BeginEvaluation, PauseCheckpoint, AbortRecord, GatewayRefuses, ApplyAndReturn
    <3> QED BY <3>1, ReturnAt
  <2> QED BY <2>1, <2>2, <2>3
<1>3. ~Escalates /\ loaded /\ task'["driver"].at \notin TurnLabels \cup {"pause-not-available"}
  BY <1>0, <1>2, CallAside DEF TurnLabels
<1>4. /\ state' \in Live => state \in Live
      /\ state' = "paused" => state = "paused" \/ Write("pause-checkpoint")
  <2>1. CASE InitialRecord \/ AbortEvent(c) \/ GatewayRefuses(c)
    BY <2>1 DEF InitialRecord, AbortEvent, GatewayRefuses
  <2>2. CASE CheckpointZero
    <3>1. CanApply(state, "ready") => state = "initializing"
      BY Applicable
    <3> QED BY <2>2, <3>1 DEF CheckpointZero, ApplyStageTransitions, Live
  <2>3. CASE BeginEvaluation(c)
    <3>1. state' = state \/ (state = "running" /\ state' = "evaluating")
      BY <2>3, Applicable, Arrivals DEF BeginEvaluation, ApplyAndReturn
    <3> QED BY <3>1 DEF Live
  <2>4. CASE PauseCheckpoint(c)
    <3>1. state' = state \/ state' = "paused"
      BY <2>4, Arrivals DEF PauseCheckpoint, ApplyAndReturn
    <3> QED BY <2>4, <3>1 DEF PauseCheckpoint, Live
  <2>5. CASE AbortRecord(c)
    <3>1. \E event \in {"seal-blocked", "abort-complete"} : ApplyAndReturn(c, event)
      BY <2>5 DEF AbortRecord
    <3>2. state' = state \/ state' \in {"sealing-blocked", "aborted-sealed"}
      BY <1>0, <3>1, ApplyEffect, Arrivals
    <3> QED BY <3>2 DEF Live
  <2> QED BY <2>1, <2>2, <2>3, <2>4, <2>5
<1> QED BY <1>1, <1>3, <1>4, AsideStops

LEMMA OperatorStops ==
    ASSUME IInv, StopsInv, ~Overlap, Operator
    PROVE  StopMoves
<1>0. "operator" \in Callers /\ "driver" \in Callers /\ At("driver", "idle") /\ loaded
  BY DEF Callers, Operator, StartPause, StartResume, StartAnnotate, StartAbort, StartRetrySeal,
     StartAbandonSeal, OperatorCalls
<1>1. UNCHANGED <<loaded, mem, journal>>
  BY DEF Operator, StartPause, StartResume, StartAnnotate, StartAbort, StartRetrySeal,
     StartAbandonSeal, OperatorCalls, evidence
<1>2. \E label : Go("operator", label)
  BY DEF Operator, StartPause, StartResume, StartAnnotate, StartAbort, StartRetrySeal,
     StartAbandonSeal
<1>3. task'["driver"].at = "idle" /\ ~Escalates
  BY <1>0, <1>2, GoAt, NoTurnNow DEF At
<1>4. /\ state' \in Live => state \in Live \/ (state = "paused" /\ mem.adapter)
      /\ state' # "paused" \/ state = "paused"
  BY Applicable DEF Operator, StartPause, StartResume, StartAnnotate, StartAbort, StartRetrySeal,
     StartAbandonSeal, Live
<1> QED BY <1>0, <1>1, <1>3, <1>4, AsideStops DEF TurnLabels

LEMMA StartsStop ==
    ASSUME IInv, StopsInv, ~Overlap, StartStep \/ StartSeal \/ StartRecover
    PROVE  StopMoves
<1>0. "driver" \in Callers /\ At("driver", "idle") /\ loaded /\ ~Escalates
  BY NoTurnNow DEF Callers, StartStep, StartSeal, StartRecover, DriverFree, StopsInv, At
<1>1. UNCHANGED <<loaded, mem, journal, state>>
  BY <1>0 DEF StartStep, StartSeal, StartRecover, evidence
<1>2. CASE StartStep
  <2>1. task'["driver"].at = "channel" /\ AcceptsTurns(state)
    BY <1>0, <1>2, NormalTypes DEF StartStep, Idle, IInv
  <2> QED BY <1>0, <1>1, <2>1 DEF StopMoves
<1>3. CASE StartSeal \/ StartRecover
  <2>1. task' = task \/ \E label \in {"seal-check", "signers"} : Go("driver", label)
    BY <1>3 DEF StartSeal, StartRecover
  <2>2. task'["driver"].at \in {"idle", "seal-check", "signers"}
    BY <1>0, <2>1, GoAt DEF At
  <2> QED BY <1>0, <1>1, <2>2, AsideStops DEF TurnLabels
<1> QED BY <1>2, <1>3

LEMMA CreateRunStops ==
    ASSUME IInv, CreateRun
    PROVE  StopsInv'
<1>1. "driver" \in Callers /\ loaded' /\ state' = "initializing" /\ journal' = journal
  BY DEF Callers, CreateRun
<1>2. journal = <<>> /\ task'["driver"].at = "initial-record"
  BY <1>1, GoAt DEF CreateRun, IInv, Shape
<1>3. \A whats : LastOf(whats)' = 0
  BY <1>1, <1>2 DEF LastOf
<1>4. mem'.adapter
  BY DEF CreateRun, Fresh
<1> QED BY <1>1, <1>2, <1>3, <1>4 DEF StopsInv, Struck, TurnLabels, At

LEMMA StopsNext ==
    ASSUME ~Overlap
    PROVE  IInv /\ TipInv /\ (used.mishaps = 0 => StopsInv) /\ [Next]_vars
                => (used.mishaps = 0 => StopsInv)'
<1> SUFFICES ASSUME IInv, TipInv, used.mishaps = 0 => StopsInv, [Next]_vars, used'.mishaps = 0
             PROVE  StopsInv'
  OBVIOUS
<1>0. StopsInv /\ (\A what : ~Mishap(what))
  BY NothingWrong
<1>1. CASE UNCHANGED vars
  <2>1. \A whats : LastOf(whats)' = LastOf(whats)
    BY <1>1 DEF vars, LastOf
  <2> QED BY <1>0, <1>1, <2>1 DEF vars, StopsInv, Registered, Struck, Escalates, At
<1>2. CASE CreateRun
  BY <1>2, CreateRunStops
<1>3. CASE StopMoves
  BY <1>0, <1>3, StopsKept
<1>4. CASE StartStep \/ StartSeal \/ StartRecover \/ Operator
  BY <1>0, <1>3, <1>4, StartsStop, OperatorStops
<1>5. ASSUME NEW c \in Callers, Proceed(c) PROVE StopsInv'
  <2>1. CASE c = "driver" /\ Turn
    <3>1. CASE ExecuteTurn
      BY <1>0, <3>1, ExecuteTurnStops
    <3>2. CASE AppendTurnRecord \/ ScheduleRepair \/ EventBoundaries \/ PauseNotAvailable
      BY <1>0, <1>3, <3>2, TurnStops
    <3> QED BY <2>1, <3>1, <3>2 DEF Turn
  <2>2. CASE Recovery \/ Intervention \/ Seal(c)
    BY <1>0, <1>3, <2>2, RecoveryStops, InterventionStops, SealStops
  <2>3. CASE \/ c = "driver" /\ (InitialRecord \/ CheckpointZero)
             \/ BeginEvaluation(c) \/ PauseCheckpoint(c) \/ AbortEvent(c) \/ AbortRecord(c)
             \/ GatewayRefuses(c)
    BY <1>0, <1>3, <2>3, CallStops
  <2> QED BY <1>5, <2>1, <2>2, <2>3 DEF Proceed
<1>6. ~LoseTurnRecord /\ ~Fork /\ ~Crash /\ \A c \in Callers : ~CallFails(c)
  BY <1>0 DEF LoseTurnRecord, Fork, Crash, CallFails
<1> QED BY <1>1, <1>2, <1>4, <1>5, <1>6 DEF Next

\* Only step() starts a turn.
LEMMA OnlyStepStartsTurn ==
    ASSUME IInv, [Next]_vars, StartsTurn
    PROVE  StartStep
<1>1. \A c \in Callers : PauseMoves(c) => ~StartsTurn
  BY DEF PauseMoves, StartsTurn, At, Callers
<1>2. ~UNCHANGED vars
  BY DEF vars, StartsTurn, At
<1>3. ~CreateRun /\ ~StartRecover /\ ~Crash /\ ~Fork
  BY GoAt, IdleTask DEF CreateRun, StartRecover, Crash, Fork, StartsTurn, At, Callers
<1>4. ASSUME LoseTurnRecord \/ \E c \in Callers : CallFails(c) PROVE FALSE
  <2>1. PICK c \in Callers : Return(c) /\ ~At(c, "idle")
    BY <1>4 DEF LoseTurnRecord, CallFails, At, Callers
  <2> QED BY <2>1, ReturnAt DEF StartsTurn, At, Callers
<1> QED BY <1>1, <1>2, <1>3, <1>4, StartSealPause, OperatorPause, ProceedPause DEF Next, Callers

\* While no call fails and the process lives, and the calls of the driver and of
\* the operator do not overlap: after a safety trigger no turn starts before the
\* run was paused or its resume asked for, and after a remote adapter was
\* quarantined none starts at all.
THEOREM StopsAreHeld ==
    ASSUME ~Overlap
    PROVE  Spec => StopsHold
<1>1. Init => TipInv /\ StopsInv
  <2>1. Init => StopsInv
    BY DEF Init, StopsInv, Registered, Live, TurnLabels, Idle, Callers, At
  <2> QED BY <2>1, TipInit
<1>2. IInv /\ TipInv /\ (used.mishaps = 0 => StopsInv) /\ [Next]_vars
        => TipInv' /\ (used.mishaps = 0 => StopsInv)'
  BY TipNext, StopsNext
<1>3. IInv /\ TipInv /\ (used.mishaps = 0 => StopsInv) /\ [Next]_vars =>
        [used.mishaps = 0 /\ StartsTurn =>
            /\ LastOf({"trigger", "adapter-quarantined"}) <= LastOf({"pause-checkpoint", "resume"})
            /\ LastOf({"adapter-quarantined"}) = 0]_vars
  <2> SUFFICES ASSUME IInv, StopsInv, [Next]_vars, StartsTurn
               PROVE  /\ LastOf({"trigger", "adapter-quarantined"}) <= LastOf({"pause-checkpoint", "resume"})
                      /\ LastOf({"adapter-quarantined"}) = 0
    OBVIOUS
  <2>1. StartStep
    BY OnlyStepStartsTurn
  <2>2. state \in Live /\ ~Escalates /\ loaded
    BY <2>1, NoTurnNow DEF StartStep, DriverFree, AcceptsTurns, Live, At
  <2>3. ~Struck /\ LastOf({"adapter-quarantined"}) = 0
    BY <2>2 DEF StopsInv
  <2>4. LastOf({"trigger", "adapter-quarantined"}) \in Nat /\ LastOf({"pause-checkpoint", "resume"}) \in Nat
    BY LastIs, NormalTypes DEF IInv
  <2> QED BY <2>3, <2>4 DEF Struck, Strikes, Answers
<1> QED BY <1>1, <1>2, <1>3, IInvHolds, PTL DEF Spec, StopsHold
=============================================================================
