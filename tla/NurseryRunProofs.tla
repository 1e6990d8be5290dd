-------------------------- MODULE NurseryRunProofs --------------------------
(* Proofs about NurseryRun, for every configuration, any number of calls and *)
(* of mishaps.                                                               *)
(*                                                                           *)
(* No property of a run is inductive by itself: what the seal has written is *)
(* only final because of what the calls under way may still do. The          *)
(* invariants build on one another.                                          *)
(*   Shape     the types, and the store before createRun;                    *)
(*   CallsInv  what the place of a call says of the state of the run, and    *)
(*             which calls are never under way at once (the lifecycle table  *)
(*             decides that: each such call begins with a transition);       *)
(*   SealInv   what the seal has written by the time a call gets to a place; *)
(*   IInv      these three, with which the first three theorems follow;      *)
(*   TipInv    what may still follow the final checkpoint, while calls do    *)
(*             not overlap;                                                  *)
(*   PauseInv  what the evidence says of a pause, the state says too;        *)
(*   TurnInv   the counter of the process is the number of turn records.     *)
(* Each invariant sees a step through an abstract move (PlainStep, TipMoves, *)
(* PauseMoves). One lemma shows that the move preserves the invariant, and   *)
(* one lemma per action of NurseryRun shows that the action is such a move.  *)
EXTENDS NurseryRun, TLAPS, FiniteSetTheorems, WellFoundedInduction, NaturalsInduction

---------------------------------------------------------------------------
(* The lifecycle *)

Abortable == {"running", "paused", "evaluating", "preregistered", "initializing", "resuming"}

\* The table, read by event.
LEMMA Applicable ==
    ASSUME NEW s
    PROVE  /\ CanApply(s, "ready") <=> s = "initializing"
           /\ CanApply(s, "pause") <=> s = "running"
           /\ CanApply(s, "pause-complete") <=> s = "pausing"
           /\ CanApply(s, "resume") <=> s = "paused"
           /\ CanApply(s, "resume-complete") <=> s = "resuming"
           /\ CanApply(s, "begin-evaluation") <=> s = "running"
           /\ CanApply(s, "abort") <=> s \in Abortable
           /\ CanApply(s, "abort-complete") <=> s = "aborting"
           /\ CanApply(s, "seal-blocked") <=> s \in {"sealing", "aborting"}
           /\ CanApply(s, "seal-retry") <=> s = "sealing-blocked"
           /\ CanApply(s, "abandon-recovery") <=> s = "sealing-blocked"
           /\ CanApply(s, "fork-detected") <=> s \in ActiveRunStates
<1>1. \A t \in Transitions :
        /\ t.event = "ready" => t.from = "initializing"
        /\ t.event = "pause" => t.from = "running"
        /\ t.event = "pause-complete" => t.from = "pausing"
        /\ t.event = "resume" => t.from = "paused"
        /\ t.event = "resume-complete" => t.from = "resuming"
        /\ t.event = "begin-evaluation" => t.from = "running"
        /\ t.event = "abort-complete" => t.from = "aborting"
        /\ t.event = "seal-retry" => t.from = "sealing-blocked"
        /\ t.event = "abandon-recovery" => t.from = "sealing-blocked"
        /\ t.event = "seal-blocked" => t.from \in {"sealing", "aborting"}
        /\ t.event = "abort" => t.from \in Abortable
        /\ t.event = "fork-detected" => t.from \in ActiveRunStates
  BY DEF Transitions, Arrow, Abortable
<1>2. /\ Arrow("initializing", "ready", "running") \in Transitions
      /\ Arrow("running", "pause", "pausing") \in Transitions
      /\ Arrow("pausing", "pause-complete", "paused") \in Transitions
      /\ Arrow("paused", "resume", "resuming") \in Transitions
      /\ Arrow("resuming", "resume-complete", "running") \in Transitions
      /\ Arrow("running", "begin-evaluation", "evaluating") \in Transitions
      /\ Arrow("aborting", "abort-complete", "aborted-sealed") \in Transitions
      /\ Arrow("sealing-blocked", "seal-retry", "sealing") \in Transitions
      /\ Arrow("sealing-blocked", "abandon-recovery", "aborted-sealed") \in Transitions
      /\ Arrow("sealing", "seal-blocked", "sealing-blocked") \in Transitions
      /\ Arrow("aborting", "seal-blocked", "sealing-blocked") \in Transitions
      /\ s \in Abortable => Arrow(s, "abort", "aborting") \in Transitions
      /\ s \in ActiveRunStates => Arrow(s, "fork-detected", "forked-invalid") \in Transitions
  BY DEF Transitions, Abortable
<1>3. \A from, event, to : Arrow(from, event, to).from = from /\ Arrow(from, event, to).event = event
  BY DEF Arrow
<1>4. ASSUME NEW e, NEW to, Arrow(s, e, to) \in Transitions
      PROVE  CanApply(s, e)
  BY <1>3, <1>4 DEF CanApply
<1>5. ASSUME NEW e, CanApply(s, e)
      PROVE  \E t \in Transitions : t.from = s /\ t.event = e
  BY <1>5 DEF CanApply
<1> QED BY <1>1, <1>2, <1>4, <1>5

LEMMA Arrivals ==
    ASSUME NEW s
    PROVE  /\ CanApply(s, "pause-complete") => After(s, "pause-complete") = "paused"
           /\ CanApply(s, "begin-evaluation") => After(s, "begin-evaluation") = "evaluating"
           /\ CanApply(s, "abort-complete") => After(s, "abort-complete") = "aborted-sealed"
           /\ CanApply(s, "seal-blocked") => After(s, "seal-blocked") = "sealing-blocked"
           /\ CanApply(s, "fork-detected") => After(s, "fork-detected") = "forked-invalid"
<1>1. \A t \in Transitions :
        /\ t.event = "pause-complete" => t.to = "paused"
        /\ t.event = "begin-evaluation" => t.to = "evaluating"
        /\ t.event = "abort-complete" => t.to = "aborted-sealed"
        /\ t.event = "seal-blocked" => t.to = "sealing-blocked"
        /\ t.event = "fork-detected" => t.to = "forked-invalid"
  BY DEF Transitions, Arrow
<1>2. ASSUME NEW e, CanApply(s, e)
      PROVE  \E t \in Transitions : t.event = e /\ After(s, e) = t.to
  BY <1>2 DEF CanApply, After
<1> QED BY <1>1, <1>2

---------------------------------------------------------------------------
(* The invariant: what the calls under way say of the state *)

\* A run in one of these states accepts no turn in this process any more.
Closing == {"sealing", "sealing-blocked", "aborting", "sealed", "aborted-sealed",
            "forked-invalid"}
SealStates == Closing \ {"aborting"}

PauseLabels == {"pause", "pause-checkpoint"}
ResumeLabels == {"resume-prefix", "resume", "resume-checkpoint"}
WritingLabels == {"seal-a", "seal-b", "final-checkpoint"}

\* Caller c is in abort, up to its last transition ...
Aborts(c) ==
    \/ task[c].at \in {"abort", "abort-record"}
    \/ task[c].aborting /\ task[c].at \in WritingLabels \cup {"anchor"}

\* ... or in seal or retrySeal.
Seals(c) ==
    \/ task[c].at \in {"seal-retry", "seal-check", "blocked-record", "pending-record",
                       "verify", "verdict-record", "abort-decision"}
    \/ ~task[c].aborting /\ task[c].at \in WritingLabels \cup {"anchor"}

CallOf(c) ==
    /\ At(c, "idle") => task[c] = Idle
    /\ task[c].aborting => task[c].aborted
    /\ At(c, "abort-record") => task[c].aborting
    /\ task[c].at \in {"seal-retry", "seal-check"} => ~task[c].aborted
    /\ task[c].at \in WritingLabels /\ ~task[c].aborting => ~task[c].aborted
    /\ task[c].at \in PauseLabels => state \in {"pausing"} \cup Closing
    /\ task[c].at \in ResumeLabels => c = "operator" /\ state \in {"resuming"} \cup Closing
    /\ Aborts(c) => state \in {"aborting", "forked-invalid"}
    /\ Seals(c) => state \in SealStates

\* Two callers never pause, or abort, or abort and seal, at once.
Apart(c, d) ==
    /\ ~(task[c].at \in PauseLabels /\ task[d].at \in PauseLabels)
    /\ ~(Aborts(c) /\ Aborts(d))
    /\ ~(Aborts(c) /\ Seals(d))

CallsInv ==
    /\ ~loaded => \A c \in Callers : task[c] = Idle
    /\ \A c \in Callers : CallOf(c)
    /\ \A c, d \in Callers : c # d => Apart(c, d)

---------------------------------------------------------------------------
(* The invariant: what the seal has written *)

EvidenceLabels == {"anchor", "abort-record", "blocked-record", "pending-record",
                   "verify", "verdict-record", "abort-decision"}
EndStates == {"sealed", "aborted-sealed", "sealing-blocked"}

\* The final checkpoint is that of a run that was not aborted.
Completed == FinalCheckpoint # 0 /\ journal[FinalCheckpoint] = "run-sealed"

SealOf(c) ==
    /\ task[c].at \in {"seal-b", "final-checkpoint"} => sealed["baby-a"] > 0
    /\ At(c, "final-checkpoint") => sealed["baby-b"] > 0
    /\ task[c].at \in EvidenceLabels => FinalCheckpoint # 0
    /\ task[c].at \in WritingLabels /\ ~task[c].aborting => FinalCheckpoint = 0 \/ Completed
    /\ task[c].at \in EvidenceLabels /\ ~task[c].aborted => Completed
    /\ task[c].anchored => Confirmed(receipt)

SealInv ==
    /\ FinalCheckpoint # 0 => \A b \in Roles : sealed[b] > 0
    /\ FinalCheckpoint # 0 /\ loaded => state \in Closing
    /\ state \in EndStates => FinalCheckpoint # 0
    /\ (\E i \in DOMAIN records : records[i].disposition = "valid")
            => Confirmed(receipt) /\ Completed
    /\ \A c \in Callers : SealOf(c)

\* The store before createRun, and the process without the run.
Shape ==
    /\ TypeOK
    /\ \E n \in Nat : \A r \in scheduled : r.turn <= n
    /\ ~Registered => ~loaded /\ journal = <<>> /\ state = "preregistered"
    /\ ~loaded => \A c \in Callers : task[c] = Idle
    /\ At("driver", "repair-turn") => mem.repair \in Nat

---------------------------------------------------------------------------
(* The invariant: what may still follow the final checkpoint *)

\* Calls that may still write a checkpoint.
OpenLabels == {"initial-record", "checkpoint-zero", "begin-evaluation",
           "channel", "turn-record", "repair-turn", "boundaries",
           "pause-not-available", "pause", "pause-checkpoint", "resume-prefix",
           "resume", "resume-checkpoint", "annotate-checkpoint", "abort",
           "seal-a", "seal-b", "final-checkpoint", "recovery", "recovery-checkpoint"}

\* While calls do not overlap, one caller is always idle.
TipInv ==
    /\ \E c \in Callers : At(c, "idle")
    /\ FinalCheckpointIsTip
    /\ \A c \in Callers : task[c].at \in OpenLabels => FinalCheckpoint = 0

---------------------------------------------------------------------------
(* Moves of a call *)

LEMMA IdleTask == Idle \in TaskType /\ Idle.at = "idle"
BY DEF Idle, TaskType, Labels, Phases

LEMMA GoEffect ==
    ASSUME task \in [Callers -> TaskType], NEW c \in Callers, NEW label \in Labels,
           Go(c, label)
    PROVE  /\ task' \in [Callers -> TaskType]
           /\ task'[c].at = label
           /\ task'[c].turn = task[c].turn /\ task'[c].phase = task[c].phase
           /\ task'[c].of = task[c].of /\ task'[c].trigger = task[c].trigger
           /\ task'[c].aborting = task[c].aborting /\ task'[c].aborted = task[c].aborted
           /\ task'[c].anchored = task[c].anchored /\ task'[c].passed = task[c].passed
           /\ \A d \in Callers : d # c => task'[d] = task[d]
BY DEF Go, TaskType

LEMMA ReturnEffect ==
    ASSUME task \in [Callers -> TaskType], NEW c \in Callers, Return(c)
    PROVE  /\ task' \in [Callers -> TaskType]
           /\ task'[c] = Idle
           /\ \A d \in Callers : d # c => task'[d] = task[d]
BY IdleTask DEF Return

\* The calls of the others stand whatever caller c does to the state.
StateMoves(c) ==
    \/ state' = state
    \/ state \notin {"pausing", "resuming"} \cup Closing
    \/ state' \in {"aborting", "forked-invalid"} /\ state \notin SealStates
    \/ state' = "forked-invalid"
    \/ state = "pausing" /\ state' = "paused" /\ task[c].at \in PauseLabels
    \/ state = "resuming" /\ state' = "running" /\ c = "operator"
    \/ state \in SealStates \ {"forked-invalid"} /\ state' \in SealStates
    \/ state = "aborting" /\ state' \in SealStates /\ Aborts(c)

LEMMA CallsKept ==
    ASSUME CallsInv, NEW c \in Callers,
           \A d \in Callers : d # c => task'[d] = task[d],
           StateMoves(c), loaded \/ loaded', ~loaded' => loaded' = loaded,
           CallOf(c)', \A d \in Callers : d # c => Apart(c, d)' /\ Apart(d, c)'
    PROVE  CallsInv'
<1>1. ASSUME NEW d \in Callers, d # c PROVE CallOf(d)'
  <2>1. task'[d] = task[d] /\ CallOf(d) /\ Apart(c, d) /\ Apart(d, c)
    BY <1>1 DEF CallsInv
  <2>2. task[d].at \in PauseLabels => state' \in {"pausing"} \cup Closing
    BY <2>1 DEF CallOf, Apart, StateMoves, Closing, SealStates
  <2>3. task[d].at \in ResumeLabels => d = "operator" /\ state' \in {"resuming"} \cup Closing
    BY <1>1, <2>1 DEF CallOf, Apart, StateMoves, Closing, SealStates
  <2>4. Aborts(d) => state' \in {"aborting", "forked-invalid"}
    BY <2>1 DEF CallOf, Apart, StateMoves, Closing, SealStates
  <2>5. Seals(d) => state' \in SealStates
    BY <2>1 DEF CallOf, Apart, StateMoves, Closing, SealStates
  <2>6. (Aborts(d)' <=> Aborts(d)) /\ (Seals(d)' <=> Seals(d))
    BY <2>1 DEF Aborts, Seals
  <2> QED BY <2>1, <2>2, <2>3, <2>4, <2>5, <2>6 DEF CallOf, At
<1>2. \A d, e \in Callers : d # e => d = c \/ e = c
  BY DEF Callers
<1> QED BY <1>1, <1>2 DEF CallsInv

---------------------------------------------------------------------------
(* Positions in the journal *)

LEMMA LeastExists ==
    ASSUME NEW S \in SUBSET Nat, S # {}
    PROVE  \E i \in S : \A j \in S : i <= j
<1> DEFINE R == OpToRel(<, Nat)
<1>1. IsWellFoundedOn(R, Nat)
  BY NatLessThanWellFounded
<1>2. \A x, y \in Nat : x < y => <<x, y>> \in R
  BY DEF OpToRel
<1> HIDE DEF R
<1>3. PICK i \in S : \A j \in S : ~ (<<j, i>> \in R)
  BY <1>1, WFMin
<1>4. ASSUME NEW j \in S PROVE i <= j
  <2>1. ~ (j < i)
    BY <1>2, <1>3
  <2> QED BY <2>1
<1> QED BY <1>4

LEMMA GreatestExists ==
    ASSUME NEW S \in SUBSET Nat, S # {}, NEW n \in Nat, \A i \in S : i <= n
    PROVE  \E i \in S : \A j \in S : j <= i
<1> DEFINE T == {n - i : i \in S}
<1>0. \A i \in S : n - i \in Nat
  OBVIOUS
<1>1. T \in SUBSET Nat /\ T # {}
  <2>1. T \subseteq Nat
    BY <1>0
  <2>2. PICK i \in S : TRUE
    OBVIOUS
  <2>3. n - i \in T
    BY <2>2
  <2> QED BY <2>1, <2>3
<1>2. PICK k \in T : \A j \in T : k <= j
  BY <1>1, LeastExists
<1>3. PICK i \in S : k = n - i
  OBVIOUS
<1>4. \A j \in S : n - j \in T /\ n - i <= n - j
  BY <1>2, <1>3
<1>5. \A j \in S : j <= i
  BY <1>4
<1> QED BY <1>5

LEMMA FinalIs ==
    journal \in Seq(JournalEntries) =>
        \/ /\ FinalCheckpoint = 0
           /\ \A i \in DOMAIN journal : journal[i] \notin FinalReasons
        \/ /\ FinalCheckpoint \in DOMAIN journal
           /\ journal[FinalCheckpoint] \in FinalReasons
           /\ \A i \in DOMAIN journal : journal[i] \in FinalReasons => FinalCheckpoint <= i
<1> HAVE journal \in Seq(JournalEntries)
<1> DEFINE at == {i \in DOMAIN journal : journal[i] \in FinalReasons}
<1>1. at \in SUBSET Nat /\ DOMAIN journal = 1..Len(journal)
  OBVIOUS
<1>2. CASE at = {}
  BY <1>2 DEF FinalCheckpoint
<1>3. CASE at # {}
  <2>1. \E i \in at : \A j \in at : i <= j
    BY <1>1, <1>3, LeastExists
  <2>2. PICK f : f = CHOOSE i \in at : \A j \in at : i <= j
    OBVIOUS
  <2>3. f \in at /\ \A j \in at : f <= j
    BY <2>1, <2>2
  <2>4. FinalCheckpoint = f
    BY <1>3, <2>2 DEF FinalCheckpoint
  <2> QED BY <2>3, <2>4
<1> QED BY <1>2, <1>3

LEMMA LastIs ==
    ASSUME NEW CONSTANT whats
    PROVE  journal \in Seq(JournalEntries) =>
        \/ /\ LastOf(whats) = 0
           /\ \A i \in DOMAIN journal : journal[i] \notin whats
        \/ /\ LastOf(whats) \in DOMAIN journal
           /\ journal[LastOf(whats)] \in whats
           /\ \A i \in DOMAIN journal : journal[i] \in whats => i <= LastOf(whats)
<1> HAVE journal \in Seq(JournalEntries)
<1> DEFINE at == {i \in DOMAIN journal : journal[i] \in whats}
<1>1. /\ at \in SUBSET Nat /\ DOMAIN journal = 1..Len(journal) /\ Len(journal) \in Nat
      /\ \A i \in at : i <= Len(journal)
  OBVIOUS
<1>2. CASE at = {}
  BY <1>2 DEF LastOf
<1>3. CASE at # {}
  <2>1. \E i \in at : \A j \in at : j <= i
    BY <1>1, <1>3, GreatestExists
  <2>2. PICK f : f = CHOOSE i \in at : \A j \in at : j <= i
    OBVIOUS
  <2>3. f \in at /\ \A j \in at : j <= f
    BY <2>1, <2>2
  <2>4. LastOf(whats) = f
    BY <1>3, <2>2 DEF LastOf
  <2> QED BY <2>3, <2>4
<1> QED BY <1>2, <1>3

\* What a step may write without touching the final checkpoint.
Quiet == journal' = journal \/ \E w \in JournalEntries \ FinalReasons : Write(w)

LEMMA FinalIsNext ==
    journal' \in Seq(JournalEntries) =>
        \/ /\ FinalCheckpoint' = 0
           /\ \A i \in DOMAIN journal' : journal'[i] \notin FinalReasons
        \/ /\ FinalCheckpoint' \in DOMAIN journal'
           /\ journal'[FinalCheckpoint'] \in FinalReasons
           /\ \A i \in DOMAIN journal' : journal'[i] \in FinalReasons => FinalCheckpoint' <= i
<1>1. (journal \in Seq(JournalEntries) =>
        \/ /\ FinalCheckpoint = 0
           /\ \A i \in DOMAIN journal : journal[i] \notin FinalReasons
        \/ /\ FinalCheckpoint \in DOMAIN journal
           /\ journal[FinalCheckpoint] \in FinalReasons
           /\ \A i \in DOMAIN journal : journal[i] \in FinalReasons => FinalCheckpoint <= i)'
  BY FinalIs, PTL
<1> QED BY <1>1

LEMMA WriteEffect ==
    ASSUME journal \in Seq(JournalEntries), NEW w \in JournalEntries, Write(w)
    PROVE  /\ journal' \in Seq(JournalEntries)
           /\ DOMAIN journal = 1..Len(journal) /\ DOMAIN journal' = 1..(Len(journal) + 1)
           /\ Len(journal) \in Nat
           /\ \A i \in DOMAIN journal : journal'[i] = journal[i]
           /\ journal'[Len(journal) + 1] = w
BY DEF Write

\* The first final checkpoint stays the first.
LEMMA FinalStays ==
    ASSUME journal \in Seq(JournalEntries), NEW w \in JournalEntries, Write(w)
    PROVE  /\ FinalCheckpoint # 0 => /\ FinalCheckpoint' = FinalCheckpoint
                                     /\ FinalCheckpoint \in DOMAIN journal
                                     /\ journal'[FinalCheckpoint'] = journal[FinalCheckpoint]
           /\ FinalCheckpoint = 0 /\ w \notin FinalReasons => FinalCheckpoint' = 0
           /\ FinalCheckpoint = 0 /\ w \in FinalReasons =>
                /\ FinalCheckpoint' = Len(journal) + 1
                /\ FinalCheckpoint' # 0
                /\ journal'[FinalCheckpoint'] = w
<1>1. /\ journal' \in Seq(JournalEntries)
      /\ DOMAIN journal = 1..Len(journal) /\ DOMAIN journal' = 1..(Len(journal) + 1)
      /\ Len(journal) \in Nat
      /\ \A i \in DOMAIN journal : journal'[i] = journal[i]
      /\ journal'[Len(journal) + 1] = w
  BY WriteEffect
<1> DEFINE f == FinalCheckpoint
           g == FinalCheckpoint'
           n == Len(journal)
<1>2. \/ f = 0 /\ \A i \in 1..n : journal[i] \notin FinalReasons
      \/ /\ f \in 1..n /\ journal[f] \in FinalReasons
         /\ \A i \in 1..n : journal[i] \in FinalReasons => f <= i
  BY <1>1, FinalIs
<1>3. \/ g = 0 /\ \A i \in 1..(n + 1) : journal'[i] \notin FinalReasons
      \/ /\ g \in 1..(n + 1) /\ journal'[g] \in FinalReasons
         /\ \A i \in 1..(n + 1) : journal'[i] \in FinalReasons => g <= i
  BY <1>1, FinalIsNext
<1>4. \A i \in 1..n : journal'[i] = journal[i]
  BY <1>1
<1> HIDE DEF f, g
<1>5. f # 0 => g = f /\ f \in 1..n
  BY <1>1, <1>2, <1>3, <1>4
<1>6. f = 0 /\ w \notin FinalReasons => g = 0
  BY <1>1, <1>2, <1>3, <1>4
<1>7. f = 0 /\ w \in FinalReasons => g = n + 1
  BY <1>1, <1>2, <1>3, <1>4
<1> QED BY <1>1, <1>4, <1>5, <1>6, <1>7 DEF f, g

LEMMA QuietKeeps ==
    ASSUME journal \in Seq(JournalEntries), Quiet
    PROVE  /\ journal' \in Seq(JournalEntries)
           /\ FinalCheckpoint' = FinalCheckpoint
           /\ Completed' <=> Completed
<1>1. CASE journal' = journal
  BY <1>1 DEF FinalCheckpoint, Completed
<1>2. CASE \E w \in JournalEntries \ FinalReasons : Write(w)
  <2>1. PICK w \in JournalEntries \ FinalReasons : Write(w)
    BY <1>2
  <2> QED BY <2>1, WriteEffect, FinalStays DEF Completed
<1> QED BY <1>1, <1>2 DEF Quiet

---------------------------------------------------------------------------
(* The shape of the state *)

LEMMA TransitionStates ==
    /\ \A s, e : CanApply(s, e) => After(s, e) \in RunStates
    /\ Closing \subseteq RunStates /\ "paused" \in RunStates /\ "resuming" \in RunStates
    /\ {"running", "evaluating", "pausing", "initializing"} \subseteq RunStates
<1>1. \A t \in Transitions : t.to \in RunStates
  BY DEF Transitions, Arrow, RunStates, ActiveRunStates, TerminalRunStates
<1>2. ASSUME NEW s, NEW e, CanApply(s, e)
      PROVE  \E t \in Transitions : After(s, e) = t.to
  BY <1>2 DEF CanApply, After
<1>3. \A s, e : CanApply(s, e) => After(s, e) \in RunStates
  BY <1>1, <1>2
<1> QED BY <1>3 DEF RunStates, Closing

LEMMA StageEffect ==
    ASSUME NEW c \in Callers, NEW s \in RunStates, NEW m, ApplyStageTransitions(c, s, m)
    PROVE  /\ mem' = m
           /\ state' \in RunStates
           /\ \/ Go(c, "begin-evaluation") /\ state' = s /\ s = "running"
              \/ Return(c) /\ state' = "sealing" /\ s = "evaluating"
              \/ Return(c) /\ state' = s
BY DEF ApplyStageTransitions, RunStates

LEMMA ApplyEffect ==
    ASSUME NEW c \in Callers, NEW event, state \in RunStates, ApplyAndReturn(c, event)
    PROVE  /\ state' \in RunStates
           /\ Return(c)
           /\ \/ state' = state
              \/ CanApply(state, event) /\ state' = After(state, event)
BY TransitionStates DEF ApplyAndReturn

LEMMA CountIsNat ==
    ASSUME turns \in Seq(TurnType), NEW phase
    PROVE  Count(phase) \in Nat
<1> DEFINE S == {i \in DOMAIN turns : turns[i].phase = phase /\ turns[i].of = None}
<1>1. S \subseteq 1..Len(turns) /\ Len(turns) \in Nat
  OBVIOUS
<1>2. IsFiniteSet(1..Len(turns))
  BY <1>1, FS_Interval
<1>3. IsFiniteSet(S)
  BY <1>1, <1>2, FS_Subset
<1>4. Cardinality(S) \in Nat
  BY <1>3, FS_CardinalityType
<1> QED BY <1>4 DEF Count

LEMMA NextTurnIsNat ==
    ASSUME turns \in Seq(TurnType)
    PROVE  NextTurn \in Nat
<1>1. turns # <<>> => Last(turns) \in TurnType
  BY DEF Last
<1>2. \A t \in TurnType : t.turn + 1 \in Nat
  BY DEF TurnType
<1> QED BY <1>1, <1>2 DEF NextTurn

\* The pending repair is a repair that is scheduled.
LEMMA PendingRepairType ==
    ASSUME scheduled \subseteq RepairType, \E n \in Nat : \A r \in scheduled : r.turn <= n
    PROVE  PendingRepair.turn \in Nat \cup {None} /\ PendingRepair.phase \in Phases
<1> DEFINE open == {r \in scheduled : \A i \in DOMAIN turns : turns[i].of # r.turn}
           T == {r.turn : r \in open}
<1>1. CASE open = {}
  BY <1>1 DEF PendingRepair, Phases
<1>2. CASE open # {}
  <2>1. T \in SUBSET Nat /\ T # {}
    BY <1>2 DEF RepairType
  <2>2. \E n \in Nat : \A k \in T : k <= n
    OBVIOUS
  <2>3. PICK k \in T : \A j \in T : j <= k
    BY <2>1, <2>2, GreatestExists
  <2>4. \E r \in open : \A q \in open : q.turn <= r.turn
    BY <2>3
  <2>5. PICK p : p = CHOOSE r \in open : \A q \in open : q.turn <= r.turn
    OBVIOUS
  <2>6. p \in open
    BY <2>4, <2>5
  <2>7. PendingRepair = p
    BY <1>2, <2>5 DEF PendingRepair
  <2> QED BY <2>6, <2>7 DEF RepairType
<1> QED BY <1>1, <1>2

LEMMA Busy ==
    ASSUME Shape, NEW c \in Callers, ~At(c, "idle")
    PROVE  loaded /\ Registered
BY IdleTask DEF Shape, At

LEMMA NormalTypes ==
    ASSUME Shape
    PROVE  /\ task \in [Callers -> TaskType] /\ mem \in MemType
           /\ journal \in Seq(JournalEntries) /\ records \in Seq(RecordType)
           /\ turns \in Seq(TurnType) /\ state \in RunStates
           /\ metadata # <<>> => Config \in ConfigurationType
<1>1. metadata # <<>> => \E c \in Configurations : metadata = <<c>>
  BY DEF Shape, TypeOK
<1>2. metadata # <<>> => Config \in ConfigurationType
  BY <1>1, ConfigurationsAssumption DEF Config
<1> QED BY <1>2 DEF Shape, TypeOK

\* A step that only moves calls, counters and the state, and writes evidence.
LEMMA ShapeKept ==
    ASSUME Shape, loaded, Registered, metadata' = metadata, loaded' = loaded,
           scheduled' = scheduled, channel' \subseteq Nat, turns' \in Seq(TurnType),
           forked' \in BOOLEAN, quarantined' \in BOOLEAN, sealed' \in [Roles -> Nat],
           journal' \in Seq(JournalEntries), records' \in Seq(RecordType),
           receipt' \in {"none", "confirmed", "failed"}, state' \in RunStates,
           mem' \in MemType, task' \in [Callers -> TaskType],
           used' \in [calls : 0..MaxCalls, mishaps : 0..MaxMishaps],
           \/ task'["driver"].at # "repair-turn"
           \/ mem'.repair \in Nat
           \/ task'["driver"] = task["driver"] /\ mem' = mem
    PROVE  Shape'
<1>1. TypeOK'
  BY DEF Shape, TypeOK
<1>2. (At("driver", "repair-turn") => mem.repair \in Nat)'
  BY DEF Shape, At
<1>3. (\E n \in Nat : \A r \in scheduled : r.turn <= n)'
  BY DEF Shape
<1>4. Registered' /\ loaded'
  BY DEF Registered
<1> QED BY <1>1, <1>2, <1>3, <1>4 DEF Shape

LEMMA RecordEffect ==
    ASSUME records \in Seq(RecordType), NEW d \in {"valid", "invalid", "aborted"},
           NEW a \in BOOLEAN, Record(d, a)
    PROVE  /\ records' \in Seq(RecordType)
           /\ d # "valid" => \A i \in DOMAIN records' : records'[i].disposition = "valid" =>
                                i \in DOMAIN records /\ records[i].disposition = "valid"
<1>1. [disposition |-> d, anchored |-> a] \in RecordType
  BY DEF RecordType
<1>2. PICK r : r = [disposition |-> d, anchored |-> a] /\ r \in RecordType /\ r.disposition = d
  BY <1>1
<1>3. records' = Append(records, r)
  BY <1>2 DEF Record
<1>4. /\ records' \in Seq(RecordType)
      /\ DOMAIN records = 1..Len(records) /\ DOMAIN records' = 1..(Len(records) + 1)
      /\ Len(records) \in Nat
      /\ \A i \in DOMAIN records : records'[i] = records[i]
      /\ records'[Len(records) + 1] = r
  BY <1>2, <1>3
<1> QED BY <1>2, <1>4


LEMMA InitialRecordShape ==
    ASSUME Shape, InitialRecord
    PROVE  Shape'
<1> USE NormalTypes
<1>0. "driver" \in Callers
  BY DEF Callers
<1>1. loaded /\ Registered
  BY <1>0, Busy DEF InitialRecord, At
<1>2. /\ task' \in [Callers -> TaskType]
      /\ \/ task'["driver"].at # "repair-turn"
         \/ task'["driver"] = task["driver"] /\ mem' = mem
  BY <1>0, GoEffect DEF InitialRecord, Labels, Callers
<1>3. records' \in Seq(RecordType)
  BY <1>0, RecordEffect DEF InitialRecord
<1>4. metadata' = metadata /\ loaded' = loaded /\ scheduled' = scheduled
  BY DEF InitialRecord, evidence
<1>5. /\ forked' \in BOOLEAN
      /\ quarantined' \in BOOLEAN
      /\ turns' \in Seq(TurnType)
      /\ channel' \subseteq Nat
      /\ sealed' \in [Roles -> Nat]
      /\ journal' \in Seq(JournalEntries)
      /\ receipt' \in {"none", "confirmed", "failed"}
      /\ state' \in RunStates
      /\ mem' \in MemType
      /\ used' \in [calls : 0..MaxCalls, mishaps : 0..MaxMishaps]
  BY DEF InitialRecord, evidence, Shape, TypeOK
<1> QED BY <1>1, <1>2, <1>3, <1>4, <1>5, ShapeKept

LEMMA CheckpointZeroShape ==
    ASSUME Shape, CheckpointZero
    PROVE  Shape'
<1> USE NormalTypes
<1>0. "driver" \in Callers
  BY DEF Callers
<1>1. loaded /\ Registered
  BY <1>0, Busy DEF CheckpointZero, At
<1>2. /\ task' \in [Callers -> TaskType]
      /\ \/ task'["driver"].at # "repair-turn"
         \/ task'["driver"] = task["driver"] /\ mem' = mem
  BY <1>0, GoEffect, ReturnEffect, IdleTask, StageEffect, TransitionStates DEF CheckpointZero, Labels, Callers
<1>3. journal' \in Seq(JournalEntries)
  BY <1>0, WriteEffect DEF CheckpointZero, JournalEntries
<1>4. state' \in RunStates
  BY <1>0, StageEffect, <1>0, TransitionStates DEF CheckpointZero
<1>5. mem' \in MemType
  BY <1>0, StageEffect, <1>0, TransitionStates DEF CheckpointZero
<1>6. metadata' = metadata /\ loaded' = loaded /\ scheduled' = scheduled
  BY DEF CheckpointZero, evidence
<1>7. /\ forked' \in BOOLEAN
      /\ quarantined' \in BOOLEAN
      /\ turns' \in Seq(TurnType)
      /\ channel' \subseteq Nat
      /\ sealed' \in [Roles -> Nat]
      /\ records' \in Seq(RecordType)
      /\ receipt' \in {"none", "confirmed", "failed"}
      /\ used' \in [calls : 0..MaxCalls, mishaps : 0..MaxMishaps]
  BY DEF CheckpointZero, evidence, Shape, TypeOK
<1> QED BY <1>1, <1>2, <1>3, <1>4, <1>5, <1>6, <1>7, ShapeKept

LEMMA BeginEvaluationShape ==
    ASSUME Shape, NEW c \in Callers, BeginEvaluation(c)
    PROVE  Shape'
<1> USE NormalTypes
<1>1. loaded /\ Registered
  BY Busy DEF BeginEvaluation, At
<1>2. /\ task' \in [Callers -> TaskType]
      /\ \/ task'["driver"].at # "repair-turn"
         \/ task'["driver"] = task["driver"] /\ mem' = mem
  BY ReturnEffect, IdleTask, ApplyEffect DEF BeginEvaluation, Labels, Callers
<1>3. journal' \in Seq(JournalEntries)
  BY WriteEffect DEF BeginEvaluation, JournalEntries, PolicyCheckpoint
<1>4. state' \in RunStates
  BY ApplyEffect DEF BeginEvaluation
<1>5. metadata' = metadata /\ loaded' = loaded /\ scheduled' = scheduled
  BY DEF BeginEvaluation, evidence
<1>6. /\ forked' \in BOOLEAN
      /\ quarantined' \in BOOLEAN
      /\ turns' \in Seq(TurnType)
      /\ channel' \subseteq Nat
      /\ sealed' \in [Roles -> Nat]
      /\ records' \in Seq(RecordType)
      /\ receipt' \in {"none", "confirmed", "failed"}
      /\ mem' \in MemType
      /\ used' \in [calls : 0..MaxCalls, mishaps : 0..MaxMishaps]
  BY DEF BeginEvaluation, evidence, Shape, TypeOK
<1> QED BY <1>1, <1>2, <1>3, <1>4, <1>5, <1>6, ShapeKept

LEMMA CallsCounted ==
    ASSUME Shape, NEW operation, OperatorCalls(operation)
    PROVE  used' \in [calls : 0..MaxCalls, mishaps : 0..MaxMishaps]
<1>1. used \in [calls : 0..MaxCalls, mishaps : 0..MaxMishaps] /\ MaxCalls \in Nat
  BY CountsAssumption DEF Shape, TypeOK
<1>2. used.calls < MaxCalls /\ used' = [used EXCEPT !.calls = @ + 1]
  BY DEF OperatorCalls
<1>3. used.calls + 1 \in 0..MaxCalls
  BY <1>1, <1>2
<1> QED BY <1>1, <1>2, <1>3

LEMMA SetEffect ==
    ASSUME task \in [Callers -> TaskType], NEW c \in Callers, NEW label \in Labels, NEW b \in BOOLEAN
    PROVE  /\ task' = [task EXCEPT ![c].at = label, ![c].trigger = b] =>
                /\ task' \in [Callers -> TaskType] /\ task'[c].at = label
                /\ task'[c].anchored = task[c].anchored /\ task'[c].turn = task[c].turn
                /\ task'[c].aborting = task[c].aborting /\ task'[c].aborted = task[c].aborted
                /\ \A d \in Callers : d # c => task'[d] = task[d]
           /\ task' = [task EXCEPT ![c].at = label, ![c].passed = b] =>
                /\ task' \in [Callers -> TaskType] /\ task'[c].at = label
                /\ task'[c].anchored = task[c].anchored
                /\ task'[c].aborting = task[c].aborting /\ task'[c].aborted = task[c].aborted
                /\ \A d \in Callers : d # c => task'[d] = task[d]
           /\ task' = [task EXCEPT ![c].at = label, ![c].aborted = b] =>
                /\ task' \in [Callers -> TaskType] /\ task'[c].at = label
                /\ task'[c].anchored = task[c].anchored
                /\ task'[c].aborting = task[c].aborting /\ task'[c].aborted = b
                /\ \A d \in Callers : d # c => task'[d] = task[d]
           /\ task' = [task EXCEPT ![c].at = label, ![c].aborting = TRUE, ![c].aborted = TRUE] =>
                /\ task' \in [Callers -> TaskType] /\ task'[c].at = label
                /\ task'[c].anchored = task[c].anchored
                /\ task'[c].aborting /\ task'[c].aborted
                /\ \A d \in Callers : d # c => task'[d] = task[d]
BY DEF TaskType

LEMMA MishapsCounted ==
    ASSUME Shape, NEW what, Mishap(what)
    PROVE  used' \in [calls : 0..MaxCalls, mishaps : 0..MaxMishaps]
BY CountsAssumption DEF Mishap, Shape, TypeOK

LEMMA ExecuteTurnShape ==
    ASSUME Shape, ExecuteTurn
    PROVE  Shape'
<1> USE NormalTypes
<1>0. "driver" \in Callers
  BY DEF Callers
<1>1. loaded /\ Registered
  BY <1>0, Busy DEF ExecuteTurn, At
<1>2. /\ task' \in [Callers -> TaskType]
      /\ \/ task'["driver"].at # "repair-turn"
         \/ task'["driver"] = task["driver"] /\ mem' = mem
  BY <1>0, SetEffect, ZenonT(60) DEF ExecuteTurn, Labels, Callers
<1>3. journal' \in Seq(JournalEntries)
  BY <1>0, WriteEffect DEF ExecuteTurn, JournalEntries
<1>4. mem' \in MemType
  BY <1>0 DEF ExecuteTurn, MemType
<1>5. metadata' = metadata /\ loaded' = loaded /\ scheduled' = scheduled
  BY DEF ExecuteTurn, evidence
<1>6. channel' \subseteq Nat
  BY <1>0 DEF ExecuteTurn, Shape, TypeOK, TaskType
<1>7. /\ forked' \in BOOLEAN
      /\ quarantined' \in BOOLEAN
      /\ turns' \in Seq(TurnType)
      /\ sealed' \in [Roles -> Nat]
      /\ records' \in Seq(RecordType)
      /\ receipt' \in {"none", "confirmed", "failed"}
      /\ state' \in RunStates
      /\ used' \in [calls : 0..MaxCalls, mishaps : 0..MaxMishaps]
  BY DEF ExecuteTurn, evidence, Shape, TypeOK
<1> QED BY <1>1, <1>2, <1>3, <1>4, <1>5, <1>6, <1>7, ShapeKept

LEMMA EventBoundariesShape ==
    ASSUME Shape, EventBoundaries
    PROVE  Shape'
<1> USE NormalTypes
<1>0. "driver" \in Callers
  BY DEF Callers
<1>1. loaded /\ Registered
  BY <1>0, Busy DEF EventBoundaries, At
<1>2. /\ task' \in [Callers -> TaskType]
      /\ \/ task'["driver"].at # "repair-turn"
         \/ task'["driver"] = task["driver"] /\ mem' = mem
  BY <1>0, GoEffect, ReturnEffect, IdleTask, StageEffect DEF EventBoundaries, Labels, Callers
<1>3. journal' \in Seq(JournalEntries)
  BY <1>0, WriteEffect DEF EventBoundaries, JournalEntries
<1>4. state' \in RunStates
  BY <1>0, StageEffect, TransitionStates DEF EventBoundaries
<1>5. mem' \in MemType
  BY <1>0, StageEffect DEF EventBoundaries
<1>6. metadata' = metadata /\ loaded' = loaded /\ scheduled' = scheduled
  BY DEF EventBoundaries, evidence
<1>7. /\ forked' \in BOOLEAN
      /\ quarantined' \in BOOLEAN
      /\ turns' \in Seq(TurnType)
      /\ channel' \subseteq Nat
      /\ sealed' \in [Roles -> Nat]
      /\ records' \in Seq(RecordType)
      /\ receipt' \in {"none", "confirmed", "failed"}
      /\ used' \in [calls : 0..MaxCalls, mishaps : 0..MaxMishaps]
  BY DEF EventBoundaries, evidence, Shape, TypeOK
<1> QED BY <1>1, <1>2, <1>3, <1>4, <1>5, <1>6, <1>7, ShapeKept

LEMMA PauseNotAvailableShape ==
    ASSUME Shape, PauseNotAvailable
    PROVE  Shape'
<1> USE NormalTypes
<1>0. "driver" \in Callers
  BY DEF Callers
<1>1. loaded /\ Registered
  BY <1>0, Busy DEF PauseNotAvailable, At
<1>2. /\ task' \in [Callers -> TaskType]
      /\ \/ task'["driver"].at # "repair-turn"
         \/ task'["driver"] = task["driver"] /\ mem' = mem
  BY <1>0, GoEffect, ReturnEffect, IdleTask, StageEffect DEF PauseNotAvailable, Labels, Callers
<1>3. journal' \in Seq(JournalEntries)
  BY <1>0, WriteEffect DEF PauseNotAvailable, JournalEntries
<1>4. state' \in RunStates
  BY <1>0, StageEffect, TransitionStates DEF PauseNotAvailable, Closing
<1>5. mem' \in MemType
  BY <1>0, StageEffect DEF PauseNotAvailable
<1>6. metadata' = metadata /\ loaded' = loaded /\ scheduled' = scheduled
  BY DEF PauseNotAvailable, evidence
<1>7. /\ forked' \in BOOLEAN
      /\ quarantined' \in BOOLEAN
      /\ turns' \in Seq(TurnType)
      /\ channel' \subseteq Nat
      /\ sealed' \in [Roles -> Nat]
      /\ records' \in Seq(RecordType)
      /\ receipt' \in {"none", "confirmed", "failed"}
      /\ used' \in [calls : 0..MaxCalls, mishaps : 0..MaxMishaps]
  BY DEF PauseNotAvailable, evidence, Shape, TypeOK
<1> QED BY <1>1, <1>2, <1>3, <1>4, <1>5, <1>6, <1>7, ShapeKept

LEMMA StartPauseShape ==
    ASSUME Shape, StartPause
    PROVE  Shape'
<1> USE NormalTypes
<1>0. "operator" \in Callers
  BY DEF Callers
<1>1. loaded /\ Registered
  BY DEF StartPause, OperatorCalls, Shape
<1>2. /\ task' \in [Callers -> TaskType]
      /\ \/ task'["driver"].at # "repair-turn"
         \/ task'["driver"] = task["driver"] /\ mem' = mem
  BY <1>0, GoEffect DEF StartPause, Labels, Callers
<1>3. state' \in RunStates
  BY <1>0, TransitionStates DEF StartPause
<1>4. used' \in [calls : 0..MaxCalls, mishaps : 0..MaxMishaps]
  BY CallsCounted DEF StartPause
<1>5. metadata' = metadata /\ loaded' = loaded /\ scheduled' = scheduled
  BY DEF StartPause, evidence, OperatorCalls
<1>6. /\ forked' \in BOOLEAN
      /\ quarantined' \in BOOLEAN
      /\ turns' \in Seq(TurnType)
      /\ channel' \subseteq Nat
      /\ sealed' \in [Roles -> Nat]
      /\ journal' \in Seq(JournalEntries)
      /\ records' \in Seq(RecordType)
      /\ receipt' \in {"none", "confirmed", "failed"}
      /\ mem' \in MemType
  BY DEF StartPause, evidence, Shape, TypeOK
<1> QED BY <1>1, <1>2, <1>3, <1>4, <1>5, <1>6, ShapeKept

LEMMA PauseEventShape ==
    ASSUME Shape, PauseEvent
    PROVE  Shape'
<1> USE NormalTypes
<1>0. "operator" \in Callers
  BY DEF Callers
<1>1. loaded /\ Registered
  BY <1>0, Busy DEF PauseEvent, At
<1>2. /\ task' \in [Callers -> TaskType]
      /\ \/ task'["driver"].at # "repair-turn"
         \/ task'["driver"] = task["driver"] /\ mem' = mem
  BY <1>0, GoEffect DEF PauseEvent, Labels, Callers
<1>3. journal' \in Seq(JournalEntries)
  BY <1>0, WriteEffect DEF PauseEvent, JournalEntries
<1>4. metadata' = metadata /\ loaded' = loaded /\ scheduled' = scheduled
  BY DEF PauseEvent, evidence
<1>5. /\ forked' \in BOOLEAN
      /\ quarantined' \in BOOLEAN
      /\ turns' \in Seq(TurnType)
      /\ channel' \subseteq Nat
      /\ sealed' \in [Roles -> Nat]
      /\ records' \in Seq(RecordType)
      /\ receipt' \in {"none", "confirmed", "failed"}
      /\ state' \in RunStates
      /\ mem' \in MemType
      /\ used' \in [calls : 0..MaxCalls, mishaps : 0..MaxMishaps]
  BY DEF PauseEvent, evidence, Shape, TypeOK
<1> QED BY <1>1, <1>2, <1>3, <1>4, <1>5, ShapeKept

LEMMA PauseCheckpointShape ==
    ASSUME Shape, NEW c \in Callers, PauseCheckpoint(c)
    PROVE  Shape'
<1> USE NormalTypes
<1>1. loaded /\ Registered
  BY Busy DEF PauseCheckpoint, At
<1>2. /\ task' \in [Callers -> TaskType]
      /\ \/ task'["driver"].at # "repair-turn"
         \/ task'["driver"] = task["driver"] /\ mem' = mem
  BY ReturnEffect, IdleTask, ApplyEffect DEF PauseCheckpoint, Labels, Callers
<1>3. journal' \in Seq(JournalEntries)
  BY WriteEffect DEF PauseCheckpoint, JournalEntries
<1>4. state' \in RunStates
  BY ApplyEffect DEF PauseCheckpoint
<1>5. metadata' = metadata /\ loaded' = loaded /\ scheduled' = scheduled
  BY DEF PauseCheckpoint, evidence
<1>6. /\ forked' \in BOOLEAN
      /\ quarantined' \in BOOLEAN
      /\ turns' \in Seq(TurnType)
      /\ channel' \subseteq Nat
      /\ sealed' \in [Roles -> Nat]
      /\ records' \in Seq(RecordType)
      /\ receipt' \in {"none", "confirmed", "failed"}
      /\ mem' \in MemType
      /\ used' \in [calls : 0..MaxCalls, mishaps : 0..MaxMishaps]
  BY DEF PauseCheckpoint, evidence, Shape, TypeOK
<1> QED BY <1>1, <1>2, <1>3, <1>4, <1>5, <1>6, ShapeKept

LEMMA StartResumeShape ==
    ASSUME Shape, StartResume
    PROVE  Shape'
<1> USE NormalTypes
<1>0. "operator" \in Callers
  BY DEF Callers
<1>1. loaded /\ Registered
  BY DEF StartResume, OperatorCalls, Shape
<1>2. /\ task' \in [Callers -> TaskType]
      /\ \/ task'["driver"].at # "repair-turn"
         \/ task'["driver"] = task["driver"] /\ mem' = mem
  BY <1>0, GoEffect DEF StartResume, Labels, Callers
<1>3. state' \in RunStates
  BY <1>0, TransitionStates DEF StartResume
<1>4. used' \in [calls : 0..MaxCalls, mishaps : 0..MaxMishaps]
  BY CallsCounted DEF StartResume
<1>5. metadata' = metadata /\ loaded' = loaded /\ scheduled' = scheduled
  BY DEF StartResume, evidence, OperatorCalls
<1>6. /\ forked' \in BOOLEAN
      /\ quarantined' \in BOOLEAN
      /\ turns' \in Seq(TurnType)
      /\ channel' \subseteq Nat
      /\ sealed' \in [Roles -> Nat]
      /\ journal' \in Seq(JournalEntries)
      /\ records' \in Seq(RecordType)
      /\ receipt' \in {"none", "confirmed", "failed"}
      /\ mem' \in MemType
  BY DEF StartResume, evidence, Shape, TypeOK
<1> QED BY <1>1, <1>2, <1>3, <1>4, <1>5, <1>6, ShapeKept

LEMMA ResumePrefixShape ==
    ASSUME Shape, ResumePrefix
    PROVE  Shape'
<1> USE NormalTypes
<1>0. "operator" \in Callers
  BY DEF Callers
<1>1. loaded /\ Registered
  BY <1>0, Busy DEF ResumePrefix, At
<1>2. /\ task' \in [Callers -> TaskType]
      /\ \/ task'["driver"].at # "repair-turn"
         \/ task'["driver"] = task["driver"] /\ mem' = mem
  BY <1>0, GoEffect, ReturnEffect, IdleTask, ApplyEffect DEF ResumePrefix, Labels, Callers
<1>3. state' \in RunStates
  BY <1>0, ApplyEffect DEF ResumePrefix
<1>4. metadata' = metadata /\ loaded' = loaded /\ scheduled' = scheduled
  BY DEF ResumePrefix, evidence
<1>5. /\ forked' \in BOOLEAN
      /\ quarantined' \in BOOLEAN
      /\ turns' \in Seq(TurnType)
      /\ channel' \subseteq Nat
      /\ sealed' \in [Roles -> Nat]
      /\ journal' \in Seq(JournalEntries)
      /\ records' \in Seq(RecordType)
      /\ receipt' \in {"none", "confirmed", "failed"}
      /\ mem' \in MemType
      /\ used' \in [calls : 0..MaxCalls, mishaps : 0..MaxMishaps]
  BY DEF ResumePrefix, evidence, Shape, TypeOK
<1> QED BY <1>1, <1>2, <1>3, <1>4, <1>5, ShapeKept

LEMMA ResumeEventShape ==
    ASSUME Shape, ResumeEvent
    PROVE  Shape'
<1> USE NormalTypes
<1>0. "operator" \in Callers
  BY DEF Callers
<1>1. loaded /\ Registered
  BY <1>0, Busy DEF ResumeEvent, At
<1>2. /\ task' \in [Callers -> TaskType]
      /\ \/ task'["driver"].at # "repair-turn"
         \/ task'["driver"] = task["driver"] /\ mem' = mem
  BY <1>0, GoEffect DEF ResumeEvent, Labels, Callers
<1>3. journal' \in Seq(JournalEntries)
  BY <1>0, WriteEffect DEF ResumeEvent, JournalEntries
<1>4. metadata' = metadata /\ loaded' = loaded /\ scheduled' = scheduled
  BY DEF ResumeEvent, evidence
<1>5. /\ forked' \in BOOLEAN
      /\ quarantined' \in BOOLEAN
      /\ turns' \in Seq(TurnType)
      /\ channel' \subseteq Nat
      /\ sealed' \in [Roles -> Nat]
      /\ records' \in Seq(RecordType)
      /\ receipt' \in {"none", "confirmed", "failed"}
      /\ state' \in RunStates
      /\ mem' \in MemType
      /\ used' \in [calls : 0..MaxCalls, mishaps : 0..MaxMishaps]
  BY DEF ResumeEvent, evidence, Shape, TypeOK
<1> QED BY <1>1, <1>2, <1>3, <1>4, <1>5, ShapeKept

LEMMA ResumeCheckpointShape ==
    ASSUME Shape, ResumeCheckpoint
    PROVE  Shape'
<1> USE NormalTypes
<1>0. "operator" \in Callers
  BY DEF Callers
<1>1. loaded /\ Registered
  BY <1>0, Busy DEF ResumeCheckpoint, At
<1>2. /\ task' \in [Callers -> TaskType]
      /\ \/ task'["driver"].at # "repair-turn"
         \/ task'["driver"] = task["driver"] /\ mem' = mem
  BY <1>0, GoEffect, ReturnEffect, IdleTask, StageEffect, TransitionStates DEF ResumeCheckpoint, Labels, Callers
<1>3. journal' \in Seq(JournalEntries)
  BY <1>0, WriteEffect DEF ResumeCheckpoint, JournalEntries
<1>4. state' \in RunStates
  BY <1>0, StageEffect, TransitionStates DEF ResumeCheckpoint
<1>5. mem' \in MemType
  BY <1>0, StageEffect, TransitionStates DEF ResumeCheckpoint
<1>6. metadata' = metadata /\ loaded' = loaded /\ scheduled' = scheduled
  BY DEF ResumeCheckpoint, evidence
<1>7. /\ forked' \in BOOLEAN
      /\ quarantined' \in BOOLEAN
      /\ turns' \in Seq(TurnType)
      /\ channel' \subseteq Nat
      /\ sealed' \in [Roles -> Nat]
      /\ records' \in Seq(RecordType)
      /\ receipt' \in {"none", "confirmed", "failed"}
      /\ used' \in [calls : 0..MaxCalls, mishaps : 0..MaxMishaps]
  BY DEF ResumeCheckpoint, evidence, Shape, TypeOK
<1> QED BY <1>1, <1>2, <1>3, <1>4, <1>5, <1>6, <1>7, ShapeKept

LEMMA StartAnnotateShape ==
    ASSUME Shape, StartAnnotate
    PROVE  Shape'
<1> USE NormalTypes
<1>0. "operator" \in Callers
  BY DEF Callers
<1>1. loaded /\ Registered
  BY DEF StartAnnotate, OperatorCalls, Shape
<1>2. /\ task' \in [Callers -> TaskType]
      /\ \/ task'["driver"].at # "repair-turn"
         \/ task'["driver"] = task["driver"] /\ mem' = mem
  BY <1>0, GoEffect DEF StartAnnotate, Labels, Callers
<1>3. used' \in [calls : 0..MaxCalls, mishaps : 0..MaxMishaps]
  BY CallsCounted DEF StartAnnotate
<1>4. metadata' = metadata /\ loaded' = loaded /\ scheduled' = scheduled
  BY DEF StartAnnotate, evidence, OperatorCalls
<1>5. /\ forked' \in BOOLEAN
      /\ quarantined' \in BOOLEAN
      /\ turns' \in Seq(TurnType)
      /\ channel' \subseteq Nat
      /\ sealed' \in [Roles -> Nat]
      /\ journal' \in Seq(JournalEntries)
      /\ records' \in Seq(RecordType)
      /\ receipt' \in {"none", "confirmed", "failed"}
      /\ state' \in RunStates
      /\ mem' \in MemType
  BY DEF StartAnnotate, evidence, Shape, TypeOK
<1> QED BY <1>1, <1>2, <1>3, <1>4, <1>5, ShapeKept

LEMMA AnnotateEventShape ==
    ASSUME Shape, AnnotateEvent
    PROVE  Shape'
<1> USE NormalTypes
<1>0. "operator" \in Callers
  BY DEF Callers
<1>1. loaded /\ Registered
  BY <1>0, Busy DEF AnnotateEvent, At
<1>2. /\ task' \in [Callers -> TaskType]
      /\ \/ task'["driver"].at # "repair-turn"
         \/ task'["driver"] = task["driver"] /\ mem' = mem
  BY <1>0, GoEffect DEF AnnotateEvent, Labels, Callers
<1>3. journal' \in Seq(JournalEntries)
  BY <1>0, WriteEffect DEF AnnotateEvent, JournalEntries
<1>4. metadata' = metadata /\ loaded' = loaded /\ scheduled' = scheduled
  BY DEF AnnotateEvent, evidence
<1>5. /\ forked' \in BOOLEAN
      /\ quarantined' \in BOOLEAN
      /\ turns' \in Seq(TurnType)
      /\ channel' \subseteq Nat
      /\ sealed' \in [Roles -> Nat]
      /\ records' \in Seq(RecordType)
      /\ receipt' \in {"none", "confirmed", "failed"}
      /\ state' \in RunStates
      /\ mem' \in MemType
      /\ used' \in [calls : 0..MaxCalls, mishaps : 0..MaxMishaps]
  BY DEF AnnotateEvent, evidence, Shape, TypeOK
<1> QED BY <1>1, <1>2, <1>3, <1>4, <1>5, ShapeKept

LEMMA AnnotateCheckShape ==
    ASSUME Shape, AnnotateCheck
    PROVE  Shape'
<1> USE NormalTypes
<1>0. "operator" \in Callers
  BY DEF Callers
<1>1. loaded /\ Registered
  BY <1>0, Busy DEF AnnotateCheck, At
<1>2. /\ task' \in [Callers -> TaskType]
      /\ \/ task'["driver"].at # "repair-turn"
         \/ task'["driver"] = task["driver"] /\ mem' = mem
  BY <1>0, GoEffect, ReturnEffect, IdleTask DEF AnnotateCheck, Labels, Callers
<1>3. metadata' = metadata /\ loaded' = loaded /\ scheduled' = scheduled
  BY DEF AnnotateCheck, evidence
<1>4. /\ forked' \in BOOLEAN
      /\ quarantined' \in BOOLEAN
      /\ turns' \in Seq(TurnType)
      /\ channel' \subseteq Nat
      /\ sealed' \in [Roles -> Nat]
      /\ journal' \in Seq(JournalEntries)
      /\ records' \in Seq(RecordType)
      /\ receipt' \in {"none", "confirmed", "failed"}
      /\ state' \in RunStates
      /\ mem' \in MemType
      /\ used' \in [calls : 0..MaxCalls, mishaps : 0..MaxMishaps]
  BY DEF AnnotateCheck, evidence, Shape, TypeOK
<1> QED BY <1>1, <1>2, <1>3, <1>4, ShapeKept

LEMMA AnnotateCheckpointShape ==
    ASSUME Shape, AnnotateCheckpoint
    PROVE  Shape'
<1> USE NormalTypes
<1>0. "operator" \in Callers
  BY DEF Callers
<1>1. loaded /\ Registered
  BY <1>0, Busy DEF AnnotateCheckpoint, At
<1>2. /\ task' \in [Callers -> TaskType]
      /\ \/ task'["driver"].at # "repair-turn"
         \/ task'["driver"] = task["driver"] /\ mem' = mem
  BY <1>0, GoEffect DEF AnnotateCheckpoint, Labels, Callers
<1>3. journal' \in Seq(JournalEntries)
  BY <1>0, WriteEffect DEF AnnotateCheckpoint, JournalEntries
<1>4. metadata' = metadata /\ loaded' = loaded /\ scheduled' = scheduled
  BY DEF AnnotateCheckpoint, evidence
<1>5. /\ forked' \in BOOLEAN
      /\ quarantined' \in BOOLEAN
      /\ turns' \in Seq(TurnType)
      /\ channel' \subseteq Nat
      /\ sealed' \in [Roles -> Nat]
      /\ records' \in Seq(RecordType)
      /\ receipt' \in {"none", "confirmed", "failed"}
      /\ state' \in RunStates
      /\ mem' \in MemType
      /\ used' \in [calls : 0..MaxCalls, mishaps : 0..MaxMishaps]
  BY DEF AnnotateCheckpoint, evidence, Shape, TypeOK
<1> QED BY <1>1, <1>2, <1>3, <1>4, <1>5, ShapeKept

LEMMA AnnotateRecordShape ==
    ASSUME Shape, AnnotateRecord
    PROVE  Shape'
<1> USE NormalTypes
<1>0. "operator" \in Callers
  BY DEF Callers
<1>1. loaded /\ Registered
  BY <1>0, Busy DEF AnnotateRecord, At
<1>2. /\ task' \in [Callers -> TaskType]
      /\ \/ task'["driver"].at # "repair-turn"
         \/ task'["driver"] = task["driver"] /\ mem' = mem
  BY <1>0, ReturnEffect, IdleTask DEF AnnotateRecord, Labels, Callers
<1>3. records' \in Seq(RecordType)
  BY <1>0, RecordEffect DEF AnnotateRecord
<1>4. metadata' = metadata /\ loaded' = loaded /\ scheduled' = scheduled
  BY DEF AnnotateRecord, evidence
<1>5. /\ forked' \in BOOLEAN
      /\ quarantined' \in BOOLEAN
      /\ turns' \in Seq(TurnType)
      /\ channel' \subseteq Nat
      /\ sealed' \in [Roles -> Nat]
      /\ journal' \in Seq(JournalEntries)
      /\ receipt' \in {"none", "confirmed", "failed"}
      /\ state' \in RunStates
      /\ mem' \in MemType
      /\ used' \in [calls : 0..MaxCalls, mishaps : 0..MaxMishaps]
  BY DEF AnnotateRecord, evidence, Shape, TypeOK
<1> QED BY <1>1, <1>2, <1>3, <1>4, <1>5, ShapeKept

LEMMA StartAbortShape ==
    ASSUME Shape, StartAbort
    PROVE  Shape'
<1> USE NormalTypes
<1>0. "operator" \in Callers
  BY DEF Callers
<1>1. loaded /\ Registered
  BY DEF StartAbort, OperatorCalls, Shape
<1>2. /\ task' \in [Callers -> TaskType]
      /\ \/ task'["driver"].at # "repair-turn"
         \/ task'["driver"] = task["driver"] /\ mem' = mem
  BY <1>0, GoEffect DEF StartAbort, Labels, Callers
<1>3. state' \in RunStates
  BY <1>0, TransitionStates DEF StartAbort, Closing
<1>4. used' \in [calls : 0..MaxCalls, mishaps : 0..MaxMishaps]
  BY CallsCounted DEF StartAbort
<1>5. metadata' = metadata /\ loaded' = loaded /\ scheduled' = scheduled
  BY DEF StartAbort, evidence, OperatorCalls
<1>6. /\ forked' \in BOOLEAN
      /\ quarantined' \in BOOLEAN
      /\ turns' \in Seq(TurnType)
      /\ channel' \subseteq Nat
      /\ sealed' \in [Roles -> Nat]
      /\ journal' \in Seq(JournalEntries)
      /\ records' \in Seq(RecordType)
      /\ receipt' \in {"none", "confirmed", "failed"}
      /\ mem' \in MemType
  BY DEF StartAbort, evidence, Shape, TypeOK
<1> QED BY <1>1, <1>2, <1>3, <1>4, <1>5, <1>6, ShapeKept

LEMMA AbortEventShape ==
    ASSUME Shape, NEW c \in Callers, AbortEvent(c)
    PROVE  Shape'
<1> USE NormalTypes
<1>1. loaded /\ Registered
  BY Busy DEF AbortEvent, At
<1>2. /\ task' \in [Callers -> TaskType]
      /\ \/ task'["driver"].at # "repair-turn"
         \/ task'["driver"] = task["driver"] /\ mem' = mem
  BY SetEffect, ZenonT(60) DEF AbortEvent, Labels, Callers
<1>3. journal' \in Seq(JournalEntries)
  BY WriteEffect DEF AbortEvent, JournalEntries
<1>4. metadata' = metadata /\ loaded' = loaded /\ scheduled' = scheduled
  BY DEF AbortEvent, evidence
<1>5. /\ forked' \in BOOLEAN
      /\ quarantined' \in BOOLEAN
      /\ turns' \in Seq(TurnType)
      /\ channel' \subseteq Nat
      /\ sealed' \in [Roles -> Nat]
      /\ records' \in Seq(RecordType)
      /\ receipt' \in {"none", "confirmed", "failed"}
      /\ state' \in RunStates
      /\ mem' \in MemType
      /\ used' \in [calls : 0..MaxCalls, mishaps : 0..MaxMishaps]
  BY DEF AbortEvent, evidence, Shape, TypeOK
<1> QED BY <1>1, <1>2, <1>3, <1>4, <1>5, ShapeKept

LEMMA StartSealShape ==
    ASSUME Shape, StartSeal
    PROVE  Shape'
<1> USE NormalTypes
<1>0. "driver" \in Callers
  BY DEF Callers
<1>1. loaded /\ Registered
  BY DEF StartSeal, DriverFree, Shape
<1>2. /\ task' \in [Callers -> TaskType]
      /\ \/ task'["driver"].at # "repair-turn"
         \/ task'["driver"] = task["driver"] /\ mem' = mem
  BY <1>0, GoEffect DEF StartSeal, Labels, Callers
<1>3. metadata' = metadata /\ loaded' = loaded /\ scheduled' = scheduled
  BY DEF StartSeal, evidence, OperatorCalls
<1>4. /\ forked' \in BOOLEAN
      /\ quarantined' \in BOOLEAN
      /\ turns' \in Seq(TurnType)
      /\ channel' \subseteq Nat
      /\ sealed' \in [Roles -> Nat]
      /\ journal' \in Seq(JournalEntries)
      /\ records' \in Seq(RecordType)
      /\ receipt' \in {"none", "confirmed", "failed"}
      /\ state' \in RunStates
      /\ mem' \in MemType
      /\ used' \in [calls : 0..MaxCalls, mishaps : 0..MaxMishaps]
  BY DEF StartSeal, evidence, Shape, TypeOK
<1> QED BY <1>1, <1>2, <1>3, <1>4, ShapeKept

LEMMA StartRetrySealShape ==
    ASSUME Shape, StartRetrySeal
    PROVE  Shape'
<1> USE NormalTypes
<1>0. "operator" \in Callers
  BY DEF Callers
<1>1. loaded /\ Registered
  BY DEF StartRetrySeal, OperatorCalls, Shape
<1>2. /\ task' \in [Callers -> TaskType]
      /\ \/ task'["driver"].at # "repair-turn"
         \/ task'["driver"] = task["driver"] /\ mem' = mem
  BY <1>0, GoEffect DEF StartRetrySeal, Labels, Callers
<1>3. state' \in RunStates
  BY <1>0, TransitionStates DEF StartRetrySeal, Closing
<1>4. used' \in [calls : 0..MaxCalls, mishaps : 0..MaxMishaps]
  BY CallsCounted DEF StartRetrySeal
<1>5. metadata' = metadata /\ loaded' = loaded /\ scheduled' = scheduled
  BY DEF StartRetrySeal, evidence, OperatorCalls
<1>6. /\ forked' \in BOOLEAN
      /\ quarantined' \in BOOLEAN
      /\ turns' \in Seq(TurnType)
      /\ channel' \subseteq Nat
      /\ sealed' \in [Roles -> Nat]
      /\ journal' \in Seq(JournalEntries)
      /\ records' \in Seq(RecordType)
      /\ receipt' \in {"none", "confirmed", "failed"}
      /\ mem' \in MemType
  BY DEF StartRetrySeal, evidence, Shape, TypeOK
<1> QED BY <1>1, <1>2, <1>3, <1>4, <1>5, <1>6, ShapeKept

LEMMA RetryEventShape ==
    ASSUME Shape, RetryEvent
    PROVE  Shape'
<1> USE NormalTypes
<1>0. "operator" \in Callers
  BY DEF Callers
<1>1. loaded /\ Registered
  BY <1>0, Busy DEF RetryEvent, At
<1>2. /\ task' \in [Callers -> TaskType]
      /\ \/ task'["driver"].at # "repair-turn"
         \/ task'["driver"] = task["driver"] /\ mem' = mem
  BY <1>0, GoEffect DEF RetryEvent, Labels, Callers
<1>3. journal' \in Seq(JournalEntries)
  BY <1>0, WriteEffect DEF RetryEvent, JournalEntries
<1>4. metadata' = metadata /\ loaded' = loaded /\ scheduled' = scheduled
  BY DEF RetryEvent, evidence
<1>5. /\ forked' \in BOOLEAN
      /\ quarantined' \in BOOLEAN
      /\ turns' \in Seq(TurnType)
      /\ channel' \subseteq Nat
      /\ sealed' \in [Roles -> Nat]
      /\ records' \in Seq(RecordType)
      /\ receipt' \in {"none", "confirmed", "failed"}
      /\ state' \in RunStates
      /\ mem' \in MemType
      /\ used' \in [calls : 0..MaxCalls, mishaps : 0..MaxMishaps]
  BY DEF RetryEvent, evidence, Shape, TypeOK
<1> QED BY <1>1, <1>2, <1>3, <1>4, <1>5, ShapeKept

LEMMA SealCheckMoves ==
    ASSUME Shape, NEW c \in Callers, SealCheck(c)
    PROVE  /\ task' \in [Callers -> TaskType]
           /\ task'[c].at \in {"anchor", "seal-a"}
           /\ \A d \in Callers : d # c => task'[d] = task[d]
<1>1. task \in [Callers -> TaskType] /\ {"anchor", "seal-a"} \subseteq Labels
  BY NormalTypes DEF Labels
<1>2. CASE SealEvidenceExists
  <2>1. PICK b \in BOOLEAN : b = (journal[FinalCheckpoint] = "run-aborted")
    OBVIOUS
  <2>2. task' = [task EXCEPT ![c].at = "anchor", ![c].aborted = b]
    BY <1>2, <2>1 DEF SealCheck
  <2> QED BY <1>1, <2>2, SetEffect, ZenonT(60)
<1>3. CASE ~SealEvidenceExists
  <2>1. Go(c, "seal-a")
    BY <1>3 DEF SealCheck
  <2> QED BY <1>1, <2>1, GoEffect
<1> QED BY <1>2, <1>3

LEMMA SealCheckShape ==
    ASSUME Shape, NEW c \in Callers, SealCheck(c)
    PROVE  Shape'
<1> USE NormalTypes
<1>1. loaded /\ Registered
  BY Busy DEF SealCheck, At
<1>2. /\ task' \in [Callers -> TaskType]
      /\ \/ task'["driver"].at # "repair-turn"
         \/ task'["driver"] = task["driver"] /\ mem' = mem
  BY SealCheckMoves DEF SealCheck, Callers
<1>3. journal' \in Seq(JournalEntries)
  BY WriteEffect DEF SealCheck, JournalEntries, PolicyCheckpoint
<1>4. metadata' = metadata /\ loaded' = loaded /\ scheduled' = scheduled
  BY DEF SealCheck, evidence
<1>5. /\ forked' \in BOOLEAN
      /\ quarantined' \in BOOLEAN
      /\ turns' \in Seq(TurnType)
      /\ channel' \subseteq Nat
      /\ sealed' \in [Roles -> Nat]
      /\ records' \in Seq(RecordType)
      /\ receipt' \in {"none", "confirmed", "failed"}
      /\ state' \in RunStates
      /\ mem' \in MemType
      /\ used' \in [calls : 0..MaxCalls, mishaps : 0..MaxMishaps]
  BY DEF SealCheck, evidence, Shape, TypeOK
<1> QED BY <1>1, <1>2, <1>3, <1>4, <1>5, ShapeKept

LEMMA CreateFinalCheckpointShape ==
    ASSUME Shape, NEW c \in Callers, CreateFinalCheckpoint(c)
    PROVE  Shape'
<1> USE NormalTypes
<1>1. loaded /\ Registered
  BY Busy DEF CreateFinalCheckpoint, At
<1>2. /\ task' \in [Callers -> TaskType]
      /\ \/ task'["driver"].at # "repair-turn"
         \/ task'["driver"] = task["driver"] /\ mem' = mem
  BY GoEffect DEF CreateFinalCheckpoint, Labels, Callers
<1>3. journal' \in Seq(JournalEntries)
  BY WriteEffect DEF CreateFinalCheckpoint, JournalEntries, FinalReasons
<1>4. metadata' = metadata /\ loaded' = loaded /\ scheduled' = scheduled
  BY DEF CreateFinalCheckpoint, evidence
<1>5. /\ forked' \in BOOLEAN
      /\ quarantined' \in BOOLEAN
      /\ turns' \in Seq(TurnType)
      /\ channel' \subseteq Nat
      /\ sealed' \in [Roles -> Nat]
      /\ records' \in Seq(RecordType)
      /\ receipt' \in {"none", "confirmed", "failed"}
      /\ state' \in RunStates
      /\ mem' \in MemType
      /\ used' \in [calls : 0..MaxCalls, mishaps : 0..MaxMishaps]
  BY DEF CreateFinalCheckpoint, evidence, Shape, TypeOK
<1> QED BY <1>1, <1>2, <1>3, <1>4, <1>5, ShapeKept

LEMMA AbortRecordShape ==
    ASSUME Shape, NEW c \in Callers, AbortRecord(c)
    PROVE  Shape'
<1> USE NormalTypes
<1>1. loaded /\ Registered
  BY Busy DEF AbortRecord, At
<1>2. /\ task' \in [Callers -> TaskType]
      /\ \/ task'["driver"].at # "repair-turn"
         \/ task'["driver"] = task["driver"] /\ mem' = mem
  BY ReturnEffect, IdleTask, ApplyEffect DEF AbortRecord, Labels, Callers
<1>3. records' \in Seq(RecordType)
  BY RecordEffect DEF AbortRecord, TaskType
<1>4. state' \in RunStates
  BY ApplyEffect DEF AbortRecord
<1>5. metadata' = metadata /\ loaded' = loaded /\ scheduled' = scheduled
  BY DEF AbortRecord, evidence
<1>6. /\ forked' \in BOOLEAN
      /\ quarantined' \in BOOLEAN
      /\ turns' \in Seq(TurnType)
      /\ channel' \subseteq Nat
      /\ sealed' \in [Roles -> Nat]
      /\ journal' \in Seq(JournalEntries)
      /\ receipt' \in {"none", "confirmed", "failed"}
      /\ mem' \in MemType
      /\ used' \in [calls : 0..MaxCalls, mishaps : 0..MaxMishaps]
  BY DEF AbortRecord, evidence, Shape, TypeOK
<1> QED BY <1>1, <1>2, <1>3, <1>4, <1>5, <1>6, ShapeKept

LEMMA BlockedRecordShape ==
    ASSUME Shape, NEW c \in Callers, BlockedRecord(c)
    PROVE  Shape'
<1> USE NormalTypes
<1>1. loaded /\ Registered
  BY Busy DEF BlockedRecord, At
<1>2. /\ task' \in [Callers -> TaskType]
      /\ \/ task'["driver"].at # "repair-turn"
         \/ task'["driver"] = task["driver"] /\ mem' = mem
  BY ReturnEffect, IdleTask DEF BlockedRecord, Labels, Callers
<1>3. records' \in Seq(RecordType)
  BY RecordEffect DEF BlockedRecord, OpenDisposition
<1>4. metadata' = metadata /\ loaded' = loaded /\ scheduled' = scheduled
  BY DEF BlockedRecord, evidence
<1>5. /\ forked' \in BOOLEAN
      /\ quarantined' \in BOOLEAN
      /\ turns' \in Seq(TurnType)
      /\ channel' \subseteq Nat
      /\ sealed' \in [Roles -> Nat]
      /\ journal' \in Seq(JournalEntries)
      /\ receipt' \in {"none", "confirmed", "failed"}
      /\ state' \in RunStates
      /\ mem' \in MemType
      /\ used' \in [calls : 0..MaxCalls, mishaps : 0..MaxMishaps]
  BY DEF BlockedRecord, evidence, Shape, TypeOK
<1> QED BY <1>1, <1>2, <1>3, <1>4, <1>5, ShapeKept

LEMMA PendingRecordShape ==
    ASSUME Shape, NEW c \in Callers, PendingRecord(c)
    PROVE  Shape'
<1> USE NormalTypes
<1>1. loaded /\ Registered
  BY Busy DEF PendingRecord, At
<1>2. /\ task' \in [Callers -> TaskType]
      /\ \/ task'["driver"].at # "repair-turn"
         \/ task'["driver"] = task["driver"] /\ mem' = mem
  BY GoEffect DEF PendingRecord, Labels, Callers
<1>3. records' \in Seq(RecordType)
  BY RecordEffect DEF PendingRecord, OpenDisposition, TaskType
<1>4. metadata' = metadata /\ loaded' = loaded /\ scheduled' = scheduled
  BY DEF PendingRecord, evidence
<1>5. /\ forked' \in BOOLEAN
      /\ quarantined' \in BOOLEAN
      /\ turns' \in Seq(TurnType)
      /\ channel' \subseteq Nat
      /\ sealed' \in [Roles -> Nat]
      /\ journal' \in Seq(JournalEntries)
      /\ receipt' \in {"none", "confirmed", "failed"}
      /\ state' \in RunStates
      /\ mem' \in MemType
      /\ used' \in [calls : 0..MaxCalls, mishaps : 0..MaxMishaps]
  BY DEF PendingRecord, evidence, Shape, TypeOK
<1> QED BY <1>1, <1>2, <1>3, <1>4, <1>5, ShapeKept

LEMMA VerifyShape ==
    ASSUME Shape, NEW c \in Callers, Verify(c)
    PROVE  Shape'
<1> USE NormalTypes
<1>1. loaded /\ Registered
  BY Busy DEF Verify, At
<1>20. "verdict-record" \in Labels
  BY DEF Labels
<1>21. PICK passed \in BOOLEAN : task' = [task EXCEPT ![c].at = "verdict-record", ![c].passed = passed]
  BY DEF Verify
<1>22. /\ task' \in [Callers -> TaskType]
       /\ task'[c].at = "verdict-record"
       /\ \A d \in Callers : d # c => task'[d] = task[d]
  BY <1>20, <1>21, SetEffect, ZenonT(60)
<1>2. /\ task' \in [Callers -> TaskType]
      /\ \/ task'["driver"].at # "repair-turn"
         \/ task'["driver"] = task["driver"] /\ mem' = mem
  BY <1>22 DEF Callers, Verify
<1>3. journal' \in Seq(JournalEntries)
  BY WriteEffect DEF Verify, JournalEntries
<1>4. metadata' = metadata /\ loaded' = loaded /\ scheduled' = scheduled
  BY DEF Verify, evidence
<1>5. /\ forked' \in BOOLEAN
      /\ quarantined' \in BOOLEAN
      /\ turns' \in Seq(TurnType)
      /\ channel' \subseteq Nat
      /\ sealed' \in [Roles -> Nat]
      /\ records' \in Seq(RecordType)
      /\ receipt' \in {"none", "confirmed", "failed"}
      /\ state' \in RunStates
      /\ mem' \in MemType
      /\ used' \in [calls : 0..MaxCalls, mishaps : 0..MaxMishaps]
  BY DEF Verify, evidence, Shape, TypeOK
<1> QED BY <1>1, <1>2, <1>3, <1>4, <1>5, ShapeKept

LEMMA VerdictRecordShape ==
    ASSUME Shape, NEW c \in Callers, VerdictRecord(c)
    PROVE  Shape'
<1> USE NormalTypes
<1>1. loaded /\ Registered
  BY Busy DEF VerdictRecord, At
<1>2. /\ task' \in [Callers -> TaskType]
      /\ \/ task'["driver"].at # "repair-turn"
         \/ task'["driver"] = task["driver"] /\ mem' = mem
  BY GoEffect, ReturnEffect, IdleTask DEF VerdictRecord, Labels, Callers
<1>3. records' \in Seq(RecordType)
  BY RecordEffect DEF VerdictRecord, TaskType
<1>4. state' \in RunStates
  BY TransitionStates DEF VerdictRecord, Closing
<1>5. metadata' = metadata /\ loaded' = loaded /\ scheduled' = scheduled
  BY DEF VerdictRecord, evidence
<1>6. /\ forked' \in BOOLEAN
      /\ quarantined' \in BOOLEAN
      /\ turns' \in Seq(TurnType)
      /\ channel' \subseteq Nat
      /\ sealed' \in [Roles -> Nat]
      /\ journal' \in Seq(JournalEntries)
      /\ receipt' \in {"none", "confirmed", "failed"}
      /\ mem' \in MemType
      /\ used' \in [calls : 0..MaxCalls, mishaps : 0..MaxMishaps]
  BY DEF VerdictRecord, evidence, Shape, TypeOK
<1> QED BY <1>1, <1>2, <1>3, <1>4, <1>5, <1>6, ShapeKept

LEMMA AbortDecisionShape ==
    ASSUME Shape, NEW c \in Callers, AbortDecision(c)
    PROVE  Shape'
<1> USE NormalTypes
<1>1. loaded /\ Registered
  BY Busy DEF AbortDecision, At
<1>2. /\ task' \in [Callers -> TaskType]
      /\ \/ task'["driver"].at # "repair-turn"
         \/ task'["driver"] = task["driver"] /\ mem' = mem
  BY ReturnEffect, IdleTask DEF AbortDecision, Labels, Callers
<1>3. journal' \in Seq(JournalEntries)
  BY WriteEffect DEF AbortDecision, JournalEntries
<1>4. state' \in RunStates
  BY TransitionStates DEF AbortDecision, Closing
<1>5. metadata' = metadata /\ loaded' = loaded /\ scheduled' = scheduled
  BY DEF AbortDecision, evidence
<1>6. /\ forked' \in BOOLEAN
      /\ quarantined' \in BOOLEAN
      /\ turns' \in Seq(TurnType)
      /\ channel' \subseteq Nat
      /\ sealed' \in [Roles -> Nat]
      /\ records' \in Seq(RecordType)
      /\ receipt' \in {"none", "confirmed", "failed"}
      /\ mem' \in MemType
      /\ used' \in [calls : 0..MaxCalls, mishaps : 0..MaxMishaps]
  BY DEF AbortDecision, evidence, Shape, TypeOK
<1> QED BY <1>1, <1>2, <1>3, <1>4, <1>5, <1>6, ShapeKept

LEMMA StartAbandonSealShape ==
    ASSUME Shape, StartAbandonSeal
    PROVE  Shape'
<1> USE NormalTypes
<1>0. "operator" \in Callers
  BY DEF Callers
<1>1. loaded /\ Registered
  BY DEF StartAbandonSeal, OperatorCalls, Shape
<1>2. /\ task' \in [Callers -> TaskType]
      /\ \/ task'["driver"].at # "repair-turn"
         \/ task'["driver"] = task["driver"] /\ mem' = mem
  BY <1>0, GoEffect DEF StartAbandonSeal, Labels, Callers
<1>3. state' \in RunStates
  BY <1>0, TransitionStates DEF StartAbandonSeal, Closing
<1>4. used' \in [calls : 0..MaxCalls, mishaps : 0..MaxMishaps]
  BY CallsCounted DEF StartAbandonSeal
<1>5. metadata' = metadata /\ loaded' = loaded /\ scheduled' = scheduled
  BY DEF StartAbandonSeal, evidence, OperatorCalls
<1>6. /\ forked' \in BOOLEAN
      /\ quarantined' \in BOOLEAN
      /\ turns' \in Seq(TurnType)
      /\ channel' \subseteq Nat
      /\ sealed' \in [Roles -> Nat]
      /\ journal' \in Seq(JournalEntries)
      /\ records' \in Seq(RecordType)
      /\ receipt' \in {"none", "confirmed", "failed"}
      /\ mem' \in MemType
  BY DEF StartAbandonSeal, evidence, Shape, TypeOK
<1> QED BY <1>1, <1>2, <1>3, <1>4, <1>5, <1>6, ShapeKept

LEMMA AbandonEventShape ==
    ASSUME Shape, AbandonEvent
    PROVE  Shape'
<1> USE NormalTypes
<1>0. "operator" \in Callers
  BY DEF Callers
<1>1. loaded /\ Registered
  BY <1>0, Busy DEF AbandonEvent, At
<1>2. /\ task' \in [Callers -> TaskType]
      /\ \/ task'["driver"].at # "repair-turn"
         \/ task'["driver"] = task["driver"] /\ mem' = mem
  BY <1>0, GoEffect DEF AbandonEvent, Labels, Callers
<1>3. journal' \in Seq(JournalEntries)
  BY <1>0, WriteEffect DEF AbandonEvent, JournalEntries
<1>4. metadata' = metadata /\ loaded' = loaded /\ scheduled' = scheduled
  BY DEF AbandonEvent, evidence
<1>5. /\ forked' \in BOOLEAN
      /\ quarantined' \in BOOLEAN
      /\ turns' \in Seq(TurnType)
      /\ channel' \subseteq Nat
      /\ sealed' \in [Roles -> Nat]
      /\ records' \in Seq(RecordType)
      /\ receipt' \in {"none", "confirmed", "failed"}
      /\ state' \in RunStates
      /\ mem' \in MemType
      /\ used' \in [calls : 0..MaxCalls, mishaps : 0..MaxMishaps]
  BY DEF AbandonEvent, evidence, Shape, TypeOK
<1> QED BY <1>1, <1>2, <1>3, <1>4, <1>5, ShapeKept

LEMMA AbandonRecordShape ==
    ASSUME Shape, AbandonRecord
    PROVE  Shape'
<1> USE NormalTypes
<1>0. "operator" \in Callers
  BY DEF Callers
<1>1. loaded /\ Registered
  BY <1>0, Busy DEF AbandonRecord, At
<1>2. /\ task' \in [Callers -> TaskType]
      /\ \/ task'["driver"].at # "repair-turn"
         \/ task'["driver"] = task["driver"] /\ mem' = mem
  BY <1>0, ReturnEffect, IdleTask DEF AbandonRecord, Labels, Callers
<1>3. records' \in Seq(RecordType)
  BY <1>0, RecordEffect DEF AbandonRecord
<1>4. metadata' = metadata /\ loaded' = loaded /\ scheduled' = scheduled
  BY DEF AbandonRecord, evidence
<1>5. /\ forked' \in BOOLEAN
      /\ quarantined' \in BOOLEAN
      /\ turns' \in Seq(TurnType)
      /\ channel' \subseteq Nat
      /\ sealed' \in [Roles -> Nat]
      /\ journal' \in Seq(JournalEntries)
      /\ receipt' \in {"none", "confirmed", "failed"}
      /\ state' \in RunStates
      /\ mem' \in MemType
      /\ used' \in [calls : 0..MaxCalls, mishaps : 0..MaxMishaps]
  BY DEF AbandonRecord, evidence, Shape, TypeOK
<1> QED BY <1>1, <1>2, <1>3, <1>4, <1>5, ShapeKept

LEMMA RecoveryEventShape ==
    ASSUME Shape, RecoveryEvent
    PROVE  Shape'
<1> USE NormalTypes
<1>0. "driver" \in Callers
  BY DEF Callers
<1>1. loaded /\ Registered
  BY <1>0, Busy DEF RecoveryEvent, At
<1>2. /\ task' \in [Callers -> TaskType]
      /\ \/ task'["driver"].at # "repair-turn"
         \/ task'["driver"] = task["driver"] /\ mem' = mem
  BY <1>0, GoEffect DEF RecoveryEvent, Labels, Callers
<1>3. journal' \in Seq(JournalEntries)
  BY <1>0, WriteEffect DEF RecoveryEvent, JournalEntries
<1>4. metadata' = metadata /\ loaded' = loaded /\ scheduled' = scheduled
  BY DEF RecoveryEvent, evidence
<1>5. /\ forked' \in BOOLEAN
      /\ quarantined' \in BOOLEAN
      /\ turns' \in Seq(TurnType)
      /\ channel' \subseteq Nat
      /\ sealed' \in [Roles -> Nat]
      /\ records' \in Seq(RecordType)
      /\ receipt' \in {"none", "confirmed", "failed"}
      /\ state' \in RunStates
      /\ mem' \in MemType
      /\ used' \in [calls : 0..MaxCalls, mishaps : 0..MaxMishaps]
  BY DEF RecoveryEvent, evidence, Shape, TypeOK
<1> QED BY <1>1, <1>2, <1>3, <1>4, <1>5, ShapeKept

LEMMA RecoveryCheckpointShape ==
    ASSUME Shape, RecoveryCheckpoint
    PROVE  Shape'
<1> USE NormalTypes
<1>0. "driver" \in Callers
  BY DEF Callers
<1>1. loaded /\ Registered
  BY <1>0, Busy DEF RecoveryCheckpoint, At
<1>2. /\ task' \in [Callers -> TaskType]
      /\ \/ task'["driver"].at # "repair-turn"
         \/ task'["driver"] = task["driver"] /\ mem' = mem
  BY <1>0, GoEffect, ReturnEffect, IdleTask, StageEffect DEF RecoveryCheckpoint, Labels, Callers
<1>3. journal' \in Seq(JournalEntries)
  BY <1>0, WriteEffect DEF RecoveryCheckpoint, JournalEntries
<1>4. state' \in RunStates
  BY <1>0, StageEffect DEF RecoveryCheckpoint
<1>5. mem' \in MemType
  BY <1>0, StageEffect DEF RecoveryCheckpoint
<1>6. metadata' = metadata /\ loaded' = loaded /\ scheduled' = scheduled
  BY DEF RecoveryCheckpoint, evidence
<1>7. /\ forked' \in BOOLEAN
      /\ quarantined' \in BOOLEAN
      /\ turns' \in Seq(TurnType)
      /\ channel' \subseteq Nat
      /\ sealed' \in [Roles -> Nat]
      /\ records' \in Seq(RecordType)
      /\ receipt' \in {"none", "confirmed", "failed"}
      /\ used' \in [calls : 0..MaxCalls, mishaps : 0..MaxMishaps]
  BY DEF RecoveryCheckpoint, evidence, Shape, TypeOK
<1> QED BY <1>1, <1>2, <1>3, <1>4, <1>5, <1>6, <1>7, ShapeKept

LEMMA CheckSignersShape ==
    ASSUME Shape, CheckSigners
    PROVE  Shape'
<1> USE NormalTypes
<1>0. "driver" \in Callers
  BY DEF Callers
<1>1. loaded /\ Registered
  BY <1>0, Busy DEF CheckSigners, At
<1>2. /\ task' \in [Callers -> TaskType]
      /\ \/ task'["driver"].at # "repair-turn"
         \/ task'["driver"] = task["driver"] /\ mem' = mem
  BY <1>0, GoEffect, ReturnEffect, IdleTask DEF CheckSigners, Labels, Callers
<1>3. journal' \in Seq(JournalEntries)
  BY <1>0, WriteEffect DEF CheckSigners, JournalEntries
<1>4. used' \in [calls : 0..MaxCalls, mishaps : 0..MaxMishaps]
  BY MishapsCounted DEF CheckSigners, Shape, TypeOK
<1>5. metadata' = metadata /\ loaded' = loaded /\ scheduled' = scheduled
  BY DEF CheckSigners, evidence
<1>6. /\ forked' \in BOOLEAN
      /\ quarantined' \in BOOLEAN
      /\ turns' \in Seq(TurnType)
      /\ channel' \subseteq Nat
      /\ sealed' \in [Roles -> Nat]
      /\ records' \in Seq(RecordType)
      /\ receipt' \in {"none", "confirmed", "failed"}
      /\ state' \in RunStates
      /\ mem' \in MemType
  BY DEF CheckSigners, evidence, Shape, TypeOK
<1> QED BY <1>1, <1>2, <1>3, <1>4, <1>5, <1>6, ShapeKept

LEMMA RunSealedEventShape ==
    ASSUME Shape, NEW c \in Callers, RunSealedEvent(c)
    PROVE  Shape'
<1> USE NormalTypes
<1>1. loaded /\ Registered
  BY Busy DEF RunSealedEvent, At
<1>2. /\ task' \in [Callers -> TaskType]
      /\ \/ task'["driver"].at # "repair-turn"
         \/ task'["driver"] = task["driver"] /\ mem' = mem
  BY GoEffect DEF RunSealedEvent, Labels, Callers
<1>3. metadata' = metadata /\ loaded' = loaded /\ scheduled' = scheduled
  BY DEF RunSealedEvent, evidence
<1>4. sealed' \in [Roles -> Nat]
  BY DEF RunSealedEvent, Shape, TypeOK, Roles
<1>5. /\ forked' \in BOOLEAN
      /\ quarantined' \in BOOLEAN
      /\ turns' \in Seq(TurnType)
      /\ channel' \subseteq Nat
      /\ journal' \in Seq(JournalEntries)
      /\ records' \in Seq(RecordType)
      /\ receipt' \in {"none", "confirmed", "failed"}
      /\ state' \in RunStates
      /\ mem' \in MemType
      /\ used' \in [calls : 0..MaxCalls, mishaps : 0..MaxMishaps]
  BY DEF RunSealedEvent, evidence, Shape, TypeOK
<1> QED BY <1>1, <1>2, <1>3, <1>4, <1>5, ShapeKept

LEMMA RecountedType ==
    ASSUME Shape, Registered
    PROVE  Recounted \in MemType
<1>1. Config.training \in Nat
  BY NormalTypes DEF ConfigurationType, Registered
<1>2. NextTurn \in Nat /\ Count("running") \in Nat /\ Count("evaluating") \in Nat
  BY NormalTypes, NextTurnIsNat, CountIsNat
<1>3. Trained(Config) \in Nat
  BY <1>1, <1>2 DEF Trained
<1> QED BY <1>2, <1>3, NormalTypes DEF Recounted, MemType

LEMMA CountedType ==
    ASSUME Shape, NEW t \in TaskType
    PROVE  /\ Counted(t) \in MemType
           /\ [Counted(t) EXCEPT !.repair = t.turn, !.phase = t.phase] \in MemType
           /\ [Counted(t) EXCEPT !.repair = t.turn, !.phase = t.phase].repair \in Nat
           /\ TurnRecord(t) \in TurnType
<1>1. t.turn \in Nat /\ t.phase \in Phases /\ t.of \in Nat \cup {None}
  BY DEF TaskType
<1>2. Counted(t) \in MemType
  <2>1. mem \in MemType /\ mem.training \in Nat /\ mem.evaluation \in Nat /\ mem.repair \in Nat \cup {None}
    BY NormalTypes DEF MemType
  <2>2. /\ (IF t.of = None /\ t.phase = "running" THEN mem.training + 1 ELSE mem.training) \in Nat
        /\ (IF t.of = None /\ t.phase = "evaluating" THEN mem.evaluation + 1 ELSE mem.evaluation) \in Nat
        /\ (IF t.of = None THEN mem.repair ELSE None) \in Nat \cup {None}
        /\ t.turn + 1 \in Nat
    BY <1>1, <2>1
  <2> QED BY ONLY <2>1, <2>2 DEF Counted, MemType
<1>3. /\ [Counted(t) EXCEPT !.repair = t.turn, !.phase = t.phase] \in MemType
      /\ [Counted(t) EXCEPT !.repair = t.turn, !.phase = t.phase].repair \in Nat
  BY <1>1, <1>2 DEF MemType
<1> QED BY <1>1, <1>2, <1>3 DEF TurnRecord, TurnType

LEMMA RecoverPrefixShape ==
    ASSUME Shape, RecoverPrefix
    PROVE  Shape'
<1> USE NormalTypes
<1>0. "driver" \in Callers
  BY DEF Callers
<1>1. loaded /\ Registered
  BY <1>0, Busy DEF RecoverPrefix, At
<1>2. /\ task' \in [Callers -> TaskType]
      /\ \/ task'["driver"].at # "repair-turn"
         \/ task'["driver"] = task["driver"] /\ mem' = mem
  BY <1>0, GoEffect, ReturnEffect, IdleTask, ApplyEffect DEF RecoverPrefix, Labels, Callers
<1>3. state' \in RunStates
  BY <1>0, ApplyEffect DEF RecoverPrefix
<1>4. mem' \in MemType
  BY <1>0, <1>1, RecountedType DEF RecoverPrefix, MemType
<1>5. metadata' = metadata /\ loaded' = loaded /\ scheduled' = scheduled
  BY DEF RecoverPrefix, evidence
<1>6. /\ forked' \in BOOLEAN
      /\ quarantined' \in BOOLEAN
      /\ turns' \in Seq(TurnType)
      /\ channel' \subseteq Nat
      /\ sealed' \in [Roles -> Nat]
      /\ journal' \in Seq(JournalEntries)
      /\ records' \in Seq(RecordType)
      /\ receipt' \in {"none", "confirmed", "failed"}
      /\ used' \in [calls : 0..MaxCalls, mishaps : 0..MaxMishaps]
  BY DEF RecoverPrefix, evidence, Shape, TypeOK
<1> QED BY <1>1, <1>2, <1>3, <1>4, <1>5, <1>6, ShapeKept

LEMMA AppendTurnRecordShape ==
    ASSUME Shape, AppendTurnRecord
    PROVE  Shape'
<1> USE NormalTypes
<1>0. "driver" \in Callers
  BY DEF Callers
<1>1. loaded /\ Registered
  BY <1>0, Busy DEF AppendTurnRecord, At
<1>21. PICK t \in TaskType : t = task["driver"]
  BY <1>0
<1>22. /\ turns' = Append(turns, TurnRecord(t))
       /\ \/ mem' = Counted(t) /\ Go("driver", "boundaries")
          \/ /\ mem' = [Counted(t) EXCEPT !.repair = t.turn, !.phase = t.phase]
             /\ Go("driver", "repair-turn")
  BY <1>21 DEF AppendTurnRecord
<1>24. turns' \in Seq(TurnType)
  <2>1. PICK r \in TurnType : r = TurnRecord(t)
    BY CountedType
  <2> QED BY <1>22, <2>1
<1>23. "boundaries" # "repair-turn"
  OBVIOUS
<1>2. /\ task' \in [Callers -> TaskType]
      /\ \/ task'["driver"].at # "repair-turn"
         \/ mem'.repair \in Nat
         \/ task'["driver"] = task["driver"] /\ mem' = mem
  BY <1>0, <1>22, <1>23, CountedType, GoEffect DEF Labels
<1>3. mem' \in MemType
  BY <1>0, <1>22, CountedType
<1>4. metadata' = metadata /\ loaded' = loaded /\ scheduled' = scheduled
  BY DEF AppendTurnRecord, evidence
<1>5. turns' \in Seq(TurnType)
  BY <1>0, <1>24
<1>6. /\ forked' \in BOOLEAN
      /\ quarantined' \in BOOLEAN
      /\ channel' \subseteq Nat
      /\ sealed' \in [Roles -> Nat]
      /\ journal' \in Seq(JournalEntries)
      /\ records' \in Seq(RecordType)
      /\ receipt' \in {"none", "confirmed", "failed"}
      /\ state' \in RunStates
      /\ used' \in [calls : 0..MaxCalls, mishaps : 0..MaxMishaps]
  BY DEF AppendTurnRecord, evidence, Shape, TypeOK
<1> QED BY <1>1, <1>2, <1>3, <1>4, <1>5, <1>6, ShapeKept

LEMMA GatewayRefusesShape ==
    ASSUME Shape, NEW c \in Callers, GatewayRefuses(c)
    PROVE  Shape'
<1> USE NormalTypes
<1>1. loaded /\ Registered
  BY Busy DEF GatewayRefuses, At, ThroughGateway, AtPolicyCheckpoint
<1>2. /\ task' \in [Callers -> TaskType]
      /\ \/ task'["driver"].at # "repair-turn"
         \/ task'["driver"] = task["driver"] /\ mem' = mem
  BY ReturnEffect, IdleTask DEF GatewayRefuses, Labels, Callers
<1>3. metadata' = metadata /\ loaded' = loaded /\ scheduled' = scheduled
  BY DEF GatewayRefuses, evidence
<1>4. /\ forked' \in BOOLEAN
      /\ quarantined' \in BOOLEAN
      /\ turns' \in Seq(TurnType)
      /\ channel' \subseteq Nat
      /\ sealed' \in [Roles -> Nat]
      /\ journal' \in Seq(JournalEntries)
      /\ records' \in Seq(RecordType)
      /\ receipt' \in {"none", "confirmed", "failed"}
      /\ state' \in RunStates
      /\ mem' \in MemType
      /\ used' \in [calls : 0..MaxCalls, mishaps : 0..MaxMishaps]
  BY DEF GatewayRefuses, evidence, Shape, TypeOK
<1> QED BY <1>1, <1>2, <1>3, <1>4, ShapeKept

LEMMA LoseTurnRecordShape ==
    ASSUME Shape, LoseTurnRecord
    PROVE  Shape'
<1> USE NormalTypes
<1>0. "driver" \in Callers
  BY DEF Callers
<1>1. loaded /\ Registered
  BY <1>0, Busy DEF LoseTurnRecord, At
<1>21. PICK t \in TaskType : t = task["driver"]
  BY <1>0
<1>22. turns' = Append(turns, TurnRecord(t))
  BY <1>21 DEF LoseTurnRecord
<1>24. turns' \in Seq(TurnType)
  <2>1. PICK r \in TurnType : r = TurnRecord(t)
    BY CountedType
  <2> QED BY <1>22, <2>1
<1>2. /\ task' \in [Callers -> TaskType]
      /\ \/ task'["driver"].at # "repair-turn"
         \/ task'["driver"] = task["driver"] /\ mem' = mem
  BY <1>0, ReturnEffect, IdleTask DEF LoseTurnRecord, Labels, Callers
<1>3. used' \in [calls : 0..MaxCalls, mishaps : 0..MaxMishaps]
  BY MishapsCounted DEF LoseTurnRecord
<1>4. metadata' = metadata /\ loaded' = loaded /\ scheduled' = scheduled
  BY DEF LoseTurnRecord, evidence
<1>5. turns' \in Seq(TurnType)
  BY <1>0, <1>24
<1>6. /\ forked' \in BOOLEAN
      /\ quarantined' \in BOOLEAN
      /\ channel' \subseteq Nat
      /\ sealed' \in [Roles -> Nat]
      /\ journal' \in Seq(JournalEntries)
      /\ records' \in Seq(RecordType)
      /\ receipt' \in {"none", "confirmed", "failed"}
      /\ state' \in RunStates
      /\ mem' \in MemType
  BY DEF LoseTurnRecord, evidence, Shape, TypeOK
<1> QED BY <1>1, <1>2, <1>3, <1>4, <1>5, <1>6, ShapeKept

LEMMA CommittedTypes ==
    ASSUME Shape, NEW c \in Callers, MayHaveCommitted(c)
    PROVE  /\ channel' \subseteq Nat /\ sealed' \in [Roles -> Nat]
           /\ \A b \in Roles : sealed'[b] >= sealed[b]
<1>1. channel \subseteq Nat /\ sealed \in [Roles -> Nat] /\ task[c].turn \in Nat
  BY NormalTypes DEF Shape, TypeOK, TaskType
<1>2. channel' \subseteq Nat
  BY <1>1 DEF MayHaveCommitted
<1>3. \/ sealed' = sealed
      \/ sealed' = [sealed EXCEPT !["baby-a"] = @ + 1]
      \/ sealed' = [sealed EXCEPT !["baby-b"] = @ + 1]
  BY DEF MayHaveCommitted
<1>4. sealed' \in [Roles -> Nat] /\ \A b \in Roles : sealed'[b] >= sealed[b]
  BY <1>1, <1>3 DEF Roles
<1> QED BY <1>2, <1>4

LEMMA CallFailsShape ==
    ASSUME Shape, NEW c \in Callers, CallFails(c)
    PROVE  Shape'
<1> USE NormalTypes
<1>1. loaded /\ Registered
  BY Busy DEF CallFails, At
<1>2. /\ task' \in [Callers -> TaskType]
      /\ \/ task'["driver"].at # "repair-turn"
         \/ task'["driver"] = task["driver"] /\ mem' = mem
  BY ReturnEffect, IdleTask DEF CallFails, Labels, Callers
<1>3. used' \in [calls : 0..MaxCalls, mishaps : 0..MaxMishaps]
  BY MishapsCounted DEF CallFails
<1>4. metadata' = metadata /\ loaded' = loaded /\ scheduled' = scheduled
  BY DEF CallFails, evidence
<1>5. channel' \subseteq Nat
  BY CommittedTypes DEF CallFails
<1>6. quarantined' \in BOOLEAN
  BY DEF CallFails, Shape, TypeOK, ThroughGateway
<1>7. sealed' \in [Roles -> Nat]
  BY CommittedTypes DEF CallFails
<1>8. /\ forked' \in BOOLEAN
      /\ turns' \in Seq(TurnType)
      /\ journal' \in Seq(JournalEntries)
      /\ records' \in Seq(RecordType)
      /\ receipt' \in {"none", "confirmed", "failed"}
      /\ state' \in RunStates
      /\ mem' \in MemType
  BY DEF CallFails, evidence, Shape, TypeOK
<1> QED BY <1>1, <1>2, <1>3, <1>4, <1>5, <1>6, <1>7, <1>8, ShapeKept

LEMMA AnchorMoves ==
    ASSUME Shape, NEW c \in Callers, Anchor(c)
    PROVE  /\ task' \in [Callers -> TaskType]
           /\ \A d \in Callers : d # c => task'[d] = task[d]
           /\ state' = state \/ (CanApply(state, "seal-blocked") /\ state' = "sealing-blocked"
                                    /\ ~task[c].aborting)
           /\ \/ task'[c] = Idle
              \/ /\ task'[c].at \in {"abort-record", "blocked-record", "pending-record"}
                 /\ task'[c].at = "abort-record" <=> task[c].aborting
                 /\ task'[c].anchored => Confirmed(receipt')
                 /\ task'[c].aborting = task[c].aborting /\ task'[c].aborted = task[c].aborted
<1> USE NormalTypes
<1> DEFINE blocked == Config.publisher /\ ~Confirmed(receipt')
           label == IF task[c].aborting THEN "abort-record"
                    ELSE IF blocked THEN "blocked-record" ELSE "pending-record"
<1>1. \/ task' = [task EXCEPT ![c] = Idle]
      \/ task' = [task EXCEPT ![c].at = label, ![c].anchored = Confirmed(receipt')]
  BY DEF Anchor
<1>2. state' = state \/ (CanApply(state, "seal-blocked") /\ state' = "sealing-blocked" /\ ~task[c].aborting)
  BY DEF Anchor
<1>3. Confirmed(receipt') \in BOOLEAN
  BY DEF Confirmed
<1>4. /\ label \in Labels /\ label \in {"abort-record", "blocked-record", "pending-record"}
      /\ label = "abort-record" <=> task[c].aborting
  BY DEF Labels
<1> HIDE DEF label
<1>5. CASE task' = [task EXCEPT ![c] = Idle]
  BY <1>2, <1>5, IdleTask
<1>6. CASE task' = [task EXCEPT ![c].at = label, ![c].anchored = Confirmed(receipt')]
  <2>1. PICK a \in BOOLEAN : a = Confirmed(receipt')
    BY <1>3
  <2>2. task' = [task EXCEPT ![c].at = label, ![c].anchored = a]
    BY <1>6, <2>1
  <2>3. /\ task' \in [Callers -> TaskType]
        /\ task'[c].at = label /\ task'[c].anchored = a
        /\ task'[c].aborting = task[c].aborting /\ task'[c].aborted = task[c].aborted
        /\ \A d \in Callers : d # c => task'[d] = task[d]
    BY <1>4, <2>2, ZenonT(60) DEF TaskType
  <2> QED BY <1>2, <1>4, <2>1, <2>3
<1> QED BY <1>1, <1>5, <1>6

LEMMA AnchorShape ==
    ASSUME Shape, NEW c \in Callers, Anchor(c)
    PROVE  Shape'
<1> USE NormalTypes
<1>1. loaded /\ Registered
  BY Busy DEF Anchor, At
<1>2. /\ task' \in [Callers -> TaskType]
      /\ \/ task'["driver"].at # "repair-turn"
         \/ task'["driver"] = task["driver"] /\ mem' = mem
  BY AnchorMoves, IdleTask DEF Anchor, Callers
<1>3. journal' \in Seq(JournalEntries)
  BY WriteEffect DEF Anchor, JournalEntries
<1>4. state' \in RunStates
  BY AnchorMoves, TransitionStates DEF Closing
<1>5. receipt' \in {"none", "confirmed", "failed"}
  BY DEF Anchor, Shape, TypeOK
<1>6. metadata' = metadata /\ loaded' = loaded /\ scheduled' = scheduled
  BY DEF Anchor, evidence
<1>7. /\ forked' \in BOOLEAN
      /\ quarantined' \in BOOLEAN
      /\ turns' \in Seq(TurnType)
      /\ channel' \subseteq Nat
      /\ sealed' \in [Roles -> Nat]
      /\ records' \in Seq(RecordType)
      /\ mem' \in MemType
      /\ used' \in [calls : 0..MaxCalls, mishaps : 0..MaxMishaps]
  BY DEF Anchor, evidence, Shape, TypeOK
<1> QED BY <1>1, <1>2, <1>3, <1>4, <1>5, <1>6, <1>7, ShapeKept

LEMMA StartStepShape ==
    ASSUME Shape, StartStep
    PROVE  Shape'
<1> USE NormalTypes
<1>0. "driver" \in Callers
  BY DEF Callers
<1>1. loaded /\ Registered
  BY DEF StartStep, DriverFree, Shape
<1>20. "channel" \in Labels /\ (IF mem.repair = None THEN state ELSE mem.phase) \in Phases
  BY DEF Labels, StartStep, AcceptsTurns, Phases, MemType
<1>21. /\ task' \in [Callers -> TaskType]
       /\ task'["driver"].at = "channel"
  <2>1. PICK p \in Phases : p = IF mem.repair = None THEN state ELSE mem.phase
    BY <1>20
  <2>2. [Idle EXCEPT !.at = "channel", !.turn = mem.turn, !.of = mem.repair, !.phase = p] \in TaskType
    BY <1>20, IdleTask DEF TaskType, MemType
  <2>3. task' = [task EXCEPT !["driver"] =
                    [Idle EXCEPT !.at = "channel", !.turn = mem.turn, !.of = mem.repair, !.phase = p]]
    BY <2>1 DEF StartStep
  <2>4. PICK t \in TaskType : /\ t = [Idle EXCEPT !.at = "channel", !.turn = mem.turn, !.of = mem.repair, !.phase = p]
                              /\ t.at = "channel"
    BY <2>2, IdleTask DEF TaskType
  <2> QED BY <1>0, <2>3, <2>4
<1>2. /\ task' \in [Callers -> TaskType]
      /\ \/ task'["driver"].at # "repair-turn"
         \/ task'["driver"] = task["driver"] /\ mem' = mem
  BY <1>0, <1>20, <1>21 DEF Callers
<1>3. metadata' = metadata /\ loaded' = loaded /\ scheduled' = scheduled
  BY DEF StartStep, evidence, OperatorCalls
<1>4. /\ forked' \in BOOLEAN
      /\ quarantined' \in BOOLEAN
      /\ turns' \in Seq(TurnType)
      /\ channel' \subseteq Nat
      /\ sealed' \in [Roles -> Nat]
      /\ journal' \in Seq(JournalEntries)
      /\ records' \in Seq(RecordType)
      /\ receipt' \in {"none", "confirmed", "failed"}
      /\ state' \in RunStates
      /\ mem' \in MemType
      /\ used' \in [calls : 0..MaxCalls, mishaps : 0..MaxMishaps]
  BY DEF StartStep, evidence, Shape, TypeOK
<1> QED BY <1>1, <1>2, <1>3, <1>4, ShapeKept

LEMMA ScheduleRepairShape ==
    ASSUME Shape, ScheduleRepair
    PROVE  Shape'
<1> USE NormalTypes
<1>1. /\ "driver" \in Callers /\ loaded /\ Registered /\ mem.repair \in Nat
  BY Busy DEF ScheduleRepair, Callers, At, Shape
<1>2. task' \in [Callers -> TaskType] /\ task'["driver"].at = "boundaries"
  BY <1>1, GoEffect DEF ScheduleRepair, Labels
<1>3. PICK r \in RepairType : /\ scheduled' = scheduled \cup {r}
                              /\ r.turn = mem.repair
  <2>1. [turn |-> mem.repair, phase |-> mem.phase] \in RepairType
    BY <1>1 DEF MemType, RepairType
  <2> QED BY <2>1 DEF ScheduleRepair
<1>4. PICK n \in Nat : \A q \in scheduled : q.turn <= n
  BY DEF Shape
<1>5. \E k \in Nat : \A q \in scheduled' : q.turn <= k
  <2>1. CASE mem.repair <= n
    BY <1>3, <1>4, <2>1
  <2>2. CASE ~(mem.repair <= n)
    <3>1. \A q \in scheduled : q.turn \in Nat
      BY DEF Shape, TypeOK, RepairType
    <3>2. \A q \in scheduled' : q.turn <= mem.repair
      BY <1>1, <1>3, <1>4, <2>2, <3>1
    <3> QED BY <1>1, <3>2
  <2> QED BY <2>1, <2>2
<1>6. scheduled' \subseteq RepairType
  BY <1>3 DEF Shape, TypeOK
<1>7. TypeOK'
  BY <1>2, <1>6 DEF ScheduleRepair, Shape, TypeOK
<1>8. Registered' /\ loaded'
  BY <1>1 DEF ScheduleRepair, Registered
<1> QED BY <1>2, <1>5, <1>7, <1>8 DEF Shape, At

LEMMA CreateRunShape ==
    ASSUME Shape, CreateRun
    PROVE  Shape'
<1> USE NormalTypes
<1>1. PICK configuration \in Configurations :
        /\ metadata' = <<configuration>>
        /\ mem' = [Fresh EXCEPT !.training = Trained(configuration)]
  BY DEF CreateRun
<1>2. Trained(configuration) \in Nat
  BY <1>1, CountIsNat, ConfigurationsAssumption DEF Trained, ConfigurationType
<1>3. mem' \in MemType
  BY <1>1, <1>2 DEF Fresh, MemType, Phases
<1>4. task' \in [Callers -> TaskType] /\ task'["driver"].at = "initial-record"
  BY GoEffect DEF CreateRun, Labels, Callers
<1>5. metadata' \in {<<>>} \cup {<<c>> : c \in Configurations} /\ metadata' # <<>>
  BY <1>1
<1>6. loaded' = TRUE /\ state' \in RunStates
  BY TransitionStates DEF CreateRun
<1>7. TypeOK'
  BY <1>3, <1>4, <1>5, <1>6 DEF CreateRun, Shape, TypeOK
<1>8. (\E n \in Nat : \A r \in scheduled : r.turn <= n)'
  BY DEF CreateRun, Shape
<1> QED BY <1>4, <1>5, <1>6, <1>7, <1>8 DEF Shape, At, Registered

LEMMA ReconstructedState ==
    Reconstructed \in {"forked-invalid", "sealed", "aborted-sealed", "sealing-blocked",
                       "paused", "evaluating", "running"}
<1>1. TerminalStateFrom \in {"forked-invalid", "sealed", "aborted-sealed", "sealing-blocked"}
  BY DEF TerminalStateFrom
<1>2. StageByCounts \in {"evaluating", "running"}
  BY DEF StageByCounts
<1> QED BY <1>1, <1>2 DEF Reconstructed

LEMMA StartRecoverShape ==
    ASSUME Shape, StartRecover
    PROVE  Shape'
<1> USE NormalTypes
<1>1. "driver" \in Callers /\ Registered /\ At("driver", "idle")
  BY DEF StartRecover, Callers
<1>2. task' \in [Callers -> TaskType] /\ task'["driver"].at # "repair-turn"
  BY <1>1, GoEffect DEF StartRecover, Labels, At
<1>3. loaded'
  BY DEF StartRecover, Shape, TypeOK
<1>4. mem' \in MemType
  <2>1. NextTurn \in Nat /\ Count("running") \in Nat /\ Count("evaluating") \in Nat
    BY NextTurnIsNat, CountIsNat
  <2>2. PendingRepair.turn \in Nat \cup {None} /\ PendingRepair.phase \in Phases
    BY PendingRepairType DEF Shape, TypeOK
  <2>3. (LastOf({"adapter-quarantined"}) = 0) \in BOOLEAN
    OBVIOUS
  <2>4. [Fresh EXCEPT !.turn = NextTurn, !.training = Count("running"),
                      !.evaluation = Count("evaluating"), !.repair = PendingRepair.turn,
                      !.phase = PendingRepair.phase,
                      !.adapter = LastOf({"adapter-quarantined"}) = 0] \in MemType
    BY ONLY <2>1, <2>2, <2>3 DEF Fresh, MemType
  <2> QED BY <2>4 DEF StartRecover
<1>5. state' \in RunStates
  BY ReconstructedState, TransitionStates DEF StartRecover, Closing
<1>6. used' \in [calls : 0..MaxCalls, mishaps : 0..MaxMishaps]
  <2>1. used \in [calls : 0..MaxCalls, mishaps : 0..MaxMishaps] /\ MaxCalls \in Nat
    BY CountsAssumption DEF Shape, TypeOK
  <2>2. used' = used \/ (used.calls < MaxCalls /\ used' = [used EXCEPT !.calls = @ + 1])
    BY DEF StartRecover
  <2>3. used.calls < MaxCalls => used.calls + 1 \in 0..MaxCalls
    BY <2>1
  <2> QED BY <2>1, <2>2, <2>3
<1>7. UNCHANGED evidence
  BY DEF StartRecover
<1>8. TypeOK'
  BY <1>2, <1>3, <1>4, <1>5, <1>6, <1>7 DEF Shape, TypeOK, evidence
<1>9. (\E n \in Nat : \A r \in scheduled : r.turn <= n)'
  BY <1>7 DEF evidence, Shape
<1>10. Registered'
  BY <1>1, <1>7 DEF evidence, Registered
<1> QED BY <1>2, <1>3, <1>8, <1>9, <1>10 DEF Shape, At

LEMMA ForkShape ==
    ASSUME Shape, Fork
    PROVE  Shape'
<1>1. used' \in [calls : 0..MaxCalls, mishaps : 0..MaxMishaps]
  BY MishapsCounted DEF Fork
<1>2. TypeOK'
  BY <1>1 DEF Fork, Shape, TypeOK
<1> QED BY <1>2 DEF Fork, Shape, Registered, At

LEMMA CrashShape ==
    ASSUME Shape, Crash
    PROVE  Shape'
<1>1. used' \in [calls : 0..MaxCalls, mishaps : 0..MaxMishaps]
  BY MishapsCounted DEF Crash
<1>2. channel' \subseteq Nat /\ sealed' \in [Roles -> Nat] /\ quarantined' \in BOOLEAN
  <2>1. CASE UNCHANGED <<channel, sealed, quarantined>>
    BY <2>1 DEF Shape, TypeOK
  <2>2. CASE /\ \E c \in Callers :
                   (ThroughGateway(c) \/ AtPolicyCheckpoint(c)) /\ MayHaveCommitted(c)
             /\ quarantined' = TRUE
    BY <2>2, CommittedTypes
  <2> QED BY <2>1, <2>2 DEF Crash
<1>3. task' = [c \in Callers |-> Idle] /\ task' \in [Callers -> TaskType]
  BY IdleTask DEF Crash
<1>4. mem' \in MemType
  BY DEF Crash, Fresh, MemType, Phases
<1>5. TypeOK'
  BY <1>1, <1>2, <1>3, <1>4 DEF Crash, Shape, TypeOK
<1>6. Registered' /\ ~loaded' /\ \A c \in Callers : task'[c] = Idle
  BY <1>3 DEF Crash, Registered, Shape
<1>7. "driver" \in Callers
  BY DEF Callers
<1>8. (\E n \in Nat : \A r \in scheduled : r.turn <= n)'
  BY DEF Crash, Shape
<1> QED BY <1>5, <1>6, <1>7, <1>8, IdleTask DEF Shape, At

LEMMA ShapeInit == Init => Shape
<1> SUFFICES ASSUME Init PROVE Shape
  OBVIOUS
<1>1. task \in [Callers -> TaskType] /\ task = [c \in Callers |-> Idle]
  BY IdleTask DEF Init
<1>2. mem \in MemType
  BY DEF Init, Fresh, MemType, Phases
<1>3. used \in [calls : 0..MaxCalls, mishaps : 0..MaxMishaps]
  BY CountsAssumption DEF Init
<1>4. TypeOK
  <2>1. /\ metadata \in {<<>>} \cup {<<c>> : c \in Configurations}
        /\ channel \subseteq Nat /\ scheduled \subseteq RepairType
        /\ sealed \in [Roles -> Nat] /\ state \in RunStates
    BY DEF Init, RunStates
  <2>2. /\ turns \in Seq(TurnType) /\ journal \in Seq(JournalEntries)
        /\ records \in Seq(RecordType)
    BY DEF Init
  <2>3. /\ receipt \in {"none", "confirmed", "failed"}
        /\ forked \in BOOLEAN /\ quarantined \in BOOLEAN /\ loaded \in BOOLEAN
    BY DEF Init
  <2> QED BY <1>1, <1>2, <1>3, <2>1, <2>2, <2>3 DEF TypeOK
<1>5. "driver" \in Callers /\ ~At("driver", "repair-turn")
  BY <1>1, IdleTask DEF Callers, At
<1>6. \E n \in Nat : \A r \in scheduled : r.turn <= n
  BY DEF Init
<1> QED BY <1>1, <1>4, <1>5, <1>6 DEF Init, Shape

LEMMA SealShape ==
    ASSUME Shape, NEW c \in Callers, Seal(c)
    PROVE  Shape'
BY SealCheckShape, RunSealedEventShape, CreateFinalCheckpointShape, AnchorShape,
   BlockedRecordShape, PendingRecordShape, VerifyShape, VerdictRecordShape,
   AbortDecisionShape DEF Seal

LEMMA TurnShape ==
    ASSUME Shape, Turn
    PROVE  Shape'
BY ExecuteTurnShape, AppendTurnRecordShape, ScheduleRepairShape, EventBoundariesShape,
   PauseNotAvailableShape DEF Turn

LEMMA RecoveryShape ==
    ASSUME Shape, Recovery
    PROVE  Shape'
BY CheckSignersShape, RecoverPrefixShape, RecoveryEventShape, RecoveryCheckpointShape
   DEF Recovery

LEMMA InterventionShape ==
    ASSUME Shape, Intervention
    PROVE  Shape'
BY PauseEventShape, ResumePrefixShape, ResumeEventShape, ResumeCheckpointShape,
   AnnotateEventShape, AnnotateCheckShape, AnnotateCheckpointShape, AnnotateRecordShape,
   RetryEventShape, AbandonEventShape, AbandonRecordShape DEF Intervention

LEMMA OperatorShape ==
    ASSUME Shape, Operator
    PROVE  Shape'
BY StartPauseShape, StartResumeShape, StartAnnotateShape, StartAbortShape,
   StartRetrySealShape, StartAbandonSealShape DEF Operator

LEMMA ProceedShape ==
    ASSUME Shape, NEW c \in Callers, Proceed(c)
    PROVE  Shape'
BY InitialRecordShape, CheckpointZeroShape, TurnShape, RecoveryShape, InterventionShape,
   BeginEvaluationShape, PauseCheckpointShape, AbortEventShape, AbortRecordShape,
   SealShape, GatewayRefusesShape DEF Proceed

LEMMA ShapeNext == Shape /\ [Next]_vars => Shape'
<1> SUFFICES ASSUME Shape, [Next]_vars PROVE Shape'
  OBVIOUS
<1>1. CASE UNCHANGED vars
  BY <1>1 DEF vars, Shape, TypeOK, Registered, At
<1>2. CASE Next
  BY <1>2, CreateRunShape, StartStepShape, StartSealShape, StartRecoverShape, OperatorShape,
     ProceedShape, CallFailsShape, LoseTurnRecordShape, ForkShape, CrashShape DEF Next
<1> QED BY <1>1, <1>2

\* Every variable holds values of its shape, in every run and whatever goes wrong.
THEOREM RunIsWellTyped == Spec => []TypeOK
<1>1. Shape => TypeOK
  BY DEF Shape
<1> QED BY <1>1, ShapeInit, ShapeNext, PTL DEF Spec

---------------------------------------------------------------------------
(* A step of one call, as the invariant sees it *)

PlainLabels == {"initial-record", "checkpoint-zero", "begin-evaluation", "channel",
    "turn-record", "repair-turn", "boundaries", "pause-not-available", "annotate",
    "annotate-check", "annotate-checkpoint", "annotate-record", "abandon",
    "abandon-record", "signers", "prefix", "recovery", "recovery-checkpoint"}

\* A verdict is no part of the step.
NoVerdict ==
    \A i \in DOMAIN records' : records'[i].disposition = "valid" =>
        i \in DOMAIN records /\ records[i].disposition = "valid"

\* Caller c begins to pause, abort or seal only in a state where nobody else does.
Begins(c) ==
    /\ task'[c].at \in PauseLabels =>
        task[c].at \in PauseLabels \/ state \notin {"pausing"} \cup Closing
    /\ Aborts(c)' => Aborts(c) \/ state \in Abortable
    /\ Seals(c)' => Seals(c) \/ state \in SealStates \ {"forked-invalid"}

LEMMA CallsStep ==
    ASSUME CallsInv, NEW c \in Callers, loaded, loaded',
           \A d \in Callers : d # c => task'[d] = task[d],
           StateMoves(c), Begins(c), CallOf(c)'
    PROVE  CallsInv'
<1>1. ASSUME NEW d \in Callers, d # c PROVE Apart(c, d)' /\ Apart(d, c)'
  <2>1. task'[d] = task[d] /\ CallOf(d) /\ Apart(c, d) /\ Apart(d, c)
    BY <1>1 DEF CallsInv
  <2>2. (Aborts(d)' <=> Aborts(d)) /\ (Seals(d)' <=> Seals(d))
    BY <2>1 DEF Aborts, Seals
  <2>3. ~(task'[c].at \in PauseLabels /\ task[d].at \in PauseLabels)
    BY <2>1 DEF Begins, CallOf, Apart
  <2>4. ~(Aborts(c)' /\ Aborts(d)) /\ ~(Aborts(c)' /\ Seals(d))
    BY <2>1 DEF Begins, CallOf, Apart, Abortable, SealStates, Closing
  <2>5. ~(Aborts(d) /\ Seals(c)')
    BY <2>1 DEF Begins, CallOf, Apart, SealStates, Closing
  <2> QED BY <2>1, <2>2, <2>3, <2>4, <2>5 DEF Apart
<1> QED BY <1>1, CallsKept

\* The evidence of the seal is untouched, except by what caller c knows of it.
LEMMA SealKept ==
    ASSUME Shape, SealInv, Shape', NEW c \in Callers, Quiet, NoVerdict,
           \A d \in Callers : d # c => task'[d] = task[d],
           \A b \in Roles : sealed'[b] >= sealed[b],
           Confirmed(receipt) => Confirmed(receipt'),
           FinalCheckpoint # 0 /\ loaded' => state' \in Closing,
           state' \in EndStates => FinalCheckpoint # 0,
           SealOf(c)'
    PROVE  SealInv'
<1>1. FinalCheckpoint' = FinalCheckpoint /\ (Completed' <=> Completed)
  BY QuietKeeps, NormalTypes
<1>2. sealed \in [Roles -> Nat] /\ sealed' \in [Roles -> Nat]
  BY DEF Shape, TypeOK
<1>3. \A b \in Roles : sealed[b] > 0 => sealed'[b] > 0
  BY <1>2
<1>4. ASSUME NEW d \in Callers, d # c PROVE SealOf(d)'
  <2>1. task'[d] = task[d] /\ SealOf(d)
    BY <1>4 DEF SealInv
  <2> QED BY <1>1, <1>3, <2>1 DEF SealOf, At, Roles
<1>5. (FinalCheckpoint # 0 => \A b \in Roles : sealed[b] > 0)'
  BY <1>1, <1>3 DEF SealInv
<1>6. ((\E i \in DOMAIN records : records[i].disposition = "valid")
            => Confirmed(receipt) /\ Completed)'
  BY <1>1 DEF SealInv, NoVerdict
<1> QED BY <1>1, <1>4, <1>5, <1>6 DEF SealInv

Lands(c) ==
    /\ \A d \in Callers : d # c => task'[d] = task[d]
    /\ \/ task'[c] = Idle
       \/ /\ task'[c].at \in PlainLabels
          /\ task'[c].aborting => task'[c].aborted
          /\ task'[c].anchored => Confirmed(receipt)

\* A step that neither pauses nor resumes, aborts or seals, or that ends a call.
PlainStep(c) ==
    /\ loaded /\ loaded' /\ Quiet /\ NoVerdict /\ StateMoves(c)
    /\ Lands(c)
    /\ \A b \in Roles : sealed'[b] >= sealed[b]
    /\ receipt' = receipt
    /\ state' \in EndStates => state \in EndStates \/ FinalCheckpoint # 0

LEMMA StaysClosing ==
    ASSUME NEW c \in Callers, StateMoves(c), state \in Closing
    PROVE  state' \in Closing
BY DEF StateMoves, Closing, SealStates

LEMMA PlainKept ==
    ASSUME Shape, CallsInv, SealInv, Shape', NEW c \in Callers, PlainStep(c)
    PROVE  CallsInv' /\ SealInv'
<1>1. task'[c] = Idle \/ task'[c].at \in PlainLabels
  BY DEF PlainStep, Lands
<1>2. Idle.at = "idle" /\ ~Idle.aborting /\ ~Idle.anchored
  BY DEF Idle
<1>3. CallOf(c)' /\ Begins(c)
  BY <1>1, <1>2 DEF PlainStep, Lands, PlainLabels, CallOf, Begins, At, Aborts, Seals, PauseLabels,
     ResumeLabels, WritingLabels
<1>4. CallsInv'
  BY <1>3, CallsStep DEF PlainStep, Lands
<1>5. SealOf(c)'
  BY <1>1, <1>2 DEF PlainStep, Lands, PlainLabels, SealOf, At, WritingLabels, EvidenceLabels
<1>6. FinalCheckpoint # 0 => state' \in Closing
  BY StaysClosing DEF SealInv, PlainStep
<1>7. state' \in EndStates => FinalCheckpoint # 0
  BY DEF SealInv, PlainStep
<1>8. SealInv'
  BY <1>5, <1>6, <1>7, SealKept DEF PlainStep, Lands
<1> QED BY <1>4, <1>8

LEMMA PlainGo ==
    ASSUME Shape, CallsInv, SealInv, NEW c \in Callers, NEW label \in PlainLabels, Go(c, label)
    PROVE  Lands(c)
<1>1. label \in Labels
  BY DEF PlainLabels, Labels
<1>2. CallOf(c) /\ SealOf(c)
  BY DEF CallsInv, SealInv
<1> QED BY <1>1, <1>2, GoEffect, NormalTypes DEF Lands, CallOf, SealOf

LEMMA PlainReturn ==
    ASSUME Shape, NEW c \in Callers, Return(c)
    PROVE  Lands(c)
BY ReturnEffect, NormalTypes DEF Lands

LEMMA NoRecordNoVerdict ==
    ASSUME records' = records \/ \E d \in {"invalid", "aborted"}, a \in BOOLEAN : Record(d, a), Shape
    PROVE  NoVerdict
<1>1. CASE records' = records
  BY <1>1 DEF NoVerdict
<1>2. CASE \E d \in {"invalid", "aborted"}, a \in BOOLEAN : Record(d, a)
  BY <1>2, RecordEffect, NormalTypes DEF NoVerdict
<1> QED BY <1>1, <1>2

LEMMA InitialRecordStep ==
    ASSUME Shape, CallsInv, SealInv, Shape', InitialRecord
    PROVE  CallsInv' /\ SealInv'
<1>0. "driver" \in Callers
  BY DEF Callers
<1>1. Lands("driver")
  BY <1>0, PlainGo DEF InitialRecord, PlainLabels
<1>2. loaded /\ loaded'
  BY <1>0, Busy DEF InitialRecord, At
<1>3. StateMoves("driver")
  BY DEF InitialRecord, StateMoves
<1>4. state' \in EndStates => state \in EndStates \/ FinalCheckpoint # 0
  BY DEF InitialRecord
<1>5. Quiet
  BY DEF InitialRecord, Quiet, JournalEntries, FinalReasons
<1>6. NoVerdict
  BY NoRecordNoVerdict DEF InitialRecord
<1>7. (\A b \in Roles : sealed'[b] >= sealed[b]) /\ receipt' = receipt
  BY DEF InitialRecord, Shape, TypeOK, evidence
<1> QED BY <1>0, <1>1, <1>2, <1>3, <1>4, <1>5, <1>6, <1>7, PlainKept DEF PlainStep

LEMMA CheckpointZeroStep ==
    ASSUME Shape, CallsInv, SealInv, Shape', CheckpointZero
    PROVE  CallsInv' /\ SealInv'
<1>0. "driver" \in Callers
  BY DEF Callers
<1>1. Lands("driver")
  BY <1>0, PlainGo, PlainReturn, StageEffect, TransitionStates DEF CheckpointZero, PlainLabels
<1>2. loaded /\ loaded'
  BY <1>0, Busy DEF CheckpointZero, At
<1>3. StateMoves("driver")
  BY <1>0, StageEffect, TransitionStates, Applicable DEF CheckpointZero, StateMoves, Closing
<1>4. state' \in EndStates => state \in EndStates \/ FinalCheckpoint # 0
  BY <1>0, StageEffect, TransitionStates, Applicable DEF CheckpointZero, EndStates
<1>5. Quiet
  BY DEF CheckpointZero, Quiet, JournalEntries, FinalReasons
<1>6. NoVerdict
  BY NoRecordNoVerdict DEF CheckpointZero
<1>7. (\A b \in Roles : sealed'[b] >= sealed[b]) /\ receipt' = receipt
  BY DEF CheckpointZero, Shape, TypeOK, evidence
<1> QED BY <1>0, <1>1, <1>2, <1>3, <1>4, <1>5, <1>6, <1>7, PlainKept DEF PlainStep

LEMMA BeginEvaluationStep ==
    ASSUME Shape, CallsInv, SealInv, Shape', NEW c \in Callers, BeginEvaluation(c)
    PROVE  CallsInv' /\ SealInv'
<1>1. Lands(c)
  BY PlainReturn, ApplyEffect, NormalTypes DEF BeginEvaluation, PlainLabels
<1>2. loaded /\ loaded'
  BY Busy DEF BeginEvaluation, At
<1>3. StateMoves(c)
  BY ApplyEffect, NormalTypes, Applicable, Arrivals DEF BeginEvaluation, StateMoves, Closing
<1>4. state' \in EndStates => state \in EndStates \/ FinalCheckpoint # 0
  BY ApplyEffect, NormalTypes, Applicable, Arrivals DEF BeginEvaluation, EndStates
<1>5. Quiet
  BY DEF BeginEvaluation, Quiet, JournalEntries, FinalReasons, PolicyCheckpoint
<1>6. NoVerdict
  BY NoRecordNoVerdict DEF BeginEvaluation
<1>7. (\A b \in Roles : sealed'[b] >= sealed[b]) /\ receipt' = receipt
  BY DEF BeginEvaluation, Shape, TypeOK, evidence
<1> QED BY <1>1, <1>2, <1>3, <1>4, <1>5, <1>6, <1>7, PlainKept DEF PlainStep

LEMMA PauseCheckpointStep ==
    ASSUME Shape, CallsInv, SealInv, Shape', NEW c \in Callers, PauseCheckpoint(c)
    PROVE  CallsInv' /\ SealInv'
<1>1. Lands(c)
  BY PlainReturn, ApplyEffect, NormalTypes DEF PauseCheckpoint, PlainLabels
<1>2. loaded /\ loaded'
  BY Busy DEF PauseCheckpoint, At
<1>3. StateMoves(c)
  BY ApplyEffect, NormalTypes, Applicable, Arrivals DEF PauseCheckpoint, StateMoves, At, PauseLabels
<1>4. state' \in EndStates => state \in EndStates \/ FinalCheckpoint # 0
  BY ApplyEffect, NormalTypes, Applicable, Arrivals DEF PauseCheckpoint, EndStates
<1>5. Quiet
  BY DEF PauseCheckpoint, Quiet, JournalEntries, FinalReasons
<1>6. NoVerdict
  BY NoRecordNoVerdict DEF PauseCheckpoint
<1>7. (\A b \in Roles : sealed'[b] >= sealed[b]) /\ receipt' = receipt
  BY DEF PauseCheckpoint, Shape, TypeOK, evidence
<1> QED BY <1>1, <1>2, <1>3, <1>4, <1>5, <1>6, <1>7, PlainKept DEF PlainStep

LEMMA AppendTurnRecordStep ==
    ASSUME Shape, CallsInv, SealInv, Shape', AppendTurnRecord
    PROVE  CallsInv' /\ SealInv'
<1>0. "driver" \in Callers
  BY DEF Callers
<1>1. Lands("driver")
  BY <1>0, PlainGo DEF AppendTurnRecord, PlainLabels
<1>2. loaded /\ loaded'
  BY <1>0, Busy DEF AppendTurnRecord, At
<1>3. StateMoves("driver")
  BY DEF AppendTurnRecord, StateMoves
<1>4. state' \in EndStates => state \in EndStates \/ FinalCheckpoint # 0
  BY DEF AppendTurnRecord
<1>5. Quiet
  BY DEF AppendTurnRecord, Quiet, JournalEntries, FinalReasons
<1>6. NoVerdict
  BY NoRecordNoVerdict DEF AppendTurnRecord
<1>7. (\A b \in Roles : sealed'[b] >= sealed[b]) /\ receipt' = receipt
  BY DEF AppendTurnRecord, Shape, TypeOK, evidence
<1> QED BY <1>0, <1>1, <1>2, <1>3, <1>4, <1>5, <1>6, <1>7, PlainKept DEF PlainStep

LEMMA ScheduleRepairStep ==
    ASSUME Shape, CallsInv, SealInv, Shape', ScheduleRepair
    PROVE  CallsInv' /\ SealInv'
<1>0. "driver" \in Callers
  BY DEF Callers
<1>1. Lands("driver")
  BY <1>0, PlainGo DEF ScheduleRepair, PlainLabels
<1>2. loaded /\ loaded'
  BY <1>0, Busy DEF ScheduleRepair, At
<1>3. StateMoves("driver")
  BY DEF ScheduleRepair, StateMoves
<1>4. state' \in EndStates => state \in EndStates \/ FinalCheckpoint # 0
  BY DEF ScheduleRepair
<1>5. Quiet
  BY DEF ScheduleRepair, Quiet, JournalEntries, FinalReasons
<1>6. NoVerdict
  BY NoRecordNoVerdict DEF ScheduleRepair
<1>7. (\A b \in Roles : sealed'[b] >= sealed[b]) /\ receipt' = receipt
  BY DEF ScheduleRepair, Shape, TypeOK, evidence
<1> QED BY <1>0, <1>1, <1>2, <1>3, <1>4, <1>5, <1>6, <1>7, PlainKept DEF PlainStep

LEMMA ResumeCheckpointStep ==
    ASSUME Shape, CallsInv, SealInv, Shape', ResumeCheckpoint
    PROVE  CallsInv' /\ SealInv'
<1>0. "operator" \in Callers
  BY DEF Callers
<1>1. Lands("operator")
  BY <1>0, PlainGo, PlainReturn, StageEffect, TransitionStates DEF ResumeCheckpoint, PlainLabels
<1>2. loaded /\ loaded'
  BY <1>0, Busy DEF ResumeCheckpoint, At
<1>3. StateMoves("operator")
  BY <1>0, StageEffect, TransitionStates, Applicable DEF ResumeCheckpoint, StateMoves
<1>4. state' \in EndStates => state \in EndStates \/ FinalCheckpoint # 0
  BY <1>0, StageEffect, TransitionStates, Applicable DEF ResumeCheckpoint, EndStates
<1>5. Quiet
  BY DEF ResumeCheckpoint, Quiet, JournalEntries, FinalReasons
<1>6. NoVerdict
  BY NoRecordNoVerdict DEF ResumeCheckpoint
<1>7. (\A b \in Roles : sealed'[b] >= sealed[b]) /\ receipt' = receipt
  BY DEF ResumeCheckpoint, Shape, TypeOK, evidence
<1> QED BY <1>0, <1>1, <1>2, <1>3, <1>4, <1>5, <1>6, <1>7, PlainKept DEF PlainStep

LEMMA StartAnnotateStep ==
    ASSUME Shape, CallsInv, SealInv, Shape', StartAnnotate
    PROVE  CallsInv' /\ SealInv'
<1>0. "operator" \in Callers
  BY DEF Callers
<1>1. Lands("operator")
  BY <1>0, PlainGo DEF StartAnnotate, PlainLabels
<1>2. loaded /\ loaded'
  BY DEF StartAnnotate, OperatorCalls
<1>3. StateMoves("operator")
  BY DEF StartAnnotate, StateMoves
<1>4. state' \in EndStates => state \in EndStates \/ FinalCheckpoint # 0
  BY DEF StartAnnotate
<1>5. Quiet
  BY DEF StartAnnotate, Quiet, JournalEntries, FinalReasons, evidence
<1>6. NoVerdict
  BY NoRecordNoVerdict DEF StartAnnotate, evidence
<1>7. (\A b \in Roles : sealed'[b] >= sealed[b]) /\ receipt' = receipt
  BY DEF StartAnnotate, Shape, TypeOK, evidence
<1> QED BY <1>0, <1>1, <1>2, <1>3, <1>4, <1>5, <1>6, <1>7, PlainKept DEF PlainStep

LEMMA AnnotateEventStep ==
    ASSUME Shape, CallsInv, SealInv, Shape', AnnotateEvent
    PROVE  CallsInv' /\ SealInv'
<1>0. "operator" \in Callers
  BY DEF Callers
<1>1. Lands("operator")
  BY <1>0, PlainGo DEF AnnotateEvent, PlainLabels
<1>2. loaded /\ loaded'
  BY <1>0, Busy DEF AnnotateEvent, At
<1>3. StateMoves("operator")
  BY DEF AnnotateEvent, StateMoves
<1>4. state' \in EndStates => state \in EndStates \/ FinalCheckpoint # 0
  BY DEF AnnotateEvent
<1>5. Quiet
  BY DEF AnnotateEvent, Quiet, JournalEntries, FinalReasons
<1>6. NoVerdict
  BY NoRecordNoVerdict DEF AnnotateEvent
<1>7. (\A b \in Roles : sealed'[b] >= sealed[b]) /\ receipt' = receipt
  BY DEF AnnotateEvent, Shape, TypeOK, evidence
<1> QED BY <1>0, <1>1, <1>2, <1>3, <1>4, <1>5, <1>6, <1>7, PlainKept DEF PlainStep

LEMMA AnnotateCheckpointStep ==
    ASSUME Shape, CallsInv, SealInv, Shape', AnnotateCheckpoint
    PROVE  CallsInv' /\ SealInv'
<1>0. "operator" \in Callers
  BY DEF Callers
<1>1. Lands("operator")
  BY <1>0, PlainGo DEF AnnotateCheckpoint, PlainLabels
<1>2. loaded /\ loaded'
  BY <1>0, Busy DEF AnnotateCheckpoint, At
<1>3. StateMoves("operator")
  BY DEF AnnotateCheckpoint, StateMoves
<1>4. state' \in EndStates => state \in EndStates \/ FinalCheckpoint # 0
  BY DEF AnnotateCheckpoint
<1>5. Quiet
  BY DEF AnnotateCheckpoint, Quiet, JournalEntries, FinalReasons
<1>6. NoVerdict
  BY NoRecordNoVerdict DEF AnnotateCheckpoint
<1>7. (\A b \in Roles : sealed'[b] >= sealed[b]) /\ receipt' = receipt
  BY DEF AnnotateCheckpoint, Shape, TypeOK, evidence
<1> QED BY <1>0, <1>1, <1>2, <1>3, <1>4, <1>5, <1>6, <1>7, PlainKept DEF PlainStep

LEMMA AnnotateCheckStep ==
    ASSUME Shape, CallsInv, SealInv, Shape', AnnotateCheck
    PROVE  CallsInv' /\ SealInv'
<1>0. "operator" \in Callers
  BY DEF Callers
<1>1. Lands("operator")
  BY <1>0, PlainGo, PlainReturn DEF AnnotateCheck, PlainLabels
<1>2. loaded /\ loaded'
  BY <1>0, Busy DEF AnnotateCheck, At
<1>3. StateMoves("operator")
  BY DEF AnnotateCheck, StateMoves
<1>4. state' \in EndStates => state \in EndStates \/ FinalCheckpoint # 0
  BY DEF AnnotateCheck
<1>5. Quiet
  BY DEF AnnotateCheck, Quiet, JournalEntries, FinalReasons, evidence
<1>6. NoVerdict
  BY NoRecordNoVerdict DEF AnnotateCheck, evidence
<1>7. (\A b \in Roles : sealed'[b] >= sealed[b]) /\ receipt' = receipt
  BY DEF AnnotateCheck, Shape, TypeOK, evidence
<1> QED BY <1>0, <1>1, <1>2, <1>3, <1>4, <1>5, <1>6, <1>7, PlainKept DEF PlainStep

LEMMA AnnotateRecordStep ==
    ASSUME Shape, CallsInv, SealInv, Shape', AnnotateRecord
    PROVE  CallsInv' /\ SealInv'
<1>0. "operator" \in Callers
  BY DEF Callers
<1>1. Lands("operator")
  BY <1>0, PlainReturn DEF AnnotateRecord, PlainLabels
<1>2. loaded /\ loaded'
  BY <1>0, Busy DEF AnnotateRecord, At
<1>3. StateMoves("operator")
  BY DEF AnnotateRecord, StateMoves
<1>4. state' \in EndStates => state \in EndStates \/ FinalCheckpoint # 0
  BY DEF AnnotateRecord
<1>5. Quiet
  BY DEF AnnotateRecord, Quiet, JournalEntries, FinalReasons
<1>6. NoVerdict
  BY NoRecordNoVerdict DEF AnnotateRecord
<1>7. (\A b \in Roles : sealed'[b] >= sealed[b]) /\ receipt' = receipt
  BY DEF AnnotateRecord, Shape, TypeOK, evidence
<1> QED BY <1>0, <1>1, <1>2, <1>3, <1>4, <1>5, <1>6, <1>7, PlainKept DEF PlainStep

LEMMA StartAbandonSealStep ==
    ASSUME Shape, CallsInv, SealInv, Shape', StartAbandonSeal
    PROVE  CallsInv' /\ SealInv'
<1>0. "operator" \in Callers
  BY DEF Callers
<1>1. Lands("operator")
  BY <1>0, PlainGo DEF StartAbandonSeal, PlainLabels
<1>2. loaded /\ loaded'
  BY DEF StartAbandonSeal, OperatorCalls
<1>3. StateMoves("operator")
  BY <1>0, Applicable DEF StartAbandonSeal, StateMoves, Closing, SealStates
<1>4. state' \in EndStates => state \in EndStates \/ FinalCheckpoint # 0
  BY <1>0, Applicable DEF StartAbandonSeal, EndStates
<1>5. Quiet
  BY DEF StartAbandonSeal, Quiet, JournalEntries, FinalReasons, evidence
<1>6. NoVerdict
  BY NoRecordNoVerdict DEF StartAbandonSeal, evidence
<1>7. (\A b \in Roles : sealed'[b] >= sealed[b]) /\ receipt' = receipt
  BY DEF StartAbandonSeal, Shape, TypeOK, evidence
<1> QED BY <1>0, <1>1, <1>2, <1>3, <1>4, <1>5, <1>6, <1>7, PlainKept DEF PlainStep

LEMMA AbandonEventStep ==
    ASSUME Shape, CallsInv, SealInv, Shape', AbandonEvent
    PROVE  CallsInv' /\ SealInv'
<1>0. "operator" \in Callers
  BY DEF Callers
<1>1. Lands("operator")
  BY <1>0, PlainGo DEF AbandonEvent, PlainLabels
<1>2. loaded /\ loaded'
  BY <1>0, Busy DEF AbandonEvent, At
<1>3. StateMoves("operator")
  BY DEF AbandonEvent, StateMoves
<1>4. state' \in EndStates => state \in EndStates \/ FinalCheckpoint # 0
  BY DEF AbandonEvent
<1>5. Quiet
  BY DEF AbandonEvent, Quiet, JournalEntries, FinalReasons
<1>6. NoVerdict
  BY NoRecordNoVerdict DEF AbandonEvent
<1>7. (\A b \in Roles : sealed'[b] >= sealed[b]) /\ receipt' = receipt
  BY DEF AbandonEvent, Shape, TypeOK, evidence
<1> QED BY <1>0, <1>1, <1>2, <1>3, <1>4, <1>5, <1>6, <1>7, PlainKept DEF PlainStep

LEMMA AbandonRecordStep ==
    ASSUME Shape, CallsInv, SealInv, Shape', AbandonRecord
    PROVE  CallsInv' /\ SealInv'
<1>0. "operator" \in Callers
  BY DEF Callers
<1>1. Lands("operator")
  BY <1>0, PlainReturn DEF AbandonRecord, PlainLabels
<1>2. loaded /\ loaded'
  BY <1>0, Busy DEF AbandonRecord, At
<1>3. StateMoves("operator")
  BY DEF AbandonRecord, StateMoves
<1>4. state' \in EndStates => state \in EndStates \/ FinalCheckpoint # 0
  BY DEF AbandonRecord
<1>5. Quiet
  BY DEF AbandonRecord, Quiet, JournalEntries, FinalReasons
<1>6. NoVerdict
  BY NoRecordNoVerdict DEF AbandonRecord
<1>7. (\A b \in Roles : sealed'[b] >= sealed[b]) /\ receipt' = receipt
  BY DEF AbandonRecord, Shape, TypeOK, evidence
<1> QED BY <1>0, <1>1, <1>2, <1>3, <1>4, <1>5, <1>6, <1>7, PlainKept DEF PlainStep

LEMMA CheckSignersStep ==
    ASSUME Shape, CallsInv, SealInv, Shape', CheckSigners
    PROVE  CallsInv' /\ SealInv'
<1>0. "driver" \in Callers
  BY DEF Callers
<1>1. Lands("driver")
  BY <1>0, PlainGo, PlainReturn DEF CheckSigners, PlainLabels
<1>2. loaded /\ loaded'
  BY <1>0, Busy DEF CheckSigners, At
<1>3. StateMoves("driver")
  BY DEF CheckSigners, StateMoves
<1>4. state' \in EndStates => state \in EndStates \/ FinalCheckpoint # 0
  BY DEF CheckSigners
<1>5. Quiet
  BY DEF CheckSigners, Quiet, JournalEntries, FinalReasons
<1>6. NoVerdict
  BY NoRecordNoVerdict DEF CheckSigners
<1>7. (\A b \in Roles : sealed'[b] >= sealed[b]) /\ receipt' = receipt
  BY DEF CheckSigners, Shape, TypeOK, evidence
<1> QED BY <1>0, <1>1, <1>2, <1>3, <1>4, <1>5, <1>6, <1>7, PlainKept DEF PlainStep

LEMMA RecoverPrefixStep ==
    ASSUME Shape, CallsInv, SealInv, Shape', RecoverPrefix
    PROVE  CallsInv' /\ SealInv'
<1>0. "driver" \in Callers
  BY DEF Callers
<1>1. Lands("driver")
  BY <1>0, PlainGo, PlainReturn, ApplyEffect, NormalTypes DEF RecoverPrefix, PlainLabels
<1>2. loaded /\ loaded'
  BY <1>0, Busy DEF RecoverPrefix, At
<1>3. StateMoves("driver")
  BY <1>0, ApplyEffect, NormalTypes, Applicable, Arrivals DEF RecoverPrefix, StateMoves
<1>4. state' \in EndStates => state \in EndStates \/ FinalCheckpoint # 0
  BY <1>0, ApplyEffect, NormalTypes, Applicable, Arrivals DEF RecoverPrefix, EndStates
<1>5. Quiet
  BY DEF RecoverPrefix, Quiet, JournalEntries, FinalReasons, evidence
<1>6. NoVerdict
  BY NoRecordNoVerdict DEF RecoverPrefix, evidence
<1>7. (\A b \in Roles : sealed'[b] >= sealed[b]) /\ receipt' = receipt
  BY DEF RecoverPrefix, Shape, TypeOK, evidence
<1> QED BY <1>0, <1>1, <1>2, <1>3, <1>4, <1>5, <1>6, <1>7, PlainKept DEF PlainStep

LEMMA RecoveryEventStep ==
    ASSUME Shape, CallsInv, SealInv, Shape', RecoveryEvent
    PROVE  CallsInv' /\ SealInv'
<1>0. "driver" \in Callers
  BY DEF Callers
<1>1. Lands("driver")
  BY <1>0, PlainGo DEF RecoveryEvent, PlainLabels
<1>2. loaded /\ loaded'
  BY <1>0, Busy DEF RecoveryEvent, At
<1>3. StateMoves("driver")
  BY DEF RecoveryEvent, StateMoves
<1>4. state' \in EndStates => state \in EndStates \/ FinalCheckpoint # 0
  BY DEF RecoveryEvent
<1>5. Quiet
  BY DEF RecoveryEvent, Quiet, JournalEntries, FinalReasons
<1>6. NoVerdict
  BY NoRecordNoVerdict DEF RecoveryEvent
<1>7. (\A b \in Roles : sealed'[b] >= sealed[b]) /\ receipt' = receipt
  BY DEF RecoveryEvent, Shape, TypeOK, evidence
<1> QED BY <1>0, <1>1, <1>2, <1>3, <1>4, <1>5, <1>6, <1>7, PlainKept DEF PlainStep

LEMMA RecoveryCheckpointStep ==
    ASSUME Shape, CallsInv, SealInv, Shape', RecoveryCheckpoint
    PROVE  CallsInv' /\ SealInv'
<1>0. "driver" \in Callers
  BY DEF Callers
<1>1. Lands("driver")
  BY <1>0, PlainGo, PlainReturn, StageEffect, NormalTypes DEF RecoveryCheckpoint, PlainLabels
<1>2. loaded /\ loaded'
  BY <1>0, Busy DEF RecoveryCheckpoint, At
<1>3. StateMoves("driver")
  BY <1>0, StageEffect, NormalTypes DEF RecoveryCheckpoint, StateMoves, Closing
<1>4. state' \in EndStates => state \in EndStates \/ FinalCheckpoint # 0
  BY <1>0, StageEffect, NormalTypes DEF RecoveryCheckpoint, EndStates
<1>5. Quiet
  BY DEF RecoveryCheckpoint, Quiet, JournalEntries, FinalReasons
<1>6. NoVerdict
  BY NoRecordNoVerdict DEF RecoveryCheckpoint
<1>7. (\A b \in Roles : sealed'[b] >= sealed[b]) /\ receipt' = receipt
  BY DEF RecoveryCheckpoint, Shape, TypeOK, evidence
<1> QED BY <1>0, <1>1, <1>2, <1>3, <1>4, <1>5, <1>6, <1>7, PlainKept DEF PlainStep

LEMMA BlockedRecordStep ==
    ASSUME Shape, CallsInv, SealInv, Shape', NEW c \in Callers, BlockedRecord(c)
    PROVE  CallsInv' /\ SealInv'
<1>1. Lands(c)
  BY PlainReturn DEF BlockedRecord, PlainLabels
<1>2. loaded /\ loaded'
  BY Busy DEF BlockedRecord, At
<1>3. StateMoves(c)
  BY DEF BlockedRecord, StateMoves
<1>4. state' \in EndStates => state \in EndStates \/ FinalCheckpoint # 0
  BY DEF BlockedRecord
<1>5. Quiet
  BY DEF BlockedRecord, Quiet, JournalEntries, FinalReasons
<1>6. NoVerdict
  BY NoRecordNoVerdict DEF BlockedRecord, OpenDisposition
<1>7. (\A b \in Roles : sealed'[b] >= sealed[b]) /\ receipt' = receipt
  BY DEF BlockedRecord, Shape, TypeOK, evidence
<1> QED BY <1>1, <1>2, <1>3, <1>4, <1>5, <1>6, <1>7, PlainKept DEF PlainStep

LEMMA AbortRecordStep ==
    ASSUME Shape, CallsInv, SealInv, Shape', NEW c \in Callers, AbortRecord(c)
    PROVE  CallsInv' /\ SealInv'
<1>8. Aborts(c) /\ state \in {"aborting", "forked-invalid"}
  BY DEF AbortRecord, At, Aborts, CallsInv, CallOf
<1>9. state' = state \/ (state' \in {"sealing-blocked", "aborted-sealed"} /\ state # "forked-invalid")
  <2>1. PICK e \in {"seal-blocked", "abort-complete"} : ApplyAndReturn(c, e)
    BY DEF AbortRecord
  <2>2. state' = state \/ (CanApply(state, e) /\ state' = After(state, e))
    BY <2>1, ApplyEffect, NormalTypes
  <2>3. CanApply(state, e) => state # "forked-invalid"
    BY Applicable
  <2>4. CanApply(state, e) => After(state, e) \in {"sealing-blocked", "aborted-sealed"}
    BY Arrivals
  <2> QED BY <2>2, <2>3, <2>4
<1>1. Lands(c)
  BY PlainReturn, ApplyEffect, NormalTypes DEF AbortRecord, PlainLabels
<1>2. loaded /\ loaded'
  BY Busy DEF AbortRecord, At
<1>3. StateMoves(c)
  BY <1>8, <1>9 DEF AbortRecord, StateMoves, Closing, SealStates, ActiveRunStates
<1>4. state' \in EndStates => state \in EndStates \/ FinalCheckpoint # 0
  BY <1>9 DEF AbortRecord, SealInv, SealOf, EvidenceLabels, At
<1>5. Quiet
  BY DEF AbortRecord, Quiet, JournalEntries, FinalReasons
<1>6. NoVerdict
  BY NoRecordNoVerdict, NormalTypes DEF AbortRecord, TaskType
<1>7. (\A b \in Roles : sealed'[b] >= sealed[b]) /\ receipt' = receipt
  BY DEF AbortRecord, Shape, TypeOK, evidence
<1> QED BY <1>1, <1>2, <1>3, <1>4, <1>5, <1>6, <1>7, PlainKept DEF PlainStep

LEMMA AbortDecisionStep ==
    ASSUME Shape, CallsInv, SealInv, Shape', NEW c \in Callers, AbortDecision(c)
    PROVE  CallsInv' /\ SealInv'
<1>1. Lands(c)
  BY PlainReturn DEF AbortDecision, PlainLabels
<1>2. loaded /\ loaded'
  BY Busy DEF AbortDecision, At
<1>3. StateMoves(c)
  BY DEF AbortDecision, StateMoves, Closing, SealStates
<1>4. state' \in EndStates => state \in EndStates \/ FinalCheckpoint # 0
  BY DEF AbortDecision, SealInv, SealOf, EvidenceLabels, At
<1>5. Quiet
  BY DEF AbortDecision, Quiet, JournalEntries, FinalReasons
<1>6. NoVerdict
  BY NoRecordNoVerdict DEF AbortDecision
<1>7. (\A b \in Roles : sealed'[b] >= sealed[b]) /\ receipt' = receipt
  BY DEF AbortDecision, Shape, TypeOK, evidence
<1> QED BY <1>1, <1>2, <1>3, <1>4, <1>5, <1>6, <1>7, PlainKept DEF PlainStep

LEMMA GatewayRefusesStep ==
    ASSUME Shape, CallsInv, SealInv, Shape', NEW c \in Callers, GatewayRefuses(c)
    PROVE  CallsInv' /\ SealInv'
<1>1. Lands(c)
  BY PlainReturn DEF GatewayRefuses, PlainLabels
<1>2. loaded /\ loaded'
  BY Busy DEF GatewayRefuses, At, ThroughGateway, AtPolicyCheckpoint
<1>3. StateMoves(c)
  BY DEF GatewayRefuses, StateMoves
<1>4. state' \in EndStates => state \in EndStates \/ FinalCheckpoint # 0
  BY DEF GatewayRefuses
<1>5. Quiet
  BY DEF GatewayRefuses, Quiet, JournalEntries, FinalReasons, evidence
<1>6. NoVerdict
  BY NoRecordNoVerdict DEF GatewayRefuses, evidence
<1>7. (\A b \in Roles : sealed'[b] >= sealed[b]) /\ receipt' = receipt
  BY DEF GatewayRefuses, Shape, TypeOK, evidence
<1> QED BY <1>1, <1>2, <1>3, <1>4, <1>5, <1>6, <1>7, PlainKept DEF PlainStep

LEMMA CallFailsStep ==
    ASSUME Shape, CallsInv, SealInv, Shape', NEW c \in Callers, CallFails(c)
    PROVE  CallsInv' /\ SealInv'
<1>1. Lands(c)
  BY PlainReturn DEF CallFails, PlainLabels
<1>2. loaded /\ loaded'
  BY Busy DEF CallFails, At
<1>3. StateMoves(c)
  BY DEF CallFails, StateMoves
<1>4. state' \in EndStates => state \in EndStates \/ FinalCheckpoint # 0
  BY DEF CallFails
<1>5. Quiet
  BY DEF CallFails, Quiet, JournalEntries, FinalReasons
<1>6. NoVerdict
  BY NoRecordNoVerdict DEF CallFails
<1>7. (\A b \in Roles : sealed'[b] >= sealed[b]) /\ receipt' = receipt
  BY CommittedTypes DEF CallFails, Shape, TypeOK, evidence
<1> QED BY <1>1, <1>2, <1>3, <1>4, <1>5, <1>6, <1>7, PlainKept DEF PlainStep

LEMMA LoseTurnRecordStep ==
    ASSUME Shape, CallsInv, SealInv, Shape', LoseTurnRecord
    PROVE  CallsInv' /\ SealInv'
<1>0. "driver" \in Callers
  BY DEF Callers
<1>1. Lands("driver")
  BY <1>0, PlainReturn DEF LoseTurnRecord, PlainLabels
<1>2. loaded /\ loaded'
  BY <1>0, Busy DEF LoseTurnRecord, At
<1>3. StateMoves("driver")
  BY DEF LoseTurnRecord, StateMoves
<1>4. state' \in EndStates => state \in EndStates \/ FinalCheckpoint # 0
  BY DEF LoseTurnRecord
<1>5. Quiet
  BY DEF LoseTurnRecord, Quiet, JournalEntries, FinalReasons
<1>6. NoVerdict
  BY NoRecordNoVerdict DEF LoseTurnRecord
<1>7. (\A b \in Roles : sealed'[b] >= sealed[b]) /\ receipt' = receipt
  BY DEF LoseTurnRecord, Shape, TypeOK, evidence
<1> QED BY <1>0, <1>1, <1>2, <1>3, <1>4, <1>5, <1>6, <1>7, PlainKept DEF PlainStep

LEMMA StartStepStep ==
    ASSUME Shape, CallsInv, SealInv, Shape', StartStep
    PROVE  CallsInv' /\ SealInv'
<1>0. "driver" \in Callers
  BY DEF Callers
<1>8. /\ \A d \in Callers : d # "driver" => task'[d] = task[d]
      /\ task'["driver"].at = "channel"
      /\ ~task'["driver"].aborting /\ ~task'["driver"].anchored
  BY <1>0, NormalTypes DEF StartStep, Idle
<1>1. Lands("driver")
  BY <1>0, <1>8 DEF StartStep, PlainLabels, Lands
<1>2. loaded /\ loaded'
  BY DEF StartStep, DriverFree
<1>3. StateMoves("driver")
  BY DEF StartStep, StateMoves
<1>4. state' \in EndStates => state \in EndStates \/ FinalCheckpoint # 0
  BY DEF StartStep
<1>5. Quiet
  BY DEF StartStep, Quiet, JournalEntries, FinalReasons, evidence
<1>6. NoVerdict
  BY NoRecordNoVerdict DEF StartStep, evidence
<1>7. (\A b \in Roles : sealed'[b] >= sealed[b]) /\ receipt' = receipt
  BY DEF StartStep, Shape, TypeOK, evidence
<1> QED BY <1>0, <1>1, <1>2, <1>3, <1>4, <1>5, <1>6, <1>7, PlainKept DEF PlainStep

LEMMA ExecuteTurnStep ==
    ASSUME Shape, CallsInv, SealInv, Shape', ExecuteTurn
    PROVE  CallsInv' /\ SealInv'
<1>0. "driver" \in Callers
  BY DEF Callers
<1>8. "turn-record" \in Labels
  BY DEF Labels
<1>9. /\ \A d \in Callers : d # "driver" => task'[d] = task[d]
      /\ task'["driver"].at = "turn-record"
      /\ task'["driver"].aborting => task'["driver"].aborted
      /\ task'["driver"].anchored => Confirmed(receipt)
  <2>1. CallOf("driver") /\ SealOf("driver")
    BY <1>0 DEF CallsInv, SealInv
  <2>2. PICK trigger \in BOOLEAN :
          task' = [task EXCEPT !["driver"].at = "turn-record", !["driver"].trigger = trigger]
    BY DEF ExecuteTurn
  <2>3. /\ task'["driver"].at = "turn-record"
        /\ task'["driver"].anchored = task["driver"].anchored
        /\ task'["driver"].aborting = task["driver"].aborting
        /\ task'["driver"].aborted = task["driver"].aborted
        /\ \A d \in Callers : d # "driver" => task'[d] = task[d]
    BY <1>0, <1>8, <2>2, SetEffect, NormalTypes
  <2> QED BY <2>1, <2>3 DEF CallOf, SealOf
<1>1. Lands("driver")
  BY <1>0, <1>9 DEF ExecuteTurn, PlainLabels, Lands
<1>2. loaded /\ loaded'
  BY <1>0, Busy DEF ExecuteTurn, At
<1>3. StateMoves("driver")
  BY DEF ExecuteTurn, StateMoves
<1>4. state' \in EndStates => state \in EndStates \/ FinalCheckpoint # 0
  BY DEF ExecuteTurn
<1>5. Quiet
  BY DEF ExecuteTurn, Quiet, JournalEntries, FinalReasons
<1>6. NoVerdict
  BY NoRecordNoVerdict DEF ExecuteTurn
<1>7. (\A b \in Roles : sealed'[b] >= sealed[b]) /\ receipt' = receipt
  BY DEF ExecuteTurn, Shape, TypeOK, evidence
<1> QED BY <1>0, <1>1, <1>2, <1>3, <1>4, <1>5, <1>6, <1>7, PlainKept DEF PlainStep

\* A call that goes on to pause, resume, abort or try the seal.
ControlLabels == PauseLabels \cup ResumeLabels \cup {"abort", "seal-retry", "seal-check"}

LEMMA ControlGo ==
    ASSUME Shape, CallsInv, SealInv, Shape', NEW c \in Callers, NEW label \in ControlLabels,
           Go(c, label), loaded, loaded', Quiet, NoVerdict, StateMoves(c),
           sealed' = sealed, receipt' = receipt,
           state' \in EndStates => state \in EndStates,
           label \in PauseLabels =>
                /\ task[c].at \in PauseLabels \/ state \notin {"pausing"} \cup Closing
                /\ state' \in {"pausing"} \cup Closing,
           label \in ResumeLabels => c = "operator" /\ state' \in {"resuming"} \cup Closing,
           label = "abort" => state \in Abortable /\ state' = "aborting",
           label \in {"seal-retry", "seal-check"} =>
                /\ ~task[c].aborted /\ state' \in SealStates
                /\ Seals(c) \/ state \in SealStates \ {"forked-invalid"}
    PROVE  CallsInv' /\ SealInv'
<1>1. label \in Labels
  BY DEF ControlLabels, PauseLabels, ResumeLabels, Labels
<1>2. /\ task'[c].at = label
      /\ task'[c].aborting = task[c].aborting /\ task'[c].aborted = task[c].aborted
      /\ task'[c].anchored = task[c].anchored
      /\ \A d \in Callers : d # c => task'[d] = task[d]
  BY <1>1, GoEffect, NormalTypes
<1>3. CallOf(c) /\ SealOf(c)
  BY DEF CallsInv, SealInv
<1>4. Begins(c)
  BY <1>2 DEF Begins, Aborts, Seals, ControlLabels, PauseLabels, ResumeLabels, WritingLabels
<1>5. CallOf(c)'
  <2>1. ~At(c, "idle")' /\ ~At(c, "abort-record")'
    BY <1>2 DEF At, ControlLabels, PauseLabels, ResumeLabels
  <2>2. ~(task'[c].at \in WritingLabels)
    BY <1>2 DEF WritingLabels, ControlLabels, PauseLabels, ResumeLabels
  <2>3. Aborts(c)' => state' \in {"aborting", "forked-invalid"}
    BY <1>2 DEF Aborts, WritingLabels, ControlLabels, PauseLabels, ResumeLabels
  <2>4. Seals(c)' => state' \in SealStates
    BY <1>2 DEF Seals, WritingLabels, ControlLabels, PauseLabels, ResumeLabels
  <2> QED BY <1>2, <1>3, <2>1, <2>2, <2>3, <2>4 DEF CallOf
<1>6. SealOf(c)'
  BY <1>2, <1>3 DEF SealOf, At, WritingLabels, EvidenceLabels, ControlLabels, PauseLabels, ResumeLabels
<1>7. CallsInv'
  BY <1>2, <1>4, <1>5, CallsStep
<1>8. /\ FinalCheckpoint # 0 => state' \in Closing
      /\ state' \in EndStates => FinalCheckpoint # 0
  BY StaysClosing DEF SealInv
<1>9. (\A b \in Roles : sealed'[b] >= sealed[b]) /\ (Confirmed(receipt) => Confirmed(receipt'))
  BY DEF Shape, TypeOK
<1>10. SealInv'
  BY <1>2, <1>6, <1>8, <1>9, SealKept
<1> QED BY <1>7, <1>10

LEMMA EventBoundariesStep ==
    ASSUME Shape, CallsInv, SealInv, Shape', EventBoundaries
    PROVE  CallsInv' /\ SealInv'
<1>0. "driver" \in Callers
  BY DEF Callers
<1>1. loaded /\ loaded' /\ sealed' = sealed /\ receipt' = receipt /\ records' = records
  BY <1>0, Busy DEF EventBoundaries, At
<1>2. Quiet /\ NoVerdict
  BY <1>1 DEF EventBoundaries, Quiet, JournalEntries, FinalReasons, NoVerdict
<1>3. \A b \in Roles : sealed'[b] >= sealed[b]
  BY <1>1 DEF Shape, TypeOK
<1>4. CASE /\ CanApply(state, "pause") /\ state' = "pausing"
           /\ Go("driver", "pause-checkpoint")
  <2>1. state = "running"
    BY <1>4, Applicable
  <2>2. StateMoves("driver") /\ state' \notin EndStates /\ state \notin {"pausing"} \cup Closing
    BY <1>4, <2>1 DEF StateMoves, Closing, EndStates
  <2>3. "pause-checkpoint" \in ControlLabels /\ "pause-checkpoint" \in PauseLabels
    BY DEF ControlLabels, PauseLabels
  <2>4. "pause-checkpoint" \notin ResumeLabels
    BY DEF ResumeLabels
  <2> QED BY <1>0, <1>1, <1>2, <1>4, <2>2, <2>3, <2>4, ControlGo
<1>5. CASE Go("driver", "pause-not-available") /\ state' = state
  <2>1. Lands("driver")
    BY <1>0, <1>5, PlainGo DEF PlainLabels
  <2> QED BY <1>0, <1>1, <1>2, <1>3, <1>5, <2>1, PlainKept DEF PlainStep, StateMoves
<1>6. CASE ApplyStageTransitions("driver", state, mem)
  <2>1. Lands("driver")
    BY <1>0, <1>6, StageEffect, NormalTypes, PlainGo, PlainReturn DEF PlainLabels
  <2>2. state' = state \/ (state = "evaluating" /\ state' = "sealing")
    BY <1>0, <1>6, StageEffect, NormalTypes
  <2>3. StateMoves("driver") /\ (state' \in EndStates => state \in EndStates)
    BY <2>2 DEF StateMoves, EndStates, Closing
  <2> QED BY <1>0, <1>1, <1>2, <1>3, <2>1, <2>3, PlainKept DEF PlainStep
<1> QED BY <1>4, <1>5, <1>6 DEF EventBoundaries

LEMMA PauseNotAvailableStep ==
    ASSUME Shape, CallsInv, SealInv, Shape', PauseNotAvailable
    PROVE  CallsInv' /\ SealInv'
<1>0. "driver" \in Callers
  BY DEF Callers
<1>1. loaded /\ loaded' /\ sealed' = sealed /\ receipt' = receipt /\ records' = records
  BY <1>0, Busy DEF PauseNotAvailable, At
<1>2. Quiet /\ NoVerdict
  BY <1>1 DEF PauseNotAvailable, Quiet, JournalEntries, FinalReasons, NoVerdict
<1>3. \A b \in Roles : sealed'[b] >= sealed[b]
  BY <1>1 DEF Shape, TypeOK
<1>4. CASE CanApply(state, "abort") /\ state' = "aborting" /\ Go("driver", "abort")
  <2>1. state \in Abortable
    BY <1>4, Applicable
  <2>2. StateMoves("driver") /\ state' \notin EndStates
    BY <1>4, <2>1 DEF StateMoves, Abortable, SealStates, Closing, EndStates
  <2>3. "abort" \in ControlLabels /\ "abort" \notin PauseLabels \cup ResumeLabels
    BY DEF ControlLabels, PauseLabels, ResumeLabels
  <2> QED BY <1>0, <1>1, <1>2, <1>4, <2>1, <2>2, <2>3, ControlGo
<1>5. CASE ApplyStageTransitions("driver", state, mem)
  <2>1. Lands("driver")
    BY <1>0, <1>5, StageEffect, NormalTypes, PlainGo, PlainReturn DEF PlainLabels
  <2>2. state' = state \/ (state = "evaluating" /\ state' = "sealing")
    BY <1>0, <1>5, StageEffect, NormalTypes
  <2>3. StateMoves("driver") /\ (state' \in EndStates => state \in EndStates)
    BY <2>2 DEF StateMoves, EndStates, Closing
  <2> QED BY <1>0, <1>1, <1>2, <1>3, <2>1, <2>3, PlainKept DEF PlainStep
<1> QED BY <1>4, <1>5 DEF PauseNotAvailable

LEMMA StartPauseStep ==
    ASSUME Shape, CallsInv, SealInv, Shape', StartPause
    PROVE  CallsInv' /\ SealInv'
<1>0. "operator" \in Callers
  BY DEF Callers
<1>1. loaded /\ loaded' /\ sealed' = sealed /\ receipt' = receipt /\ records' = records
  BY DEF StartPause, OperatorCalls, evidence
<1>2. Quiet /\ NoVerdict
  BY <1>1 DEF StartPause, Quiet, JournalEntries, FinalReasons, NoVerdict, evidence
<1>3. Go("operator", "pause") /\ "pause" \in ControlLabels
  BY DEF StartPause, ControlLabels, PauseLabels, ResumeLabels
<1>4. StateMoves("operator") /\ (state' \in EndStates => state \in EndStates)
  BY Applicable DEF StartPause, StateMoves, Closing, SealStates, EndStates, Abortable
<1>5. /\ "pause" \in PauseLabels /\ "pause" \notin ResumeLabels
      /\ task["operator"].at \in PauseLabels \/ state \notin {"pausing"} \cup Closing
      /\ state' \in {"pausing"} \cup Closing
  BY Applicable DEF StartPause, PauseLabels, ResumeLabels, Closing
<1> QED BY <1>0, <1>1, <1>2, <1>3, <1>4, <1>5, ControlGo

LEMMA PauseEventStep ==
    ASSUME Shape, CallsInv, SealInv, Shape', PauseEvent
    PROVE  CallsInv' /\ SealInv'
<1>0. "operator" \in Callers
  BY DEF Callers
<1>1. loaded /\ loaded' /\ sealed' = sealed /\ receipt' = receipt /\ records' = records
  BY <1>0, Busy DEF PauseEvent, At, evidence
<1>2. Quiet /\ NoVerdict
  BY <1>1 DEF PauseEvent, Quiet, JournalEntries, FinalReasons, NoVerdict, evidence
<1>3. Go("operator", "pause-checkpoint") /\ "pause-checkpoint" \in ControlLabels
  BY DEF PauseEvent, ControlLabels, PauseLabels, ResumeLabels
<1>4. StateMoves("operator") /\ (state' \in EndStates => state \in EndStates)
  BY Applicable DEF PauseEvent, StateMoves, Closing, SealStates, EndStates, Abortable
<1>5. /\ "pause-checkpoint" \in PauseLabels /\ "pause-checkpoint" \notin ResumeLabels
      /\ task["operator"].at \in PauseLabels \/ state \notin {"pausing"} \cup Closing
      /\ state' \in {"pausing"} \cup Closing
  BY <1>0 DEF PauseEvent, PauseLabels, ResumeLabels, At, CallsInv, CallOf
<1> QED BY <1>0, <1>1, <1>2, <1>3, <1>4, <1>5, ControlGo

LEMMA StartResumeStep ==
    ASSUME Shape, CallsInv, SealInv, Shape', StartResume
    PROVE  CallsInv' /\ SealInv'
<1>0. "operator" \in Callers
  BY DEF Callers
<1>1. loaded /\ loaded' /\ sealed' = sealed /\ receipt' = receipt /\ records' = records
  BY DEF StartResume, OperatorCalls, evidence
<1>2. Quiet /\ NoVerdict
  BY <1>1 DEF StartResume, Quiet, JournalEntries, FinalReasons, NoVerdict, evidence
<1>3. Go("operator", "resume-prefix") /\ "resume-prefix" \in ControlLabels
  BY DEF StartResume, ControlLabels, PauseLabels, ResumeLabels
<1>4. StateMoves("operator") /\ (state' \in EndStates => state \in EndStates)
  BY Applicable DEF StartResume, StateMoves, Closing, SealStates, EndStates, Abortable
<1>5. /\ "resume-prefix" \in ResumeLabels /\ "resume-prefix" \notin PauseLabels
      /\ state' \in {"resuming"} \cup Closing
  BY DEF StartResume, PauseLabels, ResumeLabels
<1> QED BY <1>0, <1>1, <1>2, <1>3, <1>4, <1>5, ControlGo

LEMMA ResumeEventStep ==
    ASSUME Shape, CallsInv, SealInv, Shape', ResumeEvent
    PROVE  CallsInv' /\ SealInv'
<1>0. "operator" \in Callers
  BY DEF Callers
<1>1. loaded /\ loaded' /\ sealed' = sealed /\ receipt' = receipt /\ records' = records
  BY <1>0, Busy DEF ResumeEvent, At, evidence
<1>2. Quiet /\ NoVerdict
  BY <1>1 DEF ResumeEvent, Quiet, JournalEntries, FinalReasons, NoVerdict, evidence
<1>3. Go("operator", "resume-checkpoint") /\ "resume-checkpoint" \in ControlLabels
  BY DEF ResumeEvent, ControlLabels, PauseLabels, ResumeLabels
<1>4. StateMoves("operator") /\ (state' \in EndStates => state \in EndStates)
  BY Applicable DEF ResumeEvent, StateMoves, Closing, SealStates, EndStates, Abortable
<1>5. /\ "resume-checkpoint" \in ResumeLabels /\ "resume-checkpoint" \notin PauseLabels
      /\ state' \in {"resuming"} \cup Closing
  BY <1>0 DEF ResumeEvent, PauseLabels, ResumeLabels, At, CallsInv, CallOf
<1> QED BY <1>0, <1>1, <1>2, <1>3, <1>4, <1>5, ControlGo

LEMMA StartAbortStep ==
    ASSUME Shape, CallsInv, SealInv, Shape', StartAbort
    PROVE  CallsInv' /\ SealInv'
<1>0. "operator" \in Callers
  BY DEF Callers
<1>1. loaded /\ loaded' /\ sealed' = sealed /\ receipt' = receipt /\ records' = records
  BY DEF StartAbort, OperatorCalls, evidence
<1>2. Quiet /\ NoVerdict
  BY <1>1 DEF StartAbort, Quiet, JournalEntries, FinalReasons, NoVerdict, evidence
<1>3. Go("operator", "abort") /\ "abort" \in ControlLabels
  BY DEF StartAbort, ControlLabels, PauseLabels, ResumeLabels
<1>4. StateMoves("operator") /\ (state' \in EndStates => state \in EndStates)
  BY Applicable DEF StartAbort, StateMoves, Closing, SealStates, EndStates, Abortable
<1>5. /\ "abort" \notin PauseLabels \cup ResumeLabels
      /\ state \in Abortable /\ state' = "aborting"
  BY Applicable DEF StartAbort, PauseLabels, ResumeLabels
<1> QED BY <1>0, <1>1, <1>2, <1>3, <1>4, <1>5, ControlGo

LEMMA StartSealStep ==
    ASSUME Shape, CallsInv, SealInv, Shape', StartSeal
    PROVE  CallsInv' /\ SealInv'
<1>0. "driver" \in Callers
  BY DEF Callers
<1>1. loaded /\ loaded' /\ sealed' = sealed /\ receipt' = receipt /\ records' = records
  BY DEF StartSeal, DriverFree, evidence
<1>2. Quiet /\ NoVerdict
  BY <1>1 DEF StartSeal, Quiet, JournalEntries, FinalReasons, NoVerdict, evidence
<1>3. Go("driver", "seal-check") /\ "seal-check" \in ControlLabels
  BY DEF StartSeal, ControlLabels, PauseLabels, ResumeLabels
<1>4. StateMoves("driver") /\ (state' \in EndStates => state \in EndStates)
  BY Applicable DEF StartSeal, StateMoves, Closing, SealStates, EndStates, Abortable
<1>5. /\ "seal-check" \notin PauseLabels \cup ResumeLabels /\ "seal-check" # "abort"
      /\ ~task["driver"].aborted /\ state' \in SealStates
      /\ Seals("driver") \/ state \in SealStates \ {"forked-invalid"}
  BY <1>0 DEF StartSeal, DriverFree, PauseLabels, ResumeLabels, SealStates, Closing, CallsInv, CallOf, At, Idle
<1> QED BY <1>0, <1>1, <1>2, <1>3, <1>4, <1>5, ControlGo

LEMMA StartRetrySealStep ==
    ASSUME Shape, CallsInv, SealInv, Shape', StartRetrySeal
    PROVE  CallsInv' /\ SealInv'
<1>0. "operator" \in Callers
  BY DEF Callers
<1>1. loaded /\ loaded' /\ sealed' = sealed /\ receipt' = receipt /\ records' = records
  BY DEF StartRetrySeal, OperatorCalls, evidence
<1>2. Quiet /\ NoVerdict
  BY <1>1 DEF StartRetrySeal, Quiet, JournalEntries, FinalReasons, NoVerdict, evidence
<1>3. Go("operator", "seal-retry") /\ "seal-retry" \in ControlLabels
  BY DEF StartRetrySeal, ControlLabels, PauseLabels, ResumeLabels
<1>4. StateMoves("operator") /\ (state' \in EndStates => state \in EndStates)
  BY Applicable DEF StartRetrySeal, StateMoves, Closing, SealStates, EndStates, Abortable
<1>5. /\ "seal-retry" \notin PauseLabels \cup ResumeLabels /\ "seal-retry" # "abort"
      /\ ~task["operator"].aborted /\ state' \in SealStates
      /\ Seals("operator") \/ state \in SealStates \ {"forked-invalid"}
  BY <1>0, Applicable DEF StartRetrySeal, OperatorCalls, PauseLabels, ResumeLabels, SealStates, Closing, CallsInv, CallOf, At, Idle
<1> QED BY <1>0, <1>1, <1>2, <1>3, <1>4, <1>5, ControlGo

LEMMA RetryEventStep ==
    ASSUME Shape, CallsInv, SealInv, Shape', RetryEvent
    PROVE  CallsInv' /\ SealInv'
<1>0. "operator" \in Callers
  BY DEF Callers
<1>1. loaded /\ loaded' /\ sealed' = sealed /\ receipt' = receipt /\ records' = records
  BY <1>0, Busy DEF RetryEvent, At, evidence
<1>2. Quiet /\ NoVerdict
  BY <1>1 DEF RetryEvent, Quiet, JournalEntries, FinalReasons, NoVerdict, evidence
<1>3. Go("operator", "seal-check") /\ "seal-check" \in ControlLabels
  BY DEF RetryEvent, ControlLabels, PauseLabels, ResumeLabels
<1>4. StateMoves("operator") /\ (state' \in EndStates => state \in EndStates)
  BY Applicable DEF RetryEvent, StateMoves, Closing, SealStates, EndStates, Abortable
<1>5. /\ "seal-check" \notin PauseLabels \cup ResumeLabels /\ "seal-check" # "abort"
      /\ ~task["operator"].aborted /\ state' \in SealStates
      /\ Seals("operator") \/ state \in SealStates \ {"forked-invalid"}
  BY <1>0 DEF RetryEvent, PauseLabels, ResumeLabels, CallsInv, CallOf, At, Seals
<1> QED BY <1>0, <1>1, <1>2, <1>3, <1>4, <1>5, ControlGo

LEMMA ResumePrefixStep ==
    ASSUME Shape, CallsInv, SealInv, Shape', ResumePrefix
    PROVE  CallsInv' /\ SealInv'
<1>0. "operator" \in Callers
  BY DEF Callers
<1>1. loaded /\ loaded' /\ sealed' = sealed /\ receipt' = receipt /\ records' = records
  BY <1>0, Busy DEF ResumePrefix, At, evidence
<1>2. Quiet /\ NoVerdict
  BY <1>1 DEF ResumePrefix, Quiet, NoVerdict, evidence
<1>3. \A b \in Roles : sealed'[b] >= sealed[b]
  BY <1>1 DEF Shape, TypeOK
<1>4. CASE ApplyAndReturn("operator", "fork-detected")
  <2>1. Lands("operator") /\ (state' = state \/ state' = "forked-invalid")
    BY <1>0, <1>4, ApplyEffect, NormalTypes, PlainReturn, Arrivals
  <2> QED BY <1>0, <1>1, <1>2, <1>3, <2>1, PlainKept DEF PlainStep, StateMoves, EndStates
<1>5. CASE Go("operator", "resume") /\ state' = state
  <2>1. "resume" \in ControlLabels /\ "resume" \in ResumeLabels /\ "resume" \notin PauseLabels
    BY DEF ControlLabels, PauseLabels, ResumeLabels
  <2>2. state' \in {"resuming"} \cup Closing
    BY <1>0, <1>5 DEF ResumePrefix, ResumeLabels, At, CallsInv, CallOf
  <2> QED BY <1>0, <1>1, <1>2, <1>5, <2>1, <2>2, ControlGo DEF StateMoves
<1> QED BY <1>4, <1>5 DEF ResumePrefix

LEMMA AbortEventStep ==
    ASSUME Shape, CallsInv, SealInv, Shape', NEW c \in Callers, AbortEvent(c)
    PROVE  CallsInv' /\ SealInv'
<1>1. loaded /\ loaded' /\ sealed' = sealed /\ receipt' = receipt /\ records' = records /\ state' = state
  BY Busy DEF AbortEvent, At
<1>2. Quiet /\ NoVerdict
  BY <1>1 DEF AbortEvent, Quiet, JournalEntries, FinalReasons, NoVerdict
<1>3. /\ task'[c].at = "seal-a" /\ task'[c].aborting /\ task'[c].aborted
      /\ task'[c].anchored = task[c].anchored
      /\ \A d \in Callers : d # c => task'[d] = task[d]
  BY NormalTypes, SetEffect DEF AbortEvent, Labels
<1>4. Aborts(c) /\ CallOf(c) /\ SealOf(c)
  BY DEF AbortEvent, At, Aborts, CallsInv, SealInv
<1>5. CallOf(c)' /\ Begins(c) /\ StateMoves(c)
  BY <1>1, <1>3, <1>4 DEF CallOf, Begins, StateMoves, At, Aborts, Seals, PauseLabels, ResumeLabels, WritingLabels
<1>6. SealOf(c)'
  BY <1>1, <1>3, <1>4 DEF SealOf, At, EvidenceLabels, WritingLabels
<1>7. CallsInv'
  BY <1>1, <1>3, <1>5, CallsStep
<1>8. /\ FinalCheckpoint # 0 => state' \in Closing
      /\ state' \in EndStates => FinalCheckpoint # 0
  BY <1>1 DEF SealInv
<1>9. \A b \in Roles : sealed'[b] >= sealed[b]
  BY <1>1 DEF Shape, TypeOK
<1> QED BY <1>1, <1>2, <1>3, <1>6, <1>7, <1>8, <1>9, SealKept

---------------------------------------------------------------------------
(* The steps of the seal *)

LEMMA SealCheckStep ==
    ASSUME Shape, CallsInv, SealInv, Shape', NEW c \in Callers, SealCheck(c)
    PROVE  CallsInv' /\ SealInv'
<1>1. /\ loaded /\ loaded' /\ sealed' = sealed /\ receipt' = receipt
      /\ records' = records /\ state' = state
  BY Busy DEF SealCheck, At
<1>2. Quiet /\ NoVerdict
  BY <1>1 DEF SealCheck, PolicyCheckpoint, Quiet, JournalEntries, FinalReasons, NoVerdict
<1>3. /\ At(c, "seal-check") /\ CallOf(c) /\ SealOf(c) /\ Seals(c)
      /\ ~task[c].aborting /\ ~task[c].aborted /\ state \in SealStates
  BY DEF SealCheck, At, Seals, CallsInv, SealInv, CallOf
<1>4. \/ /\ SealEvidenceExists
         /\ task' = [task EXCEPT ![c].at = "anchor",
                        ![c].aborted = journal[FinalCheckpoint] = "run-aborted"]
      \/ ~SealEvidenceExists /\ Go(c, "seal-a")
  BY DEF SealCheck
<1>5. FinalCheckpoint' = FinalCheckpoint /\ (Completed' <=> Completed)
  BY <1>2, QuietKeeps, NormalTypes
<1>6. /\ \A d \in Callers : d # c => task'[d] = task[d]
      /\ task'[c].aborting = task[c].aborting /\ task'[c].anchored = task[c].anchored
      /\ \/ /\ task'[c].at = "anchor" /\ FinalCheckpoint # 0
            /\ task'[c].aborted \/ Completed
         \/ /\ task'[c].at = "seal-a" /\ FinalCheckpoint = 0
            /\ task'[c].aborted = task[c].aborted
  <2>1. CASE SealEvidenceExists
    <3>1. FinalCheckpoint # 0
      BY <2>1 DEF SealEvidenceExists
    <3>2. journal[FinalCheckpoint] \in FinalReasons
      BY <3>1, FinalIs, NormalTypes
    <3>3. PICK b \in BOOLEAN : b = (journal[FinalCheckpoint] = "run-aborted")
      OBVIOUS
    <3>4. b \/ Completed
      BY <3>1, <3>2, <3>3 DEF Completed, FinalReasons
    <3>5. "anchor" \in Labels
      BY DEF Labels
    <3>6. /\ task'[c].at = "anchor" /\ task'[c].anchored = task[c].anchored
          /\ task'[c].aborting = task[c].aborting /\ task'[c].aborted = b
          /\ \A d \in Callers : d # c => task'[d] = task[d]
      <4>1. task' = [task EXCEPT ![c].at = "anchor", ![c].aborted = b]
        BY <1>4, <2>1, <3>3
      <4> QED BY <3>5, <4>1, SetEffect, NormalTypes, ZenonT(60)
    <3> QED BY <3>1, <3>4, <3>6
  <2>2. CASE ~SealEvidenceExists
    <3>1. FinalCheckpoint = 0
      BY <2>2 DEF SealEvidenceExists, SealInv
    <3>2. "seal-a" \in Labels
      BY DEF Labels
    <3> QED BY <1>4, <2>2, <3>1, <3>2, GoEffect, NormalTypes
  <2> QED BY <2>1, <2>2
<1>7. CallOf(c)' /\ Begins(c) /\ StateMoves(c)
  BY <1>1, <1>3, <1>6 DEF CallOf, Begins, StateMoves, At, Aborts, Seals, PauseLabels, ResumeLabels, WritingLabels
<1>8. SealOf(c)'
  BY <1>1, <1>3, <1>5, <1>6 DEF SealOf, At, EvidenceLabels, WritingLabels
<1>9. CallsInv'
  BY <1>1, <1>6, <1>7, CallsStep
<1>10. /\ FinalCheckpoint # 0 => state' \in Closing
       /\ state' \in EndStates => FinalCheckpoint # 0
  BY <1>1 DEF SealInv
<1>11. \A b \in Roles : sealed'[b] >= sealed[b]
  BY <1>1 DEF Shape, TypeOK
<1> QED BY <1>1, <1>2, <1>6, <1>8, <1>9, <1>10, <1>11, SealKept

LEMMA RunSealedEventStep ==
    ASSUME Shape, CallsInv, SealInv, Shape', NEW c \in Callers, RunSealedEvent(c)
    PROVE  CallsInv' /\ SealInv'
<1>1. /\ loaded /\ loaded' /\ receipt' = receipt /\ journal' = journal
      /\ records' = records /\ state' = state
  BY Busy DEF RunSealedEvent, At
<1>2. Quiet /\ NoVerdict
  BY <1>1 DEF Quiet, NoVerdict
<1>3. CallOf(c) /\ SealOf(c)
  BY DEF CallsInv, SealInv
<1>4. sealed \in [Roles -> Nat] /\ {"seal-a", "seal-b", "final-checkpoint"} \subseteq Labels
  BY DEF Shape, TypeOK, Labels
<1>5. \/ /\ At(c, "seal-a") /\ Go(c, "seal-b")
         /\ sealed' = [sealed EXCEPT !["baby-a"] = @ + 1]
      \/ /\ At(c, "seal-b") /\ Go(c, "final-checkpoint")
         /\ sealed' = [sealed EXCEPT !["baby-b"] = @ + 1]
  BY DEF RunSealedEvent
<1>6. /\ \A b \in Roles : sealed'[b] >= sealed[b]
      /\ At(c, "seal-a") => sealed'["baby-a"] > 0
      /\ At(c, "seal-b") => sealed'["baby-a"] > 0 /\ sealed'["baby-b"] > 0
  BY <1>3, <1>4, <1>5 DEF Roles, SealOf, At
<1>7. /\ \A d \in Callers : d # c => task'[d] = task[d]
      /\ task'[c].aborting = task[c].aborting /\ task'[c].anchored = task[c].anchored
      /\ task'[c].aborted = task[c].aborted
      /\ \/ At(c, "seal-a") /\ task'[c].at = "seal-b"
         \/ At(c, "seal-b") /\ task'[c].at = "final-checkpoint"
  BY <1>4, <1>5, GoEffect, NormalTypes
<1>8. CallOf(c)' /\ Begins(c) /\ StateMoves(c)
  BY <1>1, <1>3, <1>7 DEF CallOf, Begins, StateMoves, At, Aborts, Seals, PauseLabels, ResumeLabels, WritingLabels
<1>9. FinalCheckpoint' = FinalCheckpoint /\ (Completed' <=> Completed)
  BY <1>2, QuietKeeps, NormalTypes
<1>10. SealOf(c)'
  BY <1>1, <1>3, <1>6, <1>7, <1>9 DEF SealOf, At, EvidenceLabels, WritingLabels
<1>11. CallsInv'
  BY <1>1, <1>7, <1>8, CallsStep
<1>12. /\ FinalCheckpoint # 0 => state' \in Closing
       /\ state' \in EndStates => FinalCheckpoint # 0
  BY <1>1 DEF SealInv
<1> QED BY <1>1, <1>2, <1>6, <1>7, <1>10, <1>11, <1>12, SealKept

\* The one step that may set the final checkpoint.
LEMMA CreateFinalCheckpointStep ==
    ASSUME Shape, CallsInv, SealInv, Shape', NEW c \in Callers, CreateFinalCheckpoint(c)
    PROVE  CallsInv' /\ SealInv'
<1>1. /\ loaded /\ loaded' /\ sealed' = sealed /\ receipt' = receipt
      /\ records' = records /\ state' = state
  BY Busy DEF CreateFinalCheckpoint, At
<1>2. At(c, "final-checkpoint") /\ CallOf(c) /\ SealOf(c)
  BY DEF CreateFinalCheckpoint, CallsInv, SealInv
<1>3. /\ task'[c].at = "anchor"
      /\ task'[c].aborting = task[c].aborting /\ task'[c].aborted = task[c].aborted
      /\ task'[c].anchored = task[c].anchored
      /\ \A d \in Callers : d # c => task'[d] = task[d]
  BY GoEffect, NormalTypes DEF CreateFinalCheckpoint, Labels
<1>4. PICK w \in FinalReasons :
        Write(w) /\ w = IF task[c].aborted THEN "run-aborted" ELSE "run-sealed"
  BY DEF CreateFinalCheckpoint, FinalReasons
<1>5. w \in JournalEntries
  BY <1>4 DEF JournalEntries
<1>6. /\ FinalCheckpoint' # 0
      /\ FinalCheckpoint # 0 => (Completed' <=> Completed)
      /\ FinalCheckpoint = 0 => (Completed' <=> ~task[c].aborted)
  <2>1. CASE FinalCheckpoint # 0
    BY <1>4, <1>5, <2>1, FinalStays, NormalTypes DEF Completed
  <2>2. CASE FinalCheckpoint = 0
    BY <1>4, <1>5, <2>2, FinalStays, NormalTypes DEF Completed
  <2> QED BY <2>1, <2>2
<1>7. (Aborts(c) <=> task[c].aborting) /\ (Seals(c) <=> ~task[c].aborting)
  BY <1>2 DEF Aborts, Seals, At, WritingLabels
<1>8. CallOf(c)' /\ Begins(c) /\ StateMoves(c)
  BY <1>1, <1>2, <1>3, <1>7 DEF CallOf, Begins, StateMoves, At, Aborts, Seals, PauseLabels, ResumeLabels, WritingLabels
<1>9. CallsInv'
  BY <1>1, <1>3, <1>8, CallsStep
<1>10. SealOf(c)'
  <2>1. task[c].aborted \/ Completed'
    BY <1>2, <1>6 DEF SealOf, CallOf, At, WritingLabels
  <2> QED BY <1>1, <1>2, <1>3, <1>6, <2>1 DEF SealOf, At, EvidenceLabels, WritingLabels
<1>11. ASSUME NEW d \in Callers, d # c PROVE SealOf(d)'
  <2>1. task'[d] = task[d] /\ SealOf(d) /\ CallOf(d) /\ Apart(c, d)
    BY <1>3, <1>11 DEF SealInv, CallsInv
  <2>2. task[d].at \in WritingLabels /\ ~task[d].aborting => Completed'
    <3>1. SUFFICES ASSUME task[d].at \in WritingLabels /\ ~task[d].aborting
                   PROVE  Completed'
      OBVIOUS
    <3>2. Seals(d) /\ (FinalCheckpoint = 0 \/ Completed)
      BY <2>1, <3>1 DEF Seals, SealOf
    <3>3. ~task[c].aborting /\ ~task[c].aborted
      BY <1>2, <1>7, <2>1, <3>2 DEF Apart, CallOf, At, WritingLabels
    <3> QED BY <1>6, <3>2, <3>3 DEF Completed
  <2>3. task[d].at \in EvidenceLabels => FinalCheckpoint # 0
    BY <2>1 DEF SealOf
  <2> QED BY <1>1, <1>6, <2>1, <2>2, <2>3 DEF SealOf, At
<1>12. sealed["baby-a"] > 0 /\ sealed["baby-b"] > 0
  BY <1>2 DEF SealOf, At
<1>13. state' \in Closing
  BY <1>1, <1>2, <1>7 DEF CallOf, SealStates, Closing
<1>14. ((\E i \in DOMAIN records : records[i].disposition = "valid")
            => Confirmed(receipt) /\ Completed)'
  BY <1>1, <1>6 DEF SealInv, Completed
<1>15. SealInv'
  BY <1>1, <1>6, <1>10, <1>11, <1>12, <1>13, <1>14 DEF SealInv, Roles
<1> QED BY <1>9, <1>15

LEMMA AnchorStep ==
    ASSUME Shape, CallsInv, SealInv, Shape', NEW c \in Callers, Anchor(c)
    PROVE  CallsInv' /\ SealInv'
<1>1. /\ loaded /\ loaded' /\ sealed' = sealed /\ records' = records
  BY Busy DEF Anchor, At
<1>2. Quiet /\ NoVerdict
  BY <1>1 DEF Anchor, Quiet, JournalEntries, FinalReasons, NoVerdict
<1>3. /\ At(c, "anchor") /\ CallOf(c) /\ SealOf(c) /\ FinalCheckpoint # 0
      /\ ~task[c].aborted => Completed
  BY DEF Anchor, CallsInv, SealInv, SealOf, At, EvidenceLabels
<1>4. (Aborts(c) <=> task[c].aborting) /\ (Seals(c) <=> ~task[c].aborting)
  BY <1>3 DEF Aborts, Seals, At, WritingLabels
<1>5. Confirmed(receipt) => Confirmed(receipt')
  BY DEF Anchor, Confirmed
<1>6. FinalCheckpoint' = FinalCheckpoint /\ (Completed' <=> Completed)
  BY <1>2, QuietKeeps, NormalTypes
<1>7. /\ \A d \in Callers : d # c => task'[d] = task[d]
      /\ \/ task'[c] = Idle
         \/ /\ task'[c].at \in {"abort-record", "blocked-record", "pending-record"}
            /\ task'[c].at = "abort-record" <=> task[c].aborting
            /\ task'[c].anchored => Confirmed(receipt')
            /\ task'[c].aborting = task[c].aborting /\ task'[c].aborted = task[c].aborted
  BY AnchorMoves
<1>8. \/ state' = state
      \/ /\ ~task[c].aborting /\ state' = "sealing-blocked"
         /\ state \in {"sealing", "aborting"}
  BY AnchorMoves, Applicable
<1>9. /\ task[c].aborting => state' \in {"aborting", "forked-invalid"}
      /\ ~task[c].aborting => state \in SealStates /\ state' \in SealStates
  BY <1>3, <1>4, <1>8 DEF CallOf, SealStates, Closing
<1>10. StateMoves(c)
  BY <1>8, <1>9 DEF StateMoves, SealStates, Closing
<1>11. Idle.at = "idle" /\ ~Idle.aborting /\ ~Idle.anchored
  BY DEF Idle
<1>12. Begins(c)
  BY <1>4, <1>7, <1>11 DEF Begins, Aborts, Seals, PauseLabels, WritingLabels
<1>13. CallOf(c)'
  BY <1>3, <1>7, <1>9, <1>11 DEF CallOf, At, Aborts, Seals, PauseLabels, ResumeLabels, WritingLabels
<1>14. SealOf(c)'
  BY <1>3, <1>6, <1>7, <1>11 DEF SealOf, At, EvidenceLabels, WritingLabels
<1>15. CallsInv'
  BY <1>1, <1>7, <1>10, <1>12, <1>13, CallsStep
<1>16. state' \in Closing
  BY <1>1, <1>3, <1>10, StaysClosing DEF SealInv
<1>17. \A b \in Roles : sealed'[b] >= sealed[b]
  BY <1>1 DEF Shape, TypeOK
<1> QED BY <1>1, <1>2, <1>3, <1>5, <1>7, <1>14, <1>15, <1>16, <1>17, SealKept

\* The records and the export go on in the call that anchored.
LEMMA SealGoes ==
    ASSUME Shape, CallsInv, SealInv, Shape', NEW c \in Callers, loaded, loaded',
           Quiet, NoVerdict, sealed' = sealed, receipt' = receipt, state' = state,
           task[c].at \in {"pending-record", "verify", "verdict-record"},
           task'[c].at \in {"verify", "verdict-record", "abort-decision"},
           task'[c].anchored = task[c].anchored,
           task'[c].aborting = task[c].aborting, task'[c].aborted = task[c].aborted,
           \A d \in Callers : d # c => task'[d] = task[d]
    PROVE  CallsInv' /\ SealInv'
<1>1. Seals(c) /\ CallOf(c) /\ SealOf(c)
  BY DEF Seals, CallsInv, SealInv
<1>2. FinalCheckpoint' = FinalCheckpoint /\ (Completed' <=> Completed)
  BY QuietKeeps, NormalTypes
<1>3. CallOf(c)' /\ Begins(c) /\ StateMoves(c)
  BY <1>1 DEF CallOf, Begins, StateMoves, At, Aborts, Seals, PauseLabels, ResumeLabels, WritingLabels
<1>4. SealOf(c)'
  BY <1>1, <1>2 DEF SealOf, At, EvidenceLabels, WritingLabels
<1>5. CallsInv'
  BY <1>3, CallsStep
<1>6. /\ FinalCheckpoint # 0 => state' \in Closing
      /\ state' \in EndStates => FinalCheckpoint # 0
  BY DEF SealInv
<1>7. \A b \in Roles : sealed'[b] >= sealed[b]
  BY DEF Shape, TypeOK
<1> QED BY <1>4, <1>5, <1>6, <1>7, SealKept

LEMMA PendingRecordStep ==
    ASSUME Shape, CallsInv, SealInv, Shape', NEW c \in Callers, PendingRecord(c)
    PROVE  CallsInv' /\ SealInv'
<1>1. /\ loaded /\ loaded' /\ sealed' = sealed /\ receipt' = receipt
      /\ journal' = journal /\ state' = state
  BY Busy DEF PendingRecord, At
<1>2. NoVerdict
  BY NoRecordNoVerdict, NormalTypes DEF PendingRecord, OpenDisposition, TaskType
<1>3. Quiet /\ "verify" \in Labels /\ Go(c, "verify") /\ task[c].at = "pending-record"
  BY <1>1 DEF PendingRecord, At, Quiet, Labels
<1> QED BY <1>1, <1>2, <1>3, GoEffect, NormalTypes, SealGoes

LEMMA VerifyStep ==
    ASSUME Shape, CallsInv, SealInv, Shape', NEW c \in Callers, Verify(c)
    PROVE  CallsInv' /\ SealInv'
<1>1. /\ loaded /\ loaded' /\ sealed' = sealed /\ receipt' = receipt
      /\ records' = records /\ state' = state /\ task[c].at = "verify"
  BY Busy DEF Verify, At
<1>2. Quiet /\ NoVerdict /\ "verdict-record" \in Labels
  BY <1>1 DEF Verify, Quiet, JournalEntries, FinalReasons, NoVerdict, Labels
<1>3. PICK passed \in BOOLEAN :
        task' = [task EXCEPT ![c].at = "verdict-record", ![c].passed = passed]
  BY DEF Verify
<1>4. /\ task'[c].at = "verdict-record" /\ task'[c].anchored = task[c].anchored
      /\ task'[c].aborting = task[c].aborting /\ task'[c].aborted = task[c].aborted
      /\ \A d \in Callers : d # c => task'[d] = task[d]
  BY <1>2, <1>3, SetEffect, NormalTypes, ZenonT(60)
<1> QED BY <1>1, <1>2, <1>4, SealGoes

\* The one step that may record a run as valid.
LEMMA VerdictRecordStep ==
    ASSUME Shape, CallsInv, SealInv, Shape', NEW c \in Callers, VerdictRecord(c)
    PROVE  CallsInv' /\ SealInv'
<1>1. /\ loaded /\ loaded' /\ sealed' = sealed /\ receipt' = receipt
      /\ journal' = journal /\ task[c].at = "verdict-record"
  BY Busy DEF VerdictRecord, At
<1>2. Quiet /\ FinalCheckpoint' = FinalCheckpoint /\ (Completed' <=> Completed)
  BY <1>1, QuietKeeps, NormalTypes DEF Quiet
<1>3. /\ CallOf(c) /\ SealOf(c) /\ Seals(c) /\ state \in SealStates /\ FinalCheckpoint # 0
      /\ ~task[c].aborted => Completed
      /\ task[c].anchored => Confirmed(receipt)
  BY <1>1 DEF CallsInv, SealInv, CallOf, SealOf, Seals, EvidenceLabels
<1>4. \/ Go(c, "abort-decision") /\ state' = state
      \/ Return(c) /\ (state' = state \/ (state = "sealing" /\ state' \in {"sealed", "aborted-sealed"}))
  BY DEF VerdictRecord
<1>5. StateMoves(c)
  BY <1>4 DEF StateMoves, SealStates, Closing
<1>6. /\ \A d \in Callers : d # c => task'[d] = task[d]
      /\ \/ task'[c] = Idle
         \/ /\ task'[c].at = "abort-decision" /\ state' = state
            /\ task'[c].anchored = task[c].anchored
            /\ task'[c].aborting = task[c].aborting /\ task'[c].aborted = task[c].aborted
  <2>1. "abort-decision" \in Labels
    BY DEF Labels
  <2> QED BY <1>4, <2>1, GoEffect, ReturnEffect, NormalTypes
<1>7. Idle.at = "idle" /\ ~Idle.aborting /\ ~Idle.anchored
  BY DEF Idle
<1>8. CallOf(c)' /\ Begins(c)
  BY <1>1, <1>3, <1>6, <1>7 DEF CallOf, Begins, At, Aborts, Seals, PauseLabels, ResumeLabels, WritingLabels
<1>9. SealOf(c)'
  BY <1>1, <1>2, <1>3, <1>6, <1>7 DEF SealOf, At, EvidenceLabels, WritingLabels
<1>10. CallsInv'
  BY <1>1, <1>5, <1>6, <1>8, CallsStep
<1>11. state' \in Closing
  BY <1>1, <1>3, <1>5, StaysClosing DEF SealInv
<1>12. ((\E i \in DOMAIN records : records[i].disposition = "valid")
            => Confirmed(receipt) /\ Completed)'
  <2>1. CASE NoVerdict
    BY <1>1, <1>2, <2>1 DEF NoVerdict, SealInv
  <2>2. CASE ~NoVerdict
    <3>1. Record(IF task[c].aborted THEN "aborted"
                 ELSE IF task[c].anchored /\ task[c].passed THEN "valid" ELSE "invalid",
                 task[c].anchored)
      BY DEF VerdictRecord
    <3>2. task[c].anchored \in BOOLEAN
      BY NormalTypes DEF TaskType
    <3>3. ~task[c].aborted /\ task[c].anchored
      BY <2>2, <3>1, <3>2, NoRecordNoVerdict
    <3> QED BY <1>1, <1>2, <1>3, <3>3
  <2> QED BY <2>1, <2>2
<1>13. ASSUME NEW d \in Callers PROVE SealOf(d)'
  <2>1. CASE d = c
    BY <1>9, <2>1
  <2>2. CASE d # c
    <3>1. task'[d] = task[d] /\ SealOf(d)
      BY <1>6, <2>2 DEF SealInv
    <3> QED BY <1>1, <1>2, <3>1 DEF SealOf, At
  <2> QED BY <2>1, <2>2
<1>14. SealInv'
  <2>1. (FinalCheckpoint # 0 => \A b \in Roles : sealed[b] > 0)'
    BY <1>1, <1>2 DEF SealInv
  <2> QED BY <1>2, <1>3, <1>11, <1>12, <1>13, <2>1 DEF SealInv
<1> QED BY <1>10, <1>14

---------------------------------------------------------------------------
(* The process comes and goes *)

\* Without the run in the process, nobody is busy, and the evidence stays.
LEMMA AllIdle ==
    ASSUME SealInv, Shape', FinalCheckpoint' = FinalCheckpoint,
           Completed' <=> Completed, records' = records, receipt' = receipt,
           \A b \in Roles : sealed'[b] >= sealed[b],
           sealed \in [Roles -> Nat], sealed' \in [Roles -> Nat],
           state' \in EndStates => FinalCheckpoint # 0,
           FinalCheckpoint # 0 /\ loaded' => state' \in Closing,
           \A c \in Callers : \/ task'[c] = Idle
                              \/ /\ task'[c].at \in PlainLabels
                                 /\ ~task'[c].aborting /\ ~task'[c].anchored,
           ~loaded' => \A c \in Callers : task'[c] = Idle
    PROVE  CallsInv' /\ SealInv'
<1>1. Idle.at = "idle" /\ ~Idle.aborting /\ ~Idle.anchored
  BY DEF Idle
<1>2. ASSUME NEW c \in Callers
      PROVE  /\ CallOf(c)' /\ SealOf(c)'
             /\ ~Aborts(c)' /\ ~(task'[c].at \in PauseLabels)
  <2>1. \/ task'[c] = Idle
        \/ task'[c].at \in PlainLabels /\ ~task'[c].aborting /\ ~task'[c].anchored
    OBVIOUS
  <2>2. CallOf(c)' /\ ~Aborts(c)' /\ ~(task'[c].at \in PauseLabels)
    BY <1>1, <2>1 DEF CallOf, At, Aborts, Seals, PauseLabels, ResumeLabels, WritingLabels, PlainLabels
  <2>3. SealOf(c)'
    BY <1>1, <2>1 DEF SealOf, At, EvidenceLabels, WritingLabels, PlainLabels
  <2> QED BY <2>2, <2>3
<1>3. CallsInv'
  BY <1>2 DEF CallsInv, Apart
<1>4. (FinalCheckpoint # 0 => \A b \in Roles : sealed[b] > 0)'
  BY DEF SealInv
<1>5. ((\E i \in DOMAIN records : records[i].disposition = "valid")
            => Confirmed(receipt) /\ Completed)'
  BY DEF SealInv
<1>6. SealInv'
  BY <1>2, <1>4, <1>5 DEF SealInv
<1> QED BY <1>3, <1>6

LEMMA FirstCall ==
    ASSUME Shape, \A c \in Callers : task[c] = Idle,
           NEW label \in PlainLabels, Go("driver", label)
    PROVE  \A c \in Callers : \/ task'[c] = Idle
                              \/ /\ task'[c].at \in PlainLabels
                                 /\ ~task'[c].aborting /\ ~task'[c].anchored
<1>1. label \in Labels /\ "driver" \in Callers
  BY DEF PlainLabels, Labels, Callers
<1>2. /\ task'["driver"].at = label
      /\ task'["driver"].aborting = task["driver"].aborting
      /\ task'["driver"].anchored = task["driver"].anchored
      /\ \A d \in Callers : d # "driver" => task'[d] = task[d]
  BY <1>1, GoEffect, NormalTypes
<1>3. ~Idle.aborting /\ ~Idle.anchored
  BY DEF Idle
<1> QED BY <1>1, <1>2, <1>3

LEMMA SameEvidence ==
    ASSUME journal' = journal
    PROVE  FinalCheckpoint' = FinalCheckpoint /\ (Completed' <=> Completed)
BY DEF FinalCheckpoint, Completed

LEMMA CreateRunStep ==
    ASSUME Shape, CallsInv, SealInv, Shape', CreateRun
    PROVE  CallsInv' /\ SealInv'
<1>1. journal' = journal /\ journal = <<>> /\ records' = records /\ receipt' = receipt /\ sealed' = sealed
  BY DEF CreateRun, Shape
<1>2. FinalCheckpoint = 0
  BY <1>1 DEF FinalCheckpoint
<1>3. loaded' /\ state' \notin EndStates /\ sealed \in [Roles -> Nat]
  BY DEF CreateRun, EndStates, Shape, TypeOK
<1>4. "driver" \in Callers /\ \A c \in Callers : task[c] = Idle
  BY DEF CreateRun, Shape, Callers
<1>5. \A c \in Callers : \/ task'[c] = Idle
                         \/ /\ task'[c].at \in PlainLabels
                            /\ ~task'[c].aborting /\ ~task'[c].anchored
  <2>1. "initial-record" \in PlainLabels
    BY DEF PlainLabels
  <2> QED BY <1>4, <2>1, FirstCall DEF CreateRun
<1> QED BY <1>1, <1>2, <1>3, <1>5, SameEvidence, AllIdle

\* What the evidence says of the state when the run is rebuilt from it.
LEMMA ReconstructedInv ==
    ASSUME SealInv
    PROVE  /\ FinalCheckpoint # 0 => Reconstructed \in Closing
           /\ Reconstructed \in EndStates => FinalCheckpoint # 0
<1>1. SealEvidenceExists <=> FinalCheckpoint # 0
  BY DEF SealInv, SealEvidenceExists
<1>2. TerminalStateFrom \in Closing /\ (forked => TerminalStateFrom = "forked-invalid")
  BY DEF TerminalStateFrom, Closing
<1>3. StageByCounts \in {"evaluating", "running"}
  BY DEF StageByCounts
<1> QED BY <1>1, <1>2, <1>3 DEF Reconstructed, EndStates

LEMMA StartRecoverStep ==
    ASSUME Shape, CallsInv, SealInv, Shape', StartRecover
    PROVE  CallsInv' /\ SealInv'
<1>1. UNCHANGED evidence /\ "driver" \in Callers /\ At("driver", "idle")
  BY DEF StartRecover, Callers
<1>2. journal' = journal /\ records' = records /\ receipt' = receipt /\ sealed' = sealed
  BY <1>1 DEF evidence
<1>3. sealed \in [Roles -> Nat] /\ loaded \in BOOLEAN
  BY DEF Shape, TypeOK
<1>4. task' = task \/ Go("driver", "signers")
  BY DEF StartRecover
<1>5. CASE ~loaded
  <2>1. \A c \in Callers : task[c] = Idle
    BY <1>5 DEF Shape
  <2>2. loaded' /\ state' = Reconstructed
    BY <1>5 DEF StartRecover
  <2>3. \A c \in Callers : \/ task'[c] = Idle
                           \/ /\ task'[c].at \in PlainLabels
                              /\ ~task'[c].aborting /\ ~task'[c].anchored
    <3>1. "signers" \in PlainLabels
      BY DEF PlainLabels
    <3>2. CASE task' = task
      BY <2>1, <3>2
    <3>3. CASE Go("driver", "signers")
      BY <2>1, <3>1, <3>3, FirstCall
    <3> QED BY <1>4, <3>2, <3>3
  <2> QED BY <1>2, <1>3, <2>2, <2>3, SameEvidence, ReconstructedInv, AllIdle
<1>6. CASE loaded
  <2>1. loaded' /\ state' = state
    BY <1>6 DEF StartRecover
  <2>2. Quiet /\ NoVerdict /\ \A b \in Roles : sealed'[b] >= sealed[b]
    BY <1>2, <1>3 DEF Quiet, NoVerdict
  <2>3. Lands("driver")
    <3>1. CASE task' = task
      BY <1>1, <3>1 DEF Lands, CallsInv, CallOf
    <3>2. CASE Go("driver", "signers")
      BY <1>1, <3>2, PlainGo DEF PlainLabels
    <3> QED BY <1>4, <3>1, <3>2
  <2> QED BY <1>1, <1>2, <1>6, <2>1, <2>2, <2>3, PlainKept DEF PlainStep, StateMoves
<1> QED BY <1>3, <1>5, <1>6

LEMMA ForkStep ==
    ASSUME Shape, CallsInv, SealInv, Shape', Fork
    PROVE  CallsInv' /\ SealInv'
<1>1. /\ task' = task /\ state' = state /\ loaded' = loaded /\ journal' = journal
      /\ records' = records /\ receipt' = receipt /\ sealed' = sealed
  BY DEF Fork
<1>2. CallsInv'
  BY <1>1 DEF CallsInv, CallOf, Apart, Aborts, Seals, At
<1>3. SealInv'
  BY <1>1, SameEvidence DEF SealInv, SealOf, At
<1> QED BY <1>2, <1>3

LEMMA CrashStep ==
    ASSUME Shape, CallsInv, SealInv, Shape', Crash
    PROVE  CallsInv' /\ SealInv'
<1>1. /\ journal' = journal /\ records' = records /\ receipt' = receipt /\ state' = state
      /\ ~loaded' /\ task' = [c \in Callers |-> Idle]
  BY DEF Crash
<1>2. sealed \in [Roles -> Nat] /\ sealed' \in [Roles -> Nat]
  BY DEF Shape, TypeOK
<1>3. \A b \in Roles : sealed'[b] >= sealed[b]
  <2>1. CASE sealed' = sealed
    BY <1>2, <2>1
  <2>2. CASE \E c \in Callers : MayHaveCommitted(c)
    BY <2>2, CommittedTypes
  <2> QED BY <2>1, <2>2 DEF Crash
<1>4. state' \in EndStates => FinalCheckpoint # 0
  BY <1>1 DEF SealInv
<1>5. \A c \in Callers : task'[c] = Idle
  BY <1>1
<1> QED BY <1>1, <1>2, <1>3, <1>4, <1>5, SameEvidence, AllIdle

---------------------------------------------------------------------------
(* The invariant holds *)

IInv == Shape /\ CallsInv /\ SealInv

LEMMA SealInit == Init => CallsInv /\ SealInv
<1> SUFFICES ASSUME Init PROVE CallsInv /\ SealInv
  OBVIOUS
<1>1. FinalCheckpoint = 0
  BY DEF Init, FinalCheckpoint
<1>2. \A c \in Callers : task[c] = Idle
  BY DEF Init
<1>3. Idle.at = "idle" /\ ~Idle.aborting /\ ~Idle.anchored
  BY DEF Idle
<1>4. ASSUME NEW c \in Callers
      PROVE  CallOf(c) /\ SealOf(c) /\ ~Aborts(c) /\ ~(task[c].at \in PauseLabels)
  <2>1. CallOf(c) /\ ~Aborts(c) /\ ~(task[c].at \in PauseLabels)
    BY <1>2, <1>3 DEF CallOf, At, Aborts, Seals, PauseLabels, ResumeLabels, WritingLabels
  <2>2. SealOf(c)
    BY <1>2, <1>3 DEF SealOf, At, EvidenceLabels, WritingLabels
  <2> QED BY <2>1, <2>2
<1>5. CallsInv
  BY <1>2, <1>4 DEF CallsInv, Apart
<1>6. state \notin EndStates /\ ~(\E i \in DOMAIN records : records[i].disposition = "valid")
  BY DEF Init, EndStates
<1>7. SealInv
  BY <1>1, <1>4, <1>6 DEF SealInv
<1> QED BY <1>5, <1>7

LEMMA SealStep ==
    ASSUME Shape, CallsInv, SealInv, Shape', NEW c \in Callers, Seal(c)
    PROVE  CallsInv' /\ SealInv'
BY SealCheckStep, RunSealedEventStep, CreateFinalCheckpointStep, AnchorStep,
   BlockedRecordStep, PendingRecordStep, VerifyStep, VerdictRecordStep,
   AbortDecisionStep DEF Seal

LEMMA TurnStep ==
    ASSUME Shape, CallsInv, SealInv, Shape', Turn
    PROVE  CallsInv' /\ SealInv'
BY ExecuteTurnStep, AppendTurnRecordStep, ScheduleRepairStep, EventBoundariesStep,
   PauseNotAvailableStep DEF Turn

LEMMA RecoveryStep ==
    ASSUME Shape, CallsInv, SealInv, Shape', Recovery
    PROVE  CallsInv' /\ SealInv'
BY CheckSignersStep, RecoverPrefixStep, RecoveryEventStep, RecoveryCheckpointStep
   DEF Recovery

LEMMA InterventionStep ==
    ASSUME Shape, CallsInv, SealInv, Shape', Intervention
    PROVE  CallsInv' /\ SealInv'
BY PauseEventStep, ResumePrefixStep, ResumeEventStep, ResumeCheckpointStep,
   AnnotateEventStep, AnnotateCheckStep, AnnotateCheckpointStep, AnnotateRecordStep,
   RetryEventStep, AbandonEventStep, AbandonRecordStep DEF Intervention

LEMMA OperatorStep ==
    ASSUME Shape, CallsInv, SealInv, Shape', Operator
    PROVE  CallsInv' /\ SealInv'
BY StartPauseStep, StartResumeStep, StartAnnotateStep, StartAbortStep,
   StartRetrySealStep, StartAbandonSealStep DEF Operator

LEMMA ProceedStep ==
    ASSUME Shape, CallsInv, SealInv, Shape', NEW c \in Callers, Proceed(c)
    PROVE  CallsInv' /\ SealInv'
BY InitialRecordStep, CheckpointZeroStep, TurnStep, RecoveryStep, InterventionStep,
   BeginEvaluationStep, PauseCheckpointStep, AbortEventStep, AbortRecordStep,
   SealStep, GatewayRefusesStep DEF Proceed

LEMMA SealNext == IInv /\ [Next]_vars => IInv'
<1> SUFFICES ASSUME Shape, CallsInv, SealInv, [Next]_vars PROVE IInv'
  BY DEF IInv
<1>1. Shape'
  BY ShapeNext
<1>2. CASE UNCHANGED vars
  <2>1. CallsInv'
    BY <1>2 DEF vars, CallsInv, CallOf, Apart, Aborts, Seals, At
  <2>2. SealInv'
    BY <1>2, SameEvidence DEF vars, SealInv, SealOf, At
  <2> QED BY <1>1, <2>1, <2>2 DEF IInv
<1>3. CASE Next
  <2>1. CallsInv' /\ SealInv'
    BY <1>1, <1>3, CreateRunStep, StartStepStep, StartSealStep, StartRecoverStep, OperatorStep,
       ProceedStep, CallFailsStep, LoseTurnRecordStep, ForkStep, CrashStep DEF Next
  <2> QED BY <1>1, <2>1 DEF IInv
<1> QED BY <1>2, <1>3

LEMMA IInvHolds == Spec => []IInv
<1>1. Init => IInv
  BY ShapeInit, SealInit DEF IInv
<1> QED BY <1>1, SealNext, PTL DEF Spec

\* Once the seal evidence exists a run takes no turn any more, in this process
\* or the next, and a run that reached a terminal state has that evidence.
THEOREM SealIsFinal == Spec => []SealedIsFinal
<1>1. IInv => SealedIsFinal
  <2> SUFFICES ASSUME IInv PROVE SealedIsFinal
    OBVIOUS
  <2>1. SealedStaysShut
    BY DEF IInv, SealInv, SealedStaysShut, SealEvidenceExists, AcceptsTurns, Closing
  <2>2. EndsWithEvidence
    BY DEF IInv, SealInv, EndsWithEvidence, SealEvidenceExists, EndStates
  <2> QED BY <2>1, <2>2 DEF SealedIsFinal
<1> QED BY <1>1, IInvHolds, PTL

\* A record says "valid" only of a completed run whose final checkpoint is anchored.
THEOREM ValidRunsAreAnchored == Spec => []ValidIsAnchored
<1>1. IInv => ValidIsAnchored
  BY DEF IInv, SealInv, ValidIsAnchored, Completed, Confirmed
<1> QED BY <1>1, IInvHolds, PTL

---------------------------------------------------------------------------
(* While calls do not overlap, the final checkpoint stays the last one *)

CheckpointEntries == {"checkpoint", "pause-checkpoint"} \cup FinalReasons

\* A step of caller c, as this invariant sees it.
TipMoves(c) ==
    /\ \A d \in Callers : d # c => task'[d] = task[d]
    /\ \A d \in Callers : d # c => At(d, "idle")
    /\ \/ journal' = journal
       \/ \E w \in JournalEntries :
            Write(w) /\ (w \in CheckpointEntries => FinalCheckpoint = 0)
    /\ task'[c].at \in OpenLabels => FinalCheckpoint = 0 /\ Quiet

LEMMA TipWrite ==
    ASSUME journal \in Seq(JournalEntries), FinalCheckpointIsTip, NEW w \in JournalEntries,
           Write(w), w \in CheckpointEntries => FinalCheckpoint = 0
    PROVE  FinalCheckpointIsTip'
<1>1. CASE FinalCheckpoint = 0 /\ w \notin FinalReasons
  BY <1>1, FinalStays DEF FinalCheckpointIsTip
<1>2. CASE FinalCheckpoint = 0 /\ w \in FinalReasons
  <2>1. FinalCheckpoint' = Len(journal) + 1 /\ Len(journal') = Len(journal) + 1
        /\ Len(journal) \in Nat
    BY <1>2, FinalStays DEF Write
  <2> QED BY <2>1 DEF FinalCheckpointIsTip
<1>3. CASE FinalCheckpoint # 0
  <2>1. /\ FinalCheckpoint' = FinalCheckpoint /\ FinalCheckpoint \in 1..Len(journal)
        /\ Len(journal) \in Nat /\ Len(journal') = Len(journal) + 1
        /\ \A i \in 1..Len(journal) : journal'[i] = journal[i]
        /\ journal'[Len(journal) + 1] = w
    BY <1>3, FinalStays, WriteEffect DEF Write
  <2>2. ASSUME NEW i \in FinalCheckpoint' + 1 .. Len(journal')
        PROVE  journal'[i] \notin CheckpointEntries
    <3>1. CASE i = Len(journal) + 1
      BY <1>3, <2>1, <3>1
    <3>2. CASE i # Len(journal) + 1
      <4>1. i \in FinalCheckpoint + 1 .. Len(journal) /\ i \in 1..Len(journal)
        BY <2>1, <3>2
      <4>2. journal[i] \notin CheckpointEntries
        BY <1>3, <4>1 DEF FinalCheckpointIsTip, CheckpointEntries
      <4> QED BY <2>1, <4>1, <4>2
    <3> QED BY <3>1, <3>2
  <2> QED BY <2>2 DEF FinalCheckpointIsTip, CheckpointEntries
<1> QED BY <1>1, <1>2, <1>3

LEMMA TipKept ==
    ASSUME IInv, TipInv, NEW c \in Callers, TipMoves(c)
    PROVE  TipInv'
<1>1. journal \in Seq(JournalEntries)
  BY NormalTypes DEF IInv
<1>2. FinalCheckpointIsTip'
  <2>1. CASE journal' = journal
    BY <2>1 DEF TipInv, FinalCheckpointIsTip, FinalCheckpoint
  <2>2. CASE journal' # journal
    BY <1>1, <2>2, TipWrite DEF TipInv, TipMoves
  <2> QED BY <2>1, <2>2
<1>3. PICK d \in Callers : d # c
  BY DEF Callers
<1>4. At(d, "idle")'
  BY <1>3 DEF TipMoves, At
<1>5. ASSUME NEW e \in Callers, task'[e].at \in OpenLabels PROVE FinalCheckpoint' = 0
  <2>1. e = c
    BY <1>5 DEF TipMoves, At, OpenLabels
  <2> QED BY <1>1, <1>5, <2>1, QuietKeeps DEF TipMoves
<1> QED BY <1>2, <1>4, <1>5 DEF TipInv

LEMMA OneBusy ==
    ASSUME TipInv, NEW c \in Callers, ~At(c, "idle")
    PROVE  \A d \in Callers : d # c => At(d, "idle")
BY DEF TipInv, Callers

LEMMA NotClosing ==
    ASSUME IInv
    PROVE  /\ loaded /\ state \notin Closing => FinalCheckpoint = 0
           /\ SealEvidenceExists <=> FinalCheckpoint # 0
BY DEF IInv, SealInv, SealEvidenceExists

LEMMA GoAt ==
    ASSUME IInv, NEW c \in Callers, NEW label, Go(c, label)
    PROVE  /\ task'[c].at = label
           /\ \A d \in Callers : d # c => task'[d] = task[d]
<1>1. task \in [Callers -> TaskType]
  BY NormalTypes DEF IInv
<1> QED BY <1>1 DEF Go, TaskType

LEMMA ReturnAt ==
    ASSUME IInv, NEW c \in Callers, Return(c)
    PROVE  /\ task'[c].at = "idle"
           /\ \A d \in Callers : d # c => task'[d] = task[d]
BY ReturnEffect, NormalTypes, IdleTask DEF IInv

LEMMA StageAt ==
    ASSUME IInv, NEW c \in Callers, NEW s \in RunStates, ApplyStageTransitions(c, s, mem)
    PROVE  /\ task'[c].at \in {"idle", "begin-evaluation"}
           /\ \A d \in Callers : d # c => task'[d] = task[d]
BY StageEffect, GoAt, ReturnAt

LEMMA ApplyAt ==
    ASSUME IInv, NEW c \in Callers, NEW event, ApplyAndReturn(c, event)
    PROVE  /\ task'[c].at = "idle"
           /\ \A d \in Callers : d # c => task'[d] = task[d]
BY ReturnAt DEF ApplyAndReturn

LEMMA InitialRecordTip ==
    ASSUME IInv, TipInv, InitialRecord
    PROVE  TipMoves("driver")
<1>0. "driver" \in Callers
  BY DEF Callers
<1>1. \A d \in Callers : d # "driver" => At(d, "idle")
  BY <1>0, OneBusy DEF InitialRecord, At
<1>2. /\ \A d \in Callers : d # "driver" => task'[d] = task[d]
      /\ task'["driver"].at \in OpenLabels => FinalCheckpoint = 0
  BY <1>0, GoAt DEF InitialRecord, At, OpenLabels, TipInv
<1>3. \/ journal' = journal
      \/ \E w \in JournalEntries :
            Write(w) /\ (w \in CheckpointEntries => FinalCheckpoint = 0)
  BY <1>0, NotClosing DEF InitialRecord, At, OpenLabels, TipInv, JournalEntries, CheckpointEntries, FinalReasons, evidence
<1>4. task'["driver"].at \in OpenLabels => Quiet
  BY <1>0, GoAt DEF InitialRecord, OpenLabels, Quiet, JournalEntries, FinalReasons, evidence
<1> QED BY <1>1, <1>2, <1>3, <1>4 DEF TipMoves

LEMMA CheckpointZeroTip ==
    ASSUME IInv, TipInv, CheckpointZero
    PROVE  TipMoves("driver")
<1>0. "driver" \in Callers
  BY DEF Callers
<1>1. \A d \in Callers : d # "driver" => At(d, "idle")
  BY <1>0, OneBusy DEF CheckpointZero, At
<1>2. /\ \A d \in Callers : d # "driver" => task'[d] = task[d]
      /\ task'["driver"].at \in OpenLabels => FinalCheckpoint = 0
  BY <1>0, ReturnAt, StageAt, TransitionStates DEF CheckpointZero, At, OpenLabels, TipInv
<1>3. \/ journal' = journal
      \/ \E w \in JournalEntries :
            Write(w) /\ (w \in CheckpointEntries => FinalCheckpoint = 0)
  BY <1>0, NotClosing DEF CheckpointZero, At, OpenLabels, TipInv, JournalEntries, CheckpointEntries, FinalReasons, evidence
<1>4. task'["driver"].at \in OpenLabels => Quiet
  BY <1>0, ReturnAt, StageAt, TransitionStates DEF CheckpointZero, OpenLabels, Quiet, JournalEntries, FinalReasons, evidence
<1> QED BY <1>1, <1>2, <1>3, <1>4 DEF TipMoves

LEMMA BeginEvaluationTip ==
    ASSUME IInv, TipInv, NEW c \in Callers, BeginEvaluation(c)
    PROVE  TipMoves(c)
<1>1. \A d \in Callers : d # c => At(d, "idle")
  BY OneBusy DEF BeginEvaluation, At
<1>2. /\ \A d \in Callers : d # c => task'[d] = task[d]
      /\ task'[c].at \in OpenLabels => FinalCheckpoint = 0
  BY ApplyAt DEF BeginEvaluation, At, OpenLabels, TipInv
<1>3. \/ journal' = journal
      \/ \E w \in JournalEntries :
            Write(w) /\ (w \in CheckpointEntries => FinalCheckpoint = 0)
  BY NotClosing DEF BeginEvaluation, At, OpenLabels, TipInv, JournalEntries, CheckpointEntries, FinalReasons, evidence, PolicyCheckpoint
<1>4. task'[c].at \in OpenLabels => Quiet
  BY ApplyAt DEF BeginEvaluation, OpenLabels, Quiet, JournalEntries, FinalReasons, evidence, PolicyCheckpoint
<1> QED BY <1>1, <1>2, <1>3, <1>4 DEF TipMoves

LEMMA StartSealTip ==
    ASSUME IInv, TipInv, ~Overlap, StartSeal
    PROVE  TipMoves("driver")
<1>0. "driver" \in Callers
  BY DEF Callers
<1>1. \A d \in Callers : d # "driver" => At(d, "idle")
  BY DEF StartSeal, DriverFree, Callers
<1>2. /\ \A d \in Callers : d # "driver" => task'[d] = task[d]
      /\ task'["driver"].at \in OpenLabels => FinalCheckpoint = 0
  BY <1>0, GoAt DEF StartSeal, At, OpenLabels, TipInv
<1>3. \/ journal' = journal
      \/ \E w \in JournalEntries :
            Write(w) /\ (w \in CheckpointEntries => FinalCheckpoint = 0)
  BY <1>0, NotClosing DEF StartSeal, At, OpenLabels, TipInv, JournalEntries, CheckpointEntries, FinalReasons, evidence
<1>4. task'["driver"].at \in OpenLabels => Quiet
  BY <1>0, GoAt DEF StartSeal, OpenLabels, Quiet, JournalEntries, FinalReasons, evidence
<1> QED BY <1>1, <1>2, <1>3, <1>4 DEF TipMoves

LEMMA AnnotateCheckTip ==
    ASSUME IInv, TipInv, AnnotateCheck
    PROVE  TipMoves("operator")
<1>0. "operator" \in Callers
  BY DEF Callers
<1>1. \A d \in Callers : d # "operator" => At(d, "idle")
  BY <1>0, OneBusy DEF AnnotateCheck, At
<1>2. /\ \A d \in Callers : d # "operator" => task'[d] = task[d]
      /\ task'["operator"].at \in OpenLabels => FinalCheckpoint = 0
  BY <1>0, GoAt, ReturnAt DEF AnnotateCheck, At, OpenLabels, TipInv
<1>3. \/ journal' = journal
      \/ \E w \in JournalEntries :
            Write(w) /\ (w \in CheckpointEntries => FinalCheckpoint = 0)
  BY <1>0, NotClosing DEF AnnotateCheck, At, OpenLabels, TipInv, JournalEntries, CheckpointEntries, FinalReasons, evidence
<1>4. task'["operator"].at \in OpenLabels => Quiet
  BY <1>0, GoAt, ReturnAt DEF AnnotateCheck, OpenLabels, Quiet, JournalEntries, FinalReasons, evidence
<1> QED BY <1>1, <1>2, <1>3, <1>4 DEF TipMoves

LEMMA AppendTurnRecordTip ==
    ASSUME IInv, TipInv, AppendTurnRecord
    PROVE  TipMoves("driver")
<1>0. "driver" \in Callers
  BY DEF Callers
<1>1. \A d \in Callers : d # "driver" => At(d, "idle")
  BY <1>0, OneBusy DEF AppendTurnRecord, At
<1>2. /\ \A d \in Callers : d # "driver" => task'[d] = task[d]
      /\ task'["driver"].at \in OpenLabels => FinalCheckpoint = 0
  BY <1>0, GoAt DEF AppendTurnRecord, At, OpenLabels, TipInv
<1>3. \/ journal' = journal
      \/ \E w \in JournalEntries :
            Write(w) /\ (w \in CheckpointEntries => FinalCheckpoint = 0)
  BY <1>0, NotClosing DEF AppendTurnRecord, At, OpenLabels, TipInv, JournalEntries, CheckpointEntries, FinalReasons, evidence
<1>4. task'["driver"].at \in OpenLabels => Quiet
  BY <1>0, GoAt DEF AppendTurnRecord, OpenLabels, Quiet, JournalEntries, FinalReasons, evidence
<1> QED BY <1>1, <1>2, <1>3, <1>4 DEF TipMoves

LEMMA ScheduleRepairTip ==
    ASSUME IInv, TipInv, ScheduleRepair
    PROVE  TipMoves("driver")
<1>0. "driver" \in Callers
  BY DEF Callers
<1>1. \A d \in Callers : d # "driver" => At(d, "idle")
  BY <1>0, OneBusy DEF ScheduleRepair, At
<1>2. /\ \A d \in Callers : d # "driver" => task'[d] = task[d]
      /\ task'["driver"].at \in OpenLabels => FinalCheckpoint = 0
  BY <1>0, GoAt DEF ScheduleRepair, At, OpenLabels, TipInv
<1>3. \/ journal' = journal
      \/ \E w \in JournalEntries :
            Write(w) /\ (w \in CheckpointEntries => FinalCheckpoint = 0)
  BY <1>0, NotClosing DEF ScheduleRepair, At, OpenLabels, TipInv, JournalEntries, CheckpointEntries, FinalReasons, evidence
<1>4. task'["driver"].at \in OpenLabels => Quiet
  BY <1>0, GoAt DEF ScheduleRepair, OpenLabels, Quiet, JournalEntries, FinalReasons, evidence
<1> QED BY <1>1, <1>2, <1>3, <1>4 DEF TipMoves

LEMMA EventBoundariesTip ==
    ASSUME IInv, TipInv, EventBoundaries
    PROVE  TipMoves("driver")
<1>0. "driver" \in Callers
  BY DEF Callers
<1>1. state \in RunStates
  BY NormalTypes DEF IInv
<1>2. \A d \in Callers : d # "driver" => At(d, "idle")
  BY <1>0, OneBusy DEF EventBoundaries, At
<1>3. /\ \A d \in Callers : d # "driver" => task'[d] = task[d]
      /\ task'["driver"].at \in OpenLabels => FinalCheckpoint = 0
  BY <1>0, GoAt, StageAt, <1>1 DEF EventBoundaries, At, OpenLabels, TipInv
<1>4. \/ journal' = journal
      \/ \E w \in JournalEntries :
            Write(w) /\ (w \in CheckpointEntries => FinalCheckpoint = 0)
  BY <1>0, NotClosing DEF EventBoundaries, At, OpenLabels, TipInv, JournalEntries, CheckpointEntries, FinalReasons, evidence
<1>5. task'["driver"].at \in OpenLabels => Quiet
  BY <1>0, GoAt, StageAt, <1>1 DEF EventBoundaries, OpenLabels, Quiet, JournalEntries, FinalReasons, evidence
<1> QED BY <1>2, <1>3, <1>4, <1>5 DEF TipMoves

LEMMA PauseNotAvailableTip ==
    ASSUME IInv, TipInv, PauseNotAvailable
    PROVE  TipMoves("driver")
<1>0. "driver" \in Callers
  BY DEF Callers
<1>1. state \in RunStates
  BY NormalTypes DEF IInv
<1>2. \A d \in Callers : d # "driver" => At(d, "idle")
  BY <1>0, OneBusy DEF PauseNotAvailable, At
<1>3. /\ \A d \in Callers : d # "driver" => task'[d] = task[d]
      /\ task'["driver"].at \in OpenLabels => FinalCheckpoint = 0
  BY <1>0, GoAt, StageAt, <1>1 DEF PauseNotAvailable, At, OpenLabels, TipInv
<1>4. \/ journal' = journal
      \/ \E w \in JournalEntries :
            Write(w) /\ (w \in CheckpointEntries => FinalCheckpoint = 0)
  BY <1>0, NotClosing DEF PauseNotAvailable, At, OpenLabels, TipInv, JournalEntries, CheckpointEntries, FinalReasons, evidence
<1>5. task'["driver"].at \in OpenLabels => Quiet
  BY <1>0, GoAt, StageAt, <1>1 DEF PauseNotAvailable, OpenLabels, Quiet, JournalEntries, FinalReasons, evidence
<1> QED BY <1>2, <1>3, <1>4, <1>5 DEF TipMoves

LEMMA StartPauseTip ==
    ASSUME IInv, TipInv, ~Overlap, StartPause
    PROVE  TipMoves("operator")
<1>0. "operator" \in Callers
  BY DEF Callers
<1>1. \A d \in Callers : d # "operator" => At(d, "idle")
  BY DEF StartPause, OperatorCalls, Callers
<1>2. /\ \A d \in Callers : d # "operator" => task'[d] = task[d]
      /\ task'["operator"].at \in OpenLabels => FinalCheckpoint = 0
  BY <1>0, GoAt, NotClosing, Applicable DEF StartPause, At, OpenLabels, OperatorCalls, Closing, TipInv
<1>3. \/ journal' = journal
      \/ \E w \in JournalEntries :
            Write(w) /\ (w \in CheckpointEntries => FinalCheckpoint = 0)
  BY <1>0, NotClosing DEF StartPause, At, OpenLabels, TipInv, JournalEntries, CheckpointEntries, FinalReasons, evidence
<1>4. task'["operator"].at \in OpenLabels => Quiet
  BY <1>0, GoAt, NotClosing, Applicable DEF StartPause, OpenLabels, Quiet, JournalEntries, FinalReasons, evidence, OperatorCalls, Closing
<1> QED BY <1>1, <1>2, <1>3, <1>4 DEF TipMoves

LEMMA StartResumeTip ==
    ASSUME IInv, TipInv, ~Overlap, StartResume
    PROVE  TipMoves("operator")
<1>0. "operator" \in Callers
  BY DEF Callers
<1>1. \A d \in Callers : d # "operator" => At(d, "idle")
  BY DEF StartResume, OperatorCalls, Callers
<1>2. /\ \A d \in Callers : d # "operator" => task'[d] = task[d]
      /\ task'["operator"].at \in OpenLabels => FinalCheckpoint = 0
  BY <1>0, GoAt, NotClosing, Applicable DEF StartResume, At, OpenLabels, OperatorCalls, Closing, TipInv
<1>3. \/ journal' = journal
      \/ \E w \in JournalEntries :
            Write(w) /\ (w \in CheckpointEntries => FinalCheckpoint = 0)
  BY <1>0, NotClosing DEF StartResume, At, OpenLabels, TipInv, JournalEntries, CheckpointEntries, FinalReasons, evidence
<1>4. task'["operator"].at \in OpenLabels => Quiet
  BY <1>0, GoAt, NotClosing, Applicable DEF StartResume, OpenLabels, Quiet, JournalEntries, FinalReasons, evidence, OperatorCalls, Closing
<1> QED BY <1>1, <1>2, <1>3, <1>4 DEF TipMoves

LEMMA StartAnnotateTip ==
    ASSUME IInv, TipInv, ~Overlap, StartAnnotate
    PROVE  TipMoves("operator")
<1>0. "operator" \in Callers
  BY DEF Callers
<1>1. \A d \in Callers : d # "operator" => At(d, "idle")
  BY DEF StartAnnotate, OperatorCalls, Callers
<1>2. /\ \A d \in Callers : d # "operator" => task'[d] = task[d]
      /\ task'["operator"].at \in OpenLabels => FinalCheckpoint = 0
  BY <1>0, GoAt DEF StartAnnotate, At, OpenLabels, TipInv
<1>3. \/ journal' = journal
      \/ \E w \in JournalEntries :
            Write(w) /\ (w \in CheckpointEntries => FinalCheckpoint = 0)
  BY <1>0, NotClosing DEF StartAnnotate, At, OpenLabels, TipInv, JournalEntries, CheckpointEntries, FinalReasons, evidence
<1>4. task'["operator"].at \in OpenLabels => Quiet
  BY <1>0, GoAt DEF StartAnnotate, OpenLabels, Quiet, JournalEntries, FinalReasons, evidence
<1> QED BY <1>1, <1>2, <1>3, <1>4 DEF TipMoves

LEMMA StartAbortTip ==
    ASSUME IInv, TipInv, ~Overlap, StartAbort
    PROVE  TipMoves("operator")
<1>0. "operator" \in Callers
  BY DEF Callers
<1>1. \A d \in Callers : d # "operator" => At(d, "idle")
  BY DEF StartAbort, OperatorCalls, Callers
<1>2. /\ \A d \in Callers : d # "operator" => task'[d] = task[d]
      /\ task'["operator"].at \in OpenLabels => FinalCheckpoint = 0
  BY <1>0, GoAt, NotClosing, Applicable DEF StartAbort, At, OpenLabels, OperatorCalls, Closing, Abortable, TipInv
<1>3. \/ journal' = journal
      \/ \E w \in JournalEntries :
            Write(w) /\ (w \in CheckpointEntries => FinalCheckpoint = 0)
  BY <1>0, NotClosing DEF StartAbort, At, OpenLabels, TipInv, JournalEntries, CheckpointEntries, FinalReasons, evidence
<1>4. task'["operator"].at \in OpenLabels => Quiet
  BY <1>0, GoAt, NotClosing, Applicable DEF StartAbort, OpenLabels, Quiet, JournalEntries, FinalReasons, evidence, OperatorCalls, Closing, Abortable
<1> QED BY <1>1, <1>2, <1>3, <1>4 DEF TipMoves

LEMMA StartRetrySealTip ==
    ASSUME IInv, TipInv, ~Overlap, StartRetrySeal
    PROVE  TipMoves("operator")
<1>0. "operator" \in Callers
  BY DEF Callers
<1>1. \A d \in Callers : d # "operator" => At(d, "idle")
  BY DEF StartRetrySeal, OperatorCalls, Callers
<1>2. /\ \A d \in Callers : d # "operator" => task'[d] = task[d]
      /\ task'["operator"].at \in OpenLabels => FinalCheckpoint = 0
  BY <1>0, GoAt DEF StartRetrySeal, At, OpenLabels, TipInv
<1>3. \/ journal' = journal
      \/ \E w \in JournalEntries :
            Write(w) /\ (w \in CheckpointEntries => FinalCheckpoint = 0)
  BY <1>0, NotClosing DEF StartRetrySeal, At, OpenLabels, TipInv, JournalEntries, CheckpointEntries, FinalReasons, evidence
<1>4. task'["operator"].at \in OpenLabels => Quiet
  BY <1>0, GoAt DEF StartRetrySeal, OpenLabels, Quiet, JournalEntries, FinalReasons, evidence
<1> QED BY <1>1, <1>2, <1>3, <1>4 DEF TipMoves

LEMMA StartAbandonSealTip ==
    ASSUME IInv, TipInv, ~Overlap, StartAbandonSeal
    PROVE  TipMoves("operator")
<1>0. "operator" \in Callers
  BY DEF Callers
<1>1. \A d \in Callers : d # "operator" => At(d, "idle")
  BY DEF StartAbandonSeal, OperatorCalls, Callers
<1>2. /\ \A d \in Callers : d # "operator" => task'[d] = task[d]
      /\ task'["operator"].at \in OpenLabels => FinalCheckpoint = 0
  BY <1>0, GoAt DEF StartAbandonSeal, At, OpenLabels, TipInv
<1>3. \/ journal' = journal
      \/ \E w \in JournalEntries :
            Write(w) /\ (w \in CheckpointEntries => FinalCheckpoint = 0)
  BY <1>0, NotClosing DEF StartAbandonSeal, At, OpenLabels, TipInv, JournalEntries, CheckpointEntries, FinalReasons, evidence
<1>4. task'["operator"].at \in OpenLabels => Quiet
  BY <1>0, GoAt DEF StartAbandonSeal, OpenLabels, Quiet, JournalEntries, FinalReasons, evidence
<1> QED BY <1>1, <1>2, <1>3, <1>4 DEF TipMoves

LEMMA PauseEventTip ==
    ASSUME IInv, TipInv, PauseEvent
    PROVE  TipMoves("operator")
<1>0. "operator" \in Callers
  BY DEF Callers
<1>1. \A d \in Callers : d # "operator" => At(d, "idle")
  BY <1>0, OneBusy DEF PauseEvent, At
<1>2. /\ \A d \in Callers : d # "operator" => task'[d] = task[d]
      /\ task'["operator"].at \in OpenLabels => FinalCheckpoint = 0
  BY <1>0, GoAt DEF PauseEvent, At, OpenLabels, TipInv
<1>3. \/ journal' = journal
      \/ \E w \in JournalEntries :
            Write(w) /\ (w \in CheckpointEntries => FinalCheckpoint = 0)
  BY <1>0, NotClosing DEF PauseEvent, At, OpenLabels, TipInv, JournalEntries, CheckpointEntries, FinalReasons, evidence
<1>4. task'["operator"].at \in OpenLabels => Quiet
  BY <1>0, GoAt DEF PauseEvent, OpenLabels, Quiet, JournalEntries, FinalReasons, evidence
<1> QED BY <1>1, <1>2, <1>3, <1>4 DEF TipMoves

LEMMA PauseCheckpointTip ==
    ASSUME IInv, TipInv, NEW c \in Callers, PauseCheckpoint(c)
    PROVE  TipMoves(c)
<1>1. \A d \in Callers : d # c => At(d, "idle")
  BY OneBusy DEF PauseCheckpoint, At
<1>2. /\ \A d \in Callers : d # c => task'[d] = task[d]
      /\ task'[c].at \in OpenLabels => FinalCheckpoint = 0
  BY ApplyAt DEF PauseCheckpoint, At, OpenLabels, TipInv
<1>3. \/ journal' = journal
      \/ \E w \in JournalEntries :
            Write(w) /\ (w \in CheckpointEntries => FinalCheckpoint = 0)
  BY NotClosing DEF PauseCheckpoint, At, OpenLabels, TipInv, JournalEntries, CheckpointEntries, FinalReasons, evidence
<1>4. task'[c].at \in OpenLabels => Quiet
  BY ApplyAt DEF PauseCheckpoint, OpenLabels, Quiet, JournalEntries, FinalReasons, evidence
<1> QED BY <1>1, <1>2, <1>3, <1>4 DEF TipMoves

LEMMA ResumePrefixTip ==
    ASSUME IInv, TipInv, ResumePrefix
    PROVE  TipMoves("operator")
<1>0. "operator" \in Callers
  BY DEF Callers
<1>1. \A d \in Callers : d # "operator" => At(d, "idle")
  BY <1>0, OneBusy DEF ResumePrefix, At
<1>2. /\ \A d \in Callers : d # "operator" => task'[d] = task[d]
      /\ task'["operator"].at \in OpenLabels => FinalCheckpoint = 0
  BY <1>0, GoAt, ApplyAt DEF ResumePrefix, At, OpenLabels, TipInv
<1>3. \/ journal' = journal
      \/ \E w \in JournalEntries :
            Write(w) /\ (w \in CheckpointEntries => FinalCheckpoint = 0)
  BY <1>0, NotClosing DEF ResumePrefix, At, OpenLabels, TipInv, JournalEntries, CheckpointEntries, FinalReasons, evidence
<1>4. task'["operator"].at \in OpenLabels => Quiet
  BY <1>0, GoAt, ApplyAt DEF ResumePrefix, OpenLabels, Quiet, JournalEntries, FinalReasons, evidence
<1> QED BY <1>1, <1>2, <1>3, <1>4 DEF TipMoves

LEMMA ResumeEventTip ==
    ASSUME IInv, TipInv, ResumeEvent
    PROVE  TipMoves("operator")
<1>0. "operator" \in Callers
  BY DEF Callers
<1>1. \A d \in Callers : d # "operator" => At(d, "idle")
  BY <1>0, OneBusy DEF ResumeEvent, At
<1>2. /\ \A d \in Callers : d # "operator" => task'[d] = task[d]
      /\ task'["operator"].at \in OpenLabels => FinalCheckpoint = 0
  BY <1>0, GoAt DEF ResumeEvent, At, OpenLabels, TipInv
<1>3. \/ journal' = journal
      \/ \E w \in JournalEntries :
            Write(w) /\ (w \in CheckpointEntries => FinalCheckpoint = 0)
  BY <1>0, NotClosing DEF ResumeEvent, At, OpenLabels, TipInv, JournalEntries, CheckpointEntries, FinalReasons, evidence
<1>4. task'["operator"].at \in OpenLabels => Quiet
  BY <1>0, GoAt DEF ResumeEvent, OpenLabels, Quiet, JournalEntries, FinalReasons, evidence
<1> QED BY <1>1, <1>2, <1>3, <1>4 DEF TipMoves

LEMMA ResumeCheckpointTip ==
    ASSUME IInv, TipInv, ResumeCheckpoint
    PROVE  TipMoves("operator")
<1>0. "operator" \in Callers
  BY DEF Callers
<1>1. \A d \in Callers : d # "operator" => At(d, "idle")
  BY <1>0, OneBusy DEF ResumeCheckpoint, At
<1>2. /\ \A d \in Callers : d # "operator" => task'[d] = task[d]
      /\ task'["operator"].at \in OpenLabels => FinalCheckpoint = 0
  BY <1>0, ReturnAt, StageAt, TransitionStates DEF ResumeCheckpoint, At, OpenLabels, TipInv
<1>3. \/ journal' = journal
      \/ \E w \in JournalEntries :
            Write(w) /\ (w \in CheckpointEntries => FinalCheckpoint = 0)
  BY <1>0, NotClosing DEF ResumeCheckpoint, At, OpenLabels, TipInv, JournalEntries, CheckpointEntries, FinalReasons, evidence
<1>4. task'["operator"].at \in OpenLabels => Quiet
  BY <1>0, ReturnAt, StageAt, TransitionStates DEF ResumeCheckpoint, OpenLabels, Quiet, JournalEntries, FinalReasons, evidence
<1> QED BY <1>1, <1>2, <1>3, <1>4 DEF TipMoves

LEMMA AnnotateEventTip ==
    ASSUME IInv, TipInv, AnnotateEvent
    PROVE  TipMoves("operator")
<1>0. "operator" \in Callers
  BY DEF Callers
<1>1. \A d \in Callers : d # "operator" => At(d, "idle")
  BY <1>0, OneBusy DEF AnnotateEvent, At
<1>2. /\ \A d \in Callers : d # "operator" => task'[d] = task[d]
      /\ task'["operator"].at \in OpenLabels => FinalCheckpoint = 0
  BY <1>0, GoAt DEF AnnotateEvent, At, OpenLabels, TipInv
<1>3. \/ journal' = journal
      \/ \E w \in JournalEntries :
            Write(w) /\ (w \in CheckpointEntries => FinalCheckpoint = 0)
  BY <1>0, NotClosing DEF AnnotateEvent, At, OpenLabels, TipInv, JournalEntries, CheckpointEntries, FinalReasons, evidence
<1>4. task'["operator"].at \in OpenLabels => Quiet
  BY <1>0, GoAt DEF AnnotateEvent, OpenLabels, Quiet, JournalEntries, FinalReasons, evidence
<1> QED BY <1>1, <1>2, <1>3, <1>4 DEF TipMoves

LEMMA AnnotateCheckpointTip ==
    ASSUME IInv, TipInv, AnnotateCheckpoint
    PROVE  TipMoves("operator")
<1>0. "operator" \in Callers
  BY DEF Callers
<1>1. \A d \in Callers : d # "operator" => At(d, "idle")
  BY <1>0, OneBusy DEF AnnotateCheckpoint, At
<1>2. /\ \A d \in Callers : d # "operator" => task'[d] = task[d]
      /\ task'["operator"].at \in OpenLabels => FinalCheckpoint = 0
  BY <1>0, GoAt DEF AnnotateCheckpoint, At, OpenLabels, TipInv
<1>3. \/ journal' = journal
      \/ \E w \in JournalEntries :
            Write(w) /\ (w \in CheckpointEntries => FinalCheckpoint = 0)
  BY <1>0, NotClosing DEF AnnotateCheckpoint, At, OpenLabels, TipInv, JournalEntries, CheckpointEntries, FinalReasons, evidence
<1>4. task'["operator"].at \in OpenLabels => Quiet
  BY <1>0, GoAt DEF AnnotateCheckpoint, OpenLabels, Quiet, JournalEntries, FinalReasons, evidence
<1> QED BY <1>1, <1>2, <1>3, <1>4 DEF TipMoves

LEMMA AnnotateRecordTip ==
    ASSUME IInv, TipInv, AnnotateRecord
    PROVE  TipMoves("operator")
<1>0. "operator" \in Callers
  BY DEF Callers
<1>1. \A d \in Callers : d # "operator" => At(d, "idle")
  BY <1>0, OneBusy DEF AnnotateRecord, At
<1>2. /\ \A d \in Callers : d # "operator" => task'[d] = task[d]
      /\ task'["operator"].at \in OpenLabels => FinalCheckpoint = 0
  BY <1>0, ReturnAt DEF AnnotateRecord, At, OpenLabels, TipInv
<1>3. \/ journal' = journal
      \/ \E w \in JournalEntries :
            Write(w) /\ (w \in CheckpointEntries => FinalCheckpoint = 0)
  BY <1>0, NotClosing DEF AnnotateRecord, At, OpenLabels, TipInv, JournalEntries, CheckpointEntries, FinalReasons, evidence
<1>4. task'["operator"].at \in OpenLabels => Quiet
  BY <1>0, ReturnAt DEF AnnotateRecord, OpenLabels, Quiet, JournalEntries, FinalReasons, evidence
<1> QED BY <1>1, <1>2, <1>3, <1>4 DEF TipMoves

LEMMA RetryEventTip ==
    ASSUME IInv, TipInv, RetryEvent
    PROVE  TipMoves("operator")
<1>0. "operator" \in Callers
  BY DEF Callers
<1>1. \A d \in Callers : d # "operator" => At(d, "idle")
  BY <1>0, OneBusy DEF RetryEvent, At
<1>2. /\ \A d \in Callers : d # "operator" => task'[d] = task[d]
      /\ task'["operator"].at \in OpenLabels => FinalCheckpoint = 0
  BY <1>0, GoAt DEF RetryEvent, At, OpenLabels, TipInv
<1>3. \/ journal' = journal
      \/ \E w \in JournalEntries :
            Write(w) /\ (w \in CheckpointEntries => FinalCheckpoint = 0)
  BY <1>0, NotClosing DEF RetryEvent, At, OpenLabels, TipInv, JournalEntries, CheckpointEntries, FinalReasons, evidence
<1>4. task'["operator"].at \in OpenLabels => Quiet
  BY <1>0, GoAt DEF RetryEvent, OpenLabels, Quiet, JournalEntries, FinalReasons, evidence
<1> QED BY <1>1, <1>2, <1>3, <1>4 DEF TipMoves

LEMMA CreateFinalCheckpointTip ==
    ASSUME IInv, TipInv, NEW c \in Callers, CreateFinalCheckpoint(c)
    PROVE  TipMoves(c)
<1>1. \A d \in Callers : d # c => At(d, "idle")
  BY OneBusy DEF CreateFinalCheckpoint, At
<1>2. /\ \A d \in Callers : d # c => task'[d] = task[d]
      /\ task'[c].at \in OpenLabels => FinalCheckpoint = 0
  BY GoAt DEF CreateFinalCheckpoint, At, OpenLabels, TipInv
<1>3. \/ journal' = journal
      \/ \E w \in JournalEntries :
            Write(w) /\ (w \in CheckpointEntries => FinalCheckpoint = 0)
  BY NotClosing DEF CreateFinalCheckpoint, At, OpenLabels, TipInv, JournalEntries, CheckpointEntries, FinalReasons, evidence
<1>4. task'[c].at \in OpenLabels => Quiet
  BY GoAt DEF CreateFinalCheckpoint, OpenLabels, Quiet, JournalEntries, FinalReasons, evidence
<1> QED BY <1>1, <1>2, <1>3, <1>4 DEF TipMoves

LEMMA AnchorTip ==
    ASSUME IInv, TipInv, NEW c \in Callers, Anchor(c)
    PROVE  TipMoves(c)
<1>1. /\ \A d \in Callers : d # c => task'[d] = task[d]
      /\ task'[c].at \notin OpenLabels
  BY AnchorMoves DEF IInv, Idle, OpenLabels
<1>2. \A d \in Callers : d # c => At(d, "idle")
  BY OneBusy DEF Anchor, At
<1>3. /\ \A d \in Callers : d # c => task'[d] = task[d]
      /\ task'[c].at \in OpenLabels => FinalCheckpoint = 0
  BY <1>1 DEF Anchor, At, OpenLabels, TipInv
<1>4. \/ journal' = journal
      \/ \E w \in JournalEntries :
            Write(w) /\ (w \in CheckpointEntries => FinalCheckpoint = 0)
  BY NotClosing DEF Anchor, At, OpenLabels, TipInv, JournalEntries, CheckpointEntries, FinalReasons, evidence
<1>5. task'[c].at \in OpenLabels => Quiet
  BY <1>1 DEF Anchor, OpenLabels, Quiet, JournalEntries, FinalReasons, evidence
<1> QED BY <1>2, <1>3, <1>4, <1>5 DEF TipMoves

LEMMA AbortRecordTip ==
    ASSUME IInv, TipInv, NEW c \in Callers, AbortRecord(c)
    PROVE  TipMoves(c)
<1>1. \A d \in Callers : d # c => At(d, "idle")
  BY OneBusy DEF AbortRecord, At
<1>2. /\ \A d \in Callers : d # c => task'[d] = task[d]
      /\ task'[c].at \in OpenLabels => FinalCheckpoint = 0
  BY ApplyAt DEF AbortRecord, At, OpenLabels, TipInv
<1>3. \/ journal' = journal
      \/ \E w \in JournalEntries :
            Write(w) /\ (w \in CheckpointEntries => FinalCheckpoint = 0)
  BY NotClosing DEF AbortRecord, At, OpenLabels, TipInv, JournalEntries, CheckpointEntries, FinalReasons, evidence
<1>4. task'[c].at \in OpenLabels => Quiet
  BY ApplyAt DEF AbortRecord, OpenLabels, Quiet, JournalEntries, FinalReasons, evidence
<1> QED BY <1>1, <1>2, <1>3, <1>4 DEF TipMoves

LEMMA BlockedRecordTip ==
    ASSUME IInv, TipInv, NEW c \in Callers, BlockedRecord(c)
    PROVE  TipMoves(c)
<1>1. \A d \in Callers : d # c => At(d, "idle")
  BY OneBusy DEF BlockedRecord, At
<1>2. /\ \A d \in Callers : d # c => task'[d] = task[d]
      /\ task'[c].at \in OpenLabels => FinalCheckpoint = 0
  BY ReturnAt DEF BlockedRecord, At, OpenLabels, TipInv
<1>3. \/ journal' = journal
      \/ \E w \in JournalEntries :
            Write(w) /\ (w \in CheckpointEntries => FinalCheckpoint = 0)
  BY NotClosing DEF BlockedRecord, At, OpenLabels, TipInv, JournalEntries, CheckpointEntries, FinalReasons, evidence
<1>4. task'[c].at \in OpenLabels => Quiet
  BY ReturnAt DEF BlockedRecord, OpenLabels, Quiet, JournalEntries, FinalReasons, evidence
<1> QED BY <1>1, <1>2, <1>3, <1>4 DEF TipMoves

LEMMA PendingRecordTip ==
    ASSUME IInv, TipInv, NEW c \in Callers, PendingRecord(c)
    PROVE  TipMoves(c)
<1>1. \A d \in Callers : d # c => At(d, "idle")
  BY OneBusy DEF PendingRecord, At
<1>2. /\ \A d \in Callers : d # c => task'[d] = task[d]
      /\ task'[c].at \in OpenLabels => FinalCheckpoint = 0
  BY GoAt DEF PendingRecord, At, OpenLabels, TipInv
<1>3. \/ journal' = journal
      \/ \E w \in JournalEntries :
            Write(w) /\ (w \in CheckpointEntries => FinalCheckpoint = 0)
  BY NotClosing DEF PendingRecord, At, OpenLabels, TipInv, JournalEntries, CheckpointEntries, FinalReasons, evidence
<1>4. task'[c].at \in OpenLabels => Quiet
  BY GoAt DEF PendingRecord, OpenLabels, Quiet, JournalEntries, FinalReasons, evidence
<1> QED BY <1>1, <1>2, <1>3, <1>4 DEF TipMoves

LEMMA VerdictRecordTip ==
    ASSUME IInv, TipInv, NEW c \in Callers, VerdictRecord(c)
    PROVE  TipMoves(c)
<1>1. \A d \in Callers : d # c => At(d, "idle")
  BY OneBusy DEF VerdictRecord, At
<1>2. /\ \A d \in Callers : d # c => task'[d] = task[d]
      /\ task'[c].at \in OpenLabels => FinalCheckpoint = 0
  BY GoAt, ReturnAt DEF VerdictRecord, At, OpenLabels, TipInv
<1>3. \/ journal' = journal
      \/ \E w \in JournalEntries :
            Write(w) /\ (w \in CheckpointEntries => FinalCheckpoint = 0)
  BY NotClosing DEF VerdictRecord, At, OpenLabels, TipInv, JournalEntries, CheckpointEntries, FinalReasons, evidence
<1>4. task'[c].at \in OpenLabels => Quiet
  BY GoAt, ReturnAt DEF VerdictRecord, OpenLabels, Quiet, JournalEntries, FinalReasons, evidence
<1> QED BY <1>1, <1>2, <1>3, <1>4 DEF TipMoves

LEMMA AbortDecisionTip ==
    ASSUME IInv, TipInv, NEW c \in Callers, AbortDecision(c)
    PROVE  TipMoves(c)
<1>1. \A d \in Callers : d # c => At(d, "idle")
  BY OneBusy DEF AbortDecision, At
<1>2. /\ \A d \in Callers : d # c => task'[d] = task[d]
      /\ task'[c].at \in OpenLabels => FinalCheckpoint = 0
  BY ReturnAt DEF AbortDecision, At, OpenLabels, TipInv
<1>3. \/ journal' = journal
      \/ \E w \in JournalEntries :
            Write(w) /\ (w \in CheckpointEntries => FinalCheckpoint = 0)
  BY NotClosing DEF AbortDecision, At, OpenLabels, TipInv, JournalEntries, CheckpointEntries, FinalReasons, evidence
<1>4. task'[c].at \in OpenLabels => Quiet
  BY ReturnAt DEF AbortDecision, OpenLabels, Quiet, JournalEntries, FinalReasons, evidence
<1> QED BY <1>1, <1>2, <1>3, <1>4 DEF TipMoves

LEMMA AbandonEventTip ==
    ASSUME IInv, TipInv, AbandonEvent
    PROVE  TipMoves("operator")
<1>0. "operator" \in Callers
  BY DEF Callers
<1>1. \A d \in Callers : d # "operator" => At(d, "idle")
  BY <1>0, OneBusy DEF AbandonEvent, At
<1>2. /\ \A d \in Callers : d # "operator" => task'[d] = task[d]
      /\ task'["operator"].at \in OpenLabels => FinalCheckpoint = 0
  BY <1>0, GoAt DEF AbandonEvent, At, OpenLabels, TipInv
<1>3. \/ journal' = journal
      \/ \E w \in JournalEntries :
            Write(w) /\ (w \in CheckpointEntries => FinalCheckpoint = 0)
  BY <1>0, NotClosing DEF AbandonEvent, At, OpenLabels, TipInv, JournalEntries, CheckpointEntries, FinalReasons, evidence
<1>4. task'["operator"].at \in OpenLabels => Quiet
  BY <1>0, GoAt DEF AbandonEvent, OpenLabels, Quiet, JournalEntries, FinalReasons, evidence
<1> QED BY <1>1, <1>2, <1>3, <1>4 DEF TipMoves

LEMMA AbandonRecordTip ==
    ASSUME IInv, TipInv, AbandonRecord
    PROVE  TipMoves("operator")
<1>0. "operator" \in Callers
  BY DEF Callers
<1>1. \A d \in Callers : d # "operator" => At(d, "idle")
  BY <1>0, OneBusy DEF AbandonRecord, At
<1>2. /\ \A d \in Callers : d # "operator" => task'[d] = task[d]
      /\ task'["operator"].at \in OpenLabels => FinalCheckpoint = 0
  BY <1>0, ReturnAt DEF AbandonRecord, At, OpenLabels, TipInv
<1>3. \/ journal' = journal
      \/ \E w \in JournalEntries :
            Write(w) /\ (w \in CheckpointEntries => FinalCheckpoint = 0)
  BY <1>0, NotClosing DEF AbandonRecord, At, OpenLabels, TipInv, JournalEntries, CheckpointEntries, FinalReasons, evidence
<1>4. task'["operator"].at \in OpenLabels => Quiet
  BY <1>0, ReturnAt DEF AbandonRecord, OpenLabels, Quiet, JournalEntries, FinalReasons, evidence
<1> QED BY <1>1, <1>2, <1>3, <1>4 DEF TipMoves

LEMMA CheckSignersTip ==
    ASSUME IInv, TipInv, CheckSigners
    PROVE  TipMoves("driver")
<1>0. "driver" \in Callers
  BY DEF Callers
<1>1. \A d \in Callers : d # "driver" => At(d, "idle")
  BY <1>0, OneBusy DEF CheckSigners, At
<1>2. /\ \A d \in Callers : d # "driver" => task'[d] = task[d]
      /\ task'["driver"].at \in OpenLabels => FinalCheckpoint = 0
  BY <1>0, GoAt, ReturnAt DEF CheckSigners, At, OpenLabels, TipInv
<1>3. \/ journal' = journal
      \/ \E w \in JournalEntries :
            Write(w) /\ (w \in CheckpointEntries => FinalCheckpoint = 0)
  BY <1>0, NotClosing DEF CheckSigners, At, OpenLabels, TipInv, JournalEntries, CheckpointEntries, FinalReasons, evidence
<1>4. task'["driver"].at \in OpenLabels => Quiet
  BY <1>0, GoAt, ReturnAt DEF CheckSigners, OpenLabels, Quiet, JournalEntries, FinalReasons, evidence
<1> QED BY <1>1, <1>2, <1>3, <1>4 DEF TipMoves

LEMMA RecoverPrefixTip ==
    ASSUME IInv, TipInv, RecoverPrefix
    PROVE  TipMoves("driver")
<1>0. "driver" \in Callers
  BY DEF Callers
<1>1. \A d \in Callers : d # "driver" => At(d, "idle")
  BY <1>0, OneBusy DEF RecoverPrefix, At
<1>2. /\ \A d \in Callers : d # "driver" => task'[d] = task[d]
      /\ task'["driver"].at \in OpenLabels => FinalCheckpoint = 0
  BY <1>0, GoAt, ReturnAt, ApplyAt, NotClosing DEF RecoverPrefix, At, OpenLabels, TipInv
<1>3. \/ journal' = journal
      \/ \E w \in JournalEntries :
            Write(w) /\ (w \in CheckpointEntries => FinalCheckpoint = 0)
  BY <1>0, NotClosing DEF RecoverPrefix, At, OpenLabels, TipInv, JournalEntries, CheckpointEntries, FinalReasons, evidence
<1>4. task'["driver"].at \in OpenLabels => Quiet
  BY <1>0, GoAt, ReturnAt, ApplyAt, NotClosing DEF RecoverPrefix, OpenLabels, Quiet, JournalEntries, FinalReasons, evidence
<1> QED BY <1>1, <1>2, <1>3, <1>4 DEF TipMoves

LEMMA RecoveryEventTip ==
    ASSUME IInv, TipInv, RecoveryEvent
    PROVE  TipMoves("driver")
<1>0. "driver" \in Callers
  BY DEF Callers
<1>1. \A d \in Callers : d # "driver" => At(d, "idle")
  BY <1>0, OneBusy DEF RecoveryEvent, At
<1>2. /\ \A d \in Callers : d # "driver" => task'[d] = task[d]
      /\ task'["driver"].at \in OpenLabels => FinalCheckpoint = 0
  BY <1>0, GoAt DEF RecoveryEvent, At, OpenLabels, TipInv
<1>3. \/ journal' = journal
      \/ \E w \in JournalEntries :
            Write(w) /\ (w \in CheckpointEntries => FinalCheckpoint = 0)
  BY <1>0, NotClosing DEF RecoveryEvent, At, OpenLabels, TipInv, JournalEntries, CheckpointEntries, FinalReasons, evidence
<1>4. task'["driver"].at \in OpenLabels => Quiet
  BY <1>0, GoAt DEF RecoveryEvent, OpenLabels, Quiet, JournalEntries, FinalReasons, evidence
<1> QED BY <1>1, <1>2, <1>3, <1>4 DEF TipMoves

LEMMA RecoveryCheckpointTip ==
    ASSUME IInv, TipInv, RecoveryCheckpoint
    PROVE  TipMoves("driver")
<1>0. "driver" \in Callers
  BY DEF Callers
<1>1. state \in RunStates
  BY NormalTypes DEF IInv
<1>2. \A d \in Callers : d # "driver" => At(d, "idle")
  BY <1>0, OneBusy DEF RecoveryCheckpoint, At
<1>3. /\ \A d \in Callers : d # "driver" => task'[d] = task[d]
      /\ task'["driver"].at \in OpenLabels => FinalCheckpoint = 0
  BY <1>0, StageAt, <1>1 DEF RecoveryCheckpoint, At, OpenLabels, TipInv
<1>4. \/ journal' = journal
      \/ \E w \in JournalEntries :
            Write(w) /\ (w \in CheckpointEntries => FinalCheckpoint = 0)
  BY <1>0, NotClosing DEF RecoveryCheckpoint, At, OpenLabels, TipInv, JournalEntries, CheckpointEntries, FinalReasons, evidence
<1>5. task'["driver"].at \in OpenLabels => Quiet
  BY <1>0, StageAt, <1>1 DEF RecoveryCheckpoint, OpenLabels, Quiet, JournalEntries, FinalReasons, evidence
<1> QED BY <1>2, <1>3, <1>4, <1>5 DEF TipMoves

LEMMA GatewayRefusesTip ==
    ASSUME IInv, TipInv, NEW c \in Callers, GatewayRefuses(c)
    PROVE  TipMoves(c)
<1>1. \A d \in Callers : d # c => At(d, "idle")
  BY OneBusy DEF GatewayRefuses, At, ThroughGateway, AtPolicyCheckpoint
<1>2. /\ \A d \in Callers : d # c => task'[d] = task[d]
      /\ task'[c].at \in OpenLabels => FinalCheckpoint = 0
  BY ReturnAt DEF GatewayRefuses, At, OpenLabels, TipInv
<1>3. \/ journal' = journal
      \/ \E w \in JournalEntries :
            Write(w) /\ (w \in CheckpointEntries => FinalCheckpoint = 0)
  BY NotClosing DEF GatewayRefuses, At, OpenLabels, TipInv, JournalEntries, CheckpointEntries, FinalReasons, evidence
<1>4. task'[c].at \in OpenLabels => Quiet
  BY ReturnAt DEF GatewayRefuses, OpenLabels, Quiet, JournalEntries, FinalReasons, evidence
<1> QED BY <1>1, <1>2, <1>3, <1>4 DEF TipMoves

LEMMA CallFailsTip ==
    ASSUME IInv, TipInv, NEW c \in Callers, CallFails(c)
    PROVE  TipMoves(c)
<1>1. \A d \in Callers : d # c => At(d, "idle")
  BY OneBusy DEF CallFails, At
<1>2. /\ \A d \in Callers : d # c => task'[d] = task[d]
      /\ task'[c].at \in OpenLabels => FinalCheckpoint = 0
  BY ReturnAt DEF CallFails, At, OpenLabels, TipInv
<1>3. \/ journal' = journal
      \/ \E w \in JournalEntries :
            Write(w) /\ (w \in CheckpointEntries => FinalCheckpoint = 0)
  BY NotClosing DEF CallFails, At, OpenLabels, TipInv, JournalEntries, CheckpointEntries, FinalReasons, evidence
<1>4. task'[c].at \in OpenLabels => Quiet
  BY ReturnAt DEF CallFails, OpenLabels, Quiet, JournalEntries, FinalReasons, evidence
<1> QED BY <1>1, <1>2, <1>3, <1>4 DEF TipMoves

LEMMA LoseTurnRecordTip ==
    ASSUME IInv, TipInv, LoseTurnRecord
    PROVE  TipMoves("driver")
<1>0. "driver" \in Callers
  BY DEF Callers
<1>1. \A d \in Callers : d # "driver" => At(d, "idle")
  BY <1>0, OneBusy DEF LoseTurnRecord, At
<1>2. /\ \A d \in Callers : d # "driver" => task'[d] = task[d]
      /\ task'["driver"].at \in OpenLabels => FinalCheckpoint = 0
  BY <1>0, ReturnAt DEF LoseTurnRecord, At, OpenLabels, TipInv
<1>3. \/ journal' = journal
      \/ \E w \in JournalEntries :
            Write(w) /\ (w \in CheckpointEntries => FinalCheckpoint = 0)
  BY <1>0, NotClosing DEF LoseTurnRecord, At, OpenLabels, TipInv, JournalEntries, CheckpointEntries, FinalReasons, evidence
<1>4. task'["driver"].at \in OpenLabels => Quiet
  BY <1>0, ReturnAt DEF LoseTurnRecord, OpenLabels, Quiet, JournalEntries, FinalReasons, evidence
<1> QED BY <1>1, <1>2, <1>3, <1>4 DEF TipMoves

LEMMA StartStepTip ==
    ASSUME IInv, TipInv, ~Overlap, StartStep
    PROVE  TipMoves("driver")
<1>0. "driver" \in Callers
  BY DEF Callers
<1>1. \A d \in Callers : d # "driver" => At(d, "idle")
  BY DEF StartStep, DriverFree, Callers
<1>2. \A d \in Callers : d # "driver" => task'[d] = task[d]
  BY <1>0, NormalTypes DEF StartStep, IInv
<1>3. FinalCheckpoint = 0
  BY NotClosing DEF StartStep, DriverFree, AcceptsTurns, Closing
<1>4. journal' = journal
  BY DEF StartStep, evidence
<1> QED BY <1>1, <1>2, <1>3, <1>4 DEF TipMoves, Quiet

LEMMA ExecuteTurnTip ==
    ASSUME IInv, TipInv, ExecuteTurn
    PROVE  TipMoves("driver")
<1>0. "driver" \in Callers /\ "turn-record" \in Labels
  BY DEF Callers, Labels
<1>1. \A d \in Callers : d # "driver" => At(d, "idle")
  BY <1>0, OneBusy DEF ExecuteTurn, At
<1>2. PICK trigger \in BOOLEAN :
        task' = [task EXCEPT !["driver"].at = "turn-record", !["driver"].trigger = trigger]
  BY DEF ExecuteTurn
<1>3. \A d \in Callers : d # "driver" => task'[d] = task[d]
  BY <1>0, <1>2, SetEffect, NormalTypes DEF IInv
<1>4. FinalCheckpoint = 0
  BY <1>0 DEF ExecuteTurn, At, OpenLabels, TipInv
<1>5. Quiet
  BY DEF ExecuteTurn, Quiet, JournalEntries, FinalReasons
<1> QED BY <1>1, <1>3, <1>4, <1>5 DEF TipMoves, Quiet

LEMMA AbortEventTip ==
    ASSUME IInv, TipInv, NEW c \in Callers, AbortEvent(c)
    PROVE  TipMoves(c)
<1>1. \A d \in Callers : d # c => At(d, "idle")
  BY OneBusy DEF AbortEvent, At
<1>2. \A d \in Callers : d # c => task'[d] = task[d]
  BY NormalTypes, SetEffect DEF AbortEvent, Labels, IInv
<1>3. FinalCheckpoint = 0
  BY DEF AbortEvent, At, OpenLabels, TipInv
<1>4. Quiet
  BY DEF AbortEvent, Quiet, JournalEntries, FinalReasons
<1> QED BY <1>1, <1>2, <1>3, <1>4 DEF TipMoves, Quiet

LEMMA SealCheckTip ==
    ASSUME IInv, TipInv, NEW c \in Callers, SealCheck(c)
    PROVE  TipMoves(c)
<1>1. \A d \in Callers : d # c => At(d, "idle")
  BY OneBusy DEF SealCheck, At
<1>2. {"anchor", "seal-a"} \subseteq Labels /\ "anchor" \notin OpenLabels
  BY DEF Labels, OpenLabels
<1>3. CASE SealEvidenceExists
  <2>1. PICK b \in BOOLEAN : b = (journal[FinalCheckpoint] = "run-aborted")
    OBVIOUS
  <2>2. task' = [task EXCEPT ![c].at = "anchor", ![c].aborted = b] /\ journal' = journal
    BY <1>3, <2>1 DEF SealCheck
  <2>3. task'[c].at = "anchor" /\ \A d \in Callers : d # c => task'[d] = task[d]
    BY <1>2, <2>2, SetEffect, NormalTypes, ZenonT(60) DEF IInv
  <2> QED BY <1>1, <1>2, <2>2, <2>3 DEF TipMoves
<1>4. CASE ~SealEvidenceExists
  <2>1. FinalCheckpoint = 0
    BY <1>4, NotClosing
  <2>2. Go(c, "seal-a") /\ Quiet
    BY <1>4 DEF SealCheck, PolicyCheckpoint, Quiet, JournalEntries, FinalReasons
  <2>3. \A d \in Callers : d # c => task'[d] = task[d]
    BY <2>2, GoAt
  <2> QED BY <1>1, <2>1, <2>2, <2>3 DEF TipMoves, Quiet
<1> QED BY <1>3, <1>4

LEMMA RunSealedEventTip ==
    ASSUME IInv, TipInv, NEW c \in Callers, RunSealedEvent(c)
    PROVE  TipMoves(c)
<1>1. \A d \in Callers : d # c => At(d, "idle")
  BY OneBusy DEF RunSealedEvent, At
<1>2. \A d \in Callers : d # c => task'[d] = task[d]
  BY GoAt DEF RunSealedEvent
<1>3. FinalCheckpoint = 0
  BY DEF RunSealedEvent, At, OpenLabels, TipInv
<1>4. journal' = journal
  BY DEF RunSealedEvent
<1> QED BY <1>1, <1>2, <1>3, <1>4 DEF TipMoves, Quiet

LEMMA VerifyTip ==
    ASSUME IInv, TipInv, NEW c \in Callers, Verify(c)
    PROVE  TipMoves(c)
<1>1. \A d \in Callers : d # c => At(d, "idle")
  BY OneBusy DEF Verify, At
<1>2. PICK passed \in BOOLEAN :
        task' = [task EXCEPT ![c].at = "verdict-record", ![c].passed = passed]
  BY DEF Verify
<1>3. task'[c].at = "verdict-record" /\ \A d \in Callers : d # c => task'[d] = task[d]
  BY <1>2, SetEffect, NormalTypes DEF Labels, IInv
<1>4. \/ journal' = journal
      \/ \E w \in JournalEntries : Write(w) /\ w \notin CheckpointEntries
  BY DEF Verify, JournalEntries, CheckpointEntries, FinalReasons
<1> QED BY <1>1, <1>3, <1>4 DEF TipMoves, OpenLabels

LEMMA StartRecoverTip ==
    ASSUME IInv, TipInv, ~Overlap, StartRecover
    PROVE  TipMoves("driver")
<1>0. "driver" \in Callers
  BY DEF Callers
<1>1. \A d \in Callers : d # "driver" => At(d, "idle")
  BY DEF StartRecover, Callers
<1>2. journal' = journal /\ At("driver", "idle")
  BY DEF StartRecover, evidence
<1>3. CASE task' = task
  BY <1>1, <1>2, <1>3 DEF TipMoves, At, OpenLabels
<1>4. CASE Go("driver", "signers")
  BY <1>0, <1>1, <1>2, <1>4, GoAt DEF TipMoves, OpenLabels
<1> QED BY <1>3, <1>4 DEF StartRecover

LEMMA CreateRunTip ==
    ASSUME IInv, TipInv, CreateRun
    PROVE  TipMoves("driver")
<1>0. "driver" \in Callers
  BY DEF Callers
<1>1. \A d \in Callers : task[d] = Idle
  BY DEF CreateRun, IInv, Shape
<1>2. FinalCheckpoint = 0
  BY DEF CreateRun, IInv, Shape, FinalCheckpoint
<1>3. \A d \in Callers : d # "driver" => task'[d] = task[d]
  BY <1>0, GoAt DEF CreateRun
<1> QED BY <1>1, <1>2, <1>3, IdleTask DEF TipMoves, CreateRun, At, Quiet

LEMMA ForkTip ==
    ASSUME TipInv, Fork
    PROVE  TipInv'
<1>1. journal' = journal /\ task' = task
  BY DEF Fork
<1> QED BY <1>1, SameEvidence DEF TipInv, FinalCheckpointIsTip, At

LEMMA CrashTip ==
    ASSUME TipInv, Crash
    PROVE  TipInv'
<1>1. journal' = journal /\ "driver" \in Callers /\ \A c \in Callers : task'[c] = Idle
  BY DEF Crash, Callers
<1>2. Idle.at \notin OpenLabels /\ Idle.at = "idle"
  BY DEF Idle, OpenLabels
<1> QED BY <1>1, <1>2, SameEvidence DEF TipInv, FinalCheckpointIsTip, At

LEMMA TipInit == Init => TipInv
<1> SUFFICES ASSUME Init PROVE TipInv
  OBVIOUS
<1>1. FinalCheckpoint = 0 /\ "driver" \in Callers /\ At("driver", "idle")
  BY DEF Init, FinalCheckpoint, Callers, At, Idle
<1> QED BY <1>1 DEF TipInv, FinalCheckpointIsTip

LEMMA SealTip ==
    ASSUME IInv, TipInv, NEW c \in Callers, Seal(c)
    PROVE  TipMoves(c)
BY SealCheckTip, RunSealedEventTip, CreateFinalCheckpointTip, AnchorTip,
   BlockedRecordTip, PendingRecordTip, VerifyTip, VerdictRecordTip, AbortDecisionTip
   DEF Seal

LEMMA TurnTip ==
    ASSUME IInv, TipInv, Turn
    PROVE  TipMoves("driver")
BY ExecuteTurnTip, AppendTurnRecordTip, ScheduleRepairTip, EventBoundariesTip,
   PauseNotAvailableTip DEF Turn

LEMMA RecoveryTip ==
    ASSUME IInv, TipInv, Recovery
    PROVE  TipMoves("driver")
BY CheckSignersTip, RecoverPrefixTip, RecoveryEventTip, RecoveryCheckpointTip
   DEF Recovery

LEMMA InterventionTip ==
    ASSUME IInv, TipInv, Intervention
    PROVE  TipMoves("operator")
BY PauseEventTip, ResumePrefixTip, ResumeEventTip, ResumeCheckpointTip,
   AnnotateEventTip, AnnotateCheckTip, AnnotateCheckpointTip, AnnotateRecordTip,
   RetryEventTip, AbandonEventTip, AbandonRecordTip DEF Intervention

LEMMA OperatorTip ==
    ASSUME IInv, TipInv, ~Overlap, Operator
    PROVE  TipMoves("operator")
BY StartPauseTip, StartResumeTip, StartAnnotateTip, StartAbortTip,
   StartRetrySealTip, StartAbandonSealTip DEF Operator

LEMMA ProceedTip ==
    ASSUME IInv, TipInv, NEW c \in Callers, Proceed(c)
    PROVE  TipMoves(c)
BY InitialRecordTip, CheckpointZeroTip, TurnTip, RecoveryTip, InterventionTip,
   BeginEvaluationTip, PauseCheckpointTip, AbortEventTip, AbortRecordTip,
   SealTip, GatewayRefusesTip DEF Proceed

LEMMA TipNext ==
    ASSUME ~Overlap
    PROVE  IInv /\ TipInv /\ [Next]_vars => TipInv'
<1> SUFFICES ASSUME IInv, TipInv, [Next]_vars PROVE TipInv'
  OBVIOUS
<1>1. CASE UNCHANGED vars
  BY <1>1, SameEvidence DEF vars, TipInv, FinalCheckpointIsTip, At
<1>2. CASE \E c \in Callers : TipMoves(c)
  BY <1>2, TipKept
<1>3. "driver" \in Callers /\ "operator" \in Callers
  BY DEF Callers
<1>4. CASE Next
  BY <1>2, <1>3, <1>4, CreateRunTip, StartStepTip, StartSealTip, StartRecoverTip, OperatorTip,
     ProceedTip, CallFailsTip, LoseTurnRecordTip, ForkTip, CrashTip DEF Next
<1> QED BY <1>1, <1>4

\* While the calls of the driver and of the operator do not overlap, whatever
\* else goes wrong, a valid record is covered by an anchored final checkpoint of
\* the completed run, and no later checkpoint displaces that one.
THEOREM SealCovers ==
    ASSUME ~Overlap
    PROVE  Spec => []SealIsCovered
<1>1. Init => TipInv
  BY TipInit
<1>2. IInv /\ TipInv => SealIsCovered
  BY DEF IInv, SealInv, TipInv, SealIsCovered, ValidIsAnchored, Completed, Confirmed
<1> QED BY <1>1, <1>2, IInvHolds, TipNext, PTL DEF Spec

---------------------------------------------------------------------------
(* A pause holds until the resume that answers it *)

\* The states that no turn starts in.
Stopped == {"pausing", "paused", "resuming"} \cup Closing

PauseEntries == {"pause", "pause-checkpoint"}

\* What the evidence says of a pause, the state says too, at least until the
\* resume is written.
PauseInv ==
    /\ loaded /\ PausedByEvidence => state \in Stopped
    /\ At("operator", "resume-checkpoint") /\ state \notin Closing => ~PausedByEvidence

\* A step of caller c, as this invariant sees it.
PauseMoves(c) ==
    /\ loaded
    /\ \A d \in Callers : d # c => task'[d] = task[d]
    /\ task'[c].at # "channel" /\ (task'[c].at = "turn-record" => At(c, "channel"))
    /\ state' \notin Stopped => state \notin Stopped
                                \/ (At(c, "resume-checkpoint") /\ state = "resuming")
    /\ c = "driver" /\ state' = "resuming" => state = "resuming"
    /\ \/ At(c, "resume") /\ Write("resume")
       \/ /\ \/ journal' = journal
             \/ \E w \in JournalEntries \ (PauseEntries \cup {"resume"}) : Write(w)
          /\ task'[c].at # "resume-checkpoint"
       \/ /\ \E w \in PauseEntries : Write(w)
          /\ state' \in {"pausing", "paused"} \cup Closing
          /\ task'[c].at # "resume-checkpoint"

\* The last entry of a kind, after an entry of another kind or of this one.
LEMMA LastIsNext ==
    ASSUME NEW CONSTANT whats
    PROVE  journal' \in Seq(JournalEntries) =>
        \/ /\ LastOf(whats)' = 0
           /\ \A i \in DOMAIN journal' : journal'[i] \notin whats
        \/ /\ LastOf(whats)' \in DOMAIN journal'
           /\ journal'[LastOf(whats)'] \in whats
           /\ \A i \in DOMAIN journal' : journal'[i] \in whats => i <= LastOf(whats)'
<1>1. (journal \in Seq(JournalEntries) =>
        \/ /\ LastOf(whats) = 0
           /\ \A i \in DOMAIN journal : journal[i] \notin whats
        \/ /\ LastOf(whats) \in DOMAIN journal
           /\ journal[LastOf(whats)] \in whats
           /\ \A i \in DOMAIN journal : journal[i] \in whats => i <= LastOf(whats))'
  BY LastIs, PTL
<1> QED BY <1>1

LEMMA LastMoves ==
    ASSUME NEW CONSTANT whats, journal \in Seq(JournalEntries), NEW w \in JournalEntries, Write(w)
    PROVE  /\ LastOf(whats) \in 0..Len(journal)
           /\ w \notin whats => LastOf(whats)' = LastOf(whats)
           /\ w \in whats => LastOf(whats)' = Len(journal) + 1
<1>1. /\ journal' \in Seq(JournalEntries)
      /\ DOMAIN journal = 1..Len(journal) /\ DOMAIN journal' = 1..(Len(journal) + 1)
      /\ Len(journal) \in Nat
      /\ \A i \in DOMAIN journal : journal'[i] = journal[i]
      /\ journal'[Len(journal) + 1] = w
  BY WriteEffect
<1> DEFINE f == LastOf(whats)
           g == LastOf(whats)'
           n == Len(journal)
<1>2. \/ f = 0 /\ \A i \in 1..n : journal[i] \notin whats
      \/ /\ f \in 1..n /\ journal[f] \in whats
         /\ \A i \in 1..n : journal[i] \in whats => i <= f
  BY <1>1, LastIs
<1>3. \/ g = 0 /\ \A i \in 1..(n + 1) : journal'[i] \notin whats
      \/ /\ g \in 1..(n + 1) /\ journal'[g] \in whats
         /\ \A i \in 1..(n + 1) : journal'[i] \in whats => i <= g
  BY <1>1, LastIsNext
<1>4. (\A i \in 1..n : journal'[i] = journal[i]) /\ journal'[n + 1] = w /\ n \in Nat
  BY <1>1
<1> HIDE DEF f, g, n
<1>5. f \in 0..n
  BY <1>2, <1>4
<1>6. w \notin whats => g = f
  BY <1>2, <1>3, <1>4
<1>7. w \in whats => g = n + 1
  BY <1>2, <1>3, <1>4
<1> QED BY <1>5, <1>6, <1>7 DEF f, g, n

LEMMA PausedMoves ==
    ASSUME journal \in Seq(JournalEntries)
    PROVE  /\ journal' = journal => (PausedByEvidence' <=> PausedByEvidence)
           /\ \A w \in JournalEntries \ (PauseEntries \cup {"resume"}) :
                Write(w) => (PausedByEvidence' <=> PausedByEvidence)
           /\ Write("resume") => ~PausedByEvidence'
<1>1. journal' = journal => (PausedByEvidence' <=> PausedByEvidence)
  BY DEF PausedByEvidence, LastOf
<1>2. ASSUME NEW w \in JournalEntries \ (PauseEntries \cup {"resume"}), Write(w)
      PROVE  PausedByEvidence' <=> PausedByEvidence
  <2>1. LastOf({"pause", "pause-checkpoint"})' = LastOf({"pause", "pause-checkpoint"})
    BY <1>2, LastMoves DEF PauseEntries
  <2>2. LastOf({"resume"})' = LastOf({"resume"})
    BY <1>2, LastMoves
  <2> QED BY <2>1, <2>2 DEF PausedByEvidence
<1>3. ASSUME Write("resume") PROVE ~PausedByEvidence'
  <2>0. "resume" \in JournalEntries /\ Len(journal) \in Nat
    BY DEF JournalEntries
  <2>1. /\ LastOf({"pause", "pause-checkpoint"})' = LastOf({"pause", "pause-checkpoint"})
        /\ LastOf({"pause", "pause-checkpoint"}) \in 0..Len(journal)
    BY <1>3, <2>0, LastMoves
  <2>2. LastOf({"resume"})' = Len(journal) + 1
    BY <1>3, <2>0, LastMoves
  <2> QED BY <2>0, <2>1, <2>2 DEF PausedByEvidence
<1> QED BY <1>1, <1>2, <1>3

LEMMA PauseKept ==
    ASSUME IInv, IInv', PauseInv, NEW c \in Callers, PauseMoves(c)
    PROVE  PauseInv' /\ ~StartsTurn
<1>0. journal \in Seq(JournalEntries) /\ "operator" \in Callers /\ "driver" \in Callers
  BY NormalTypes DEF IInv, Callers
<1>1. ~StartsTurn
  <2>1. CASE c = "driver"
    BY <2>1 DEF PauseMoves, StartsTurn
  <2>2. CASE c # "driver"
    BY <1>0, <2>2 DEF PauseMoves, StartsTurn, At
  <2> QED BY <2>1, <2>2
<1>2. At(c, "resume-checkpoint") => c = "operator"
  BY DEF IInv, CallsInv, CallOf, At, ResumeLabels
<1>3. At("operator", "resume-checkpoint")' => state' \in {"resuming"} \cup Closing
  BY <1>0 DEF IInv, CallsInv, CallOf, At, ResumeLabels
<1>4. CASE At(c, "resume") /\ Write("resume")
  BY <1>0, <1>1, <1>4, PausedMoves DEF PauseInv
<1>5. CASE /\ \/ journal' = journal
              \/ \E w \in JournalEntries \ (PauseEntries \cup {"resume"}) : Write(w)
           /\ task'[c].at # "resume-checkpoint"
  <2>1. PausedByEvidence' <=> PausedByEvidence
    BY <1>0, <1>5, PausedMoves
  <2>2. PausedByEvidence => state' \in Stopped
    BY <1>2, <2>1 DEF PauseInv, PauseMoves, Closing
  <2>3. At("operator", "resume-checkpoint")' /\ state' \notin Closing => ~PausedByEvidence
    <3>1. SUFFICES ASSUME At("operator", "resume-checkpoint")', state' \notin Closing
                   PROVE  ~PausedByEvidence
      OBVIOUS
    <3>2. c = "driver" /\ At("operator", "resume-checkpoint") /\ state' = "resuming"
      BY <1>0, <1>3, <1>5, <3>1 DEF PauseMoves, At, Callers
    <3>3. state = "resuming"
      BY <3>2 DEF PauseMoves
    <3> QED BY <3>2, <3>3 DEF PauseInv, Closing
  <2> QED BY <1>1, <2>1, <2>2, <2>3 DEF PauseInv
<1>6. CASE /\ \E w \in PauseEntries : Write(w)
           /\ state' \in {"pausing", "paused"} \cup Closing
           /\ task'[c].at # "resume-checkpoint"
  <2>1. state' \in Stopped /\ state' # "resuming"
    BY <1>6 DEF Stopped, Closing
  <2> QED BY <1>1, <1>3, <1>6, <2>1 DEF PauseInv
<1> QED BY <1>4, <1>5, <1>6 DEF PauseMoves

LEMMA InitialRecordPause ==
    ASSUME IInv, InitialRecord
    PROVE  PauseMoves("driver")
<1>0. "driver" \in Callers
  BY DEF Callers
<1>1. loaded /\ ~At("driver", "idle")
  BY <1>0, Busy DEF InitialRecord, At, IInv
<1>2. /\ \A d \in Callers : d # "driver" => task'[d] = task[d]
      /\ task'["driver"].at \notin {"channel", "turn-record", "resume-checkpoint"}
  BY <1>0, GoAt DEF InitialRecord
<1>3. /\ state' \notin Stopped => state \notin Stopped
                            \/ (At("driver", "resume-checkpoint") /\ state = "resuming")
      /\ "driver" = "driver" /\ state' = "resuming" => state = "resuming"
  BY DEF InitialRecord, Stopped, Closing
<1>4. \/ journal' = journal
      \/ \E w \in JournalEntries \ (PauseEntries \cup {"resume"}) : Write(w)
  BY DEF InitialRecord, JournalEntries, PauseEntries, FinalReasons, evidence
<1> QED BY <1>1, <1>2, <1>3, <1>4 DEF PauseMoves

LEMMA CheckpointZeroPause ==
    ASSUME IInv, CheckpointZero
    PROVE  PauseMoves("driver")
<1>0. "driver" \in Callers
  BY DEF Callers
<1>1. loaded /\ ~At("driver", "idle")
  BY <1>0, Busy DEF CheckpointZero, At, IInv
<1>2. /\ \A d \in Callers : d # "driver" => task'[d] = task[d]
      /\ task'["driver"].at \notin {"channel", "turn-record", "resume-checkpoint"}
  BY <1>0, ReturnAt, StageAt, TransitionStates DEF CheckpointZero
<1>3. /\ state' \notin Stopped => state \notin Stopped
                            \/ (At("driver", "resume-checkpoint") /\ state = "resuming")
      /\ "driver" = "driver" /\ state' = "resuming" => state = "resuming"
  BY <1>0, StageEffect, TransitionStates, Applicable DEF CheckpointZero, Stopped, Closing
<1>4. \/ journal' = journal
      \/ \E w \in JournalEntries \ (PauseEntries \cup {"resume"}) : Write(w)
  BY DEF CheckpointZero, JournalEntries, PauseEntries, FinalReasons, evidence
<1> QED BY <1>1, <1>2, <1>3, <1>4 DEF PauseMoves

LEMMA BeginEvaluationPause ==
    ASSUME IInv, NEW c \in Callers, BeginEvaluation(c)
    PROVE  PauseMoves(c)
<1>5. state \in RunStates
  BY NormalTypes DEF IInv
<1>1. loaded /\ ~At(c, "idle")
  BY Busy DEF BeginEvaluation, At, IInv
<1>2. /\ \A d \in Callers : d # c => task'[d] = task[d]
      /\ task'[c].at \notin {"channel", "turn-record", "resume-checkpoint"}
  BY ApplyAt DEF BeginEvaluation
<1>3. /\ state' \notin Stopped => state \notin Stopped
                            \/ (At(c, "resume-checkpoint") /\ state = "resuming")
      /\ c = "driver" /\ state' = "resuming" => state = "resuming"
  BY ApplyEffect, Applicable, Arrivals, <1>5 DEF BeginEvaluation, Stopped, Closing
<1>4. \/ journal' = journal
      \/ \E w \in JournalEntries \ (PauseEntries \cup {"resume"}) : Write(w)
  BY DEF BeginEvaluation, JournalEntries, PauseEntries, FinalReasons, evidence, PolicyCheckpoint
<1> QED BY <1>1, <1>2, <1>3, <1>4 DEF PauseMoves

LEMMA StartSealPause ==
    ASSUME IInv, StartSeal
    PROVE  PauseMoves("driver")
<1>0. "driver" \in Callers
  BY DEF Callers
<1>1. loaded
  BY DEF StartSeal, DriverFree
<1>2. /\ \A d \in Callers : d # "driver" => task'[d] = task[d]
      /\ task'["driver"].at \notin {"channel", "turn-record", "resume-checkpoint"}
  BY <1>0, GoAt DEF StartSeal
<1>3. /\ state' \notin Stopped => state \notin Stopped
                            \/ (At("driver", "resume-checkpoint") /\ state = "resuming")
      /\ "driver" = "driver" /\ state' = "resuming" => state = "resuming"
  BY DEF StartSeal, Stopped, Closing
<1>4. \/ journal' = journal
      \/ \E w \in JournalEntries \ (PauseEntries \cup {"resume"}) : Write(w)
  BY DEF StartSeal, JournalEntries, PauseEntries, FinalReasons, evidence
<1> QED BY <1>1, <1>2, <1>3, <1>4 DEF PauseMoves

LEMMA AppendTurnRecordPause ==
    ASSUME IInv, AppendTurnRecord
    PROVE  PauseMoves("driver")
<1>0. "driver" \in Callers
  BY DEF Callers
<1>1. loaded /\ ~At("driver", "idle")
  BY <1>0, Busy DEF AppendTurnRecord, At, IInv
<1>2. /\ \A d \in Callers : d # "driver" => task'[d] = task[d]
      /\ task'["driver"].at \notin {"channel", "turn-record", "resume-checkpoint"}
  BY <1>0, GoAt DEF AppendTurnRecord
<1>3. /\ state' \notin Stopped => state \notin Stopped
                            \/ (At("driver", "resume-checkpoint") /\ state = "resuming")
      /\ "driver" = "driver" /\ state' = "resuming" => state = "resuming"
  BY DEF AppendTurnRecord, Stopped, Closing
<1>4. \/ journal' = journal
      \/ \E w \in JournalEntries \ (PauseEntries \cup {"resume"}) : Write(w)
  BY DEF AppendTurnRecord, JournalEntries, PauseEntries, FinalReasons, evidence
<1> QED BY <1>1, <1>2, <1>3, <1>4 DEF PauseMoves

LEMMA ScheduleRepairPause ==
    ASSUME IInv, ScheduleRepair
    PROVE  PauseMoves("driver")
<1>0. "driver" \in Callers
  BY DEF Callers
<1>1. loaded /\ ~At("driver", "idle")
  BY <1>0, Busy DEF ScheduleRepair, At, IInv
<1>2. /\ \A d \in Callers : d # "driver" => task'[d] = task[d]
      /\ task'["driver"].at \notin {"channel", "turn-record", "resume-checkpoint"}
  BY <1>0, GoAt DEF ScheduleRepair
<1>3. /\ state' \notin Stopped => state \notin Stopped
                            \/ (At("driver", "resume-checkpoint") /\ state = "resuming")
      /\ "driver" = "driver" /\ state' = "resuming" => state = "resuming"
  BY DEF ScheduleRepair, Stopped, Closing
<1>4. \/ journal' = journal
      \/ \E w \in JournalEntries \ (PauseEntries \cup {"resume"}) : Write(w)
  BY DEF ScheduleRepair, JournalEntries, PauseEntries, FinalReasons, evidence
<1> QED BY <1>1, <1>2, <1>3, <1>4 DEF PauseMoves

LEMMA EventBoundariesPause ==
    ASSUME IInv, EventBoundaries
    PROVE  PauseMoves("driver")
<1>0. "driver" \in Callers
  BY DEF Callers
<1>5. state \in RunStates
  BY NormalTypes DEF IInv
<1>1. loaded /\ ~At("driver", "idle")
  BY <1>0, Busy DEF EventBoundaries, At, IInv
<1>2. /\ \A d \in Callers : d # "driver" => task'[d] = task[d]
      /\ task'["driver"].at \notin {"channel", "turn-record", "resume-checkpoint"}
  BY <1>0, GoAt, StageAt, <1>5 DEF EventBoundaries
<1>3. /\ state' \notin Stopped => state \notin Stopped
                            \/ (At("driver", "resume-checkpoint") /\ state = "resuming")
      /\ "driver" = "driver" /\ state' = "resuming" => state = "resuming"
  BY <1>0, StageEffect, <1>5 DEF EventBoundaries, Stopped, Closing
<1>4. \/ journal' = journal
      \/ \E w \in JournalEntries \ (PauseEntries \cup {"resume"}) : Write(w)
  BY DEF EventBoundaries, JournalEntries, PauseEntries, FinalReasons, evidence
<1> QED BY <1>1, <1>2, <1>3, <1>4 DEF PauseMoves

LEMMA PauseNotAvailablePause ==
    ASSUME IInv, PauseNotAvailable
    PROVE  PauseMoves("driver")
<1>0. "driver" \in Callers
  BY DEF Callers
<1>5. state \in RunStates
  BY NormalTypes DEF IInv
<1>1. loaded /\ ~At("driver", "idle")
  BY <1>0, Busy DEF PauseNotAvailable, At, IInv
<1>2. /\ \A d \in Callers : d # "driver" => task'[d] = task[d]
      /\ task'["driver"].at \notin {"channel", "turn-record", "resume-checkpoint"}
  BY <1>0, GoAt, StageAt, <1>5 DEF PauseNotAvailable
<1>3. /\ state' \notin Stopped => state \notin Stopped
                            \/ (At("driver", "resume-checkpoint") /\ state = "resuming")
      /\ "driver" = "driver" /\ state' = "resuming" => state = "resuming"
  BY <1>0, StageEffect, <1>5 DEF PauseNotAvailable, Stopped, Closing
<1>4. \/ journal' = journal
      \/ \E w \in JournalEntries \ (PauseEntries \cup {"resume"}) : Write(w)
  BY DEF PauseNotAvailable, JournalEntries, PauseEntries, FinalReasons, evidence
<1> QED BY <1>1, <1>2, <1>3, <1>4 DEF PauseMoves

LEMMA StartPausePause ==
    ASSUME IInv, StartPause
    PROVE  PauseMoves("operator")
<1>0. "operator" \in Callers
  BY DEF Callers
<1>1. loaded
  BY DEF StartPause, OperatorCalls
<1>2. /\ \A d \in Callers : d # "operator" => task'[d] = task[d]
      /\ task'["operator"].at \notin {"channel", "turn-record", "resume-checkpoint"}
  BY <1>0, GoAt DEF StartPause
<1>3. /\ state' \notin Stopped => state \notin Stopped
                            \/ (At("operator", "resume-checkpoint") /\ state = "resuming")
      /\ "operator" = "driver" /\ state' = "resuming" => state = "resuming"
  BY <1>0, Applicable DEF StartPause, Stopped, Closing
<1>4. \/ journal' = journal
      \/ \E w \in JournalEntries \ (PauseEntries \cup {"resume"}) : Write(w)
  BY DEF StartPause, JournalEntries, PauseEntries, FinalReasons, evidence
<1> QED BY <1>1, <1>2, <1>3, <1>4 DEF PauseMoves

LEMMA StartResumePause ==
    ASSUME IInv, StartResume
    PROVE  PauseMoves("operator")
<1>0. "operator" \in Callers
  BY DEF Callers
<1>1. loaded
  BY DEF StartResume, OperatorCalls
<1>2. /\ \A d \in Callers : d # "operator" => task'[d] = task[d]
      /\ task'["operator"].at \notin {"channel", "turn-record", "resume-checkpoint"}
  BY <1>0, GoAt DEF StartResume
<1>3. /\ state' \notin Stopped => state \notin Stopped
                            \/ (At("operator", "resume-checkpoint") /\ state = "resuming")
      /\ "operator" = "driver" /\ state' = "resuming" => state = "resuming"
  BY DEF StartResume, Stopped, Closing
<1>4. \/ journal' = journal
      \/ \E w \in JournalEntries \ (PauseEntries \cup {"resume"}) : Write(w)
  BY DEF StartResume, JournalEntries, PauseEntries, FinalReasons, evidence
<1> QED BY <1>1, <1>2, <1>3, <1>4 DEF PauseMoves

LEMMA StartAnnotatePause ==
    ASSUME IInv, StartAnnotate
    PROVE  PauseMoves("operator")
<1>0. "operator" \in Callers
  BY DEF Callers
<1>1. loaded
  BY DEF StartAnnotate, OperatorCalls
<1>2. /\ \A d \in Callers : d # "operator" => task'[d] = task[d]
      /\ task'["operator"].at \notin {"channel", "turn-record", "resume-checkpoint"}
  BY <1>0, GoAt DEF StartAnnotate
<1>3. /\ state' \notin Stopped => state \notin Stopped
                            \/ (At("operator", "resume-checkpoint") /\ state = "resuming")
      /\ "operator" = "driver" /\ state' = "resuming" => state = "resuming"
  BY DEF StartAnnotate, Stopped, Closing
<1>4. \/ journal' = journal
      \/ \E w \in JournalEntries \ (PauseEntries \cup {"resume"}) : Write(w)
  BY DEF StartAnnotate, JournalEntries, PauseEntries, FinalReasons, evidence
<1> QED BY <1>1, <1>2, <1>3, <1>4 DEF PauseMoves

LEMMA StartAbortPause ==
    ASSUME IInv, StartAbort
    PROVE  PauseMoves("operator")
<1>0. "operator" \in Callers
  BY DEF Callers
<1>1. loaded
  BY DEF StartAbort, OperatorCalls
<1>2. /\ \A d \in Callers : d # "operator" => task'[d] = task[d]
      /\ task'["operator"].at \notin {"channel", "turn-record", "resume-checkpoint"}
  BY <1>0, GoAt DEF StartAbort
<1>3. /\ state' \notin Stopped => state \notin Stopped
                            \/ (At("operator", "resume-checkpoint") /\ state = "resuming")
      /\ "operator" = "driver" /\ state' = "resuming" => state = "resuming"
  BY DEF StartAbort, Stopped, Closing
<1>4. \/ journal' = journal
      \/ \E w \in JournalEntries \ (PauseEntries \cup {"resume"}) : Write(w)
  BY DEF StartAbort, JournalEntries, PauseEntries, FinalReasons, evidence
<1> QED BY <1>1, <1>2, <1>3, <1>4 DEF PauseMoves

LEMMA StartRetrySealPause ==
    ASSUME IInv, StartRetrySeal
    PROVE  PauseMoves("operator")
<1>0. "operator" \in Callers
  BY DEF Callers
<1>1. loaded
  BY DEF StartRetrySeal, OperatorCalls
<1>2. /\ \A d \in Callers : d # "operator" => task'[d] = task[d]
      /\ task'["operator"].at \notin {"channel", "turn-record", "resume-checkpoint"}
  BY <1>0, GoAt DEF StartRetrySeal
<1>3. /\ state' \notin Stopped => state \notin Stopped
                            \/ (At("operator", "resume-checkpoint") /\ state = "resuming")
      /\ "operator" = "driver" /\ state' = "resuming" => state = "resuming"
  BY DEF StartRetrySeal, Stopped, Closing
<1>4. \/ journal' = journal
      \/ \E w \in JournalEntries \ (PauseEntries \cup {"resume"}) : Write(w)
  BY DEF StartRetrySeal, JournalEntries, PauseEntries, FinalReasons, evidence
<1> QED BY <1>1, <1>2, <1>3, <1>4 DEF PauseMoves

LEMMA StartAbandonSealPause ==
    ASSUME IInv, StartAbandonSeal
    PROVE  PauseMoves("operator")
<1>0. "operator" \in Callers
  BY DEF Callers
<1>1. loaded
  BY DEF StartAbandonSeal, OperatorCalls
<1>2. /\ \A d \in Callers : d # "operator" => task'[d] = task[d]
      /\ task'["operator"].at \notin {"channel", "turn-record", "resume-checkpoint"}
  BY <1>0, GoAt DEF StartAbandonSeal
<1>3. /\ state' \notin Stopped => state \notin Stopped
                            \/ (At("operator", "resume-checkpoint") /\ state = "resuming")
      /\ "operator" = "driver" /\ state' = "resuming" => state = "resuming"
  BY DEF StartAbandonSeal, Stopped, Closing
<1>4. \/ journal' = journal
      \/ \E w \in JournalEntries \ (PauseEntries \cup {"resume"}) : Write(w)
  BY DEF StartAbandonSeal, JournalEntries, PauseEntries, FinalReasons, evidence
<1> QED BY <1>1, <1>2, <1>3, <1>4 DEF PauseMoves

LEMMA PauseEventPause ==
    ASSUME IInv, PauseEvent
    PROVE  PauseMoves("operator")
<1>0. "operator" \in Callers
  BY DEF Callers
<1>1. loaded /\ ~At("operator", "idle")
  BY <1>0, Busy DEF PauseEvent, At, IInv
<1>2. /\ \A d \in Callers : d # "operator" => task'[d] = task[d]
      /\ task'["operator"].at \notin {"channel", "turn-record", "resume-checkpoint"}
  BY <1>0, GoAt DEF PauseEvent
<1>3. /\ state' \notin Stopped => state \notin Stopped
                            \/ (At("operator", "resume-checkpoint") /\ state = "resuming")
      /\ "operator" = "driver" /\ state' = "resuming" => state = "resuming"
  BY <1>0, <1>0 DEF PauseEvent, Stopped, Closing
<1>4. /\ \E w \in PauseEntries : Write(w)
      /\ state' \in {"pausing", "paused"} \cup Closing
  BY <1>0, <1>0 DEF PauseEvent, PauseEntries, IInv, CallsInv, CallOf, At, PauseLabels, Closing
<1> QED BY <1>1, <1>2, <1>3, <1>4 DEF PauseMoves

LEMMA PauseCheckpointPause ==
    ASSUME IInv, NEW c \in Callers, PauseCheckpoint(c)
    PROVE  PauseMoves(c)
<1>5. state \in RunStates
  BY NormalTypes DEF IInv
<1>1. loaded /\ ~At(c, "idle")
  BY Busy DEF PauseCheckpoint, At, IInv
<1>2. /\ \A d \in Callers : d # c => task'[d] = task[d]
      /\ task'[c].at \notin {"channel", "turn-record", "resume-checkpoint"}
  BY ApplyAt DEF PauseCheckpoint
<1>3. /\ state' \notin Stopped => state \notin Stopped
                            \/ (At(c, "resume-checkpoint") /\ state = "resuming")
      /\ c = "driver" /\ state' = "resuming" => state = "resuming"
  BY ApplyEffect, Applicable, Arrivals, <1>5 DEF PauseCheckpoint, Stopped, Closing
<1>4. /\ \E w \in PauseEntries : Write(w)
      /\ state' \in {"pausing", "paused"} \cup Closing
  BY ApplyEffect, Applicable, Arrivals, <1>5 DEF PauseCheckpoint, PauseEntries, IInv, CallsInv, CallOf, At, PauseLabels, Closing
<1> QED BY <1>1, <1>2, <1>3, <1>4 DEF PauseMoves

LEMMA ResumePrefixPause ==
    ASSUME IInv, ResumePrefix
    PROVE  PauseMoves("operator")
<1>0. "operator" \in Callers
  BY DEF Callers
<1>5. state \in RunStates
  BY NormalTypes DEF IInv
<1>1. loaded /\ ~At("operator", "idle")
  BY <1>0, Busy DEF ResumePrefix, At, IInv
<1>2. /\ \A d \in Callers : d # "operator" => task'[d] = task[d]
      /\ task'["operator"].at \notin {"channel", "turn-record", "resume-checkpoint"}
  BY <1>0, GoAt, ApplyAt DEF ResumePrefix
<1>3. /\ state' \notin Stopped => state \notin Stopped
                            \/ (At("operator", "resume-checkpoint") /\ state = "resuming")
      /\ "operator" = "driver" /\ state' = "resuming" => state = "resuming"
  BY <1>0, ApplyEffect, Applicable, Arrivals, <1>5 DEF ResumePrefix, Stopped, Closing
<1>4. \/ journal' = journal
      \/ \E w \in JournalEntries \ (PauseEntries \cup {"resume"}) : Write(w)
  BY DEF ResumePrefix, JournalEntries, PauseEntries, FinalReasons, evidence
<1> QED BY <1>1, <1>2, <1>3, <1>4 DEF PauseMoves

LEMMA ResumeEventPause ==
    ASSUME IInv, ResumeEvent
    PROVE  PauseMoves("operator")
<1>0. "operator" \in Callers
  BY DEF Callers
<1>1. loaded /\ ~At("operator", "idle")
  BY <1>0, Busy DEF ResumeEvent, At, IInv
<1>2. /\ \A d \in Callers : d # "operator" => task'[d] = task[d]
      /\ task'["operator"].at \notin {"channel", "turn-record"}
  BY <1>0, GoAt DEF ResumeEvent
<1>3. /\ state' \notin Stopped => state \notin Stopped
                            \/ (At("operator", "resume-checkpoint") /\ state = "resuming")
      /\ "operator" = "driver" /\ state' = "resuming" => state = "resuming"
  BY DEF ResumeEvent, Stopped, Closing
<1>4. At("operator", "resume") /\ Write("resume")
  BY DEF ResumeEvent
<1> QED BY <1>1, <1>2, <1>3, <1>4 DEF PauseMoves

LEMMA ResumeCheckpointPause ==
    ASSUME IInv, ResumeCheckpoint
    PROVE  PauseMoves("operator")
<1>0. "operator" \in Callers
  BY DEF Callers
<1>1. loaded /\ ~At("operator", "idle")
  BY <1>0, Busy DEF ResumeCheckpoint, At, IInv
<1>2. /\ \A d \in Callers : d # "operator" => task'[d] = task[d]
      /\ task'["operator"].at \notin {"channel", "turn-record", "resume-checkpoint"}
  BY <1>0, ReturnAt, StageAt, TransitionStates DEF ResumeCheckpoint
<1>3. /\ state' \notin Stopped => state \notin Stopped
                            \/ (At("operator", "resume-checkpoint") /\ state = "resuming")
      /\ "operator" = "driver" /\ state' = "resuming" => state = "resuming"
  BY <1>0, StageEffect, TransitionStates, Applicable DEF ResumeCheckpoint, Stopped, Closing, At
<1>4. \/ journal' = journal
      \/ \E w \in JournalEntries \ (PauseEntries \cup {"resume"}) : Write(w)
  BY DEF ResumeCheckpoint, JournalEntries, PauseEntries, FinalReasons, evidence
<1> QED BY <1>1, <1>2, <1>3, <1>4 DEF PauseMoves

LEMMA AnnotateEventPause ==
    ASSUME IInv, AnnotateEvent
    PROVE  PauseMoves("operator")
<1>0. "operator" \in Callers
  BY DEF Callers
<1>1. loaded /\ ~At("operator", "idle")
  BY <1>0, Busy DEF AnnotateEvent, At, IInv
<1>2. /\ \A d \in Callers : d # "operator" => task'[d] = task[d]
      /\ task'["operator"].at \notin {"channel", "turn-record", "resume-checkpoint"}
  BY <1>0, GoAt DEF AnnotateEvent
<1>3. /\ state' \notin Stopped => state \notin Stopped
                            \/ (At("operator", "resume-checkpoint") /\ state = "resuming")
      /\ "operator" = "driver" /\ state' = "resuming" => state = "resuming"
  BY DEF AnnotateEvent, Stopped, Closing
<1>4. \/ journal' = journal
      \/ \E w \in JournalEntries \ (PauseEntries \cup {"resume"}) : Write(w)
  BY DEF AnnotateEvent, JournalEntries, PauseEntries, FinalReasons, evidence
<1> QED BY <1>1, <1>2, <1>3, <1>4 DEF PauseMoves

LEMMA AnnotateCheckpointPause ==
    ASSUME IInv, AnnotateCheckpoint
    PROVE  PauseMoves("operator")
<1>0. "operator" \in Callers
  BY DEF Callers
<1>1. loaded /\ ~At("operator", "idle")
  BY <1>0, Busy DEF AnnotateCheckpoint, At, IInv
<1>2. /\ \A d \in Callers : d # "operator" => task'[d] = task[d]
      /\ task'["operator"].at \notin {"channel", "turn-record", "resume-checkpoint"}
  BY <1>0, GoAt DEF AnnotateCheckpoint
<1>3. /\ state' \notin Stopped => state \notin Stopped
                            \/ (At("operator", "resume-checkpoint") /\ state = "resuming")
      /\ "operator" = "driver" /\ state' = "resuming" => state = "resuming"
  BY DEF AnnotateCheckpoint, Stopped, Closing
<1>4. \/ journal' = journal
      \/ \E w \in JournalEntries \ (PauseEntries \cup {"resume"}) : Write(w)
  BY DEF AnnotateCheckpoint, JournalEntries, PauseEntries, FinalReasons, evidence
<1> QED BY <1>1, <1>2, <1>3, <1>4 DEF PauseMoves

LEMMA AnnotateCheckPause ==
    ASSUME IInv, AnnotateCheck
    PROVE  PauseMoves("operator")
<1>0. "operator" \in Callers
  BY DEF Callers
<1>1. loaded /\ ~At("operator", "idle")
  BY <1>0, Busy DEF AnnotateCheck, At, IInv
<1>2. /\ \A d \in Callers : d # "operator" => task'[d] = task[d]
      /\ task'["operator"].at \notin {"channel", "turn-record", "resume-checkpoint"}
  BY <1>0, GoAt, ReturnAt DEF AnnotateCheck
<1>3. /\ state' \notin Stopped => state \notin Stopped
                            \/ (At("operator", "resume-checkpoint") /\ state = "resuming")
      /\ "operator" = "driver" /\ state' = "resuming" => state = "resuming"
  BY DEF AnnotateCheck, Stopped, Closing
<1>4. \/ journal' = journal
      \/ \E w \in JournalEntries \ (PauseEntries \cup {"resume"}) : Write(w)
  BY DEF AnnotateCheck, JournalEntries, PauseEntries, FinalReasons, evidence
<1> QED BY <1>1, <1>2, <1>3, <1>4 DEF PauseMoves

LEMMA AnnotateRecordPause ==
    ASSUME IInv, AnnotateRecord
    PROVE  PauseMoves("operator")
<1>0. "operator" \in Callers
  BY DEF Callers
<1>1. loaded /\ ~At("operator", "idle")
  BY <1>0, Busy DEF AnnotateRecord, At, IInv
<1>2. /\ \A d \in Callers : d # "operator" => task'[d] = task[d]
      /\ task'["operator"].at \notin {"channel", "turn-record", "resume-checkpoint"}
  BY <1>0, ReturnAt DEF AnnotateRecord
<1>3. /\ state' \notin Stopped => state \notin Stopped
                            \/ (At("operator", "resume-checkpoint") /\ state = "resuming")
      /\ "operator" = "driver" /\ state' = "resuming" => state = "resuming"
  BY DEF AnnotateRecord, Stopped, Closing
<1>4. \/ journal' = journal
      \/ \E w \in JournalEntries \ (PauseEntries \cup {"resume"}) : Write(w)
  BY DEF AnnotateRecord, JournalEntries, PauseEntries, FinalReasons, evidence
<1> QED BY <1>1, <1>2, <1>3, <1>4 DEF PauseMoves

LEMMA RetryEventPause ==
    ASSUME IInv, RetryEvent
    PROVE  PauseMoves("operator")
<1>0. "operator" \in Callers
  BY DEF Callers
<1>1. loaded /\ ~At("operator", "idle")
  BY <1>0, Busy DEF RetryEvent, At, IInv
<1>2. /\ \A d \in Callers : d # "operator" => task'[d] = task[d]
      /\ task'["operator"].at \notin {"channel", "turn-record", "resume-checkpoint"}
  BY <1>0, GoAt DEF RetryEvent
<1>3. /\ state' \notin Stopped => state \notin Stopped
                            \/ (At("operator", "resume-checkpoint") /\ state = "resuming")
      /\ "operator" = "driver" /\ state' = "resuming" => state = "resuming"
  BY DEF RetryEvent, Stopped, Closing
<1>4. \/ journal' = journal
      \/ \E w \in JournalEntries \ (PauseEntries \cup {"resume"}) : Write(w)
  BY DEF RetryEvent, JournalEntries, PauseEntries, FinalReasons, evidence
<1> QED BY <1>1, <1>2, <1>3, <1>4 DEF PauseMoves

LEMMA RunSealedEventPause ==
    ASSUME IInv, NEW c \in Callers, RunSealedEvent(c)
    PROVE  PauseMoves(c)
<1>1. loaded /\ ~At(c, "idle")
  BY Busy DEF RunSealedEvent, At, IInv
<1>2. /\ \A d \in Callers : d # c => task'[d] = task[d]
      /\ task'[c].at \notin {"channel", "turn-record", "resume-checkpoint"}
  BY GoAt DEF RunSealedEvent
<1>3. /\ state' \notin Stopped => state \notin Stopped
                            \/ (At(c, "resume-checkpoint") /\ state = "resuming")
      /\ c = "driver" /\ state' = "resuming" => state = "resuming"
  BY DEF RunSealedEvent, Stopped, Closing
<1>4. \/ journal' = journal
      \/ \E w \in JournalEntries \ (PauseEntries \cup {"resume"}) : Write(w)
  BY DEF RunSealedEvent, JournalEntries, PauseEntries, FinalReasons, evidence
<1> QED BY <1>1, <1>2, <1>3, <1>4 DEF PauseMoves

LEMMA CreateFinalCheckpointPause ==
    ASSUME IInv, NEW c \in Callers, CreateFinalCheckpoint(c)
    PROVE  PauseMoves(c)
<1>1. loaded /\ ~At(c, "idle")
  BY Busy DEF CreateFinalCheckpoint, At, IInv
<1>2. /\ \A d \in Callers : d # c => task'[d] = task[d]
      /\ task'[c].at \notin {"channel", "turn-record", "resume-checkpoint"}
  BY GoAt DEF CreateFinalCheckpoint
<1>3. /\ state' \notin Stopped => state \notin Stopped
                            \/ (At(c, "resume-checkpoint") /\ state = "resuming")
      /\ c = "driver" /\ state' = "resuming" => state = "resuming"
  BY DEF CreateFinalCheckpoint, Stopped, Closing
<1>4. \/ journal' = journal
      \/ \E w \in JournalEntries \ (PauseEntries \cup {"resume"}) : Write(w)
  BY DEF CreateFinalCheckpoint, JournalEntries, PauseEntries, FinalReasons, evidence
<1> QED BY <1>1, <1>2, <1>3, <1>4 DEF PauseMoves

LEMMA AnchorPause ==
    ASSUME IInv, NEW c \in Callers, Anchor(c)
    PROVE  PauseMoves(c)
<1>5. /\ \A d \in Callers : d # c => task'[d] = task[d]
      /\ task'[c].at \notin {"channel", "turn-record", "resume-checkpoint"}
      /\ state' = state \/ state' = "sealing-blocked"
  BY AnchorMoves DEF IInv, Idle
<1>1. loaded /\ ~At(c, "idle")
  BY Busy DEF Anchor, At, IInv
<1>2. /\ \A d \in Callers : d # c => task'[d] = task[d]
      /\ task'[c].at \notin {"channel", "turn-record", "resume-checkpoint"}
  BY <1>5 DEF Anchor
<1>3. /\ state' \notin Stopped => state \notin Stopped
                            \/ (At(c, "resume-checkpoint") /\ state = "resuming")
      /\ c = "driver" /\ state' = "resuming" => state = "resuming"
  BY <1>5 DEF Anchor, Stopped, Closing
<1>4. \/ journal' = journal
      \/ \E w \in JournalEntries \ (PauseEntries \cup {"resume"}) : Write(w)
  BY DEF Anchor, JournalEntries, PauseEntries, FinalReasons, evidence
<1> QED BY <1>1, <1>2, <1>3, <1>4 DEF PauseMoves

LEMMA AbortRecordPause ==
    ASSUME IInv, NEW c \in Callers, AbortRecord(c)
    PROVE  PauseMoves(c)
<1>5. state \in RunStates
  BY NormalTypes DEF IInv
<1>1. loaded /\ ~At(c, "idle")
  BY Busy DEF AbortRecord, At, IInv
<1>2. /\ \A d \in Callers : d # c => task'[d] = task[d]
      /\ task'[c].at \notin {"channel", "turn-record", "resume-checkpoint"}
  BY ApplyAt DEF AbortRecord
<1>3. /\ state' \notin Stopped => state \notin Stopped
                            \/ (At(c, "resume-checkpoint") /\ state = "resuming")
      /\ c = "driver" /\ state' = "resuming" => state = "resuming"
  BY ApplyEffect, Applicable, Arrivals, <1>5 DEF AbortRecord, Stopped, Closing
<1>4. \/ journal' = journal
      \/ \E w \in JournalEntries \ (PauseEntries \cup {"resume"}) : Write(w)
  BY DEF AbortRecord, JournalEntries, PauseEntries, FinalReasons, evidence
<1> QED BY <1>1, <1>2, <1>3, <1>4 DEF PauseMoves

LEMMA BlockedRecordPause ==
    ASSUME IInv, NEW c \in Callers, BlockedRecord(c)
    PROVE  PauseMoves(c)
<1>1. loaded /\ ~At(c, "idle")
  BY Busy DEF BlockedRecord, At, IInv
<1>2. /\ \A d \in Callers : d # c => task'[d] = task[d]
      /\ task'[c].at \notin {"channel", "turn-record", "resume-checkpoint"}
  BY ReturnAt DEF BlockedRecord
<1>3. /\ state' \notin Stopped => state \notin Stopped
                            \/ (At(c, "resume-checkpoint") /\ state = "resuming")
      /\ c = "driver" /\ state' = "resuming" => state = "resuming"
  BY DEF BlockedRecord, Stopped, Closing
<1>4. \/ journal' = journal
      \/ \E w \in JournalEntries \ (PauseEntries \cup {"resume"}) : Write(w)
  BY DEF BlockedRecord, JournalEntries, PauseEntries, FinalReasons, evidence
<1> QED BY <1>1, <1>2, <1>3, <1>4 DEF PauseMoves

LEMMA PendingRecordPause ==
    ASSUME IInv, NEW c \in Callers, PendingRecord(c)
    PROVE  PauseMoves(c)
<1>1. loaded /\ ~At(c, "idle")
  BY Busy DEF PendingRecord, At, IInv
<1>2. /\ \A d \in Callers : d # c => task'[d] = task[d]
      /\ task'[c].at \notin {"channel", "turn-record", "resume-checkpoint"}
  BY GoAt DEF PendingRecord
<1>3. /\ state' \notin Stopped => state \notin Stopped
                            \/ (At(c, "resume-checkpoint") /\ state = "resuming")
      /\ c = "driver" /\ state' = "resuming" => state = "resuming"
  BY DEF PendingRecord, Stopped, Closing
<1>4. \/ journal' = journal
      \/ \E w \in JournalEntries \ (PauseEntries \cup {"resume"}) : Write(w)
  BY DEF PendingRecord, JournalEntries, PauseEntries, FinalReasons, evidence
<1> QED BY <1>1, <1>2, <1>3, <1>4 DEF PauseMoves

LEMMA VerdictRecordPause ==
    ASSUME IInv, NEW c \in Callers, VerdictRecord(c)
    PROVE  PauseMoves(c)
<1>1. loaded /\ ~At(c, "idle")
  BY Busy DEF VerdictRecord, At, IInv
<1>2. /\ \A d \in Callers : d # c => task'[d] = task[d]
      /\ task'[c].at \notin {"channel", "turn-record", "resume-checkpoint"}
  BY GoAt, ReturnAt DEF VerdictRecord
<1>3. /\ state' \notin Stopped => state \notin Stopped
                            \/ (At(c, "resume-checkpoint") /\ state = "resuming")
      /\ c = "driver" /\ state' = "resuming" => state = "resuming"
  BY DEF VerdictRecord, Stopped, Closing
<1>4. \/ journal' = journal
      \/ \E w \in JournalEntries \ (PauseEntries \cup {"resume"}) : Write(w)
  BY DEF VerdictRecord, JournalEntries, PauseEntries, FinalReasons, evidence
<1> QED BY <1>1, <1>2, <1>3, <1>4 DEF PauseMoves

LEMMA AbortDecisionPause ==
    ASSUME IInv, NEW c \in Callers, AbortDecision(c)
    PROVE  PauseMoves(c)
<1>1. loaded /\ ~At(c, "idle")
  BY Busy DEF AbortDecision, At, IInv
<1>2. /\ \A d \in Callers : d # c => task'[d] = task[d]
      /\ task'[c].at \notin {"channel", "turn-record", "resume-checkpoint"}
  BY ReturnAt DEF AbortDecision
<1>3. /\ state' \notin Stopped => state \notin Stopped
                            \/ (At(c, "resume-checkpoint") /\ state = "resuming")
      /\ c = "driver" /\ state' = "resuming" => state = "resuming"
  BY DEF AbortDecision, Stopped, Closing
<1>4. \/ journal' = journal
      \/ \E w \in JournalEntries \ (PauseEntries \cup {"resume"}) : Write(w)
  BY DEF AbortDecision, JournalEntries, PauseEntries, FinalReasons, evidence
<1> QED BY <1>1, <1>2, <1>3, <1>4 DEF PauseMoves

LEMMA AbandonEventPause ==
    ASSUME IInv, AbandonEvent
    PROVE  PauseMoves("operator")
<1>0. "operator" \in Callers
  BY DEF Callers
<1>1. loaded /\ ~At("operator", "idle")
  BY <1>0, Busy DEF AbandonEvent, At, IInv
<1>2. /\ \A d \in Callers : d # "operator" => task'[d] = task[d]
      /\ task'["operator"].at \notin {"channel", "turn-record", "resume-checkpoint"}
  BY <1>0, GoAt DEF AbandonEvent
<1>3. /\ state' \notin Stopped => state \notin Stopped
                            \/ (At("operator", "resume-checkpoint") /\ state = "resuming")
      /\ "operator" = "driver" /\ state' = "resuming" => state = "resuming"
  BY DEF AbandonEvent, Stopped, Closing
<1>4. \/ journal' = journal
      \/ \E w \in JournalEntries \ (PauseEntries \cup {"resume"}) : Write(w)
  BY DEF AbandonEvent, JournalEntries, PauseEntries, FinalReasons, evidence
<1> QED BY <1>1, <1>2, <1>3, <1>4 DEF PauseMoves

LEMMA AbandonRecordPause ==
    ASSUME IInv, AbandonRecord
    PROVE  PauseMoves("operator")
<1>0. "operator" \in Callers
  BY DEF Callers
<1>1. loaded /\ ~At("operator", "idle")
  BY <1>0, Busy DEF AbandonRecord, At, IInv
<1>2. /\ \A d \in Callers : d # "operator" => task'[d] = task[d]
      /\ task'["operator"].at \notin {"channel", "turn-record", "resume-checkpoint"}
  BY <1>0, ReturnAt DEF AbandonRecord
<1>3. /\ state' \notin Stopped => state \notin Stopped
                            \/ (At("operator", "resume-checkpoint") /\ state = "resuming")
      /\ "operator" = "driver" /\ state' = "resuming" => state = "resuming"
  BY DEF AbandonRecord, Stopped, Closing
<1>4. \/ journal' = journal
      \/ \E w \in JournalEntries \ (PauseEntries \cup {"resume"}) : Write(w)
  BY DEF AbandonRecord, JournalEntries, PauseEntries, FinalReasons, evidence
<1> QED BY <1>1, <1>2, <1>3, <1>4 DEF PauseMoves

LEMMA CheckSignersPause ==
    ASSUME IInv, CheckSigners
    PROVE  PauseMoves("driver")
<1>0. "driver" \in Callers
  BY DEF Callers
<1>1. loaded /\ ~At("driver", "idle")
  BY <1>0, Busy DEF CheckSigners, At, IInv
<1>2. /\ \A d \in Callers : d # "driver" => task'[d] = task[d]
      /\ task'["driver"].at \notin {"channel", "turn-record", "resume-checkpoint"}
  BY <1>0, GoAt, ReturnAt DEF CheckSigners
<1>3. /\ state' \notin Stopped => state \notin Stopped
                            \/ (At("driver", "resume-checkpoint") /\ state = "resuming")
      /\ "driver" = "driver" /\ state' = "resuming" => state = "resuming"
  BY DEF CheckSigners, Stopped, Closing
<1>4. \/ journal' = journal
      \/ \E w \in JournalEntries \ (PauseEntries \cup {"resume"}) : Write(w)
  BY DEF CheckSigners, JournalEntries, PauseEntries, FinalReasons, evidence
<1> QED BY <1>1, <1>2, <1>3, <1>4 DEF PauseMoves

LEMMA RecoverPrefixPause ==
    ASSUME IInv, RecoverPrefix
    PROVE  PauseMoves("driver")
<1>0. "driver" \in Callers
  BY DEF Callers
<1>5. state \in RunStates
  BY NormalTypes DEF IInv
<1>1. loaded /\ ~At("driver", "idle")
  BY <1>0, Busy DEF RecoverPrefix, At, IInv
<1>2. /\ \A d \in Callers : d # "driver" => task'[d] = task[d]
      /\ task'["driver"].at \notin {"channel", "turn-record", "resume-checkpoint"}
  BY <1>0, GoAt, ReturnAt, ApplyAt DEF RecoverPrefix
<1>3. /\ state' \notin Stopped => state \notin Stopped
                            \/ (At("driver", "resume-checkpoint") /\ state = "resuming")
      /\ "driver" = "driver" /\ state' = "resuming" => state = "resuming"
  BY <1>0, ApplyEffect, Applicable, Arrivals, <1>5 DEF RecoverPrefix, Stopped, Closing
<1>4. \/ journal' = journal
      \/ \E w \in JournalEntries \ (PauseEntries \cup {"resume"}) : Write(w)
  BY DEF RecoverPrefix, JournalEntries, PauseEntries, FinalReasons, evidence
<1> QED BY <1>1, <1>2, <1>3, <1>4 DEF PauseMoves

LEMMA RecoveryEventPause ==
    ASSUME IInv, RecoveryEvent
    PROVE  PauseMoves("driver")
<1>0. "driver" \in Callers
  BY DEF Callers
<1>1. loaded /\ ~At("driver", "idle")
  BY <1>0, Busy DEF RecoveryEvent, At, IInv
<1>2. /\ \A d \in Callers : d # "driver" => task'[d] = task[d]
      /\ task'["driver"].at \notin {"channel", "turn-record", "resume-checkpoint"}
  BY <1>0, GoAt DEF RecoveryEvent
<1>3. /\ state' \notin Stopped => state \notin Stopped
                            \/ (At("driver", "resume-checkpoint") /\ state = "resuming")
      /\ "driver" = "driver" /\ state' = "resuming" => state = "resuming"
  BY DEF RecoveryEvent, Stopped, Closing
<1>4. \/ journal' = journal
      \/ \E w \in JournalEntries \ (PauseEntries \cup {"resume"}) : Write(w)
  BY DEF RecoveryEvent, JournalEntries, PauseEntries, FinalReasons, evidence
<1> QED BY <1>1, <1>2, <1>3, <1>4 DEF PauseMoves

LEMMA RecoveryCheckpointPause ==
    ASSUME IInv, RecoveryCheckpoint
    PROVE  PauseMoves("driver")
<1>0. "driver" \in Callers
  BY DEF Callers
<1>5. state \in RunStates
  BY NormalTypes DEF IInv
<1>1. loaded /\ ~At("driver", "idle")
  BY <1>0, Busy DEF RecoveryCheckpoint, At, IInv
<1>2. /\ \A d \in Callers : d # "driver" => task'[d] = task[d]
      /\ task'["driver"].at \notin {"channel", "turn-record", "resume-checkpoint"}
  BY <1>0, StageAt, <1>5 DEF RecoveryCheckpoint
<1>3. /\ state' \notin Stopped => state \notin Stopped
                            \/ (At("driver", "resume-checkpoint") /\ state = "resuming")
      /\ "driver" = "driver" /\ state' = "resuming" => state = "resuming"
  BY <1>0, StageEffect, <1>5 DEF RecoveryCheckpoint, Stopped, Closing
<1>4. \/ journal' = journal
      \/ \E w \in JournalEntries \ (PauseEntries \cup {"resume"}) : Write(w)
  BY DEF RecoveryCheckpoint, JournalEntries, PauseEntries, FinalReasons, evidence
<1> QED BY <1>1, <1>2, <1>3, <1>4 DEF PauseMoves

LEMMA GatewayRefusesPause ==
    ASSUME IInv, NEW c \in Callers, GatewayRefuses(c)
    PROVE  PauseMoves(c)
<1>1. loaded /\ ~At(c, "idle")
  BY Busy DEF GatewayRefuses, At, IInv, ThroughGateway, AtPolicyCheckpoint
<1>2. /\ \A d \in Callers : d # c => task'[d] = task[d]
      /\ task'[c].at \notin {"channel", "turn-record", "resume-checkpoint"}
  BY ReturnAt DEF GatewayRefuses
<1>3. /\ state' \notin Stopped => state \notin Stopped
                            \/ (At(c, "resume-checkpoint") /\ state = "resuming")
      /\ c = "driver" /\ state' = "resuming" => state = "resuming"
  BY DEF GatewayRefuses, Stopped, Closing
<1>4. \/ journal' = journal
      \/ \E w \in JournalEntries \ (PauseEntries \cup {"resume"}) : Write(w)
  BY DEF GatewayRefuses, JournalEntries, PauseEntries, FinalReasons, evidence
<1> QED BY <1>1, <1>2, <1>3, <1>4 DEF PauseMoves

LEMMA CallFailsPause ==
    ASSUME IInv, NEW c \in Callers, CallFails(c)
    PROVE  PauseMoves(c)
<1>1. loaded /\ ~At(c, "idle")
  BY Busy DEF CallFails, At, IInv
<1>2. /\ \A d \in Callers : d # c => task'[d] = task[d]
      /\ task'[c].at \notin {"channel", "turn-record", "resume-checkpoint"}
  BY ReturnAt DEF CallFails
<1>3. /\ state' \notin Stopped => state \notin Stopped
                            \/ (At(c, "resume-checkpoint") /\ state = "resuming")
      /\ c = "driver" /\ state' = "resuming" => state = "resuming"
  BY DEF CallFails, Stopped, Closing
<1>4. \/ journal' = journal
      \/ \E w \in JournalEntries \ (PauseEntries \cup {"resume"}) : Write(w)
  BY DEF CallFails, JournalEntries, PauseEntries, FinalReasons, evidence
<1> QED BY <1>1, <1>2, <1>3, <1>4 DEF PauseMoves

LEMMA LoseTurnRecordPause ==
    ASSUME IInv, LoseTurnRecord
    PROVE  PauseMoves("driver")
<1>0. "driver" \in Callers
  BY DEF Callers
<1>1. loaded /\ ~At("driver", "idle")
  BY <1>0, Busy DEF LoseTurnRecord, At, IInv
<1>2. /\ \A d \in Callers : d # "driver" => task'[d] = task[d]
      /\ task'["driver"].at \notin {"channel", "turn-record", "resume-checkpoint"}
  BY <1>0, ReturnAt DEF LoseTurnRecord
<1>3. /\ state' \notin Stopped => state \notin Stopped
                            \/ (At("driver", "resume-checkpoint") /\ state = "resuming")
      /\ "driver" = "driver" /\ state' = "resuming" => state = "resuming"
  BY DEF LoseTurnRecord, Stopped, Closing
<1>4. \/ journal' = journal
      \/ \E w \in JournalEntries \ (PauseEntries \cup {"resume"}) : Write(w)
  BY DEF LoseTurnRecord, JournalEntries, PauseEntries, FinalReasons, evidence
<1> QED BY <1>1, <1>2, <1>3, <1>4 DEF PauseMoves

LEMMA ExecuteTurnPause ==
    ASSUME IInv, ExecuteTurn
    PROVE  PauseMoves("driver")
<1>0. "driver" \in Callers
  BY DEF Callers
<1>5. PICK trigger \in BOOLEAN :
        task' = [task EXCEPT !["driver"].at = "turn-record", !["driver"].trigger = trigger]
  BY DEF ExecuteTurn
<1>6. \A d \in Callers : d # "driver" => task'[d] = task[d]
  BY <1>0, <1>5, SetEffect, NormalTypes DEF Labels, IInv
<1>7. task'["driver"].at = "turn-record"
  BY <1>0, <1>5, SetEffect, NormalTypes DEF Labels, IInv
<1>1. loaded /\ ~At("driver", "idle")
  BY <1>0, Busy DEF ExecuteTurn, At, IInv
<1>2. /\ \A d \in Callers : d # "driver" => task'[d] = task[d]
      /\ task'["driver"].at \notin {"channel", "resume-checkpoint"}
  BY <1>0, <1>6, <1>7 DEF ExecuteTurn
<1>3. /\ state' \notin Stopped => state \notin Stopped
                            \/ (At("driver", "resume-checkpoint") /\ state = "resuming")
      /\ "driver" = "driver" /\ state' = "resuming" => state = "resuming"
  BY DEF ExecuteTurn, Stopped, Closing
<1>4. \/ journal' = journal
      \/ \E w \in JournalEntries \ (PauseEntries \cup {"resume"}) : Write(w)
  BY DEF ExecuteTurn, JournalEntries, PauseEntries, FinalReasons, evidence
<1> QED BY <1>1, <1>2, <1>3, <1>4 DEF PauseMoves, ExecuteTurn, At

LEMMA AbortEventPause ==
    ASSUME IInv, NEW c \in Callers, AbortEvent(c)
    PROVE  PauseMoves(c)
<1>5. /\ \A d \in Callers : d # c => task'[d] = task[d]
      /\ task'[c].at = "seal-a"
  BY SetEffect, NormalTypes DEF AbortEvent, Labels, IInv
<1>1. loaded /\ ~At(c, "idle")
  BY Busy DEF AbortEvent, At, IInv
<1>2. /\ \A d \in Callers : d # c => task'[d] = task[d]
      /\ task'[c].at \notin {"channel", "turn-record", "resume-checkpoint"}
  BY <1>5 DEF AbortEvent
<1>3. /\ state' \notin Stopped => state \notin Stopped
                            \/ (At(c, "resume-checkpoint") /\ state = "resuming")
      /\ c = "driver" /\ state' = "resuming" => state = "resuming"
  BY DEF AbortEvent, Stopped, Closing
<1>4. \/ journal' = journal
      \/ \E w \in JournalEntries \ (PauseEntries \cup {"resume"}) : Write(w)
  BY DEF AbortEvent, JournalEntries, PauseEntries, FinalReasons, evidence
<1> QED BY <1>1, <1>2, <1>3, <1>4 DEF PauseMoves

LEMMA VerifyPause ==
    ASSUME IInv, NEW c \in Callers, Verify(c)
    PROVE  PauseMoves(c)
<1>5. PICK passed \in BOOLEAN :
        task' = [task EXCEPT ![c].at = "verdict-record", ![c].passed = passed]
  BY DEF Verify
<1>6. /\ \A d \in Callers : d # c => task'[d] = task[d]
      /\ task'[c].at = "verdict-record"
  BY <1>5, SetEffect, NormalTypes DEF Labels, IInv
<1>1. loaded /\ ~At(c, "idle")
  BY Busy DEF Verify, At, IInv
<1>2. /\ \A d \in Callers : d # c => task'[d] = task[d]
      /\ task'[c].at \notin {"channel", "turn-record", "resume-checkpoint"}
  BY <1>6 DEF Verify
<1>3. /\ state' \notin Stopped => state \notin Stopped
                            \/ (At(c, "resume-checkpoint") /\ state = "resuming")
      /\ c = "driver" /\ state' = "resuming" => state = "resuming"
  BY DEF Verify, Stopped, Closing
<1>4. \/ journal' = journal
      \/ \E w \in JournalEntries \ (PauseEntries \cup {"resume"}) : Write(w)
  BY DEF Verify, JournalEntries, PauseEntries, FinalReasons, evidence
<1> QED BY <1>1, <1>2, <1>3, <1>4 DEF PauseMoves

LEMMA SealCheckPause ==
    ASSUME IInv, NEW c \in Callers, SealCheck(c)
    PROVE  PauseMoves(c)
<1>5. Shape
  BY DEF IInv
<1>1. loaded /\ ~At(c, "idle")
  BY Busy DEF SealCheck, At, IInv
<1>2. /\ \A d \in Callers : d # c => task'[d] = task[d]
      /\ task'[c].at \notin {"channel", "turn-record", "resume-checkpoint"}
  BY SealCheckMoves, <1>5 DEF SealCheck
<1>3. /\ state' \notin Stopped => state \notin Stopped
                            \/ (At(c, "resume-checkpoint") /\ state = "resuming")
      /\ c = "driver" /\ state' = "resuming" => state = "resuming"
  BY DEF SealCheck, Stopped, Closing
<1>4. \/ journal' = journal
      \/ \E w \in JournalEntries \ (PauseEntries \cup {"resume"}) : Write(w)
  BY DEF SealCheck, JournalEntries, PauseEntries, FinalReasons, evidence, PolicyCheckpoint
<1> QED BY <1>1, <1>2, <1>3, <1>4 DEF PauseMoves

LEMMA StartStepPause ==
    ASSUME IInv, PauseInv, StartStep
    PROVE  PauseInv' /\ ~PausedByEvidence
<1>1. /\ loaded /\ state \in {"running", "evaluating"} /\ journal' = journal
      /\ loaded' = loaded /\ state' = state
  BY DEF StartStep, DriverFree, AcceptsTurns, evidence
<1>2. ~PausedByEvidence
  BY <1>1 DEF PauseInv, Stopped, Closing
<1>3. ~PausedByEvidence'
  BY <1>1, <1>2 DEF PausedByEvidence, LastOf
<1> QED BY <1>2, <1>3 DEF PauseInv

LEMMA CreateRunPause ==
    ASSUME IInv, PauseInv, CreateRun
    PROVE  PauseInv' /\ ~StartsTurn
<1>1. journal' = journal /\ journal = <<>> /\ "driver" \in Callers
  BY DEF CreateRun, IInv, Shape, Callers
<1>2. ~PausedByEvidence'
  BY <1>1 DEF PausedByEvidence, LastOf
<1>3. task'["driver"].at = "initial-record"
  BY <1>1, GoAt DEF CreateRun
<1> QED BY <1>2, <1>3 DEF PauseInv, StartsTurn

LEMMA StartRecoverPause ==
    ASSUME IInv, IInv', PauseInv, StartRecover
    PROVE  PauseInv' /\ ~StartsTurn
<1>0. "driver" \in Callers /\ "operator" \in Callers /\ At("driver", "idle")
      /\ journal' = journal
  BY DEF StartRecover, Callers, evidence
<1>1. /\ task'["driver"].at # "channel"
      /\ task'["operator"] = task["operator"]
  BY <1>0, GoAt DEF StartRecover, At
<1>2. PausedByEvidence' <=> PausedByEvidence
  BY <1>0 DEF PausedByEvidence, LastOf
<1>3. CASE loaded
  <2>1. loaded' = loaded /\ state' = state
    BY <1>3 DEF StartRecover
  <2> QED BY <1>1, <1>2, <2>1 DEF PauseInv, StartsTurn, At
<1>4. CASE ~loaded
  <2>1. state' = Reconstructed /\ task["operator"].at = "idle"
    BY <1>0, <1>4, IdleTask DEF StartRecover, IInv, Shape
  <2>2. PausedByEvidence => state' \in Stopped
    <3>1. TerminalStateFrom \in Closing
      BY DEF TerminalStateFrom, Closing
    <3> QED BY <2>1, <3>1 DEF Reconstructed, Stopped
  <2> QED BY <1>1, <1>2, <2>1, <2>2 DEF PauseInv, StartsTurn, At
<1> QED BY <1>3, <1>4

LEMMA ForkPause ==
    ASSUME PauseInv, Fork
    PROVE  PauseInv' /\ ~StartsTurn
BY DEF Fork, PauseInv, PausedByEvidence, LastOf, At, StartsTurn

LEMMA CrashPause ==
    ASSUME PauseInv, Crash
    PROVE  PauseInv' /\ ~StartsTurn
<1>1. ~loaded' /\ \A c \in Callers : task'[c] = Idle
  BY DEF Crash
<1>2. {"driver", "operator"} \subseteq Callers /\ Idle.at = "idle"
  BY DEF Callers, Idle
<1> QED BY <1>1, <1>2 DEF PauseInv, StartsTurn, At

LEMMA SealPause ==
    ASSUME IInv, NEW c \in Callers, Seal(c)
    PROVE  PauseMoves(c)
BY SealCheckPause, RunSealedEventPause, CreateFinalCheckpointPause, AnchorPause,
   BlockedRecordPause, PendingRecordPause, VerifyPause, VerdictRecordPause,
   AbortDecisionPause DEF Seal

LEMMA TurnPause ==
    ASSUME IInv, Turn
    PROVE  PauseMoves("driver")
BY ExecuteTurnPause, AppendTurnRecordPause, ScheduleRepairPause, EventBoundariesPause,
   PauseNotAvailablePause DEF Turn

LEMMA RecoveryPause ==
    ASSUME IInv, Recovery
    PROVE  PauseMoves("driver")
BY CheckSignersPause, RecoverPrefixPause, RecoveryEventPause, RecoveryCheckpointPause
   DEF Recovery

LEMMA InterventionPause ==
    ASSUME IInv, Intervention
    PROVE  PauseMoves("operator")
BY PauseEventPause, ResumePrefixPause, ResumeEventPause, ResumeCheckpointPause,
   AnnotateEventPause, AnnotateCheckPause, AnnotateCheckpointPause, AnnotateRecordPause,
   RetryEventPause, AbandonEventPause, AbandonRecordPause DEF Intervention

LEMMA OperatorPause ==
    ASSUME IInv, Operator
    PROVE  PauseMoves("operator")
BY StartPausePause, StartResumePause, StartAnnotatePause, StartAbortPause,
   StartRetrySealPause, StartAbandonSealPause DEF Operator

LEMMA ProceedPause ==
    ASSUME IInv, NEW c \in Callers, Proceed(c)
    PROVE  PauseMoves(c)
BY InitialRecordPause, CheckpointZeroPause, TurnPause, RecoveryPause, InterventionPause,
   BeginEvaluationPause, PauseCheckpointPause, AbortEventPause, AbortRecordPause,
   SealPause, GatewayRefusesPause DEF Proceed

LEMMA PauseNext ==
    IInv /\ IInv' /\ PauseInv /\ [Next]_vars =>
        PauseInv' /\ (StartsTurn => ~PausedByEvidence)
<1> SUFFICES ASSUME IInv, IInv', PauseInv, [Next]_vars
             PROVE  PauseInv' /\ (StartsTurn => ~PausedByEvidence)
  OBVIOUS
<1>1. CASE UNCHANGED vars
  BY <1>1 DEF vars, PauseInv, PausedByEvidence, LastOf, At, StartsTurn
<1>2. CASE \E c \in Callers : PauseMoves(c)
  BY <1>2, PauseKept
<1>3. "driver" \in Callers /\ "operator" \in Callers
  BY DEF Callers
<1>4. CASE Next
  BY <1>2, <1>3, <1>4, CreateRunPause, StartStepPause, StartSealPause, StartRecoverPause,
     OperatorPause, ProceedPause, CallFailsPause, LoseTurnRecordPause, ForkPause, CrashPause
     DEF Next
<1> QED BY <1>1, <1>4

\* Whatever calls overlap, fail or are lost, and however often the process is
\* restarted: between a pause and the resume that answers it no turn starts.
THEOREM PauseIsKept == Spec => PauseHolds
<1>1. Init => PauseInv
  BY DEF Init, PauseInv, PausedByEvidence, LastOf, At, Idle
<1>2. IInv /\ PauseInv /\ [Next]_vars => PauseInv'
  BY SealNext, PauseNext
<1>3. IInv /\ PauseInv /\ [Next]_vars =>
        [StartsTurn => LastOf({"pause", "pause-checkpoint"}) <= LastOf({"resume"})]_vars
  <2> SUFFICES ASSUME IInv, PauseInv, [Next]_vars, StartsTurn
               PROVE  LastOf({"pause", "pause-checkpoint"}) <= LastOf({"resume"})
    OBVIOUS
  <2>1. ~PausedByEvidence
    BY SealNext, PauseNext
  <2>2. /\ journal \in Seq(JournalEntries)
        /\ LastOf({"pause", "pause-checkpoint"}) \in Nat /\ LastOf({"resume"}) \in Nat
    BY NormalTypes, LastIs DEF IInv
  <2> QED BY <2>1, <2>2 DEF PausedByEvidence
<1> QED BY <1>1, <1>2, <1>3, IInvHolds, PTL DEF Spec, PauseHolds

---------------------------------------------------------------------------
(* The numbers of the turns *)

\* While no answer to a turn record is lost, the counter of the process is the
\* number of turn records, and the turn that is played has that number.
TurnInv ==
    /\ TurnsNumbered
    /\ ~Registered => turns = <<>>
    /\ loaded => mem.turn = Len(turns)
    /\ task["driver"].at \in {"channel", "turn-record"} => task["driver"].turn = mem.turn

\* The next number, read back from the records.
LEMMA NextIsCount ==
    ASSUME turns \in Seq(TurnType), TurnsNumbered
    PROVE  NextTurn = Len(turns)
<1>1. CASE turns = <<>>
  BY <1>1 DEF NextTurn
<1>2. CASE turns # <<>>
  <2>1. Len(turns) \in Nat \ {0} /\ Len(turns) \in DOMAIN turns
    BY <1>2
  <2>2. Last(turns) = turns[Len(turns)]
    BY DEF Last
  <2>3. turns[Len(turns)].turn = Len(turns) - 1
    BY <2>1 DEF TurnsNumbered
  <2> QED BY <1>2, <2>1, <2>2, <2>3 DEF NextTurn
<1> QED BY <1>1, <1>2

LEMMA TurnKept ==
    ASSUME IInv, TurnInv, NEW c \in Callers, PauseMoves(c), ~At(c, "channel"),
           turns' = turns, metadata' = metadata, mem'.turn = mem.turn
    PROVE  TurnInv'
<1>1. task'["driver"].at \in {"channel", "turn-record"} => task'["driver"] = task["driver"]
  BY DEF PauseMoves, Callers
<1>2. loaded
  BY DEF PauseMoves
<1> QED BY <1>1, <1>2 DEF TurnInv, TurnsNumbered, Registered

LEMMA EndedTurns ==
    ASSUME IInv, TurnInv, NEW c \in Callers, Return(c), PauseMoves(c),
           turns' = turns, metadata' = metadata, mem' = mem
    PROVE  TurnInv'
<1>1. task'["driver"].at \in {"channel", "turn-record"} => task'["driver"] = task["driver"]
  BY ReturnAt DEF Callers
<1> QED BY <1>1 DEF PauseMoves, TurnInv, TurnsNumbered, Registered

LEMMA ExecuteTurnTurns ==
    ASSUME IInv, TurnInv, ExecuteTurn
    PROVE  TurnInv'
<1>0. "driver" \in Callers /\ "turn-record" \in Labels /\ At("driver", "channel")
  BY DEF Callers, Labels, ExecuteTurn
<1>1. PICK trigger \in BOOLEAN :
        task' = [task EXCEPT !["driver"].at = "turn-record", !["driver"].trigger = trigger]
  BY DEF ExecuteTurn
<1>2. task'["driver"].turn = task["driver"].turn
  BY <1>0, <1>1, SetEffect, NormalTypes DEF IInv
<1>3. mem' = mem \/ mem' = [mem EXCEPT !.adapter = FALSE]
  BY DEF ExecuteTurn
<1>4. mem'.turn = mem.turn
  BY <1>3, NormalTypes DEF IInv, MemType
<1>5. turns' = turns /\ metadata' = metadata /\ loaded' = loaded
  BY DEF ExecuteTurn
<1> QED BY <1>0, <1>2, <1>4, <1>5 DEF TurnInv, TurnsNumbered, Registered, At

LEMMA AppendTurnRecordTurns ==
    ASSUME IInv, TurnInv, AppendTurnRecord
    PROVE  TurnInv'
<1>0. "driver" \in Callers /\ {"boundaries", "repair-turn"} \subseteq Labels
  BY DEF Callers, Labels
<1>1. loaded /\ task["driver"].turn = mem.turn /\ mem.turn = Len(turns)
  BY <1>0, Busy DEF AppendTurnRecord, At, TurnInv, IInv
<1>2. /\ mem \in MemType /\ turns \in Seq(TurnType) /\ task["driver"] \in TaskType
  BY <1>0, NormalTypes DEF IInv, Shape, TypeOK
<1>3. PICK t \in TaskType : t = task["driver"]
  BY <1>2
<1>4. turns' = Append(turns, TurnRecord(t)) /\ TurnRecord(t).turn = t.turn
  BY <1>3 DEF AppendTurnRecord, TurnRecord
<1>5. mem'.turn = t.turn + 1
  <2>0. Counted(t) \in MemType
    BY CountedType DEF IInv
  <2>1. Counted(t).turn = t.turn + 1
    <3>1. \A r, n, m : [mem EXCEPT !.turn = t.turn + 1, !.repair = r, !.training = n,
                                    !.evaluation = m].turn = t.turn + 1
      BY <1>2 DEF MemType
    <3> QED BY <3>1 DEF Counted
  <2>2. \/ mem' = Counted(t)
        \/ mem' = [Counted(t) EXCEPT !.repair = t.turn, !.phase = t.phase]
    BY <1>3 DEF AppendTurnRecord
  <2>3. PICK m \in MemType : m = Counted(t)
    BY <2>0
  <2>4. [m EXCEPT !.repair = t.turn, !.phase = t.phase].turn = m.turn
    BY <2>3 DEF MemType
  <2> QED BY <2>1, <2>2, <2>3, <2>4
<1>6. task'["driver"].at \in {"boundaries", "repair-turn"}
  BY <1>0, GoAt DEF AppendTurnRecord
<1>7. Len(turns') = Len(turns) + 1 /\ Len(turns) \in Nat
      /\ \A i \in DOMAIN turns' : turns'[i].turn = i - 1
  <2>1. DOMAIN turns' = 1..(Len(turns) + 1) /\ Len(turns') = Len(turns) + 1
        /\ Len(turns) \in Nat /\ DOMAIN turns = 1..Len(turns)
    BY <1>2, <1>4
  <2>2. ASSUME NEW i \in DOMAIN turns' PROVE turns'[i].turn = i - 1
    <3>1. CASE i \in DOMAIN turns
      BY <1>2, <1>4, <3>1 DEF TurnInv, TurnsNumbered
    <3>2. CASE i = Len(turns) + 1
      <4>1. turns'[i] = TurnRecord(t)
        BY <1>2, <1>4, <3>2
      <4> QED BY <1>1, <1>3, <1>4, <2>1, <3>2, <4>1
    <3> QED BY <2>1, <3>1, <3>2
  <2> QED BY <2>1, <2>2
<1>8. loaded' /\ Registered'
  BY <1>0, <1>1 DEF AppendTurnRecord, IInv, Shape, Registered
<1> QED BY <1>1, <1>3, <1>5, <1>6, <1>7, <1>8 DEF TurnInv, TurnsNumbered

LEMMA StartStepTurns ==
    ASSUME IInv, TurnInv, StartStep
    PROVE  TurnInv'
<1>1. "driver" \in Callers /\ task'["driver"].turn = mem.turn
  <2>1. "driver" \in Callers
    BY DEF Callers
  <2> QED BY <2>1, NormalTypes DEF StartStep, Idle, IInv
<1>2. turns' = turns /\ mem' = mem /\ loaded' = loaded /\ metadata' = metadata
  BY DEF StartStep, evidence
<1> QED BY <1>1, <1>2 DEF TurnInv, TurnsNumbered, Registered

LEMMA RecoverPrefixTurns ==
    ASSUME IInv, TurnInv, RecoverPrefix
    PROVE  TurnInv'
<1>1. /\ turns' = turns /\ metadata' = metadata /\ "driver" \in Callers
      /\ At("driver", "prefix")
  BY DEF RecoverPrefix, evidence, Callers
<1>2. /\ mem \in MemType /\ turns \in Seq(TurnType) /\ loaded
  BY <1>1, NormalTypes, Busy DEF IInv, At
<1>3. \/ mem' = mem
      \/ mem' = [mem EXCEPT !.incomplete = TRUE]
      \/ mem' = Recounted
  BY DEF RecoverPrefix
<1>4. Recounted.turn = mem.turn
  <2>1. NextTurn = mem.turn
    BY <1>2, NextIsCount DEF TurnInv
  <2> QED BY <1>2, <2>1 DEF Recounted, MemType
<1>5. mem'.turn = mem.turn
  BY <1>2, <1>3, <1>4 DEF MemType
<1> QED BY <1>1, <1>5, RecoverPrefixPause, TurnKept DEF At

LEMMA StartRecoverTurns ==
    ASSUME IInv, TurnInv, StartRecover
    PROVE  TurnInv'
<1>1. /\ turns' = turns /\ metadata' = metadata /\ Registered /\ "driver" \in Callers
      /\ At("driver", "idle")
  BY DEF StartRecover, evidence, Callers
<1>2. task'["driver"].at \notin {"channel", "turn-record"}
  BY <1>1, GoAt DEF StartRecover, At
<1>3. loaded' => mem'.turn = Len(turns)
  <2>1. CASE loaded
    BY <2>1 DEF StartRecover, TurnInv
  <2>2. CASE ~loaded
    <3>1. NextTurn = Len(turns)
      BY NextIsCount DEF TurnInv, IInv, Shape, TypeOK
    <3>2. mem'.turn = NextTurn
      BY <2>2 DEF StartRecover, Fresh
    <3> QED BY <3>1, <3>2
  <2> QED BY <2>1, <2>2
<1> QED BY <1>1, <1>2, <1>3 DEF TurnInv, TurnsNumbered, Registered

LEMMA CreateRunTurns ==
    ASSUME IInv, TurnInv, CreateRun
    PROVE  TurnInv'
<1>1. turns' = turns /\ turns = <<>> /\ Registered'
  BY DEF CreateRun, TurnInv, Registered
<1>2. task'["driver"].at = "initial-record"
  BY GoAt DEF CreateRun, Callers
<1>3. mem'.turn = 0
  BY DEF CreateRun, Fresh
<1> QED BY <1>1, <1>2, <1>3 DEF TurnInv, TurnsNumbered

LEMMA CrashTurns ==
    ASSUME TurnInv, Crash
    PROVE  TurnInv'
<1>1. /\ ~loaded' /\ turns' = turns /\ metadata' = metadata
      /\ task'["driver"] = Idle
  BY DEF Crash, Callers
<1>2. Idle.at = "idle"
  BY DEF Idle
<1> QED BY <1>1, <1>2 DEF TurnInv, TurnsNumbered, Registered

\* The other calls write no turn record and leave the counter of the turns.
LEMMA SealTurns ==
    ASSUME IInv, TurnInv, NEW c \in Callers, Seal(c)
    PROVE  TurnInv'
<1>1. turns' = turns /\ metadata' = metadata /\ mem' = mem /\ ~At(c, "channel")
  BY DEF Seal, SealCheck, RunSealedEvent, CreateFinalCheckpoint, Anchor, BlockedRecord,
     PendingRecord, Verify, VerdictRecord, AbortDecision, At
<1> QED BY <1>1, SealPause, TurnKept

LEMMA InterventionTurns ==
    ASSUME IInv, TurnInv, Intervention
    PROVE  TurnInv'
<1>1. turns' = turns /\ metadata' = metadata /\ mem' = mem /\ ~At("operator", "channel")
  BY DEF Intervention, PauseEvent, ResumePrefix, ResumeEvent, ResumeCheckpoint,
     ApplyStageTransitions, AnnotateEvent, AnnotateCheck, AnnotateCheckpoint, AnnotateRecord,
     RetryEvent, AbandonEvent, AbandonRecord, evidence, At
<1> QED BY <1>1, InterventionPause, TurnKept DEF Callers

LEMMA OperatorTurns ==
    ASSUME IInv, TurnInv, Operator
    PROVE  TurnInv'
<1>1. turns' = turns /\ metadata' = metadata /\ mem' = mem /\ ~At("operator", "channel")
  BY DEF Operator, StartPause, StartResume, StartAnnotate, StartAbort, StartRetrySeal,
     StartAbandonSeal, OperatorCalls, evidence, At
<1> QED BY <1>1, OperatorPause, TurnKept DEF Callers

LEMMA TurnTurns ==
    ASSUME IInv, TurnInv, Turn
    PROVE  TurnInv'
<1>1. CASE ScheduleRepair \/ EventBoundaries \/ PauseNotAvailable
  <2>1. turns' = turns /\ metadata' = metadata /\ mem' = mem /\ ~At("driver", "channel")
    BY <1>1 DEF ScheduleRepair, EventBoundaries, PauseNotAvailable, ApplyStageTransitions, At
  <2> QED BY <1>1, <2>1, TurnPause, TurnKept DEF Turn, Callers
<1> QED BY <1>1, ExecuteTurnTurns, AppendTurnRecordTurns DEF Turn

LEMMA RecoveryTurns ==
    ASSUME IInv, TurnInv, Recovery
    PROVE  TurnInv'
<1>1. CASE CheckSigners \/ RecoveryEvent \/ RecoveryCheckpoint
  <2>1. turns' = turns /\ metadata' = metadata /\ mem' = mem /\ ~At("driver", "channel")
    BY <1>1 DEF CheckSigners, RecoveryEvent, RecoveryCheckpoint, ApplyStageTransitions, At
  <2> QED BY <1>1, <2>1, RecoveryPause, TurnKept DEF Recovery, Callers
<1> QED BY <1>1, RecoverPrefixTurns DEF Recovery

LEMMA ProceedTurns ==
    ASSUME IInv, TurnInv, NEW c \in Callers, Proceed(c)
    PROVE  TurnInv'
<1>1. CASE c = "driver" /\ (InitialRecord \/ CheckpointZero)
  <2>1. turns' = turns /\ metadata' = metadata /\ mem' = mem /\ ~At(c, "channel")
    BY <1>1 DEF InitialRecord, CheckpointZero, ApplyStageTransitions, At
  <2> QED BY <1>1, <2>1, InitialRecordPause, CheckpointZeroPause, TurnKept
<1>2. CASE BeginEvaluation(c) \/ PauseCheckpoint(c) \/ AbortEvent(c) \/ AbortRecord(c)
  <2>1. turns' = turns /\ metadata' = metadata /\ mem' = mem /\ ~At(c, "channel")
    BY <1>2 DEF BeginEvaluation, PauseCheckpoint, AbortEvent, AbortRecord, At
  <2> QED BY <1>2, <2>1, BeginEvaluationPause, PauseCheckpointPause, AbortEventPause,
             AbortRecordPause, TurnKept
<1>3. CASE GatewayRefuses(c)
  BY <1>3, EndedTurns, GatewayRefusesPause DEF GatewayRefuses, evidence
<1> QED BY <1>1, <1>2, <1>3, TurnTurns, RecoveryTurns, InterventionTurns, SealTurns DEF Proceed

LEMMA TurnNext ==
    ASSUME "lost" \notin Mishaps
    PROVE  IInv /\ TurnInv /\ [Next]_vars => TurnInv'
<1> SUFFICES ASSUME IInv, TurnInv, [Next]_vars PROVE TurnInv'
  OBVIOUS
<1>1. CASE UNCHANGED vars
  BY <1>1 DEF vars, TurnInv, TurnsNumbered, Registered
<1>2. CASE StartSeal
  <2>1. turns' = turns /\ metadata' = metadata /\ mem' = mem /\ ~At("driver", "channel")
    BY <1>2 DEF StartSeal, DriverFree, evidence, At
  <2> QED BY <1>2, <2>1, StartSealPause, TurnKept DEF Callers
<1>3. CASE Fork
  BY <1>3 DEF Fork, TurnInv, TurnsNumbered, Registered
<1>4. ASSUME NEW c \in Callers, CallFails(c) PROVE TurnInv'
  BY <1>4, EndedTurns, CallFailsPause DEF CallFails
<1>5. ~LoseTurnRecord
  BY DEF LoseTurnRecord, Mishap
<1> QED BY <1>1, <1>2, <1>3, <1>4, <1>5, CreateRunTurns, StartStepTurns, StartRecoverTurns,
           OperatorTurns, ProceedTurns, CrashTurns DEF Next

\* Whatever calls overlap or fail, and however often the process is restarted,
\* the turn records are numbered 0, 1, 2, ..., unless the answer to a turn record
\* is lost: then its number is played again (step).
THEOREM TurnsAreNumbered ==
    ASSUME "lost" \notin Mishaps
    PROVE  Spec => []TurnsNumbered
<1>1. Init => TurnInv
  BY DEF Init, TurnInv, TurnsNumbered, Idle, Callers, Fresh
<1>2. IInv /\ TurnInv => TurnsNumbered
  BY DEF TurnInv
<1> QED BY <1>1, <1>2, IInvHolds, TurnNext, PTL DEF Spec

---------------------------------------------------------------------------
(* A run is sealed once, and an aborted one is never valid *)

BeforeSeal == WritingLabels \cup {"abort"}

\* While nothing went wrong. Each part of the seal is written once because no two
\* callers are ever about to write it: a second abort, and a seal beside an abort,
\* have no transition to begin with, and the operator tries a seal again only when
\* its evidence exists.
VerdictInv ==
    /\ ~quarantined
    /\ Registered => loaded
    /\ \A b \in Roles : sealed[b] <= 1
    /\ \A i, j \in DOMAIN journal : {journal[i], journal[j]} \subseteq FinalReasons => i = j
    /\ FinalCheckpoint = 0 /\ sealed["baby-a"] > 0 =>
            \E c \in Callers : task[c].at \in {"seal-b", "final-checkpoint"}
    /\ FinalCheckpoint = 0 /\ sealed["baby-b"] > 0 =>
            \E c \in Callers : At(c, "final-checkpoint")
    /\ \A c \in Callers : task[c].at \in BeforeSeal => FinalCheckpoint = 0
    /\ task["operator"].at \in {"seal-retry", "seal-check"} => FinalCheckpoint # 0
    /\ task["operator"].at \in WritingLabels => task["operator"].aborting
    /\ (\E i \in DOMAIN journal : journal[i] = "abort") =>
            \/ FinalCheckpoint # 0 /\ ~Completed
            \/ /\ FinalCheckpoint = 0
               /\ \E c \in Callers : task[c].aborting /\ task[c].at \in WritingLabels
    /\ state = "sealed" => Completed

\* A step of caller c that writes no part of the seal, as this invariant sees it.
Aside(c) ==
    /\ \A d \in Callers : d # c => task'[d] = task[d]
    /\ task[c].at \notin BeforeSeal
    /\ task'[c].at \in BeforeSeal => FinalCheckpoint = 0
    /\ task'[c].at \in WritingLabels => c = "driver"
    /\ c = "operator" /\ task'[c].at \in {"seal-retry", "seal-check"} => FinalCheckpoint # 0
    /\ UNCHANGED <<sealed, quarantined, loaded, metadata>>
    /\ \/ journal' = journal
       \/ \E w \in JournalEntries \ (FinalReasons \cup {"abort"}) : Write(w)
    /\ state' = "sealed" => state = "sealed" \/ Completed

LEMMA AsideKept ==
    ASSUME IInv, VerdictInv, NEW c \in Callers, Aside(c)
    PROVE  VerdictInv'
<1>0. journal \in Seq(JournalEntries) /\ "operator" \in Callers
  BY NormalTypes DEF IInv, Callers
<1>1. FinalCheckpoint' = FinalCheckpoint /\ (Completed' <=> Completed)
  BY <1>0, QuietKeeps DEF Aside, Quiet
<1>2. \A i \in DOMAIN journal' : journal'[i] \in FinalReasons \cup {"abort"} =>
        i \in DOMAIN journal /\ journal[i] = journal'[i]
  BY <1>0, WriteEffect DEF Aside
<1>3. \A d \in Callers : task[d].at \in BeforeSeal => d # c /\ task'[d] = task[d]
  BY DEF Aside
<1>4. ASSUME NEW d \in Callers, task'[d].at \in BeforeSeal
      PROVE  /\ FinalCheckpoint = 0
             /\ d = "operator" /\ task'[d].at \in WritingLabels => task'[d] = task[d]
  BY <1>4 DEF Aside, VerdictInv, BeforeSeal
<1>5. (FinalCheckpoint = 0 /\ sealed["baby-a"] > 0 =>
            \E d \in Callers : task[d].at \in {"seal-b", "final-checkpoint"})'
  BY <1>1, <1>3 DEF Aside, VerdictInv, BeforeSeal, WritingLabels
<1>6. (FinalCheckpoint = 0 /\ sealed["baby-b"] > 0 =>
            \E d \in Callers : At(d, "final-checkpoint"))'
  BY <1>1, <1>3 DEF Aside, VerdictInv, BeforeSeal, WritingLabels, At
<1>7. (/\ task["operator"].at \in {"seal-retry", "seal-check"} => FinalCheckpoint # 0
       /\ task["operator"].at \in WritingLabels => task["operator"].aborting)'
  BY <1>0, <1>1, <1>4 DEF Aside, VerdictInv, BeforeSeal
<1>8. (\E i \in DOMAIN journal' : journal'[i] = "abort") =>
            \/ FinalCheckpoint # 0 /\ ~Completed
            \/ /\ FinalCheckpoint = 0
               /\ \E d \in Callers : task'[d].aborting /\ task'[d].at \in WritingLabels
  BY <1>2, <1>3 DEF VerdictInv, BeforeSeal
<1>9. \A i, j \in DOMAIN journal' : {journal'[i], journal'[j]} \subseteq FinalReasons => i = j
  BY <1>2 DEF VerdictInv
<1> QED BY <1>1, <1>4, <1>5, <1>6, <1>7, <1>8, <1>9 DEF VerdictInv, Aside, Registered

\* No two callers are about to write the seal.
LEMMA OneSeals ==
    ASSUME IInv, VerdictInv, NEW c \in Callers, NEW d \in Callers,
           task[c].at \in BeforeSeal, task[d].at \in BeforeSeal
    PROVE  c = d
<1>1. ASSUME c # d PROVE FALSE
  <2>1. Apart(c, d) /\ Apart(d, c) /\ (c = "operator" \/ d = "operator")
    BY <1>1 DEF IInv, CallsInv, Callers
  <2> QED BY <2>1 DEF VerdictInv, Apart, Aborts, Seals, BeforeSeal, WritingLabels
<1> QED BY <1>1

LEMMA AbortEventVerdict ==
    ASSUME IInv, VerdictInv, NEW c \in Callers, AbortEvent(c)
    PROVE  VerdictInv'
<1>1. journal \in Seq(JournalEntries) /\ "abort" \in JournalEntries /\ "abort" \notin FinalReasons
  BY NormalTypes DEF IInv, JournalEntries, FinalReasons
<1>2. /\ task'[c].at = "seal-a" /\ task'[c].aborting
      /\ \A d \in Callers : d # c => task'[d] = task[d]
  BY NormalTypes, SetEffect DEF AbortEvent, Labels, IInv
<1>3. FinalCheckpoint = 0 /\ At(c, "abort")
  BY DEF VerdictInv, AbortEvent, At, BeforeSeal
<1>4. FinalCheckpoint' = 0
  BY <1>1, <1>3, FinalStays DEF AbortEvent
<1>5. \A i \in DOMAIN journal' : journal'[i] \in FinalReasons =>
        i \in DOMAIN journal /\ journal[i] = journal'[i]
  BY <1>1, WriteEffect DEF AbortEvent
<1>6. /\ sealed' = sealed /\ quarantined' = quarantined /\ loaded' = loaded
      /\ metadata' = metadata /\ state' = state
  BY DEF AbortEvent
<1>7. /\ ~(sealed["baby-a"] > 0) /\ ~(sealed["baby-b"] > 0)
  BY <1>3, OneSeals DEF VerdictInv, At, BeforeSeal, WritingLabels
<1>8. \A i, j \in DOMAIN journal' : {journal'[i], journal'[j]} \subseteq FinalReasons => i = j
  BY <1>5 DEF VerdictInv
<1>9. /\ task'["operator"].at \notin {"seal-retry", "seal-check"} \/ FinalCheckpoint # 0
      /\ task'["operator"].at \in WritingLabels => task'["operator"].aborting
  BY <1>2 DEF VerdictInv, Callers
<1>10. ~Completed
  BY <1>3 DEF Completed
<1> QED BY <1>2, <1>3, <1>4, <1>6, <1>7, <1>8, <1>9, <1>10 DEF VerdictInv, Registered, WritingLabels

LEMMA SealCheckAside ==
    ASSUME IInv, VerdictInv, NEW c \in Callers, SealCheck(c)
    PROVE  Aside(c)
<1>0. /\ At(c, "seal-check") /\ (SealEvidenceExists <=> FinalCheckpoint # 0)
      /\ task \in [Callers -> TaskType]
  BY NotClosing, NormalTypes DEF SealCheck, IInv
<1>1. /\ \A d \in Callers : d # c => task'[d] = task[d]
      /\ \/ FinalCheckpoint # 0 /\ task'[c].at = "anchor"
         \/ FinalCheckpoint = 0 /\ task'[c].at = "seal-a"
  BY <1>0, GoAt DEF SealCheck, TaskType
<1>2. \/ journal' = journal
      \/ \E w \in JournalEntries \ (FinalReasons \cup {"abort"}) : Write(w)
  BY DEF SealCheck, PolicyCheckpoint, JournalEntries, FinalReasons
<1>3. c = "driver" \/ FinalCheckpoint # 0
  BY <1>0 DEF VerdictInv, At, Callers
<1> QED BY <1>0, <1>1, <1>2, <1>3 DEF SealCheck, Aside, BeforeSeal, WritingLabels, At

LEMMA RunSealedEventVerdict ==
    ASSUME IInv, VerdictInv, NEW c \in Callers, RunSealedEvent(c)
    PROVE  VerdictInv'
<1>0. task[c].at \in {"seal-a", "seal-b"} /\ task[c].at \in BeforeSeal /\ FinalCheckpoint = 0
  BY DEF RunSealedEvent, At, BeforeSeal, WritingLabels, VerdictInv
<1>1. \A d \in Callers : d # c => task'[d] = task[d] /\ task[d].at \notin BeforeSeal
  BY <1>0, GoAt, OneSeals DEF RunSealedEvent
<1>2. /\ {"seal-b", "final-checkpoint"} \subseteq Labels /\ task \in [Callers -> TaskType]
      /\ sealed \in [Roles -> Nat] /\ Roles = {"baby-a", "baby-b"}
  BY NormalTypes DEF Labels, IInv, Shape, TypeOK, Roles
<1>3. /\ task'[c].aborting = task[c].aborting /\ task'[c].at \in {"seal-b", "final-checkpoint"}
      /\ At(c, "seal-b") => task'[c].at = "final-checkpoint"
  BY <1>2, GoEffect DEF RunSealedEvent, At
<1>4. /\ At(c, "seal-a") => ~(sealed["baby-a"] > 0) /\ ~(sealed["baby-b"] > 0)
      /\ At(c, "seal-b") => ~(sealed["baby-b"] > 0)
  BY <1>0, <1>1 DEF VerdictInv, At, BeforeSeal, WritingLabels
<1>5. /\ \A b \in Roles : sealed'[b] <= 1
      /\ At(c, "seal-a") => sealed'["baby-b"] = sealed["baby-b"]
  BY <1>2, <1>4 DEF RunSealedEvent, VerdictInv, At
<1>6. /\ journal' = journal /\ quarantined' = quarantined /\ loaded' = loaded
      /\ metadata' = metadata /\ state' = state
      /\ FinalCheckpoint' = FinalCheckpoint /\ (Completed' <=> Completed)
  BY DEF RunSealedEvent, FinalCheckpoint, Completed
<1>7. (\E d \in Callers : task[d].aborting /\ task[d].at \in WritingLabels) =>
        \E d \in Callers : task'[d].aborting /\ task'[d].at \in WritingLabels
  BY <1>1, <1>3 DEF BeforeSeal, WritingLabels
<1>8. (/\ task["operator"].at \in {"seal-retry", "seal-check"} => FinalCheckpoint # 0
       /\ task["operator"].at \in WritingLabels => task["operator"].aborting)'
  BY <1>0, <1>1, <1>3, <1>6 DEF VerdictInv, WritingLabels, Callers
<1>9. (sealed'["baby-b"] > 0 => At(c, "seal-b")) /\ (At(c, "seal-a") \/ At(c, "seal-b"))
  BY <1>0, <1>4, <1>5 DEF At
<1> QED BY <1>0, <1>1, <1>3, <1>5, <1>6, <1>7, <1>8, <1>9 DEF VerdictInv, Registered, At

LEMMA CreateFinalCheckpointVerdict ==
    ASSUME IInv, VerdictInv, NEW c \in Callers, CreateFinalCheckpoint(c)
    PROVE  VerdictInv'
<1>0. At(c, "final-checkpoint") /\ task[c].at \in BeforeSeal /\ FinalCheckpoint = 0
  BY DEF CreateFinalCheckpoint, At, BeforeSeal, WritingLabels, VerdictInv
<1>1. /\ task'[c].at = "anchor"
      /\ \A d \in Callers : d # c => task'[d] = task[d] /\ task[d].at \notin BeforeSeal
  BY <1>0, GoAt, OneSeals DEF CreateFinalCheckpoint
<1>2. PICK w \in FinalReasons :
        Write(w) /\ w = IF task[c].aborted THEN "run-aborted" ELSE "run-sealed"
  BY DEF CreateFinalCheckpoint, FinalReasons
<1>3. w \in JournalEntries /\ w # "abort" /\ journal \in Seq(JournalEntries)
  BY <1>2, NormalTypes DEF JournalEntries, FinalReasons, IInv
<1>4. FinalCheckpoint' # 0 /\ (Completed' <=> ~task[c].aborted)
  BY <1>0, <1>2, <1>3, FinalStays DEF Completed
<1>5. \A i \in DOMAIN journal : journal[i] \notin FinalReasons
  BY <1>0, <1>3, FinalIs
<1>6. /\ \A i, j \in DOMAIN journal' : {journal'[i], journal'[j]} \subseteq FinalReasons => i = j
      /\ \A i \in DOMAIN journal' : journal'[i] = "abort" =>
            i \in DOMAIN journal /\ journal[i] = "abort"
  BY <1>2, <1>3, <1>5, WriteEffect
<1>7. (\E i \in DOMAIN journal' : journal'[i] = "abort") => ~Completed'
  <2>1. CallOf(c)
    BY DEF IInv, CallsInv
  <2> QED BY <1>0, <1>1, <1>4, <1>6, <2>1 DEF VerdictInv, CallOf, BeforeSeal
<1>8. \A d \in Callers : task'[d].at \notin BeforeSeal
  BY <1>1 DEF BeforeSeal, WritingLabels
<1>9. /\ sealed' = sealed /\ quarantined' = quarantined /\ loaded' = loaded
      /\ metadata' = metadata /\ state' = state
  BY DEF CreateFinalCheckpoint
<1>10. state # "sealed"
  BY <1>0 DEF VerdictInv, Completed
<1> QED BY <1>4, <1>6, <1>7, <1>8, <1>9, <1>10 DEF VerdictInv, Registered, BeforeSeal, Callers

\* What a call reads or writes outside the seal.
Passes == UNCHANGED <<sealed, quarantined, loaded, metadata>> /\
    \/ journal' = journal
    \/ \E w \in JournalEntries \ (FinalReasons \cup {"abort"}) : Write(w)

\* Where a call is before or in none of the steps of the seal.
Away(label) == label \notin BeforeSeal \cup {"seal-retry", "seal-check"}

LEMMA WhereItGoes ==
    ASSUME IInv, NEW c \in Callers
    PROVE  /\ \A label : Go(c, label) => task'[c].at = label
           /\ Return(c) => task'[c].at = "idle"
           /\ \A s \in RunStates : ApplyStageTransitions(c, s, mem) => Away(task'[c].at)
           /\ \A event : ApplyAndReturn(c, event) => task'[c].at = "idle"
           /\ task \in [Callers -> TaskType]
<1>1. ASSUME NEW label, Go(c, label) PROVE task'[c].at = label
  BY <1>1, GoAt
<1>2. Return(c) => task'[c].at = "idle"
  BY ReturnAt
<1>3. ASSUME NEW s \in RunStates, ApplyStageTransitions(c, s, mem) PROVE Away(task'[c].at)
  BY <1>3, StageAt DEF Away, BeforeSeal, WritingLabels
<1>4. ASSUME NEW event, ApplyAndReturn(c, event) PROVE task'[c].at = "idle"
  BY <1>4, ApplyAt
<1> QED BY <1>1, <1>2, <1>3, <1>4, NormalTypes DEF IInv

LEMMA AsideWhen ==
    ASSUME IInv, NEW c \in Callers, PauseMoves(c), Passes, task[c].at \notin BeforeSeal,
           state' = "sealed" => state = "sealed" \/ Completed,
           \/ Away(task'[c].at)
           \/ task'[c].at \in {"seal-retry", "seal-check"} /\ (c = "operator" => FinalCheckpoint # 0)
           \/ task'[c].at = "abort" /\ FinalCheckpoint = 0
    PROVE  Aside(c)
BY DEF PauseMoves, Passes, Aside, Away, BeforeSeal, WritingLabels

LEMMA TurnAside ==
    ASSUME IInv, VerdictInv, Turn
    PROVE  Aside("driver")
<1>0. "driver" \in Callers /\ PauseMoves("driver") /\ task \in [Callers -> TaskType]
  BY TurnPause, NormalTypes DEF Callers, IInv
<1>1. Passes /\ task["driver"].at \notin BeforeSeal
  BY DEF Turn, ExecuteTurn, AppendTurnRecord, ScheduleRepair, EventBoundaries, PauseNotAvailable,
     Passes, JournalEntries, FinalReasons, BeforeSeal, WritingLabels, At
<1>2. state' = "sealed" => state = "sealed"
  BY DEF Turn, ExecuteTurn, AppendTurnRecord, ScheduleRepair, EventBoundaries, PauseNotAvailable,
     ApplyStageTransitions
<1>3. \/ Away(task'["driver"].at)
      \/ task'["driver"].at = "abort" /\ FinalCheckpoint = 0
  <2>0. state \in RunStates
    BY NormalTypes DEF IInv
  <2>1. CASE ExecuteTurn
    <3>1. task'["driver"].at = "turn-record"
      BY <1>0, <2>1 DEF ExecuteTurn, TaskType
    <3> QED BY <3>1 DEF Away, BeforeSeal, WritingLabels
  <2>2. CASE AppendTurnRecord
    <3>1. task'["driver"].at \in {"boundaries", "repair-turn"}
      BY <1>0, <2>2, WhereItGoes DEF AppendTurnRecord
    <3> QED BY <3>1 DEF Away, BeforeSeal, WritingLabels
  <2>3. CASE ScheduleRepair
    <3>1. task'["driver"].at = "boundaries"
      BY <1>0, <2>3, WhereItGoes DEF ScheduleRepair
    <3> QED BY <3>1 DEF Away, BeforeSeal, WritingLabels
  <2>4. CASE EventBoundaries
    <3>1. \/ task'["driver"].at \in {"pause-checkpoint", "pause-not-available"}
          \/ ApplyStageTransitions("driver", state, mem)
      BY <1>0, <2>4, WhereItGoes DEF EventBoundaries
    <3> QED BY <1>0, <2>0, <3>1, WhereItGoes DEF Away, BeforeSeal, WritingLabels
  <2>5. CASE PauseNotAvailable
    <3>1. CanApply(state, "abort") => FinalCheckpoint = 0
      BY <1>0, Applicable, NotClosing DEF Abortable, Closing, PauseMoves
    <3>2. \/ ApplyStageTransitions("driver", state, mem)
          \/ task'["driver"].at = "abort" /\ CanApply(state, "abort")
      BY <1>0, <2>5, WhereItGoes DEF PauseNotAvailable
    <3> QED BY <1>0, <2>0, <3>1, <3>2, WhereItGoes
  <2> QED BY <2>1, <2>2, <2>3, <2>4, <2>5 DEF Turn
<1> QED BY <1>0, <1>1, <1>2, <1>3, AsideWhen

LEMMA RecoveryAside ==
    ASSUME IInv, VerdictInv, Recovery
    PROVE  Aside("driver")
<1>0. "driver" \in Callers /\ PauseMoves("driver")
  BY RecoveryPause DEF Callers
<1>1. Passes /\ task["driver"].at \notin BeforeSeal
  BY DEF Recovery, CheckSigners, RecoverPrefix, RecoveryEvent, RecoveryCheckpoint,
     Passes, evidence, JournalEntries, FinalReasons, BeforeSeal, WritingLabels, At
<1>2. state' = "sealed" => state = "sealed"
  BY Arrivals DEF Recovery, CheckSigners, RecoverPrefix, RecoveryEvent, RecoveryCheckpoint,
     ApplyStageTransitions, ApplyAndReturn
<1>3. Away(task'["driver"].at)
  <2>1. \/ task'["driver"].at \in {"prefix", "recovery", "recovery-checkpoint", "idle"}
        \/ ApplyStageTransitions("driver", state, mem)
    BY <1>0, WhereItGoes DEF Recovery, CheckSigners, RecoverPrefix, RecoveryEvent, RecoveryCheckpoint
  <2> QED BY <1>0, <2>1, WhereItGoes, NormalTypes DEF Away, BeforeSeal, WritingLabels, IInv
<1> QED BY <1>0, <1>1, <1>2, <1>3, AsideWhen

LEMMA InterventionAside ==
    ASSUME IInv, VerdictInv, Intervention
    PROVE  Aside("operator")
<1>0. "operator" \in Callers /\ PauseMoves("operator")
  BY InterventionPause DEF Callers
<1>1. Passes /\ task["operator"].at \notin BeforeSeal
  BY DEF Intervention, PauseEvent, ResumePrefix, ResumeEvent, ResumeCheckpoint, AnnotateEvent,
     AnnotateCheck, AnnotateCheckpoint, AnnotateRecord, RetryEvent, AbandonEvent, AbandonRecord,
     Passes, evidence, JournalEntries, FinalReasons, BeforeSeal, WritingLabels, At
<1>2. state' = "sealed" => state = "sealed"
  BY Arrivals DEF Intervention, PauseEvent, ResumePrefix, ResumeEvent, ResumeCheckpoint, AnnotateEvent,
     AnnotateCheck, AnnotateCheckpoint, AnnotateRecord, RetryEvent, AbandonEvent, AbandonRecord,
     ApplyStageTransitions, ApplyAndReturn
<1>3. \/ Away(task'["operator"].at)
      \/ task'["operator"].at \in {"seal-retry", "seal-check"} /\ FinalCheckpoint # 0
  <2>1. CASE RetryEvent
    BY <1>0, <2>1, WhereItGoes DEF RetryEvent, VerdictInv, At
  <2>2. CASE ResumePrefix \/ ResumeCheckpoint
    <3>1. \/ task'["operator"].at \in {"resume", "idle"}
          \/ ApplyStageTransitions("operator", "running", mem)
      BY <1>0, <2>2, WhereItGoes DEF ResumePrefix, ResumeCheckpoint
    <3> QED BY <1>0, <3>1, WhereItGoes, TransitionStates DEF Away, BeforeSeal, WritingLabels
  <2>3. CASE PauseEvent \/ ResumeEvent \/ AnnotateRecord \/ AbandonEvent \/ AbandonRecord
    <3>1. task'["operator"].at \in {"pause-checkpoint", "resume-checkpoint", "abandon-record", "idle"}
      BY <1>0, <2>3, WhereItGoes DEF PauseEvent, ResumeEvent, AnnotateRecord, AbandonEvent, AbandonRecord
    <3> QED BY <3>1 DEF Away, BeforeSeal, WritingLabels
  <2>4. CASE AnnotateEvent \/ AnnotateCheck \/ AnnotateCheckpoint
    <3>1. task'["operator"].at \in {"annotate-check", "annotate-checkpoint", "annotate-record", "idle"}
      BY <1>0, <2>4, WhereItGoes DEF AnnotateEvent, AnnotateCheck, AnnotateCheckpoint
    <3> QED BY <3>1 DEF Away, BeforeSeal, WritingLabels
  <2> QED BY <2>1, <2>2, <2>3, <2>4 DEF Intervention
<1> QED BY <1>0, <1>1, <1>2, <1>3, AsideWhen

LEMMA OperatorAside ==
    ASSUME IInv, VerdictInv, Operator
    PROVE  Aside("operator")
<1>0. "operator" \in Callers /\ PauseMoves("operator") /\ loaded
  BY OperatorPause DEF Callers, PauseMoves
<1>1. Passes /\ task["operator"].at \notin BeforeSeal
  BY DEF Operator, StartPause, StartResume, StartAnnotate, StartAbort, StartRetrySeal,
     StartAbandonSeal, OperatorCalls, Passes, evidence, BeforeSeal, WritingLabels, At
<1>2. state' = "sealed" => state = "sealed"
  BY DEF Operator, StartPause, StartResume, StartAnnotate, StartAbort, StartRetrySeal,
     StartAbandonSeal
<1>3. \/ Away(task'["operator"].at)
      \/ task'["operator"].at \in {"seal-retry", "seal-check"} /\ FinalCheckpoint # 0
      \/ task'["operator"].at = "abort" /\ FinalCheckpoint = 0
  <2>1. CASE StartAbort
    <3>1. FinalCheckpoint = 0
      BY <1>0, <2>1, Applicable, NotClosing DEF StartAbort, Abortable, Closing
    <3> QED BY <1>0, <2>1, <3>1, WhereItGoes DEF StartAbort
  <2>2. CASE StartRetrySeal
    <3>1. FinalCheckpoint # 0
      BY <2>2, Applicable DEF StartRetrySeal, IInv, SealInv, EndStates
    <3> QED BY <1>0, <2>2, <3>1, WhereItGoes DEF StartRetrySeal
  <2>3. CASE StartPause \/ StartResume \/ StartAnnotate \/ StartAbandonSeal
    <3>1. task'["operator"].at \in {"pause", "resume-prefix", "annotate", "abandon"}
      BY <1>0, <2>3, WhereItGoes DEF StartPause, StartResume, StartAnnotate, StartAbandonSeal
    <3> QED BY <3>1 DEF Away, BeforeSeal, WritingLabels
  <2> QED BY <2>1, <2>2, <2>3 DEF Operator
<1> QED BY <1>0, <1>1, <1>2, <1>3, AsideWhen

LEMMA SealVerdict ==
    ASSUME IInv, VerdictInv, NEW c \in Callers, Seal(c)
    PROVE  VerdictInv'
<1>1. CASE \/ Anchor(c) \/ BlockedRecord(c) \/ PendingRecord(c) \/ Verify(c) \/ VerdictRecord(c)
           \/ AbortDecision(c)
  <2>0. PauseMoves(c) /\ task \in [Callers -> TaskType]
    BY SealPause, NormalTypes DEF IInv
  <2>1. Passes /\ task[c].at \notin BeforeSeal
    BY <1>1 DEF Anchor, BlockedRecord, PendingRecord, Verify, VerdictRecord, AbortDecision,
       Passes, JournalEntries, FinalReasons, BeforeSeal, WritingLabels, At
  <2>2. state' = "sealed" => state = "sealed" \/ Completed
    <3>1. CASE VerdictRecord(c)
      BY <3>1 DEF VerdictRecord, IInv, SealInv, SealOf, At, EvidenceLabels
    <3>2. CASE ~VerdictRecord(c)
      BY <1>1, <3>2 DEF Anchor, BlockedRecord, PendingRecord, Verify, AbortDecision
    <3> QED BY <3>1, <3>2
  <2>3. Away(task'[c].at)
    <3>1. CASE Anchor(c)
      <4>1. task'[c].at \in {"idle", "abort-record", "blocked-record", "pending-record"}
        BY <2>0, <3>1 DEF Anchor, TaskType, Idle
      <4> QED BY <4>1 DEF Away, BeforeSeal, WritingLabels
    <3>2. CASE Verify(c)
      <4>1. task'[c].at = "verdict-record"
        BY <2>0, <3>2 DEF Verify, TaskType
      <4> QED BY <4>1 DEF Away, BeforeSeal, WritingLabels
    <3>3. CASE BlockedRecord(c) \/ PendingRecord(c) \/ VerdictRecord(c) \/ AbortDecision(c)
      <4>1. task'[c].at \in {"idle", "verify", "abort-decision"}
        BY <3>3, WhereItGoes DEF BlockedRecord, PendingRecord, VerdictRecord, AbortDecision
      <4> QED BY <4>1 DEF Away, BeforeSeal, WritingLabels
    <3> QED BY <1>1, <3>1, <3>2, <3>3
  <2> QED BY <2>0, <2>1, <2>2, <2>3, AsideWhen, AsideKept
<1> QED BY <1>1, SealCheckAside, AsideKept, RunSealedEventVerdict, CreateFinalCheckpointVerdict DEF Seal

LEMMA ProceedVerdict ==
    ASSUME IInv, VerdictInv, NEW c \in Callers, Proceed(c)
    PROVE  VerdictInv'
<1>1. CASE \/ c = "driver" /\ (InitialRecord \/ CheckpointZero)
           \/ BeginEvaluation(c) \/ PauseCheckpoint(c) \/ AbortRecord(c)
  <2>0. PauseMoves(c)
    BY ProceedPause
  <2>1. Passes /\ task[c].at \notin BeforeSeal
    BY <1>1 DEF InitialRecord, CheckpointZero, BeginEvaluation, PauseCheckpoint, AbortRecord,
       PolicyCheckpoint, Passes, JournalEntries, FinalReasons, BeforeSeal, WritingLabels, At
  <2>2. state' = "sealed" => state = "sealed"
    <3>1. CASE InitialRecord
      BY <3>1 DEF InitialRecord
    <3>2. CASE CheckpointZero
      BY <3>2 DEF CheckpointZero, ApplyStageTransitions
    <3>3. CASE BeginEvaluation(c) \/ PauseCheckpoint(c)
      BY <3>3, Arrivals DEF BeginEvaluation, PauseCheckpoint, ApplyAndReturn
    <3>4. CASE AbortRecord(c)
      BY <3>4, Arrivals DEF AbortRecord, ApplyAndReturn
    <3> QED BY <1>1, <3>1, <3>2, <3>3, <3>4
  <2>3. Away(task'[c].at)
    <3>1. CASE c = "driver" /\ InitialRecord
      <4>1. task'[c].at = "checkpoint-zero"
        BY <3>1, WhereItGoes DEF InitialRecord
      <4> QED BY <4>1 DEF Away, BeforeSeal, WritingLabels
    <3>2. CASE c = "driver" /\ CheckpointZero
      <4>1. task'[c].at = "idle" \/ ApplyStageTransitions(c, "running", mem)
        BY <3>2, WhereItGoes DEF CheckpointZero
      <4> QED BY <4>1, WhereItGoes, TransitionStates DEF Away, BeforeSeal, WritingLabels
    <3>3. CASE BeginEvaluation(c) \/ PauseCheckpoint(c) \/ AbortRecord(c)
      <4>1. task'[c].at = "idle"
        BY <3>3, WhereItGoes DEF BeginEvaluation, PauseCheckpoint, AbortRecord
      <4> QED BY <4>1 DEF Away, BeforeSeal, WritingLabels
    <3> QED BY <1>1, <3>1, <3>2, <3>3
  <2> QED BY <2>0, <2>1, <2>2, <2>3, AsideWhen, AsideKept
<1>2. ~GatewayRefuses(c)
  BY DEF GatewayRefuses, VerdictInv
<1> QED BY <1>1, <1>2, TurnAside, RecoveryAside, InterventionAside, AsideKept, AbortEventVerdict,
           SealVerdict DEF Proceed

LEMMA NothingWrong ==
    ASSUME IInv, [Next]_vars, used'.mishaps = 0
    PROVE  used.mishaps = 0 /\ \A what : ~Mishap(what)
<1>1. used \in [calls : 0..MaxCalls, mishaps : 0..MaxMishaps] /\ MaxMishaps \in Nat
  BY CountsAssumption DEF IInv, Shape, TypeOK
<1>2. \A what : ~Mishap(what)
  BY <1>1 DEF Mishap
<1>3. \/ used' = used \/ used' = [used EXCEPT !.calls = @ + 1]
  <2>1. CASE \E c \in Callers : Proceed(c)
    BY <1>2, <2>1, ZenonT(60) DEF Proceed, InitialRecord, CheckpointZero, Turn, Recovery, Intervention,
       BeginEvaluation, PauseCheckpoint, AbortEvent, AbortRecord, Seal, GatewayRefuses,
       ExecuteTurn, AppendTurnRecord, ScheduleRepair, EventBoundaries, PauseNotAvailable,
       CheckSigners, RecoverPrefix, RecoveryEvent, RecoveryCheckpoint, PauseEvent, ResumePrefix,
       ResumeEvent, ResumeCheckpoint, AnnotateEvent, AnnotateCheck, AnnotateCheckpoint,
       AnnotateRecord, RetryEvent, AbandonEvent, AbandonRecord, SealCheck, RunSealedEvent,
       CreateFinalCheckpoint, Anchor, BlockedRecord, PendingRecord, Verify, VerdictRecord,
       AbortDecision
  <2>2. CASE Operator
    BY <2>2 DEF Operator, StartPause, StartResume, StartAnnotate, StartAbort, StartRetrySeal,
       StartAbandonSeal, OperatorCalls
  <2> QED BY <1>2, <2>1, <2>2 DEF Next, vars, CreateRun, StartStep, StartSeal, StartRecover,
             CallFails, LoseTurnRecord, Fork, Crash
<1> QED BY <1>1, <1>2, <1>3

LEMMA VerdictNext ==
    IInv /\ (used.mishaps = 0 => VerdictInv) /\ [Next]_vars
        => (used.mishaps = 0 => VerdictInv)'
<1> SUFFICES ASSUME IInv, used.mishaps = 0 => VerdictInv, [Next]_vars, used'.mishaps = 0
             PROVE  VerdictInv'
  OBVIOUS
<1>0. VerdictInv /\ (\A what : ~Mishap(what)) /\ {"driver", "operator"} \subseteq Callers
  BY NothingWrong DEF Callers
<1>1. CASE UNCHANGED vars
  BY <1>0, <1>1 DEF vars, VerdictInv, Registered, FinalCheckpoint, Completed, At
<1>2. CASE CreateRun
  BY <1>0, <1>2, GoAt DEF CreateRun, VerdictInv, Registered, FinalCheckpoint, Completed, At,
     BeforeSeal, WritingLabels, IInv, Shape
<1>3. CASE StartStep
  <2>1. Aside("driver")
    BY <1>0, <1>3, NormalTypes DEF StartStep, DriverFree, At, IInv, Aside, BeforeSeal, WritingLabels,
       Idle, evidence
  <2> QED BY <1>0, <2>1, AsideKept
<1>4. CASE StartSeal
  <2>1. Aside("driver")
    BY <1>0, <1>4, GoAt DEF StartSeal, DriverFree, At, Aside, BeforeSeal, WritingLabels, evidence
  <2> QED BY <1>0, <2>1, AsideKept
<1>5. CASE StartRecover
  <2>1. Aside("driver")
    BY <1>0, <1>5, GoAt DEF StartRecover, VerdictInv, At, Aside, BeforeSeal, WritingLabels, evidence
  <2> QED BY <1>0, <2>1, AsideKept
<1>6. \A c \in Callers : ~CallFails(c)
  BY <1>0 DEF CallFails
<1>7. ~LoseTurnRecord /\ ~Fork /\ ~Crash
  BY <1>0 DEF LoseTurnRecord, Fork, Crash
<1> QED BY <1>0, <1>1, <1>2, <1>3, <1>4, <1>5, <1>6, <1>7, OperatorAside, AsideKept,
           ProceedVerdict DEF Next

\* While no call fails and the process lives, whatever calls overlap: each Baby's
\* ledger gets one run.sealed and the run one final checkpoint, and a run that was
\* aborted is neither published as valid nor sealed.
THEOREM VerdictIsGivenOnce == Spec => []VerdictOnce
<1>1. Init => VerdictInv
  BY DEF Init, VerdictInv, Registered, FinalCheckpoint, Completed, Idle, Callers, Roles,
     BeforeSeal, WritingLabels
<1>2. IInv /\ (used.mishaps = 0 => VerdictInv) => VerdictOnce
  <2> SUFFICES ASSUME IInv, VerdictInv PROVE SealedOnce /\ AbortedNeverValid
    BY DEF VerdictOnce
  <2>1. SealedOnce
    <3> DEFINE F == {i \in DOMAIN journal : journal[i] \in FinalReasons}
    <3>1. \A i, j \in F : i = j
      BY DEF VerdictInv
    <3>2. F = {} \/ \E i \in F : F = {i}
      BY <3>1
    <3> HIDE DEF F
    <3>3. CASE F = {}
      BY <3>3, FS_EmptySet DEF SealedOnce, VerdictInv, F
    <3>4. CASE \E i \in F : F = {i}
      <4>1. PICK i \in F : F = {i}
        BY <3>4
      <4>2. Cardinality(F) = 1
        BY <4>1, FS_Singleton
      <4> QED BY <4>2 DEF SealedOnce, VerdictInv, F
    <3> QED BY <3>2, <3>3, <3>4
  <2>2. AbortedNeverValid
    <3> SUFFICES ASSUME LastOf({"abort"}) > 0 PROVE ~Completed
      BY DEF AbortedNeverValid, VerdictInv, IInv, SealInv
    <3>1. \E i \in DOMAIN journal : journal[i] = "abort"
      BY LastIs, NormalTypes DEF IInv
    <3> QED BY <3>1 DEF VerdictInv, Completed
  <2> QED BY <2>1, <2>2
<1> QED BY <1>1, <1>2, IInvHolds, VerdictNext, PTL DEF Spec

---------------------------------------------------------------------------
(* No turn is played twice, and no operation leaves a terminal state *)

LEMMA ActiveStates ==
    /\ Abortable \cup {"pausing", "sealing", "sealing-blocked", "aborting"} \subseteq ActiveRunStates
    /\ \A s : AcceptsTurns(s) => s \in ActiveRunStates
    /\ \A s : IsTerminal(s) => s \notin ActiveRunStates
BY DEF Abortable, ActiveRunStates, RunStates, TerminalRunStates, AcceptsTurns, IsTerminal

\* No event applies in a state that is not active.
LEMMA NothingApplies ==
    ASSUME NEW s, s \notin ActiveRunStates
    PROVE  \A event \in {"ready", "pause", "pause-complete", "resume", "resume-complete",
                         "begin-evaluation", "abort", "abort-complete", "seal-blocked",
                         "seal-retry", "abandon-recovery", "fork-detected"} : ~CanApply(s, event)
BY Applicable, ActiveStates DEF Abortable

LEMMA StageStays ==
    ASSUME NEW c \in Callers, NEW m, state \notin ActiveRunStates,
           ApplyStageTransitions(c, state, m)
    PROVE  state' = state
BY ActiveStates DEF ApplyStageTransitions, Abortable

LEMMA TerminalKept ==
    ASSUME IInv, loaded, state \notin ActiveRunStates, [Next]_vars
    PROVE  state' = state
<1>0. /\ ~CanApply(state, "ready") /\ ~CanApply(state, "pause") /\ ~CanApply(state, "pause-complete")
      /\ ~CanApply(state, "resume") /\ ~CanApply(state, "resume-complete")
      /\ ~CanApply(state, "begin-evaluation") /\ ~CanApply(state, "abort")
      /\ ~CanApply(state, "abort-complete") /\ ~CanApply(state, "seal-blocked")
      /\ ~CanApply(state, "seal-retry") /\ ~CanApply(state, "abandon-recovery")
      /\ ~CanApply(state, "fork-detected")
      /\ state # "sealing"
  BY NothingApplies, ActiveStates
<1>1. ~AcceptsTurns(state) /\ {"driver", "operator"} \subseteq Callers
  BY ActiveStates DEF Callers
<1>2. ASSUME NEW c \in Callers, Proceed(c) PROVE state' = state
  <2>1. CASE c = "driver" /\ (InitialRecord \/ CheckpointZero)
    BY <1>0, <2>1 DEF InitialRecord, CheckpointZero
  <2>2. CASE Turn
    <3>1. \/ state' = state
          \/ ApplyStageTransitions("driver", state, mem)
      BY <1>0, <2>2 DEF Turn, ExecuteTurn, AppendTurnRecord, ScheduleRepair, EventBoundaries,
         PauseNotAvailable
    <3> QED BY <1>1, <3>1, StageStays
  <2>3. CASE Recovery
    <3>1. \/ state' = state
          \/ ApplyStageTransitions("driver", state, mem)
      BY <1>0, <2>3 DEF Recovery, CheckSigners, RecoverPrefix, RecoveryEvent, RecoveryCheckpoint,
         ApplyAndReturn
    <3> QED BY <1>1, <3>1, StageStays
  <2>4. CASE Intervention
    BY <1>0, <2>4 DEF Intervention, PauseEvent, ResumePrefix, ResumeEvent, ResumeCheckpoint,
       AnnotateEvent, AnnotateCheck, AnnotateCheckpoint, AnnotateRecord, RetryEvent, AbandonEvent,
       AbandonRecord, ApplyAndReturn
  <2>5. CASE BeginEvaluation(c) \/ PauseCheckpoint(c) \/ AbortEvent(c)
    BY <1>0, <2>5 DEF BeginEvaluation, PauseCheckpoint, AbortEvent, ApplyAndReturn
  <2>6. CASE AbortRecord(c)
    BY <1>0, <2>6 DEF AbortRecord, ApplyAndReturn
  <2>7. CASE Seal(c)
    BY <1>0, <2>7 DEF Seal, SealCheck, RunSealedEvent, CreateFinalCheckpoint, Anchor,
       BlockedRecord, PendingRecord, Verify, VerdictRecord, AbortDecision
  <2>8. CASE GatewayRefuses(c)
    BY <2>8 DEF GatewayRefuses
  <2> QED BY <1>2, <2>1, <2>2, <2>3, <2>4, <2>5, <2>6, <2>7, <2>8 DEF Proceed
<1>3. CASE Operator
  BY <1>0, <1>3 DEF Operator, StartPause, StartResume, StartAnnotate, StartAbort, StartRetrySeal,
     StartAbandonSeal
<1>4. CASE CreateRun
  BY <1>4 DEF CreateRun
<1>5. CASE StartStep \/ StartSeal \/ StartRecover
  BY <1>5 DEF StartStep, StartSeal, StartRecover
<1>6. CASE \E c \in Callers : CallFails(c)
  BY <1>6 DEF CallFails
<1>7. CASE LoseTurnRecord \/ Fork \/ Crash
  BY <1>7 DEF LoseTurnRecord, Fork, Crash
<1>8. CASE UNCHANGED vars
  BY <1>8 DEF vars
<1> QED BY <1>2, <1>3, <1>4, <1>5, <1>6, <1>7, <1>8 DEF Next

Numbers == {turns[i].turn : i \in DOMAIN turns}

\* While a process that finds a turn without its record goes no further, the
\* channel holds the turns that have a record, and the one whose record is next.
ChannelInv ==
    /\ ~Registered => channel = {}
    /\ ~loaded => ~mem.incomplete
    /\ \/ ~loaded \/ quarantined \/ mem.incomplete
       \/ task["driver"].at \in {"signers", "prefix"}
       \/ state \notin ActiveRunStates
       \/ channel \subseteq Numbers \cup
            (IF At("driver", "turn-record") THEN {task["driver"].turn} ELSE {})

LEMMA ChannelKept ==
    ASSUME IInv, ChannelInv, [Next]_vars, loaded, loaded',
           UNCHANGED <<metadata, channel, turns>>, quarantined => quarantined',
           mem.incomplete => mem'.incomplete,
           task["driver"].at \in {"signers", "prefix", "turn-record"} =>
                task'["driver"] = task["driver"]
    PROVE  ChannelInv'
<1>1. state \notin ActiveRunStates => state' \notin ActiveRunStates
  BY TerminalKept
<1>2. Numbers' = Numbers
  BY DEF Numbers
<1> QED BY <1>1, <1>2 DEF ChannelInv, Registered, At

LEMMA OtherChannel ==
    ASSUME IInv, ChannelInv, [Next]_vars, PauseMoves("operator"),
           UNCHANGED <<metadata, channel, turns, quarantined, loaded, mem>>
    PROVE  ChannelInv'
<1>1. loaded /\ task'["driver"] = task["driver"]
  BY DEF PauseMoves, Callers
<1> QED BY <1>1, ChannelKept

LEMMA SealChannel ==
    ASSUME IInv, ChannelInv, Next, NEW c \in Callers, Seal(c)
    PROVE  ChannelInv'
<1>1. UNCHANGED <<metadata, channel, turns, quarantined, loaded, mem>>
      /\ task[c].at \notin {"signers", "prefix", "turn-record"}
  BY DEF Seal, SealCheck, RunSealedEvent, CreateFinalCheckpoint, Anchor, BlockedRecord,
     PendingRecord, Verify, VerdictRecord, AbortDecision, At
<1>2. loaded /\ \A d \in Callers : d # c => task'[d] = task[d]
  BY SealPause DEF PauseMoves
<1>3. task["driver"].at \in {"signers", "prefix", "turn-record"} => task'["driver"] = task["driver"]
  BY <1>1, <1>2 DEF Callers
<1> QED BY <1>1, <1>2, <1>3, ChannelKept

LEMMA ExecuteTurnChannel ==
    ASSUME IInv, ChannelInv, Next, ExecuteTurn
    PROVE  ChannelInv'
<1>0. /\ "driver" \in Callers /\ At("driver", "channel") /\ loaded
  BY Busy DEF Callers, ExecuteTurn, At, IInv
<1>1. /\ task'["driver"].at = "turn-record" /\ task'["driver"].turn = task["driver"].turn
  <2>1. PICK trigger \in BOOLEAN :
          task' = [task EXCEPT !["driver"].at = "turn-record", !["driver"].trigger = trigger]
    BY DEF ExecuteTurn
  <2> QED BY <1>0, <2>1, NormalTypes DEF IInv, TaskType
<1>2. mem'.incomplete = mem.incomplete
  <2>1. mem' = mem \/ mem' = [mem EXCEPT !.adapter = FALSE]
    BY DEF ExecuteTurn
  <2> QED BY <2>1, NormalTypes DEF IInv, MemType
<1>3. /\ metadata' = metadata /\ turns' = turns /\ loaded' /\ quarantined' = quarantined
      /\ state' = state
      /\ channel' = channel \/ channel' = channel \cup {task["driver"].turn}
  BY <1>0 DEF ExecuteTurn
<1>4. Numbers' = Numbers
  BY <1>3 DEF Numbers
<1>5. Registered
  BY <1>0 DEF IInv, Shape
<1> QED BY <1>0, <1>1, <1>2, <1>3, <1>4, <1>5 DEF ChannelInv, At, Registered

LEMMA AppendTurnRecordChannel ==
    ASSUME IInv, ChannelInv, Next, AppendTurnRecord
    PROVE  ChannelInv'
<1>0. /\ "driver" \in Callers /\ At("driver", "turn-record") /\ loaded
  BY Busy DEF Callers, AppendTurnRecord, At, IInv
<1>1. task'["driver"].at \in {"boundaries", "repair-turn"}
  BY <1>0, GoAt DEF AppendTurnRecord
<1>2. mem'.incomplete = mem.incomplete
  <2>1. PICK t \in TaskType : t = task["driver"]
    BY <1>0, NormalTypes DEF IInv
  <2>2. Counted(t) \in MemType
    BY <2>1, CountedType DEF IInv
  <2>3. Counted(t).incomplete = mem.incomplete
    <3>1. \A n, r, k, m : [mem EXCEPT !.turn = n, !.repair = r, !.training = k,
                                    !.evaluation = m].incomplete = mem.incomplete
      BY NormalTypes DEF IInv, MemType
    <3> QED BY <3>1 DEF Counted
  <2>4. PICK m \in MemType : m = Counted(t)
    BY <2>2
  <2>5. \/ mem' = Counted(t)
        \/ mem' = [Counted(t) EXCEPT !.repair = t.turn, !.phase = t.phase]
    BY <2>1 DEF AppendTurnRecord
  <2>6. [m EXCEPT !.repair = t.turn, !.phase = t.phase].incomplete = m.incomplete
    BY <2>4 DEF MemType
  <2> QED BY <2>3, <2>4, <2>5, <2>6
<1>3. Numbers \cup {task["driver"].turn} \subseteq Numbers'
  <2>1. turns \in Seq(TurnType) /\ turns' = Append(turns, TurnRecord(task["driver"]))
    BY NormalTypes DEF IInv, AppendTurnRecord
  <2>2. /\ \A i \in DOMAIN turns : i \in DOMAIN turns' /\ turns'[i] = turns[i]
        /\ Len(turns) + 1 \in DOMAIN turns'
        /\ turns'[Len(turns) + 1] = TurnRecord(task["driver"])
    BY <2>1
  <2>3. TurnRecord(task["driver"]).turn = task["driver"].turn
    BY DEF TurnRecord
  <2>4. \A i \in DOMAIN turns : turns[i].turn \in Numbers'
    BY <2>2 DEF Numbers
  <2>5. task["driver"].turn \in Numbers'
    BY <2>2, <2>3 DEF Numbers
  <2> QED BY <2>4, <2>5 DEF Numbers
<1>4. /\ metadata' = metadata /\ channel' = channel /\ loaded' /\ quarantined' = quarantined
      /\ state' = state
  BY <1>0 DEF AppendTurnRecord
<1> QED BY <1>0, <1>1, <1>2, <1>3, <1>4 DEF ChannelInv, At, Registered

LEMMA TurnChannel ==
    ASSUME IInv, ChannelInv, Next, Turn
    PROVE  ChannelInv'
<1>1. CASE ScheduleRepair \/ EventBoundaries \/ PauseNotAvailable
  <2>1. UNCHANGED <<metadata, channel, turns, quarantined, loaded, mem>>
        /\ task["driver"].at \in {"repair-turn", "boundaries", "pause-not-available"}
    BY <1>1 DEF ScheduleRepair, EventBoundaries, PauseNotAvailable, ApplyStageTransitions, At
  <2>2. loaded
    BY TurnPause DEF PauseMoves
  <2> QED BY <2>1, <2>2, ChannelKept
<1> QED BY <1>1, ExecuteTurnChannel, AppendTurnRecordChannel DEF Turn

LEMMA RecoverPrefixChannel ==
    ASSUME IInv, ChannelInv, Next, RecoverPrefix
    PROVE  ChannelInv'
<1>0. /\ UNCHANGED <<metadata, channel, turns, quarantined, loaded>> /\ loaded /\ Registered
      /\ mem \in MemType /\ "driver" \in Callers /\ At("driver", "prefix")
  BY Busy, NormalTypes DEF RecoverPrefix, evidence, Callers, At, IInv
<1>1. CASE forked /\ ApplyAndReturn("driver", "fork-detected")
  <2>1. state' \notin ActiveRunStates
    <3>1. CanApply(state, "fork-detected") => state' = "forked-invalid"
      BY <1>1, Arrivals DEF ApplyAndReturn
    <3>2. "forked-invalid" \notin ActiveRunStates
      BY DEF ActiveRunStates, TerminalRunStates
    <3>3. ~CanApply(state, "fork-detected") => state' = state /\ state \notin ActiveRunStates
      BY <1>1, Applicable DEF ApplyAndReturn
    <3> QED BY <3>1, <3>2, <3>3
  <2> QED BY <1>0, <2>1 DEF ChannelInv, Registered
<1>2. CASE mem' = [mem EXCEPT !.incomplete = TRUE]
  BY <1>0, <1>2 DEF ChannelInv, Registered, MemType
<1>3. CASE Orphans = {}
  <2>1. channel' \subseteq Numbers'
    BY <1>0, <1>3 DEF Orphans, Numbers
  <2> QED BY <1>0, <2>1 DEF ChannelInv, Registered
<1> QED BY <1>1, <1>2, <1>3 DEF RecoverPrefix

LEMMA RecoveryChannel ==
    ASSUME IInv, ChannelInv, Next, Recovery, "signers" \notin Mishaps
    PROVE  ChannelInv'
<1>1. CASE RecoveryEvent \/ RecoveryCheckpoint
  <2>1. UNCHANGED <<metadata, channel, turns, quarantined, loaded, mem>>
        /\ task["driver"].at \in {"recovery", "recovery-checkpoint"}
    BY <1>1 DEF RecoveryEvent, RecoveryCheckpoint, ApplyStageTransitions, At
  <2>2. loaded
    BY RecoveryPause DEF PauseMoves
  <2> QED BY <2>1, <2>2, ChannelKept
<1>2. CASE CheckSigners
  <2>1. UNCHANGED <<metadata, channel, turns, quarantined, loaded, mem>> /\ Go("driver", "prefix")
    BY <1>2 DEF CheckSigners, Mishap
  <2>2. task'["driver"].at = "prefix"
    BY <2>1, GoAt DEF Callers
  <2> QED BY <2>1, <2>2 DEF ChannelInv, Registered
<1> QED BY <1>1, <1>2, RecoverPrefixChannel DEF Recovery

LEMMA StartRecoverChannel ==
    ASSUME IInv, ChannelInv, Next, StartRecover
    PROVE  ChannelInv'
<1>1. /\ UNCHANGED <<metadata, channel, turns, quarantined>> /\ loaded' /\ Registered
      /\ loaded => mem' = mem
      /\ quarantined \/ mem.incomplete \/ Go("driver", "signers")
  BY DEF StartRecover, evidence
<1>2. Go("driver", "signers") => task'["driver"].at = "signers"
  BY GoAt DEF Callers
<1> QED BY <1>1, <1>2 DEF ChannelInv, Registered

LEMMA ProceedChannel ==
    ASSUME IInv, ChannelInv, Next, NEW c \in Callers, Proceed(c), "signers" \notin Mishaps
    PROVE  ChannelInv'
<1>0. loaded /\ \A d \in Callers : d # c => task'[d] = task[d]
  BY ProceedPause DEF PauseMoves
<1>1. CASE c = "driver" /\ (InitialRecord \/ CheckpointZero)
  <2>1. UNCHANGED <<metadata, channel, turns, quarantined, loaded, mem>>
        /\ task["driver"].at \in {"initial-record", "checkpoint-zero"}
    BY <1>1 DEF InitialRecord, CheckpointZero, ApplyStageTransitions, At
  <2> QED BY <1>0, <2>1, ChannelKept
<1>2. CASE BeginEvaluation(c) \/ PauseCheckpoint(c) \/ AbortEvent(c) \/ AbortRecord(c)
           \/ GatewayRefuses(c)
  <2>1. UNCHANGED <<metadata, channel, turns, quarantined, loaded, mem>>
        /\ task[c].at \notin {"signers", "prefix", "turn-record"}
    BY <1>2 DEF BeginEvaluation, PauseCheckpoint, AbortEvent, AbortRecord, GatewayRefuses,
       ThroughGateway, AtPolicyCheckpoint, evidence, At
  <2>2. task["driver"].at \in {"signers", "prefix", "turn-record"} => task'["driver"] = task["driver"]
    BY <1>0, <2>1 DEF Callers
  <2> QED BY <1>0, <2>1, <2>2, ChannelKept
<1>3. CASE Intervention
  <2>1. UNCHANGED <<metadata, channel, turns, quarantined, loaded, mem>>
    BY <1>3 DEF Intervention, PauseEvent, ResumePrefix, ResumeEvent, ResumeCheckpoint,
       ApplyStageTransitions, AnnotateEvent, AnnotateCheck, AnnotateCheckpoint, AnnotateRecord,
       RetryEvent, AbandonEvent, AbandonRecord, evidence
  <2> QED BY <1>3, <2>1, InterventionPause, OtherChannel
<1> QED BY <1>1, <1>2, <1>3, TurnChannel, RecoveryChannel, SealChannel DEF Proceed

LEMMA ChannelNext ==
    ASSUME {"signers", "fault", "lost"} \cap Mishaps = {}
    PROVE  IInv /\ ChannelInv /\ [Next]_vars => ChannelInv'
<1> SUFFICES ASSUME IInv, ChannelInv, [Next]_vars PROVE ChannelInv'
  OBVIOUS
<1>1. CASE UNCHANGED vars
  BY <1>1 DEF vars, ChannelInv, Numbers, Registered, At
<1>2. CASE CreateRun
  <2>1. channel' = {} /\ loaded' /\ Registered'
    BY <1>2 DEF CreateRun, ChannelInv, Registered
  <2> QED BY <2>1 DEF ChannelInv
<1>3. CASE StartStep \/ StartSeal
  <2>1. UNCHANGED <<metadata, channel, turns, quarantined, loaded, mem>> /\ loaded
        /\ task["driver"].at = "idle"
    BY <1>3 DEF StartStep, StartSeal, DriverFree, evidence, At
  <2> QED BY <2>1, ChannelKept
<1>4. CASE Operator
  <2>1. UNCHANGED <<metadata, channel, turns, quarantined, loaded, mem>>
    BY <1>4 DEF Operator, StartPause, StartResume, StartAnnotate, StartAbort, StartRetrySeal,
       StartAbandonSeal, OperatorCalls, evidence
  <2> QED BY <1>4, <2>1, OperatorPause, OtherChannel
<1>5. CASE Fork
  <2>1. UNCHANGED <<metadata, channel, turns, quarantined, loaded, mem, task, state>>
    BY <1>5 DEF Fork
  <2> QED BY <2>1 DEF ChannelInv, Numbers, Registered, At
<1>6. CASE Crash
  <2>1. ~loaded' /\ mem' = Fresh /\ loaded /\ metadata' = metadata
    BY <1>6 DEF Crash
  <2>2. Registered /\ ~Fresh.incomplete
    BY <2>1 DEF IInv, Shape, Fresh
  <2> QED BY <2>1, <2>2 DEF ChannelInv, Registered
<1>7. ~LoseTurnRecord /\ \A c \in Callers : ~CallFails(c)
  BY DEF LoseTurnRecord, CallFails, Mishap
<1> QED BY <1>1, <1>2, <1>3, <1>4, <1>5, <1>6, <1>7, StartRecoverChannel, ProceedChannel DEF Next

\* Whatever calls overlap, and however often the process ends and is recovered,
\* no turn is played under a number whose message is in the channel, and the
\* process leaves no terminal state. A rejected call, a lost answer and a refused
\* recovery are excluded: each leaves the run in #runs with a message without its
\* record, and the next step() plays that number again.
THEOREM NoStepGoesBack ==
    ASSUME {"signers", "fault", "lost"} \cap Mishaps = {}
    PROVE  Spec => NoStepBack
<1>1. Init => TurnInv /\ ChannelInv
  BY DEF Init, TurnInv, TurnsNumbered, ChannelInv, Registered, Idle, Callers, Fresh
<1>2. IInv /\ TurnInv /\ ChannelInv /\ [Next]_vars => (TurnInv /\ ChannelInv)'
  BY TurnNext, ChannelNext
<1>3. IInv /\ TurnInv /\ ChannelInv /\ [Next]_vars =>
        [StartsTurn => task'["driver"].turn \notin channel]_vars
  <2> SUFFICES ASSUME IInv, TurnInv, ChannelInv, [Next]_vars, StartsTurn
               PROVE  task'["driver"].turn \notin channel
    OBVIOUS
  <2>1. StartStep
    <3>1. \A c \in Callers : PauseMoves(c) => ~StartsTurn
      BY DEF PauseMoves, StartsTurn, At, Callers
    <3>2. ~UNCHANGED vars
      BY DEF vars, StartsTurn, At
    <3>3. ~CreateRun /\ ~StartRecover /\ ~Crash /\ ~Fork
      BY GoAt, IdleTask DEF CreateRun, StartRecover, Crash, Fork, StartsTurn, At, Callers
    <3>4. ~LoseTurnRecord /\ \A c \in Callers : ~CallFails(c)
      BY DEF LoseTurnRecord, CallFails, Mishap
    <3> QED BY <3>1, <3>2, <3>3, <3>4, StartSealPause, OperatorPause, ProceedPause DEF Next, Callers
  <2>2. /\ "driver" \in Callers /\ task'["driver"].turn = mem.turn /\ mem.turn = Len(turns)
    <3>1. "driver" \in Callers
      BY DEF Callers
    <3> QED BY <2>1, <3>1, NormalTypes DEF StartStep, Idle, IInv, TurnInv, DriverFree
  <2>3. channel \subseteq Numbers
    BY <2>1, ActiveStates DEF StartStep, DriverFree, ChannelInv, At
  <2>4. ASSUME NEW i \in DOMAIN turns PROVE turns[i].turn # Len(turns)
    <3>1. turns[i].turn = i - 1 /\ i \in 1..Len(turns) /\ Len(turns) \in Nat
      BY NormalTypes DEF TurnInv, TurnsNumbered, IInv
    <3> QED BY <3>1
  <2> QED BY <2>2, <2>3, <2>4 DEF Numbers
<1>4. IInv /\ [Next]_vars => [loaded /\ IsTerminal(state) => state' = state]_vars
  BY TerminalKept, ActiveStates
<1> QED BY <1>1, <1>2, <1>3, <1>4, IInvHolds, PTL DEF Spec, NoStepBack, NoTurnTwice, TerminalStays
=============================================================================
