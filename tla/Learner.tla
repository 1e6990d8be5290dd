------------------------------- MODULE Learner -------------------------------
(* The private state of one Baby's learner and its handlers, for the five    *)
(* tracks (packages/learners/src). A message is one mark; the tables are     *)
(* abstracted to the turns they were learnt from and the type they name for  *)
(* each mark; the draws, the probabilities and the wording are left out.     *)
(* A handler is the set of its possible results: the state after it, the     *)
(* private ledger after it and what the host sees of it.                     *)
EXTENDS Integers, Sequences, FiniteSets, SequencesExt

CONSTANTS
    Marks,              \* the inventory
    NoMark,             \* the empty message of a turn that delivered nothing
    Types,              \* object types a hypothesis can name
    LastTurn,           \* bound: turns of the run
    Stages              \* the curriculum: [start, knobs, consolidation]

Turns == 0..LastTurn

ASSUME LearnerAssumption ==
    /\ NoMark \notin Marks /\ Types # {} /\ LastTurn \in Nat
    /\ Stages \in Seq(Range(Stages))
    /\ \A i \in DOMAIN Stages : Stages[i].start \in Nat /\ Stages[i].consolidation \in BOOLEAN

Tracks == {"scratch-rl", "self-supervised", "hybrid", "frozen-llm", "no-learning"}

Updating == {"scratch-rl", "self-supervised", "hybrid"}

---------------------------------------------------------------------------
(* State *)

NoTurn == -1
NoEntry == [role |-> "none", mark |-> NoMark, rewarded |-> FALSE, folded |-> FALSE]
Entry(role, mark) == [NoEntry EXCEPT !.role = role, !.mark = mark]
NoHypothesis == [version |-> 0, type |-> CHOOSE t \in Types : TRUE]

\* What the seed draws for the tables.
Drawn == [k \in Marks |-> CHOOSE t \in Types : TRUE]

\* The curriculum knobs in force: for each, the stage that set it.
Knobs == UNION {Stages[i].knobs : i \in DOMAIN Stages}
Configured == [set |-> [k \in Knobs |-> 0], consolidating |-> FALSE]

EmptyRegistries == [emitted |-> {}, received |-> {}, hyp |-> [k \in Marks |-> NoHypothesis],
                    sensed |-> <<>>]

Fresh ==
    [pending |-> [t \in Turns |-> NoEntry], last |-> NoTurn,
     emitted |-> {}, received |-> {}, hyp |-> [k \in Marks |-> NoHypothesis],
     belief |-> Drawn, learnt |-> <<>>, sensed |-> <<>>,
     knobs |-> Configured, kept |-> EmptyRegistries]

\* The live registries, as an update keeps them for the exported policy.
Snapshot(m) == [emitted |-> m.emitted, received |-> m.received, hyp |-> m.hyp, sensed |-> m.sensed]

Cached(m, turn, role) == m.pending[turn].role = role
Remembered(m, turn, entry) == [m EXCEPT !.pending[turn] = entry]
Forgotten(m, turn) == [m EXCEPT !.pending[turn] = NoEntry]

---------------------------------------------------------------------------
(* The private ledger *)

Event(kind, turn, mark, version, prior) ==
    [kind |-> kind, turn |-> turn, mark |-> mark, version |-> version, prior |-> prior]

Returns(m, ledger) == [mem |-> m, ledger |-> ledger, fault |-> "none"]

\* An append is acknowledged, refused, or committed without the learner
\* knowing; only the first lets it go on to what comes after the append.
Appending(m, advanced, ledger, event) ==
    {Returns(advanced, Append(ledger, event)),
     [mem |-> m, ledger |-> ledger, fault |-> "refused"],
     [mem |-> m, ledger |-> Append(ledger, event), fault |-> "lost"]}

FirstUse(m, ledger, kind, turn, mark) ==
    IF mark \in m[kind] THEN {Returns(m, ledger)}
    ELSE Appending(m, [m EXCEPT ![kind] = @ \cup {mark}], ledger, Event(kind, turn, mark, 0, 0))

\* Mutant: the map is advanced before the event is durable.
HypothesesFirst(m, ledger, turn, mark, doubted) ==
    LET prior == m.hyp[mark]
        next == [m EXCEPT !.hyp[mark] = [version |-> prior.version + 1, type |-> m.belief[mark]]]
    IN  IF prior.version # 0 /\ prior.type = m.belief[mark] THEN {Returns(m, ledger)}
        ELSE Appending(next, next, ledger,
                       Event("hypothesis", turn, mark, prior.version + 1, prior.version))

\* A mark's hypothesis is created, revised when the tables name another type,
\* or contradicted by the turn; the events name the version before them.
Hypotheses(m, ledger, turn, mark, doubted) ==
    LET prior == m.hyp[mark]
        next == [m EXCEPT !.hyp[mark] = [version |-> prior.version + 1, type |-> m.belief[mark]]]
    IN  IF prior.version = 0 \/ prior.type # m.belief[mark]
        THEN Appending(m, next, ledger,
                       Event("hypothesis", turn, mark, prior.version + 1, prior.version))
        ELSE IF doubted
        THEN Appending(m, m, ledger, Event("contradicted", turn, mark, prior.version, prior.version))
        ELSE {Returns(m, ledger)}

HypothesesOn(m, ledger, turn, doubts) ==
    IF m.pending[turn].mark = NoMark THEN {Returns(m, ledger)}
    ELSE UNION {Hypotheses(m, ledger, turn, m.pending[turn].mark, d) : d \in doubts}

\* Only a failure contradicts.
Failed(bit) == IF bit = 0 THEN BOOLEAN ELSE {FALSE}

\* The tables come to name some type for the mark they learnt about.
Learnt(m, turn) ==
    LET mark == m.pending[turn].mark
    IN  {[m EXCEPT !.learnt = Append(@, turn), !.belief[mark] = t] : t \in Types}

---------------------------------------------------------------------------
(* scratch-rl: tabular-reinforce.ts *)

TabularDraw(m, turn) ==
    IF Cached(m, turn, "sender") THEN {m}
    ELSE {Remembered(m, turn, Entry("sender", k)) : k \in Marks}

TabularSends(m, ledger, turn) ==
    UNION {FirstUse(d, ledger, "emitted", turn, d.pending[turn].mark) : d \in TabularDraw(m, turn)}

TabularSelects(m, ledger, turn, mark) ==
    {Returns(IF Cached(m, turn, "receiver") THEN m
             ELSE Remembered(m, turn, Entry("receiver", IF m.last = turn THEN mark ELSE NoMark)),
             ledger)}

TabularReceives(m, ledger, turn, mark) ==
    FirstUse([m EXCEPT !.last = turn], ledger, "received", turn, mark)

\* In the intrinsic mode the reward steps the predictor: once per turn.
Rewarded(m, turn) ==
    IF m.pending[turn].rewarded THEN m
    ELSE [m EXCEPT !.pending[turn].rewarded = TRUE, !.sensed = Append(@, turn)]

TabularOutcome(m, ledger, turn, bit) ==
    IF m.pending[turn] = NoEntry THEN {Returns(m, ledger)}
    ELSE HypothesesOn(Rewarded(m, turn), ledger, turn, Failed(bit))

\* Mutant: the turn stays buffered.
UpdateKeepsTurn(m, turn) == {[n EXCEPT !.kept = Snapshot(n)] : n \in Learnt(m, turn)}

TabularUpdate(m, turn) ==
    {[n EXCEPT !.kept = Snapshot(n)] :
        n \in IF ~m.pending[turn].rewarded THEN {m}
              ELSE IF m.pending[turn].mark = NoMark THEN {Forgotten(m, turn)}
              ELSE {Forgotten(l, turn) : l \in Learnt(m, turn)}}

TabularExport(m) ==
    [run |-> "this", belief |-> m.belief, learnt |-> m.learnt, sensed |-> <<>>,
     knobs |-> Configured, registries |-> m.kept]

Restored(m, registries) ==
    LET r == [m EXCEPT !.emitted = registries.emitted, !.received = registries.received,
                       !.hyp = registries.hyp]
    IN  [r EXCEPT !.kept = Snapshot(r)]

\* A parent's registries belong to another chain.
TabularLoad(policy) ==
    LET m == [Fresh EXCEPT !.belief = policy.belief, !.learnt = policy.learnt]
    IN  IF policy.run # "this" THEN m
        ELSE Restored([m EXCEPT !.sensed = policy.registries.sensed], policy.registries)

---------------------------------------------------------------------------
(* self-supervised: self-supervised.ts *)

SelfSupervisedSends(m, ledger, turn) ==
    UNION {FirstUse(d, ledger, "emitted", turn, d.pending[turn].mark) :
              d \in IF Cached(m, turn, "sender") THEN {m}
                    ELSE {Remembered(m, turn, Entry("sender", k)) : k \in Marks}}

SelfSupervisedSelects(m, ledger, turn, mark) ==
    {Returns(IF Cached(m, turn, "receiver") THEN m
             ELSE Remembered(m, turn, Entry("receiver", IF m.last = turn THEN mark ELSE NoMark)),
             ledger)}

SelfSupervisedReceives(m, ledger, turn, mark) ==
    FirstUse([m EXCEPT !.last = turn], ledger, "received", turn, mark)

\* No reward is read; the contradiction is between the model and the action.
SelfSupervisedOutcome(m, ledger, turn) ==
    IF m.pending[turn] = NoEntry THEN {Returns(m, ledger)}
    ELSE HypothesesOn(m, ledger, turn, BOOLEAN)

\* A consolidation stage discards the turns it covers.
SelfSupervisedUpdate(m, turn) ==
    {[n EXCEPT !.kept = Snapshot(n)] :
        n \in IF m.pending[turn].mark = NoMark \/ m.knobs.consolidating THEN {Forgotten(m, turn)}
              ELSE {Forgotten(l, turn) : l \in Learnt(m, turn)}}

\* A stage sets the knobs it names and leaves the others as they are.
SelfSupervisedStage(m, i) ==
    [m EXCEPT !.knobs = [set |-> [k \in Knobs |-> IF k \in Stages[i].knobs THEN i ELSE m.knobs.set[k]],
                         consolidating |-> Stages[i].consolidation]]

\* The knobs are in the exported policy, and not restored from it.
SelfSupervisedExport(m) == [TabularExport(m) EXCEPT !.knobs = m.knobs]

SelfSupervisedLoad(policy) ==
    LET m == [Fresh EXCEPT !.belief = policy.belief, !.learnt = policy.learnt]
    IN  IF policy.run # "this" THEN m ELSE Restored(m, policy.registries)

---------------------------------------------------------------------------
(* hybrid: hybrid.ts. Encoding the candidates advances the tally by which    *)
(* encoder codes are named, so what a mark is taken for can change.          *)

Encoded(m, mark) ==
    IF mark = NoMark THEN {m} ELSE {[m EXCEPT !.belief[mark] = t] : t \in Types}

HybridSends(m, ledger, turn) ==
    UNION {FirstUse(d, ledger, "emitted", turn, d.pending[turn].mark) :
              d \in IF Cached(m, turn, "sender") THEN {m}
                    ELSE UNION {Encoded(Remembered(m, turn, Entry("sender", k)), k) : k \in Marks}}

HybridSelects(m, ledger, turn, mark) ==
    LET heard == IF m.last = turn THEN mark ELSE NoMark
    IN  {Returns(n, ledger) :
            n \in IF Cached(m, turn, "receiver") THEN {m}
                  ELSE Encoded(Remembered(m, turn, Entry("receiver", heard)), heard)}

HybridReceives(m, ledger, turn, mark) ==
    UNION {IF r.fault = "none" THEN {[r EXCEPT !.mem = n] : n \in Encoded(r.mem, mark)} ELSE {r} :
              r \in FirstUse([m EXCEPT !.last = turn], ledger, "received", turn, mark)}

\* The payload head is updated on every call, a retry included.
HybridOutcome(m, ledger, turn, bit) ==
    IF m.pending[turn] = NoEntry THEN {Returns(m, ledger)}
    ELSE HypothesesOn([m EXCEPT !.pending[turn].rewarded = TRUE, !.sensed = Append(@, turn)],
                      ledger, turn, Failed(bit))

\* The world model observes a turn before its reward is asked for.
HybridUpdate(m, turn) ==
    {[n EXCEPT !.kept = Snapshot(n)] :
        n \in IF m.pending[turn].mark = NoMark \/ m.knobs.consolidating THEN {Forgotten(m, turn)}
              ELSE IF ~m.pending[turn].rewarded THEN Learnt(m, turn)
              ELSE {Forgotten(l, turn) : l \in Learnt(m, turn)}}

HybridStage(m, i) ==
    [m EXCEPT !.knobs = [set |-> [k \in Knobs |-> IF k \in Stages[i].knobs THEN i ELSE m.knobs.set[k]],
                         consolidating |-> Stages[i].consolidation]]

HybridExport(m) ==
    [run |-> "this", belief |-> m.belief, learnt |-> m.learnt, sensed |-> m.sensed,
     knobs |-> m.knobs, registries |-> m.kept]

HybridLoad(policy) ==
    LET m == [Fresh EXCEPT !.belief = policy.belief, !.learnt = policy.learnt, !.sensed = policy.sensed]
    IN  IF policy.run # "this" THEN m ELSE Restored(m, policy.registries)

---------------------------------------------------------------------------
(* frozen-llm: frozen-llm.ts and its memory, llm-memory.ts                   *)

\* The completion is asked for once; the emission is counted once, after its
\* first-use event.
FrozenSends(m, ledger, turn) ==
    UNION {{IF r.fault = "none" /\ turn \notin Range(r.mem.sensed)
            THEN [r EXCEPT !.mem.sensed = Append(@, turn)] ELSE r :
                r \in FirstUse(d, ledger, "emitted", turn, d.pending[turn].mark)} :
              d \in IF Cached(m, turn, "sender") THEN {m}
                    ELSE {Remembered(m, turn, Entry("sender", k)) : k \in Marks}}

FrozenSelects(m, ledger, turn, mark) ==
    {Returns(IF Cached(m, turn, "receiver") THEN m
             ELSE Remembered(m, turn, Entry("receiver", IF m.last = turn THEN mark ELSE NoMark)),
             ledger)}

\* Whether the delivery is new is asked before, and noted after, its first use.
FrozenReceives(m, ledger, turn, mark) ==
    {IF r.fault = "none" /\ m.last # turn THEN [r EXCEPT !.mem.sensed = Append(@, turn)] ELSE r :
        r \in FirstUse([m EXCEPT !.last = turn], ledger, "received", turn, mark)}

\* The turn is folded into the memory, and marked so, before its hypothesis
\* events are appended.
FrozenOutcome(m, ledger, turn, bit) ==
    IF m.pending[turn] = NoEntry \/ m.pending[turn].folded THEN {Returns(m, ledger)}
    ELSE LET folded == [m EXCEPT !.pending[turn].folded = TRUE]
         IN  IF m.pending[turn].mark = NoMark THEN {Returns(folded, ledger)}
             ELSE UNION {HypothesesOn(l, ledger, turn, Failed(bit)) : l \in Learnt(folded, turn)}

FrozenExport(m) ==
    [run |-> "this", belief |-> m.belief, learnt |-> m.learnt, sensed |-> m.sensed,
     knobs |-> Configured, registries |-> [EmptyRegistries EXCEPT !.hyp = m.hyp]]

---------------------------------------------------------------------------
(* no-learning: no-learning.ts. Every attempt draws again.                   *)

NoLearningSends(m, ledger, turn) ==
    UNION {FirstUse(Remembered(m, turn, Entry("sender", k)), ledger, "emitted", turn, k) : k \in Marks}

NoLearningReceives(m, ledger, turn, mark) ==
    FirstUse([m EXCEPT !.last = turn], ledger, "received", turn, mark)

NoLearningExport(m) == TabularExport(Fresh)

---------------------------------------------------------------------------
(* The adapter interface *)

Sends(track, m, ledger, turn) ==
    CASE track = "scratch-rl" -> TabularSends(m, ledger, turn)
      [] track = "self-supervised" -> SelfSupervisedSends(m, ledger, turn)
      [] track = "hybrid" -> HybridSends(m, ledger, turn)
      [] track = "frozen-llm" -> FrozenSends(m, ledger, turn)
      [] track = "no-learning" -> NoLearningSends(m, ledger, turn)

Receives(track, m, ledger, turn, mark) ==
    CASE track = "scratch-rl" -> TabularReceives(m, ledger, turn, mark)
      [] track = "self-supervised" -> SelfSupervisedReceives(m, ledger, turn, mark)
      [] track = "hybrid" -> HybridReceives(m, ledger, turn, mark)
      [] track = "frozen-llm" -> FrozenReceives(m, ledger, turn, mark)
      [] track = "no-learning" -> NoLearningReceives(m, ledger, turn, mark)

Selects(track, m, ledger, turn, mark) ==
    CASE track = "scratch-rl" -> TabularSelects(m, ledger, turn, mark)
      [] track = "self-supervised" -> SelfSupervisedSelects(m, ledger, turn, mark)
      [] track = "hybrid" -> HybridSelects(m, ledger, turn, mark)
      [] track = "frozen-llm" -> FrozenSelects(m, ledger, turn, mark)
      [] track = "no-learning" -> {Returns(m, ledger)}

OnOutcome(track, m, ledger, turn, bit) ==
    CASE track = "scratch-rl" -> TabularOutcome(m, ledger, turn, bit)
      [] track = "self-supervised" -> SelfSupervisedOutcome(m, ledger, turn)
      [] track = "hybrid" -> HybridOutcome(m, ledger, turn, bit)
      [] track = "frozen-llm" -> FrozenOutcome(m, ledger, turn, bit)
      [] track = "no-learning" -> {Returns(m, ledger)}

UpdatePolicy(track, m, turn) ==
    CASE track = "scratch-rl" -> TabularUpdate(m, turn)
      [] track = "self-supervised" -> SelfSupervisedUpdate(m, turn)
      [] track = "hybrid" -> HybridUpdate(m, turn)

ApplyStage(track, m, i) ==
    IF track = "hybrid" THEN HybridStage(m, i) ELSE SelfSupervisedStage(m, i)

ExportPolicy(track, m) ==
    CASE track = "scratch-rl" -> TabularExport(m)
      [] track = "self-supervised" -> SelfSupervisedExport(m)
      [] track = "hybrid" -> HybridExport(m)
      [] track = "frozen-llm" -> FrozenExport(m)
      [] track = "no-learning" -> NoLearningExport(m)

\* Two tracks start afresh whatever policy they are given.
Loaded(track, policy) ==
    CASE track = "scratch-rl" -> TabularLoad(policy)
      [] track = "self-supervised" -> SelfSupervisedLoad(policy)
      [] track = "hybrid" -> HybridLoad(policy)
      [] track \in {"frozen-llm", "no-learning"} -> Fresh
=============================================================================
