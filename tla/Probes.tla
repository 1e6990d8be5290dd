------------------------------- MODULE Probes -------------------------------
(***************************************************************************)
(* The live probes of the evaluation phase.  While a run trains, each Baby *)
(* writes hypotheses about the forms into its own ledger.  At the end of   *)
(* training the Nursery reads both ledgers, draws some of the evaluation   *)
(* turns and plans a probe for each of them: the form a hypothesis of the  *)
(* receiver is about is ablated from the delivered message, or substituted *)
(* by a form about which the receiver believes something else.  The        *)
(* schedule is recorded before the first evaluation outcome, and what the  *)
(* receiver then does is compared with what its own ledger predicted.      *)
(*                                                                         *)
(* Turn numbers count every turn, the extra turn that repairs a failed     *)
(* episode included, while the budgets count episodes; a restart rebuilds  *)
(* the schedule from what the intervention stream holds.                   *)
(***************************************************************************)
EXTENDS Integers, FiniteSets, SequencesExt

CONSTANTS
    Forms,            \* the forms of the inventory, as numbers: ties are broken by the order of forms
    Retired,          \* forms a ledger may mention that are not in the run's inventory
    Codes,            \* type codes
    Observations,     \* what an analysis may report of one probed turn
    Suites,           \* the evaluation suites a run may be configured with
    Writings,         \* what a turn may leave in a ledger, its turn number aside
    FirstEvents,      \* what both ledgers may hold when the exploration starts
    MaxTurnsPerRun,   \* training episodes
    EvaluationTurns,  \* evaluation episodes
    MaxEvents,        \* bound: ledger events written after the initial ones
    MaxFailures,      \* bound: failed episodes
    MaxCrashes        \* bound: process ends

ASSUME ProbesAssumption ==
    /\ Forms \subseteq Nat \ {0} /\ Retired \subseteq Nat \ {0} /\ Codes \subseteq Nat
    /\ MaxTurnsPerRun \in Nat \ {0} /\ EvaluationTurns \in Nat \ {0}

VARIABLES
    ledger,    \* each Baby's ledger, oldest event first
    suite,     \* the evaluation suite of the run configuration
    state,     \* "running", "evaluating", "complete", or "down": no process
    turns,     \* the records of the turns stream
    owed,      \* the episode whose repair turn comes next, None, in memory
    repairs,   \* the intervention stream's repair-turn events, oldest first
    schedule,  \* the schedule the process holds, or NoSchedule
    recorded,  \* the intervention stream's probe-schedule events
    played,    \* the intervention stream's causal-probe events
    observed,  \* the observations an analysis holds of the applied probes
    wrote,     \* ledger events written since the start
    crashes,   \* process ends
    refused    \* a probe-schedule append was refused

probeVars == <<ledger, suite, state, turns, owed, repairs, schedule, recorded,
               played, observed, wrote, crashes, refused>>

Babies == {"baby-a", "baby-b"}
Words == Forms \cup Retired
None == -1
Positions == {0, 1}

-----------------------------------------------------------------------------
(* Reading the ledgers. *)

\* A form no event has mentioned; a form only messages have mentioned, or whose
\* hypothesis was abandoned, is known but has no hypothesis (ref 0).
Unknown == [ref |-> None, code |-> None, confidence |-> None, contradictions |-> 0,
            counts |-> [p \in Positions |-> 0]]

Mentioned(claim) == IF claim.ref = None THEN [claim EXCEPT !.ref = 0] ELSE claim

\* The claim after hypothesis event e, the i-th of its ledger.
Judged(claim, e, i) ==
    CASE e.type = "contradicted" /\ claim.ref = None ->
            [claim EXCEPT !.ref = i, !.code = e.code, !.confidence = e.confidence,
                          !.contradictions = 1]
      [] e.type = "contradicted" -> [claim EXCEPT !.contradictions = @ + 1]
      [] e.type = "abandoned" -> [claim EXCEPT !.ref = 0, !.code = None, !.confidence = None]
      [] OTHER -> [claim EXCEPT !.ref = i, !.code = e.code, !.confidence = e.confidence]

\* A message counts each of its symbols at its position.
Heard(claims, e) ==
    [f \in Words |->
        IF \E p \in DOMAIN e.symbols : e.symbols[p] = f
        THEN [Mentioned(claims[f]) EXCEPT !.counts =
                [p \in Positions |->
                    @[p] + (IF p + 1 \in DOMAIN e.symbols /\ e.symbols[p + 1] = f THEN 1 ELSE 0)]]
        ELSE claims[f]]

IndexClaims(events) ==
    FoldLeftDomain(LAMBDA claims, i :
        IF events[i].type = "message" THEN Heard(claims, events[i])
        ELSE [claims EXCEPT ![events[i].form] = Judged(@, events[i], i)],
        [f \in Words |-> Unknown], events)

ObservedLength(events) ==
    LET lengths == {Len(events[i].symbols) : i \in DOMAIN events}
    IN  IF lengths = {} THEN 0 ELSE CHOOSE n \in lengths : \A m \in lengths : m <= n

\* The forms with a hypothesis in force, the most confident first; among equals the
\* less contradicted, then the smaller form.
RankedForms(claims) ==
    LET Before(f, g) ==
            \/ claims[f].confidence > claims[g].confidence
            \/ /\ claims[f].confidence = claims[g].confidence
               /\ \/ claims[f].contradictions < claims[g].contradictions
                  \/ claims[f].contradictions = claims[g].contradictions /\ f < g
    IN  SetToSortSeq({f \in Words : claims[f].ref > 0}, Before)

\* Where the form is usually said, within the length messages have.
ClaimPosition(claim, length) ==
    LET seen == {p \in Positions : claim.counts[p] > 0 /\ p < length}
    IN  IF seen = {} THEN 0
        ELSE CHOOSE p \in seen : \A q \in seen :
                \/ claim.counts[p] > claim.counts[q]
                \/ claim.counts[p] = claim.counts[q] /\ p <= q

-----------------------------------------------------------------------------
(* Planning. *)

\* Even turns are received by Baby B (a role reversal every turn).
ReceiverForTurn(t) == IF t % 2 = 0 THEN "baby-b" ELSE "baby-a"

EvaluationTurnRange(first) == first .. (first + EvaluationTurns - 1)

ProbeKinds ==
    (IF suite.ablation THEN <<"ablation">> ELSE <<>>)
    \o (IF suite.substitution THEN <<"substitution">> ELSE <<>>)

\* The share, in halves, rounded to the nearest turn; at least one when it is not zero.
ProbeCount ==
    IF suite.share = 0 THEN 0
    ELSE LET rounded == (suite.share * EvaluationTurns + 1) \div 2
         IN  IF rounded = 0 THEN 1 ELSE rounded

\* Only what the Babies wrote while training: by turn number.
TrainingEvents(b) == SelectSeq(ledger[b], LAMBDA e : e.turn < MaxTurnsPerRun)

EmptySchedule(first, code) ==
    [turns |-> EvaluationTurnRange(first), drawn |-> {}, probes |-> {},
     shortfalls |-> {[turn |-> None, code |-> code]}]

\* The first claim about another form that says something else and passes the test.
Substitutes(ranked, claims, target, Test(_)) ==
    SelectSeq(ranked, LAMBDA f :
        f # target /\ claims[f].code # claims[target].code /\ Test(f))

\* One drawn turn, the n-th of them: a probe, a shortfall, or both when a missing
\* substitute falls back to ablation.
PlanTurn(plan, t, n) ==
    LET b == ReceiverForTurn(t)
        events == TrainingEvents(b)
        claims == IndexClaims(events)
        ranked == RankedForms(claims)
        target == ranked[(plan.rotation[b] % Len(ranked)) + 1]
        length == IF ObservedLength(events) = 0 THEN 1 ELSE ObservedLength(events)
        wanted == ProbeKinds[((n - 1) % Len(ProbeKinds)) + 1]
        distinct == Substitutes(ranked, claims, target, LAMBDA f : TRUE)
        usable == Substitutes(ranked, claims, target, LAMBDA f : f \in Forms)
        short == wanted = "substitution" /\ usable = <<>>
        kind == IF short THEN "ablation" ELSE wanted
        probe == [turn |-> t, receiver |-> b, kind |-> kind, target |-> target,
                  substitute |-> IF kind = "substitution" THEN Head(usable) ELSE None,
                  position |-> ClaimPosition(claims[target], length),
                  ref |-> claims[target].ref, away |-> claims[target].code,
                  toward |-> IF kind = "substitution" THEN claims[Head(usable)].code ELSE None]
        why == IF distinct = <<>> THEN "no-substitute-with-distinct-claim"
                                  ELSE "substitute-not-in-inventory"
    IN  IF ranked = <<>>
        THEN [plan EXCEPT !.shortfalls = @ \cup {[turn |-> t, code |-> "no-ledger-claim"]}]
        ELSE [rotation |-> [plan.rotation EXCEPT ![b] = @ + 1],
              shortfalls |-> plan.shortfalls
                  \cup (IF short THEN {[turn |-> t, code |-> why]} ELSE {}),
              probes |-> plan.probes
                  \cup (IF short /\ ~suite.ablation THEN {} ELSE {probe})]

\* The schedule for a run whose evaluation starts at turn first, when the seeded
\* shuffle draws the given turns.
PlanEvaluationProbes(first, drawn) ==
    CASE ProbeKinds = <<>> -> EmptySchedule(first, "no-probe-kind-enabled")
      [] ProbeKinds # <<>> /\ ProbeCount = 0 -> EmptySchedule(first, "probe-share-zero")
      [] OTHER ->
            LET order == SetToSortSeq(drawn, LAMBDA s, t : s < t)
                plan == FoldLeftDomain(LAMBDA p, n : PlanTurn(p, order[n], n),
                            [rotation |-> [b \in Babies |-> 0], probes |-> {}, shortfalls |-> {}],
                            order)
            IN  [turns |-> EvaluationTurnRange(first), drawn |-> drawn,
                 probes |-> plan.probes, shortfalls |-> plan.shortfalls]

Draws(first) == {d \in SUBSET EvaluationTurnRange(first) : Cardinality(d) = ProbeCount}

BaselineTurns(s) == s.turns \ {p.turn : p \in s.probes}

NoSchedule == [turns |-> {}, drawn |-> {}, probes |-> {}, shortfalls |-> {}]

-----------------------------------------------------------------------------
(* Scoring. *)

TypeCodeOf(code, o) == IF code \in o.candidates THEN code ELSE None

Unscored == [scored |-> FALSE, agrees |-> FALSE]

\* Whether the receiver moved as its ledger predicted: to the substitute's meaning, or
\* off the ablated form's.  A turn whose outcome could not tell is not scored.
ScoreProbeAgreement(toward, away, o) ==
    LET seen == TypeCodeOf(o.action, o)
        baseline == TypeCodeOf(o.baseline, o)
        predicted == IF toward # None THEN toward ELSE away
        contrast == IF baseline = None THEN TRUE
                    ELSE IF toward # None THEN baseline # toward ELSE baseline = away
    IN  IF seen = None \/ predicted \notin o.candidates \/ ~contrast THEN Unscored
        ELSE [scored |-> TRUE,
              agrees |-> IF toward # None THEN seen = toward ELSE seen # away]

\* The readings of the suite: each planned probe is scored or not, or its observation
\* is missing; an observation without a planned probe is unexpected.
ObservationOf(p) == {o \in observed : o.turn = p.turn}

EvaluateSuite(s) ==
    [missing |-> {p \in s.probes : ObservationOf(p) = {}},
     scored |-> {p \in s.probes : \E o \in ObservationOf(p) :
                    ScoreProbeAgreement(p.toward, p.away, o.seen).scored},
     agreeing |-> {p \in s.probes : \E o \in ObservationOf(p) :
                    ScoreProbeAgreement(p.toward, p.away, o.seen).agrees},
     unexpected |-> {o \in observed : \A p \in s.probes : p.turn # o.turn}]

\* The scrambling control scores the same probes under one map from forms to meanings;
\* it builds the unscrambled map from all probes in turn order, the later entry winning.
LedgerMap(s) ==
    LET pairs == {p \in s.probes : ObservationOf(p) # {}}
        Says(p, f) == \/ p.target = f
                      \/ p.substitute = f /\ p.toward # None
        Meaning(p, f) == IF p.substitute = f THEN p.toward ELSE p.away
    IN  [f \in {g \in Words : \E p \in pairs : Says(p, g)} |->
            LET last == CHOOSE p \in pairs :
                            Says(p, f) /\ \A q \in pairs : Says(q, f) => q.turn <= p.turn
            IN  Meaning(last, f)]

ScoreUnderMap(s, map) ==
    {p \in s.probes : \E o \in ObservationOf(p) :
        ScoreProbeAgreement(
            IF p.kind = "substitution" /\ p.substitute \in DOMAIN map
            THEN map[p.substitute] ELSE None,
            map[p.target], o.seen).agrees}

-----------------------------------------------------------------------------
(* Episodes and their repair turns. *)

Episodes(phase) == {i \in DOMAIN turns : turns[i].phase = phase /\ turns[i].repairs = None}
Trained == Cardinality(Episodes("running"))
Evaluated == Cardinality(Episodes("evaluating"))
NextTurn == Len(turns)

\* evaluateRepair: of the episodes whose first attempt failed, those that were attempted
\* again, and those the extra attempts resolved; more extra attempts than planned break
\* the plan.
Extras(t) == {i \in DOMAIN turns : turns[i].repairs = t}
RepairOpportunities == {t \in 0 .. NextTurn - 1 : turns[t + 1].repairs = None /\ ~turns[t + 1].success}
RepairAttempted == {t \in RepairOpportunities : Extras(t) # {}}
RepairResolved == {t \in RepairAttempted : \E i \in Extras(t) : turns[i].success}
BudgetExceeded == {t \in 0 .. NextTurn - 1 : Cardinality(Extras(t)) > 1}

\* Mutant: the newest scheduled repair, played or not.
OwedNewest == IF repairs = <<>> THEN None ELSE Last(repairs)

\* The repair a restarted process still owes: the newest scheduled one not yet played.
OwedByEvidence ==
    LET open == {i \in DOMAIN repairs : Extras(repairs[i]) = {}}
    IN  IF open = {} THEN None
        ELSE repairs[CHOOSE i \in open : \A j \in open : j <= i]

PhaseOf(t) == turns[t + 1].phase

-----------------------------------------------------------------------------
(* The run. *)

ProbesInit ==
    /\ ledger \in {[b \in Babies |-> events] : events \in FirstEvents}
    /\ suite \in Suites
    /\ state = "running" /\ owed = None /\ turns = <<>> /\ repairs = <<>>
    /\ schedule = NoSchedule /\ recorded = <<>> /\ played = {} /\ observed = {}
    /\ wrote = 0 /\ crashes = 0 /\ refused = FALSE

\* A Baby writes into its ledger during the turn under way.  (What it writes once a
\* schedule is recorded is left out: no planning reads it.)
Write(b, e) ==
    /\ state \in {"running", "evaluating"} /\ recorded = <<>> /\ wrote < MaxEvents
    /\ ledger' = [ledger EXCEPT ![b] = Append(@, [turn |-> NextTurn] @@ e)]
    /\ wrote' = wrote + 1
    /\ UNCHANGED <<suite, state, turns, owed, repairs, schedule, recorded, played,
                   observed, crashes, refused>>

\* Freezing the schedule of an evaluation that starts at turn first.  The process holds
\* the schedule before the append; answer says whether the event was kept and whether
\* the caller learnt it.
Freeze(first, answer) ==
    IF schedule # NoSchedule
    THEN answer = "kept" /\ UNCHANGED <<schedule, recorded, refused>>
    ELSE \E drawn \in Draws(first) :
            LET s == PlanEvaluationProbes(first, drawn) IN
            /\ schedule' = s
            /\ recorded' = IF answer = "refused" THEN recorded
                           ELSE Append(recorded, [schedule |-> s, after |-> Evaluated])
            /\ refused' = (refused \/ answer = "refused")

\* The stage transition a turn owes, when n training and m evaluation episodes are over
\* and no repair is: the caller of a freeze that fails stays in its stage.
StageTransition(n, m, waiting, answer) ==
    IF state = "running" /\ n >= MaxTurnsPerRun /\ ~waiting
    THEN /\ Freeze(NextTurn + 1, answer)
         /\ state' = IF answer = "kept" THEN "evaluating" ELSE "running"
    ELSE /\ answer = "kept"
         /\ state' = IF state = "evaluating" /\ m >= EvaluationTurns /\ ~waiting
                     THEN "complete" ELSE state
         /\ UNCHANGED <<schedule, recorded, refused>>

\* One turn: the episode that is owed a repair, or the next one of the stage.  A probe
\* planned for this turn number is applied to an accepted message of an evaluation episode,
\* its repair turn included, and recorded as skipped in every other case.  A failed episode is owed a repair turn.  (Without a
\* probe a refused message is like any other failure.)
PlayTurn(accepted, success, answer) ==
    /\ state \in {"running", "evaluating"}
    /\ success => accepted
    /\ LET t == NextTurn
           phase == IF owed = None THEN state ELSE PhaseOf(owed)
           planned == {q \in schedule.probes : q.turn = t}
           schedules == owed = None /\ ~success
           n == Trained + (IF owed = None /\ phase = "running" THEN 1 ELSE 0)
           m == Evaluated + (IF owed = None /\ phase = "evaluating" THEN 1 ELSE 0)
       IN  /\ ~accepted => planned # {}
           /\ schedules =>
                Cardinality({i \in DOMAIN turns : ~turns[i].success /\ turns[i].repairs = None})
                    < MaxFailures
           /\ turns' = Append(turns, [phase |-> phase, success |-> success, repairs |-> owed])
           /\ owed' = IF schedules THEN t ELSE None
           /\ repairs' = IF schedules THEN Append(repairs, t) ELSE repairs
           /\ played' = played \cup {[probe |-> p, applied |-> accepted /\ phase = "evaluating", phase |-> phase] :
                                        p \in planned}
           /\ StageTransition(n, m, schedules, answer)
    /\ UNCHANGED <<ledger, suite, observed, wrote, crashes>>

\* An analysis reads the outcome of an applied probe, once for each probe.
Observe(p, o) ==
    /\ state = "complete"
    /\ [probe |-> p, applied |-> TRUE, phase |-> "evaluating"] \in played
    /\ ObservationOf(p) = {}
    /\ \A q \in schedule.probes : q.turn < p.turn => ObservationOf(q) # {} \/ q \notin {x.probe : x \in played}
    /\ observed' = observed \cup {[turn |-> p.turn, seen |-> o]}
    /\ UNCHANGED <<ledger, suite, state, turns, owed, repairs, schedule, recorded, played,
                   wrote, crashes, refused>>

Crash ==
    /\ state \in {"running", "evaluating"} /\ crashes < MaxCrashes
    /\ crashes' = crashes + 1 /\ state' = "down" /\ schedule' = NoSchedule /\ owed' = None
    /\ UNCHANGED <<ledger, suite, turns, repairs, recorded, played, observed, wrote, refused>>

\* Recovery: the counters and the stage come from the turn records, the schedule from
\* its newest event; without one it is frozen now, once as many turns as the training
\* budget are over.  A freeze that fails fails the recovery, which leaves the run in
\* the process, ready for its next turn.
Recover(answer) ==
    /\ state = "down"
    /\ LET repair == OwedByEvidence
           stage == IF Evaluated > 0 \/ (Trained >= MaxTurnsPerRun
                                         /\ ~(repair # None /\ PhaseOf(repair) = "running"))
                    THEN "evaluating" ELSE "running"
           over == stage = "evaluating" /\ Evaluated >= EvaluationTurns /\ repair = None
       IN  /\ IF NextTurn < MaxTurnsPerRun
              THEN answer = "kept" /\ UNCHANGED <<schedule, recorded, refused>>
              ELSE IF recorded # <<>>
              THEN /\ answer = "kept" /\ schedule' = Last(recorded).schedule
                   /\ UNCHANGED <<recorded, refused>>
              ELSE Freeze(NextTurn, answer)
           /\ owed' = repair
           /\ state' = IF over /\ answer = "kept" THEN "complete" ELSE stage
    /\ UNCHANGED <<ledger, suite, turns, repairs, played, observed, wrote, crashes>>

ProbesNext ==
    \/ \E b \in Babies, e \in Writings : Write(b, e)
    \/ \E accepted, success \in BOOLEAN, answer \in {"kept", "refused", "unanswered"} :
            PlayTurn(accepted, success, answer)
    \/ \E p \in schedule.probes, o \in Observations : Observe(p, o)
    \/ Crash
    \/ \E answer \in {"kept", "refused", "unanswered"} : Recover(answer)

ProbesSpec == ProbesInit /\ [][ProbesNext]_probeVars

-----------------------------------------------------------------------------
(* Properties. *)

ProbeOf == [turn : Nat, receiver : Babies, kind : {"ablation", "substitution"},
            target : Words, substitute : Forms \cup {None}, position : Positions,
            ref : Nat \ {0}, away : Codes, toward : Codes \cup {None}]

ProbesTypeOK ==
    /\ state \in {"running", "evaluating", "complete", "down"}
    /\ owed \in Nat \cup {None}
    /\ \A p \in schedule.probes : p \in ProbeOf
    /\ \A i \in DOMAIN recorded : recorded[i].schedule.probes \subseteq ProbeOf
    /\ refused \in BOOLEAN

\* What a ledger claims, said without the fold (indexLedgerClaims): the hypothesis of a
\* form is the last one created or revised, unless one was abandoned since; the first
\* thing ever said about a form may be a contradiction, and then that is its claim.
\* Contradictions are counted over the form's whole history.
ClaimsAreInForce ==
    \A b \in Babies :
        LET events == TrainingEvents(b)
            claims == IndexClaims(events)
            About(f) == {i \in DOMAIN events : events[i].type # "message" /\ events[i].form = f}
            Said(f) == {i \in DOMAIN events :
                            events[i].type = "message" /\ f \in Range(events[i].symbols)}
            Kind(f, type) == {i \in About(f) : events[i].type = type}
            Setting(f) == Kind(f, "created") \cup Kind(f, "abandoned")
            First(f) == {i \in Kind(f, "contradicted") :
                            \A j \in About(f) \cup Said(f) : i <= j}
            Sets(f, i) == IF Setting(f) = {} THEN i \in First(f)
                          ELSE i \in Kind(f, "created") /\ \A j \in Setting(f) : j <= i
        IN  \A f \in Words :
                /\ claims[f].contradictions = Cardinality(Kind(f, "contradicted"))
                /\ claims[f].ref > 0 <=> \E i \in About(f) : Sets(f, i)
                /\ \A i \in About(f) : Sets(f, i) =>
                        claims[f].ref = i /\ claims[f].code = events[i].code

\* A frozen schedule (planEvaluationProbes) spreads over its turns as planned: every
\* drawn turn has a probe or says why not, every other turn is a baseline turn, and a
\* probe asks its receiver about one of its own claims, a substitution about two that
\* differ.
ScheduleIsWhole ==
    schedule # NoSchedule =>
        /\ {p.turn : p \in schedule.probes} \cup ({x.turn : x \in schedule.shortfalls} \ {None})
                = schedule.drawn
        /\ schedule.drawn \subseteq schedule.turns
        /\ Cardinality(schedule.drawn) + Cardinality(schedule.turns \ schedule.drawn)
                = EvaluationTurns
        /\ BaselineTurns(schedule) \cap {p.turn : p \in schedule.probes} = {}
        /\ \A p, q \in schedule.probes : p.turn = q.turn => p = q
        /\ \A p \in schedule.probes :
                /\ p.receiver = ReceiverForTurn(p.turn)
                /\ LET events == ledger[p.receiver]
                   IN  p.ref \in DOMAIN events /\ events[p.ref].form = p.target
                       /\ events[p.ref].turn < MaxTurnsPerRun
                /\ p.kind = "substitution" <=> p.toward # None
                /\ p.kind = "substitution" =>
                        p.substitute \in Forms \ {p.target} /\ p.toward # p.away

\* The schedule is drawn once and before there is an outcome it could have been chosen
\* by (#freezeProbeSchedule, #restoreProbeSchedule): as long as the store refuses no
\* append, every probe that was played is of the one recorded schedule, whatever crashes
\* and lost answers came between, and a process never plays by another.
FrozenBeforeOutcomes ==
    /\ Len(recorded) <= 1
    /\ ~refused =>
        /\ \A i \in DOMAIN recorded : recorded[i].after = 0
        /\ schedule # NoSchedule => recorded # <<>> /\ schedule = recorded[1].schedule
        /\ \A x \in played : recorded # <<>> /\ x.probe \in recorded[1].schedule.probes

\* Agreement is a change of behaviour (scoreProbeAgreement): where an unprobed baseline
\* is known, a probe agrees only when the receiver's action is of another type than its
\* baseline, and towards what its ledger said.
AgreementIsChange ==
    LET suiteResult == EvaluateSuite(schedule) IN
    /\ suiteResult.agreeing \subseteq suiteResult.scored
    /\ suiteResult.missing \cap suiteResult.scored = {}
    /\ suiteResult.unexpected = {}
    /\ \A p \in suiteResult.agreeing : \A o \in ObservationOf(p) :
            /\ TypeCodeOf(o.seen.baseline, o.seen) # None =>
                    o.seen.action # o.seen.baseline
            /\ p.toward # None => o.seen.action = p.toward
            /\ p.toward = None => o.seen.action # p.away

\* The control that leaves the map unscrambled finds the suite's agreement, when the
\* Babies whose probes were observed mean the same by the same form
\* (evaluateScramblingControl, whose map is of both ledgers at once).
UnscrambledIsTheSuite ==
    LET map == LedgerMap(schedule)
        seen == {p \in schedule.probes : ObservationOf(p) # {}}
        Consistent == \A p \in seen :
            map[p.target] = p.away /\ (p.toward # None => map[p.substitute] = p.toward)
    IN  Consistent =>
            ScoreUnderMap([schedule EXCEPT !.probes = seen], map)
                = EvaluateSuite(schedule).agreeing

\* An episode is repaired at most once and only after it failed, whatever restarts
\* (the pending repair is rebuilt from the evidence); so the repair readings never find
\* a budget exceeded.
RepairedAtMostOnce ==
    /\ BudgetExceeded = {}
    /\ RepairResolved \subseteq RepairAttempted
    /\ \A i \in DOMAIN turns : turns[i].repairs # None =>
            /\ turns[i].repairs \in RepairOpportunities
            /\ turns[i].phase = PhaseOf(turns[i].repairs)

\* Not checked, TLC refutes it: a probe that was planned is tried in the evaluation.  A
\* restart compares turn numbers, which count repair turns, with the budget of training
\* episodes (#restoreProbeSchedule), so it may freeze the schedule while training goes on;
\* and after a refused or unanswered freeze the stage plays one more training turn, which
\* has the number of the first evaluation turn.  A probe planned for such a turn is
\* recorded as skipped.
PlannedProbesAreTried ==
    state = "complete" /\ ~refused =>
        \A p \in schedule.probes : \E x \in played : x.probe = p /\ x.phase = "evaluating"

(* What the live probes of an evaluation promise. *)
ProbesSafe ==
    /\ ProbesTypeOK /\ ClaimsAreInForce /\ ScheduleIsWhole /\ FrozenBeforeOutcomes
    /\ AgreementIsChange /\ UnscrambledIsTheSuite /\ RepairedAtMostOnce
=============================================================================
