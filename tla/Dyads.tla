-------------------------------- MODULE Dyads --------------------------------
(* The collection of ALA dyads (ala/ala-runner.ts): runners that share one   *)
(* evidence root and the journal in it, which every append reads and writes  *)
(* whole; the gates in front of an attempt; the watchdog that terminates a   *)
(* runner (scripts/ala-watchdog.sh) and journals it as aborted; runners that *)
(* end on the way, and the operator who resumes their dyads.                 *)
EXTENDS Integers, Sequences, FiniteSets, SequencesExt

CONSTANTS
    DyadIds,            \* dyads
    Budgeted,           \* those of the development and calibration cohorts
    Budget,             \* their attempts (3 in the code)
    Runners,            \* processes that run at once
    Cases,              \* number of paired cases of a dyad
    MaxAttempts,        \* bound: invocations that get past the gates
    MaxCrashes,         \* bound: runners that end without a word
    MaxBreaches         \* bound: guards breached

ASSUME DyadsAssumption ==
    /\ IsFiniteSet(Budgeted) /\ Budgeted \subseteq DyadIds /\ "none" \notin DyadIds
    /\ {Budget, Cases, MaxAttempts, MaxCrashes, MaxBreaches} \subseteq Nat

VARIABLES
    dyads,              \* journal.jsonl: its entries
    admitted,           \* the study dyads' cohorts with an admission record
    runner,             \* each runner's step, dyad, protocol, and the entry it is writing
    dyadDir,            \* of each dyad: its blocks, its audited cases, its receipt, by attempt
    watch,              \* the watchdog that launched each runner
    attempts, crashes, breaches, \* counters of the bounds
    crossed,            \* history: dyads that a runner took while another, or its watchdog, was at them
    forgotten,          \* history: dyads of which a crash cut entries off the journal
    raced               \* history: an append, or a gate, acted on an older journal

bounds == <<attempts, crashes, breaches>>
dyadHistories == <<crossed, forgotten, raced>>
dyadVars == <<dyads, admitted, runner, dyadDir, watch, bounds, dyadHistories>>

Verdicts == {"valid", "invalid", "aborted"}
Attempted == {"attempted", "resumed", "failed"}

Entry(d, state) == [dyad |-> d, state |-> state]
TornEntry == Entry("none", "torn")

Off == [step |-> "off", dyad |-> "none", id |-> 0, protocol |-> 0, resume |-> FALSE, seen |-> <<>>,
        entry |-> TornEntry, next |-> "off", slot |-> 0]
Unwatched == [step |-> "none", dyad |-> "none", seen |-> <<>>]
NoDyad == [blocks |-> 0, cases |-> {}, receipt |-> 0]

\* readAlaJournal: a line that does not parse fails the read.
CanRead == TornEntry \notin Range(dyads)

StatesOf(d) == {dyads[i].state : i \in {k \in DOMAIN dyads : dyads[k].dyad = d}}

\* appendAlaJournal writes back what it read, with the entry behind it; behind
\* a torn line the entry is part of that line.
Written(seen, e) ==
    IF seen # <<>> /\ Last(seen) = TornEntry THEN seen ELSE Append(seen, e)

---------------------------------------------------------------------------
(* The gates *)

\* alaDevAttemptsUsed.
DevAttemptsUsed ==
    Cardinality({d \in Budgeted : StatesOf(d) \cap (Verdicts \cup Attempted) # {}})

\* A verdict is final; an attempt is resumed, and only an attempt is.
PriorsAllow(d, resume) ==
    /\ StatesOf(d) \cap Verdicts = {}
    /\ (StatesOf(d) \cap Attempted # {}) = resume

\* Protocol 1 replays history, acknowledged, with batch version 1; protocol 2
\* takes batch version 2 and no acknowledgement.
VersionsAllow(protocol, batchVersion, acknowledged) ==
    batchVersion = protocol /\ acknowledged = (protocol = 1)

\* A runner, or the watchdog that launched it, is at the dyad.
At(p, d) == runner[p].dyad = d \/ watch[p].dyad = d

\* runAlaDyad up to its attempt: a refusal writes nothing.
Gate(p, d) ==
    /\ runner[p].step = "off" /\ watch[p] = Unwatched /\ attempts < MaxAttempts
    /\ \E protocol, batchVersion \in 1..2, acknowledged, resume \in BOOLEAN :
          /\ CanRead /\ PriorsAllow(d, resume)
          /\ IF d \in Budgeted THEN resume \/ DevAttemptsUsed < Budget ELSE d \in admitted
          /\ VersionsAllow(protocol, batchVersion, acknowledged)
          /\ runner' = [runner EXCEPT ![p] =
                [Off EXCEPT !.step = "read", !.dyad = d, !.id = attempts + 1, !.protocol = protocol,
                            !.resume = resume, !.seen = dyads, !.slot = 1,
                            !.entry = Entry(d, IF resume THEN "resumed" ELSE "attempted"), !.next = "prepare"]]
    /\ attempts' = attempts + 1
    /\ crossed' = IF \E q \in Runners \ {p} : At(q, d) THEN crossed \cup {d} ELSE crossed
    /\ watch' = [watch EXCEPT ![p] = [@ EXCEPT !.step = "sampling", !.dyad = d]]
    /\ UNCHANGED <<dyads, admitted, dyadDir, crashes, breaches, forgotten, raced>>

Admit(d) ==
    /\ d \notin Budgeted /\ admitted' = admitted \cup {d}
    /\ UNCHANGED <<dyads, runner, dyadDir, watch, bounds, dyadHistories>>

---------------------------------------------------------------------------
(* An append, by a runner *)

ReadJournal(p) ==
    /\ runner[p].step = "read"
    /\ raced' = (raced \/ (runner[p].next = "prepare" /\ runner[p].seen # dyads))
    /\ runner' = [runner EXCEPT ![p].step = "write", ![p].seen = dyads]
    /\ UNCHANGED <<dyads, admitted, dyadDir, watch, bounds, crossed, forgotten>>

WriteJournal(p) ==
    /\ runner[p].step = "write"
    /\ dyads' = Written(runner[p].seen, runner[p].entry)
    /\ raced' = (raced \/ runner[p].seen # dyads)
    /\ runner' = [runner EXCEPT ![p] = IF @.next = "off" THEN Off ELSE [@ EXCEPT !.step = runner[p].next, !.seen = <<>>]]
    /\ UNCHANGED <<admitted, dyadDir, watch, bounds, crossed, forgotten>>

\* A journal that is being written when its writer ends is cut short: it holds
\* some of the lines that were in it, and perhaps a torn one behind them.
CutShort(p) ==
    /\ runner[p].step = "write"
    /\ \E n \in 0..Len(runner[p].seen) :
          LET left == SubSeq(runner[p].seen, 1, n) IN
          /\ dyads' \in {left, Append(left, TornEntry)}
          /\ forgotten' = forgotten \cup {runner[p].seen[i].dyad : i \in (n + 1)..Len(runner[p].seen)}
          /\ raced' = (raced \/ runner[p].seen # dyads)

\* A runner's process is over, whatever it was at.
Ends(p) ==
    /\ runner' = [runner EXCEPT ![p] = Off]
    /\ UNCHANGED <<dyads, forgotten, raced>> \/ CutShort(p)

\* The runner goes on to journal a state, its last.
Journals(p, state) ==
    runner' = [runner EXCEPT ![p].step = "read", ![p].entry = Entry(runner[p].dyad, state), ![p].next = "off"]

---------------------------------------------------------------------------
(* An attempt *)

\* Mutant: a resumed dyad goes on in the directory it finds.
PrepareInPlace(p) ==
    /\ runner[p].step = "prepare"
    /\ \/ runner' = [runner EXCEPT ![p].step = "blocks"]
       \/ runner' = [runner EXCEPT ![p] = Off]
    /\ UNCHANGED <<dyads, admitted, dyadDir, watch, bounds, dyadHistories>>

\* A resumed dyad starts over from an empty directory. What is thrown before
\* the worker is up is not journaled.
Prepare(p) ==
    /\ runner[p].step = "prepare"
    /\ dyadDir' = IF runner[p].resume THEN [dyadDir EXCEPT ![runner[p].dyad] = NoDyad] ELSE dyadDir
    /\ \/ runner' = [runner EXCEPT ![p].step = "blocks"]
       \/ runner' = [runner EXCEPT ![p] = Off]
    /\ UNCHANGED <<dyads, admitted, watch, bounds, dyadHistories>>

\* The parent is trained; under protocol 2 the treatment blocks are built and
\* written before any case runs. A block that is refused is a verdict, every
\* other error a failure.
BuildBlocks(p) ==
    /\ runner[p].step = "blocks"
    /\ \/ /\ dyadDir' = [dyadDir EXCEPT ![runner[p].dyad].blocks =
                            IF runner[p].protocol = 2 THEN runner[p].id ELSE @]
          /\ runner' = [runner EXCEPT ![p].step = "case"]
       \/ \E state \in {"invalid", "failed"} : Journals(p, state) /\ UNCHANGED dyadDir
    /\ UNCHANGED <<dyads, admitted, watch, bounds, dyadHistories>>

Case(p) == [slot |-> runner[p].slot, id |-> runner[p].id]

\* A case: its schedule, its seven branches, its audit, in plan order.
RunCase(p) ==
    /\ runner[p].step = "case" /\ runner[p].slot <= Cases
    /\ \/ /\ dyadDir' = [dyadDir EXCEPT ![runner[p].dyad].cases = @ \cup {Case(p)}]
          /\ runner' = [runner EXCEPT ![p].slot = @ + 1]
       \/ \E state \in {"invalid", "failed"} : Journals(p, state) /\ UNCHANGED dyadDir
    /\ UNCHANGED <<dyads, admitted, watch, bounds, dyadHistories>>

\* The executed cases, read back from the directory, cover the schedule; the
\* receipt is written, then the verdict.
WriteReceipt(p) ==
    /\ runner[p].step = "case" /\ runner[p].slot > Cases
    /\ \/ /\ {c.slot : c \in dyadDir[runner[p].dyad].cases} = 1..Cases
          /\ dyadDir' = [dyadDir EXCEPT ![runner[p].dyad].receipt = runner[p].id]
          /\ Journals(p, "valid")
       \/ /\ {c.slot : c \in dyadDir[runner[p].dyad].cases} # 1..Cases
          /\ Journals(p, "failed") /\ UNCHANGED dyadDir
    /\ UNCHANGED <<dyads, admitted, watch, bounds, dyadHistories>>

\* The runner ends without a word.
Crash(p) ==
    /\ runner[p].step # "off" /\ crashes < MaxCrashes
    /\ crashes' = crashes + 1
    /\ Ends(p)
    /\ UNCHANGED <<admitted, dyadDir, watch, attempts, breaches, crossed>>

---------------------------------------------------------------------------
(* The watchdog *)

\* A sample is past a guard while the runner is alive.
Breach(p) ==
    /\ watch[p].step = "sampling" /\ runner[p].step # "off" /\ breaches < MaxBreaches
    /\ breaches' = breaches + 1
    /\ watch' = [watch EXCEPT ![p].step = "breach"]
    /\ UNCHANGED <<dyads, admitted, runner, dyadDir, attempts, crashes, dyadHistories>>

\* The tree was sent a signal, but only the process the watchdog launched is
\* waited for. Whether it had ended by itself is not asked. The journal is read
\* to append the abort.
ChildEnds(p) ==
    /\ watch[p].step = "breach"
    /\ watch' = [watch EXCEPT ![p].step = "write", ![p].seen = dyads]
    /\ UNCHANGED <<dyads, admitted, runner, dyadDir, bounds, dyadHistories>>

\* The signal ends the worker below that process, at once or later.
Terminate(p) ==
    /\ runner[p].step # "off" /\ watch[p].step # "sampling"
    /\ Ends(p)
    /\ UNCHANGED <<admitted, dyadDir, watch, bounds, crossed>>

\* An append that fails is logged.
JournalAbort(p) ==
    /\ watch[p].step = "write"
    /\ \/ /\ dyads' = Written(watch[p].seen, Entry(watch[p].dyad, "aborted"))
          /\ raced' = (raced \/ watch[p].seen # dyads)
       \/ UNCHANGED <<dyads, raced>>
    /\ watch' = [watch EXCEPT ![p] = Unwatched]
    /\ UNCHANGED <<admitted, runner, dyadDir, bounds, crossed, forgotten>>

\* A runner that is gone ends its watchdog.
StopWatching(p) ==
    /\ watch[p].step = "sampling" /\ runner[p].step = "off"
    /\ watch' = [watch EXCEPT ![p] = Unwatched]
    /\ UNCHANGED <<dyads, admitted, runner, dyadDir, bounds, dyadHistories>>

---------------------------------------------------------------------------

DyadsInit ==
    /\ dyads = <<>> /\ admitted = {}
    /\ runner = [p \in Runners |-> Off]
    /\ dyadDir = [d \in DyadIds |-> NoDyad]
    /\ watch = [p \in Runners |-> Unwatched]
    /\ attempts = 0 /\ crashes = 0 /\ breaches = 0
    /\ crossed = {} /\ forgotten = {} /\ raced = FALSE

Run(p) ==
    \/ \E d \in DyadIds : Gate(p, d)
    \/ ReadJournal(p) \/ WriteJournal(p) \/ Prepare(p) \/ BuildBlocks(p)
    \/ RunCase(p) \/ WriteReceipt(p) \/ Crash(p)

Watchdog(p) == Breach(p) \/ ChildEnds(p) \/ Terminate(p) \/ JournalAbort(p) \/ StopWatching(p)

DyadsNext ==
    \/ \E p \in Runners : Run(p) \/ Watchdog(p)
    \/ \E d \in DyadIds : Admit(d)

DyadsSpec == DyadsInit /\ [][DyadsNext]_dyadVars

---------------------------------------------------------------------------
(* Properties *)

\* A dyad with a verdict is not run again, whoever wrote the verdict, whoever
\* else is at it and whatever a crash cut off, as long as no gate and no append
\* acted on an older journal (runAlaDyad).
VerdictIsFinal ==
    ~raced =>
        \A i, j \in DOMAIN dyads :
            i < j /\ dyads[i].dyad = dyads[j].dyad /\ dyads[i].state \in Verdicts
            => dyads[j].state \notin {"attempted", "resumed"}

\* No more development and calibration dyads are attempted than the budget
\* has, by what the journal says, also across resumed, aborted and crashed
\* attempts (alaDevAttemptsUsed).
BudgetKept == ~raced => Cardinality({d \in Budgeted : "attempted" \in StatesOf(d)}) <= Budget

\* A dyad that the journal calls valid has its receipt, all its cases and,
\* under protocol 2, its blocks from one and the same attempt, whatever an
\* earlier one had left, also when its worker outlived an abort (runAlaDyad).
\* Not so for a dyad whose entries a crash cut off: the next attempt is no
\* resumption and starts in what the last one left.
ValidDyadIsWhole ==
    ~raced =>
      \A d \in DyadIds \ (crossed \cup forgotten) :
        "valid" \in StatesOf(d) =>
            /\ dyadDir[d].receipt > 0
            /\ dyadDir[d].cases = {[slot |-> s, id |-> dyadDir[d].receipt] : s \in 1..Cases}
            /\ dyadDir[d].blocks \in {0, dyadDir[d].receipt}

\* Not so: a dyad that the journal calls aborted has no runner left that could
\* still write ("process terminated, `aborted` journalled", ala-watchdog.sh).
AbortedIsGone ==
    ~raced =>
        \A d \in DyadIds \ crossed :
            "aborted" \in StatesOf(d) => \A p \in Runners : runner[p].dyad # d

\* Not so: the budget bounds the attempts that are made. What a crash cut off the
\* journal is not counted (alaDevAttemptsUsed).
BudgetIsReal ==
    ~raced => Cardinality({d \in Budgeted : dyadDir[d] # NoDyad}) <= Budget

\* The watchdog does not rewrite history: a dyad that has its verdict gets a
\* note, not an abort (ala-watchdog.sh).
VerdictNotAborted ==
    \A i, j \in DOMAIN dyads :
        i < j /\ dyads[i].dyad = dyads[j].dyad /\ dyads[i].state = "valid" => dyads[j].state # "aborted"

(* What the journal of the ALA dyads promises.                               *)
DyadsSafe == VerdictIsFinal /\ BudgetKept /\ ValidDyadIsWhole
=============================================================================
