------------------------------ MODULE FrozenLlm ------------------------------
(* The frozen model's adapter of one Baby and its private memory             *)
(* (packages/learners/src/frozen-llm.ts, llm-memory.ts, and the request to   *)
(* the local server, llm-server-client.ts). The weights never change: what   *)
(* the Baby learns is counts per symbol, of which the adapter keeps a        *)
(* bounded number, and the hypotheses it has written to its ledger. A call   *)
(* waits for the model and for the ledger. One that fails, or whose answer   *)
(* the host loses, is made again until its attempts are used up; one that    *)
(* outlives the turn's deadline forfeits the turn and goes on beside the     *)
(* turns after it.                                                           *)
EXTENDS Integers, Sequences, FiniteSets, SequencesExt, FiniteSetsExt

CONSTANTS
    Symbols,            \* symbolInventory, numbers: a larger one is a later id
    MaxTracked,         \* maxTrackedSymbols
    MaxRefs,            \* maxEvidenceRefsPerSymbol
    MaxPending,         \* MAX_PENDING_TURNS
    LlmAttempts,        \* the runtime's retry budget + 1
    LlmTurns,           \* bound: turns
    MaxTries,           \* bound: failed, unanswered and given up calls
    MaxSymbolsSaid      \* bound: symbols of a message

ASSUME FrozenLlmAssumption ==
    /\ Symbols \subseteq Nat
    /\ {MaxTracked, MaxRefs, MaxPending, LlmAttempts} \subseteq Nat \ {0}
    /\ {LlmTurns, MaxTries, MaxSymbolsSaid} \subseteq Nat

VARIABLES
    memory,             \* records and hypotheses, each a partial function of symbols
    remembered,         \* the turns whose completion is kept (#pending)
    lastReceived,       \* the last delivery
    seen,               \* emitted, received: symbols with a first use
    now,                \* the turn of the run: number, role, where it is, attempt, message
    call,               \* the call the runtime waits for
    abandoned,          \* bound: the one act it has given up, which goes on
    tries,              \* failed, unanswered and given up calls
    notes,              \* the ledger's hypothesis events
    asked,              \* completions of the model
    answers,            \* history: turn -> completions a proposal was built from
    happened            \* history: symbol -> what the runtime has seen happen to it

llmVars == <<memory, remembered, lastReceived, seen, now, call, abandoned, tries, notes, asked,
             answers, happened>>

TypeCodes == {0, 1}
Idle == [op |-> "idle", turn |-> 0, said |-> <<>>, todo |-> <<>>, fresh |-> FALSE]

NewRecord == [emitted |-> 0, received |-> 0, counts |-> [t \in TypeCodes |-> 0], turns |-> 0, refs |-> <<>>]

Record(m, s) == IF s \in DOMAIN m.records THEN m.records[s] ELSE NewRecord

With(m, s, r) == [m EXCEPT !.records = [x \in DOMAIN m.records \cup {s} |-> IF x = s THEN r ELSE m.records[x]]]

Weight(r) == r.turns + r.emitted + r.received

\* The record with the least evidence goes first, of equals the one with the highest id.
Evict(m) ==
    LET worse(x, y) == \/ Weight(m.records[x]) < Weight(m.records[y])
                       \/ Weight(m.records[x]) = Weight(m.records[y]) /\ x > y
        kept == {s \in DOMAIN m.records :
                    Cardinality({o \in DOMAIN m.records : worse(s, o)}) < MaxTracked}
    IN [m EXCEPT !.records = [s \in kept |-> m.records[s]]]

AddEvidence(refs, ref) ==
    IF ref \in Range(refs) THEN refs
    ELSE LET all == Append(refs, ref)
         IN IF Len(all) > MaxRefs THEN Tail(all) ELSE all

NoteEmitted(m, s) ==
    Evict(With(m, s, [Record(m, s) EXCEPT !.emitted = @ + 1]))

NoteReceived(m, s, ref) ==
    Evict(With(m, s, [Record(m, s) EXCEPT !.received = @ + 1, !.refs = AddEvidence(@, ref)]))

Folded(m, s, code, ref) ==
    With(m, s, [Record(m, s) EXCEPT
        !.turns = @ + 1,
        !.counts = IF code \in TypeCodes THEN [@ EXCEPT ![code] = @ + 1] ELSE @,
        !.refs = AddEvidence(@, ref)])

Fold(m, said, code, ref) ==
    IF said = <<>> THEN m
    ELSE Evict(FoldLeft(LAMBDA n, s : Folded(n, s, code, ref), m, said))

\* argmaxIndex(distributionFor(symbol)): the first of the uniform ones where nothing is counted.
Argmax(m, s) ==
    LET c == Record(m, s).counts
    IN CHOOSE t \in TypeCodes : \A o \in TypeCodes : c[o] < c[t] \/ (c[o] = c[t] /\ t <= o)

-----------------------------------------------------------------------------
(* A turn: a receiver is delivered a message first, either role acts, then   *)
(* the outcome is known.                                                     *)

Said == UNION {[1..n -> Symbols] : n \in 0..MaxSymbolsSaid}

FrozenLlmInit ==
    /\ memory = [records |-> <<>>, hypotheses |-> <<>>]
    /\ remembered = <<>> /\ lastReceived = [turn |-> 0, symbols |-> <<>>]
    /\ seen = [emitted |-> {}, received |-> {}]
    /\ now = [turn |-> 0, role |-> "sender", at |-> "done", attempt |-> 1, said |-> <<>>]
    /\ call = Idle /\ abandoned = Idle /\ tries = 0
    /\ notes = <<>> /\ asked = 0 /\ answers = <<>>
    /\ happened = [s \in Symbols |-> [emitted |-> 0, received |-> 0, turns |-> 0]]

NextTurn ==
    /\ now.at = "done" /\ now.turn < LlmTurns
    /\ \E role \in {"sender", "receiver"} :
        now' = [turn |-> now.turn + 1, role |-> role, attempt |-> 1, said |-> <<>>,
                at |-> IF role = "sender" THEN "act" ELSE "receive"]
    /\ answers' = Append(answers, {})
    /\ UNCHANGED <<memory, remembered, lastReceived, seen, call, abandoned, tries, notes, asked, happened>>

\* The runtime's own count, of each thing once: whatever the adapter is told again.
Happened(kind, said) ==
    [s \in Symbols |-> [happened[s] EXCEPT ![kind] = @ + Cardinality({i \in DOMAIN said : said[i] = s})]]

\* recordFirstUse: what is left of a message from its first unseen symbol on,
\* whose event the call then waits for.
Unseen(said, known) ==
    LET new == {i \in DOMAIN said : said[i] \notin known}
    IN IF new = {} THEN <<>> ELSE SubSeq(said, Min(new), Len(said))

Waiting(op, said, known, fresh) ==
    [op |-> op, turn |-> now.turn, said |-> said, todo |-> Unseen(said, known), fresh |-> fresh]

Fault == tries < MaxTries /\ tries' = tries + 1

\* #callAdapter: a failed call is made again, and its last failure forfeits the turn.
Retried ==
    /\ call' = Idle
    /\ now' = IF now.attempt < LlmAttempts THEN [now EXCEPT !.attempt = @ + 1] ELSE [now EXCEPT !.at = "done"]

\* The call returns; the host may still lose its answer.
LlmReturns(next) ==
    \/ call' = Idle /\ now' = [now EXCEPT !.at = next, !.attempt = 1] /\ UNCHANGED tries
    \/ Fault /\ Retried

Waits(method) == now.at = method /\ call = Idle

\* receive: a delivery the adapter has already been told of is not counted again.
Receive ==
    /\ Waits("receive")
    /\ \E said \in Said \ {<<>>} :
        /\ now.said # <<>> => said = now.said
        /\ now' = [now EXCEPT !.said = said]
        /\ happened' = IF now.said = <<>> THEN Happened("received", said) ELSE happened
        /\ lastReceived' = [turn |-> now.turn, symbols |-> said]
        /\ call' = Waiting("receive", said, seen.received, lastReceived.turn # now.turn)
    /\ UNCHANGED <<memory, remembered, seen, abandoned, tries, notes, asked, answers>>

\* A sender's act emits the symbols of its completion; a receiver's emits none.
Acting(entry) ==
    Waiting("act", IF entry.role = "sender" THEN entry.said ELSE <<>>, seen.emitted,
            entry.role = "sender" /\ ~entry.noted)

\* act, turnMemory: the completion of the turn is asked for once.
Act ==
    /\ Waits("act")
    /\ call' = IF now.turn \in DOMAIN remembered THEN Acting(remembered[now.turn])
               ELSE [Idle EXCEPT !.op = "model", !.turn = now.turn]
    /\ UNCHANGED <<memory, remembered, lastReceived, seen, now, abandoned, tries, notes, asked, answers,
                   happened>>

\* Mutant: only an accepted completion is remembered, so a retry asks again.
RememberNothing(t, entry) == remembered

\* remember: the oldest turn is forgotten at the limit.
Remember(t, entry) ==
    LET oldest == Min(DOMAIN remembered)
        kept == IF Cardinality(DOMAIN remembered) >= MaxPending THEN DOMAIN remembered \ {oldest} ELSE DOMAIN remembered
    IN [x \in kept \cup {t} |-> IF x = t THEN entry ELSE remembered[x]]

\* summarize: a sender's symbols are those of its completion, a receiver's those it was delivered.
ModelAnswers ==
    /\ call.op = "model"
    /\ \E chosen \in Said, code \in TypeCodes \cup {2} :
        LET said == IF now.role = "sender" THEN chosen
                    ELSE IF lastReceived.turn = call.turn THEN lastReceived.symbols ELSE <<>>
            entry == [answer |-> asked + 1, said |-> said, code |-> code, role |-> now.role,
                      noted |-> FALSE, folded |-> FALSE]
        IN /\ now.role = "receiver" => chosen = <<>>
           /\ remembered' = Remember(call.turn, entry)
           /\ call' = Acting(entry)
           /\ now' = [now EXCEPT !.said = said]
           /\ happened' = IF now.role = "sender" /\ answers[call.turn] = {} THEN Happened("emitted", said)
                          ELSE happened
    /\ asked' = asked + 1
    /\ answers' = [answers EXCEPT ![call.turn] = @ \cup {asked + 1}]
    /\ UNCHANGED <<memory, lastReceived, seen, abandoned, tries, notes>>

\* The model's deadline passes, the server fails, or its answer is malformed: act rejects.
ModelFails ==
    /\ call.op = "model"
    /\ Fault /\ Retried
    /\ UNCHANGED <<memory, remembered, lastReceived, seen, abandoned, notes, asked, answers, happened>>

\* #callAdapter, #awaitTurnResponse: an act that outlives the turn's deadline is not
\* asked again. The turn is forfeited, and the call goes on.
GiveUp ==
    /\ call.op = "act" /\ call.todo # <<>> /\ abandoned = Idle
    /\ Fault
    /\ abandoned' = call /\ call' = Idle
    /\ now' = [now EXCEPT !.at = "done"]
    /\ UNCHANGED <<memory, remembered, lastReceived, seen, notes, asked, answers, happened>>

Kind(c) == IF c.op = "act" THEN "emitted" ELSE "received"

\* recordFirstUse: the event awaited is appended and its symbol seen then, or the
\* append fails, or is committed though the adapter does not learn of it.
RecordFirstUse(c) ==
    /\ c.op \in {"act", "receive"} /\ c.todo # <<>>
    /\ \/ LET known == seen[Kind(c)] \cup {Head(c.todo)}
              next == [c EXCEPT !.todo = Unseen(Tail(c.todo), known)]
          IN /\ seen' = [seen EXCEPT ![Kind(c)] = known]
             /\ IF c = call THEN call' = next /\ UNCHANGED abandoned ELSE abandoned' = next /\ UNCHANGED call
             /\ UNCHANGED <<tries, now>>
       \/ /\ Fault
          /\ IF c = call THEN Retried /\ UNCHANGED abandoned ELSE abandoned' = Idle /\ UNCHANGED <<call, now>>
          /\ UNCHANGED seen
    /\ UNCHANGED <<memory, remembered, lastReceived, notes, asked, answers, happened>>

\* The emission is counted the first time; the proposal of a call given up goes nowhere.
ActReturns(c) ==
    /\ c.op = "act" /\ c.todo = <<>>
    /\ memory' = IF c.fresh THEN FoldLeft(NoteEmitted, memory, c.said) ELSE memory
    /\ remembered' = IF c.fresh /\ c.turn \in DOMAIN remembered
                     THEN [remembered EXCEPT ![c.turn].noted = TRUE] ELSE remembered
    /\ IF c = call THEN LlmReturns("outcome") /\ UNCHANGED abandoned
       ELSE abandoned' = Idle /\ UNCHANGED <<call, now, tries>>
    /\ UNCHANGED <<lastReceived, seen, notes, asked, answers, happened>>

ReceiveReturns ==
    /\ call.op = "receive" /\ call.todo = <<>>
    /\ memory' = IF call.fresh
                 THEN FoldLeft(LAMBDA m, s : NoteReceived(m, s, call.turn), memory, call.said)
                 ELSE memory
    /\ LlmReturns("act")
    /\ UNCHANGED <<remembered, lastReceived, seen, abandoned, notes, asked, answers, happened>>

\* onOutcome: folded before the hypotheses are appended, and never again.
LlmOnOutcome ==
    /\ Waits("outcome")
    /\ happened' = IF now.attempt = 1 THEN Happened("turns", now.said) ELSE happened
    /\ IF now.turn \in DOMAIN remembered /\ ~remembered[now.turn].folded
       THEN LET entry == remembered[now.turn]
            IN /\ memory' = Fold(memory, entry.said, entry.code, now.turn)
               /\ remembered' = [remembered EXCEPT ![now.turn].folded = TRUE]
               /\ call' = [Idle EXCEPT !.op = "outcome", !.turn = now.turn, !.todo = entry.said]
               /\ UNCHANGED <<now, tries>>
       ELSE LlmReturns("done") /\ UNCHANGED <<memory, remembered>>
    /\ UNCHANGED <<lastReceived, seen, abandoned, notes, asked, answers>>

SetHypothesis(m, s, version, code) ==
    [m EXCEPT !.hypotheses =
        [x \in DOMAIN m.hypotheses \cup {s} |->
            IF x = s THEN [version |-> version, code |-> code] ELSE m.hypotheses[x]]]

\* The hypothesis event a symbol is due, of its memory m: created, revised when the best
\* type has changed, contradicted when a confident one has failed.
Due(m, s) ==
    LET known == s \in DOMAIN m.hypotheses
        code == Argmax(m, s)
        c == Record(m, s).counts
    IN \* over half of the counts, of two types
       IF ~known THEN {"created"}
       ELSE IF m.hypotheses[s].code # code THEN {"revised"}
       ELSE IF \A t \in TypeCodes \ {code} : c[t] < c[code] THEN {"contradicted", "none"} ELSE {"none"}

\* recordHypothesis: the map is advanced when the append is acknowledged; it may also be
\* refused, or committed though the adapter does not learn of it (`lost`).
RecordHypothesis ==
    /\ call.op = "outcome" /\ call.todo # <<>>
    /\ LET s == Head(call.todo)
           prior == IF s \in DOMAIN memory.hypotheses THEN memory.hypotheses[s].version ELSE 0
           onward == call' = [call EXCEPT !.todo = Tail(@)] /\ UNCHANGED <<now, tries>>
       IN \E kind \in Due(memory, s) :
            LET version == IF kind = "contradicted" THEN prior ELSE prior + 1
                Noted(lost) == Append(notes, [kind |-> kind, symbol |-> s, version |-> version,
                                              prior |-> prior, lost |-> lost])
            IN \/ kind = "none" /\ onward /\ UNCHANGED <<notes, memory>>
               \/ /\ kind # "none" /\ onward
                  /\ notes' = Noted(FALSE)
                  /\ memory' = IF kind = "contradicted" THEN memory
                               ELSE SetHypothesis(memory, s, version, Argmax(memory, s))
               \/ /\ kind # "none" /\ Fault /\ Retried
                  /\ notes' \in {notes, Noted(TRUE)}
                  /\ UNCHANGED memory
    /\ UNCHANGED <<remembered, lastReceived, seen, abandoned, asked, answers, happened>>

OutcomeReturns ==
    /\ call.op = "outcome" /\ call.todo = <<>>
    /\ LlmReturns("done")
    /\ UNCHANGED <<memory, remembered, lastReceived, seen, abandoned, notes, asked, answers, happened>>

FrozenLlmNext ==
    \/ NextTurn \/ Receive \/ Act \/ ModelAnswers \/ ModelFails \/ GiveUp
    \/ \E c \in {call, abandoned} : RecordFirstUse(c) \/ ActReturns(c)
    \/ ReceiveReturns \/ LlmOnOutcome \/ RecordHypothesis \/ OutcomeReturns

-----------------------------------------------------------------------------
(* However often a turn is tried, and while a call that was given up goes    *)
(* on, the proposals of a turn come from one completion of the model: what   *)
(* the Gateway judges on a retry is not a second draw (turnMemory).          *)
OneAnswerPerTurn == \A t \in DOMAIN answers : Cardinality(answers[t]) <= 1

(* The memory the model is shown never counts a message, an emission or an   *)
(* outcome more often than the run had it, whatever was asked again and      *)
(* though an act that was given up still counts its emission during a later  *)
(* turn; and it stays within its bounds (noteEmitted, noteReceived, fold).   *)
MemoryNeverOvercounts ==
    /\ Cardinality(DOMAIN memory.records) <= MaxTracked
    /\ \A s \in DOMAIN memory.records :
        /\ memory.records[s].emitted <= happened[s].emitted
        /\ memory.records[s].received <= happened[s].received
        /\ memory.records[s].turns <= happened[s].turns
        /\ Len(memory.records[s].refs) <= MaxRefs /\ IsInjective(memory.records[s].refs)

(* A hypothesis event names the hypothesis before it, the last one of its    *)
(* symbol that was acknowledged, and is numbered after it, also when the     *)
(* symbol's record was evicted in between (llm-memory.ts:106-115). Two       *)
(* events have one number only where the answer to the first was lost.       *)
HypothesesResolve ==
    \A s \in Symbols :
        LET own == SelectSeq(notes, LAMBDA n : n.symbol = s)
            before(i) == {j \in 1..(i - 1) : own[j].kind # "contradicted" /\ ~own[j].lost}
        IN \A i \in DOMAIN own :
            /\ own[i].prior = Cardinality(before(i))
            /\ own[i].version = IF own[i].kind = "contradicted" THEN own[i].prior ELSE own[i].prior + 1

(* Not so: no number is issued for a second, different hypothesis            *)
(* (llm-memory.ts:106-115). An append that was committed and whose answer    *)
(* was lost leaves the map behind, and the symbol's next hypothesis takes    *)
(* the same number.                                                          *)
NoNumberTwice ==
    \A i, j \in DOMAIN notes :
        notes[i].symbol = notes[j].symbol /\ notes[i].version = notes[j].version
            /\ "contradicted" \notin {notes[i].kind, notes[j].kind} => i = j

(* What the frozen model's adapter promises of its memory.                   *)
FrozenLlmSafe == OneAnswerPerTurn /\ MemoryNeverOvercounts /\ HypothesesResolve
=============================================================================
