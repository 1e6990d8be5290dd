------------------------------ MODULE Gateway ------------------------------
(* The Symbol Gateway of one run, its write-intent journal and the           *)
(* controller's calls (packages/gateway/src/symbol-gateway.ts,               *)
(* write-intent-journal.ts, service-rpc.ts; packages/orchestrator/src/       *)
(* nursery-runtime.ts). The Gateway validates what the learners submit and   *)
(* is the only writer of channel events; the streak of rejections, the       *)
(* deliveries and the batch of the shuffled control are in its memory. Every *)
(* evidence write is framed by two files: an intent before, a confirmation   *)
(* after it.                                                                 *)
(*                                                                           *)
(* An event of the evidence is [kind, turn, why, of, id]: "of" is the turn   *)
(* whose artifact an accepted event delivers, the id of the channel event an *)
(* interpretation cites, or the channel size a resume has reviewed; "id"     *)
(* numbers the intent, 0 for what the controller writes itself.              *)
EXTENDS Integers, Sequences, FiniteSets, SequencesExt

CONSTANTS
    Conditions,         \* communicationCondition of the runs that are looked at
    Hostings,           \* "local": in the controller's process; "remote": behind RPC
    Ceiling,            \* maxConsecutiveRejections
    BatchSize,          \* turns of a shuffled batch
    MaxTurns,           \* bound: turns of the run
    MaxLost,            \* bound: writes whose answer is lost
    MaxCrashes          \* bound: process ends

ASSUME GatewayAssumption ==
    /\ Conditions \subseteq {"normal", "disabled", "oracle", "shuffled"}
    /\ Hostings \subseteq {"local", "remote"}
    /\ {Ceiling, BatchSize} \subseteq Nat \ {0}
    /\ {MaxTurns, MaxLost, MaxCrashes} \subseteq Nat

VARIABLES
    setting,            \* the run: condition, hosting, permutation per batch size
    evidence,           \* what the run has committed, in order
    recorded,           \* turn records
    intents,            \* intent files of the journal
    confirmed,          \* those that have a confirmation file
    gateway,            \* memory of the Gateway
    write,              \* the evidence call it waits for
    ctl,                \* the controller
    mishaps             \* lost answers and crashes so far

gwVars == <<setting, evidence, recorded, intents, confirmed, gateway, write, ctl, mishaps>>

durable == <<setting, recorded, confirmed, mishaps>>

NoWrite == [at |-> "none", event |-> <<>>]

NoBatch == [turns |-> {}, seen |-> {}, eligible |-> {}, sealed |-> TRUE, consumed |-> {}]

Fresh == [uncertain |-> FALSE, quarantined |-> FALSE, rejections |-> 0,
          deliveries |-> {}, batch |-> NoBatch]

\* A turn the controller prepared in the pre-pass; "free" when it prepared none.
Slots == {"free", "prepared", "rejected", "rejected and pause"}

NoSlots == [t \in 0..MaxTurns - 1 |-> "free"]

\* The seeded permutations: no fixed point as soon as there are two artifacts.
Deranged(n) ==
    {p \in [1..n -> 1..n] : /\ \A i, j \in 1..n : p[i] = p[j] => i = j
                            /\ n >= 2 => \A i \in 1..n : p[i] # i}

---------------------------------------------------------------------------
(* Evidence writes *)

Event(kind, turn, why, of) ==
    [kind |-> kind, turn |-> turn, why |-> why, of |-> of, id |-> intents + 1]

IsChannel(e) == e.kind \in {"accepted", "control", "rejected"}

\* Where the evidence holds a channel event, and how many there are up to a place.
ChannelPlaces == {i \in DOMAIN evidence : IsChannel(evidence[i])}

ChannelSize(place) == Cardinality({i \in ChannelPlaces : i <= place})

Quarantined == gateway.uncertain \/ gateway.quarantined

\* A local Gateway is asked; a remote one is known by what its calls returned.
ControllerStops ==
    IF setting.hosting = "local" THEN Quarantined ELSE ctl.quarantined

\* The Gateway sends one write at a time, and none once one is uncertain.
Send(event) ==
    /\ write.at = "none"
    /\ ~Quarantined
    /\ intents' = intents + 1
    /\ write' = [at |-> "intended", event |-> event]

Write(event, step) ==
    /\ ctl.at = step
    /\ Send(event)
    /\ UNCHANGED <<durable, evidence, gateway, ctl>>

\* The writer commits the request, even when nobody waits for the answer.
Commit ==
    /\ write.at \in {"intended", "late"}
    /\ evidence' = Append(evidence, write.event)
    /\ write' = IF write.at = "late" THEN NoWrite ELSE [write EXCEPT !.at = "committed"]
    /\ UNCHANGED <<durable, intents, gateway, ctl>>

\* A request that was sent may reach the writer after its sender is gone.
Abandoned ==
    {NoWrite} \cup
    (IF write.at \in {"intended", "late"} THEN {[write EXCEPT !.at = "late"]} ELSE {})

\* The answer or the confirmation file is lost: what the evidence holds is
\* unknown, and the step throws.
Lose ==
    /\ write.at \in {"intended", "committed"}
    /\ mishaps.lost < MaxLost
    /\ mishaps' = [mishaps EXCEPT !.lost = @ + 1]
    /\ gateway' = [gateway EXCEPT !.uncertain = TRUE, !.quarantined = TRUE]
    /\ write' \in Abandoned
    /\ ctl' = [ctl EXCEPT !.at = "failed", !.quarantined = TRUE]
    /\ UNCHANGED <<setting, evidence, recorded, intents, confirmed>>

\* The intent file cannot be written, and the request is not sent. The journal is
\* quarantined, which the runtime asks beside the Gateway's own flag.
IntentFails ==
    /\ write.at = "intended"
    /\ mishaps.lost < MaxLost
    /\ mishaps' = [mishaps EXCEPT !.lost = @ + 1]
    /\ intents' = intents - 1
    /\ gateway' = [gateway EXCEPT !.quarantined = TRUE]
    /\ write' = NoWrite
    /\ ctl' = [ctl EXCEPT !.at = "failed", !.quarantined = TRUE]
    /\ UNCHANGED <<setting, evidence, recorded, confirmed>>

\* The client of a remote Gateway gives up; the Gateway goes on.
ClientTimesOut ==
    /\ setting.hosting = "remote" /\ write.at # "none" /\ ctl.at # "down"
    /\ mishaps.lost < MaxLost
    /\ mishaps' = [mishaps EXCEPT !.lost = @ + 1]
    /\ ctl' = [ctl EXCEPT !.at = "failed", !.quarantined = TRUE]
    /\ UNCHANGED <<setting, evidence, recorded, intents, confirmed, gateway, write>>

---------------------------------------------------------------------------
(* What an answered write changes in the Gateway and in the controller *)

Delivers(event) == event.kind \in {"accepted", "control"} /\ setting.condition # "disabled"

Accepted(event) ==
    [gateway EXCEPT !.rejections = 0,
                    !.deliveries = IF Delivers(event)
                                   THEN @ \cup {[turn |-> event.turn, of |-> event.id]}
                                   ELSE @,
                    !.batch.consumed = IF event.kind = "accepted"
                                          /\ setting.condition = "shuffled"
                                       THEN @ \cup {event.turn} ELSE @]

\* The call returns to the step that waits for it.
Returned(event, pause) ==
    LET rejection == IF pause THEN "rejected and pause" ELSE "rejected" IN
    CASE ctl.at = "prepass" /\ event.why = "invalid" ->
            [ctl EXCEPT !.slots[event.turn] = rejection]
      [] event.kind \in {"accepted", "control"} ->
            [ctl EXCEPT !.at = IF Delivers(event) THEN "receiver" ELSE "action"]
      [] event.kind = "interpreted" -> [ctl EXCEPT !.at = "action"]
      [] event.why = "interpretation" /\ setting.hosting = "remote" ->
            [ctl EXCEPT !.at = "failed", !.quarantined = TRUE]
      [] OTHER -> [ctl EXCEPT !.at = "record", !.pause = pause]

ReturnTo(event, pause) ==
    ctl' = IF ctl.at \in {"failed", "down"} THEN ctl ELSE Returned(event, pause)

Seen(state, event) ==
    IF event.turn \in state.batch.turns /\ event.why = "invalid"
    THEN [state EXCEPT !.batch.seen = @ \cup {event.turn}] ELSE state

AtCeiling(rejections) == rejections = Ceiling

\* The writer's answer arrives and the confirmation file is written.
Answer ==
    LET event == write.event
        rejections == gateway.rejections + 1
    IN
    /\ write.at = "committed"
    /\ confirmed' = confirmed \cup {event.id}
    /\ CASE event.kind = "rejected" /\ AtCeiling(rejections) ->
                /\ gateway' = [gateway EXCEPT !.rejections = rejections]
                /\ write' = [write EXCEPT !.at = "ceiling"]
                /\ ctl' = ctl
         [] event.kind = "rejected" /\ ~AtCeiling(rejections) ->
                /\ gateway' = Seen([gateway EXCEPT !.rejections = rejections], event)
                /\ ReturnTo(event, rejections >= Ceiling)
                /\ write' = NoWrite
         [] event.kind = "trigger" ->
                /\ gateway' = Seen(gateway, event)
                /\ ReturnTo([event EXCEPT !.kind = "rejected"], TRUE)
                /\ write' = NoWrite
         [] OTHER ->
                /\ gateway' = IF event.kind \in {"accepted", "control"}
                              THEN Accepted(event) ELSE gateway
                /\ ReturnTo(event, FALSE)
                /\ write' = NoWrite
    /\ UNCHANGED <<setting, evidence, recorded, intents, mishaps>>

\* The rejection that reaches the ceiling is followed by a safety trigger.
SafetyTrigger ==
    /\ write.at = "ceiling"
    /\ intents' = intents + 1
    /\ write' = [at |-> "intended",
                  event |-> Event("trigger", write.event.turn, write.event.why, write.event.id)]
    /\ UNCHANGED <<durable, evidence, gateway, ctl>>

---------------------------------------------------------------------------
(* The controller's turn *)

Turn == ctl.turn

MayStart == ctl.at = "rest" /\ Turn < MaxTurns /\ ~ControllerStops

\* A prepared batch is used up before the next one is begun.
BatchComplete == gateway.batch.sealed /\ gateway.batch.consumed = gateway.batch.eligible

BeginBatch ==
    /\ MayStart
    /\ setting.condition = "shuffled" /\ ctl.slots[Turn] = "free"
    /\ BatchComplete
    /\ gateway' = [gateway EXCEPT !.batch =
            [NoBatch EXCEPT !.turns = {t \in Turn..Turn + BatchSize - 1 : t < MaxTurns},
                            !.sealed = FALSE]]
    /\ ctl' = [ctl EXCEPT !.at = "prepass"]
    /\ UNCHANGED <<durable, evidence, intents, write>>

StartTurn ==
    /\ MayStart
    /\ setting.condition = "shuffled" => ctl.slots[Turn] # "free"
    /\ ctl' = [ctl EXCEPT !.at = "sender"]
    /\ UNCHANGED <<durable, evidence, intents, gateway, write>>

\* The next turn of the batch in the pre-pass.
NextInBatch(t) ==
    /\ ctl.at = "prepass" /\ write.at = "none" /\ ~Quarantined
    /\ t \in gateway.batch.turns \ gateway.batch.seen
    /\ \A other \in gateway.batch.turns \ gateway.batch.seen : t <= other

PreflightEligible(t) ==
    /\ NextInBatch(t)
    /\ gateway' = [gateway EXCEPT !.batch.eligible = @ \cup {t}, !.batch.seen = @ \cup {t}]
    /\ ctl' = [ctl EXCEPT !.slots[t] = "prepared"]
    /\ UNCHANGED <<durable, evidence, intents, write>>

PreflightRejected(t) ==
    /\ NextInBatch(t)
    /\ Write(Event("rejected", t, "invalid", 0), "prepass")

\* Mutant: only turns with a valid proposal count as seen.
SealWhenEligible ==
    /\ ctl.at = "prepass" /\ write.at = "none" /\ ~Quarantined
    /\ gateway.batch.eligible = gateway.batch.turns
    /\ gateway' = [gateway EXCEPT !.batch.sealed = TRUE]
    /\ ctl' = [ctl EXCEPT !.at = "sender"]
    /\ UNCHANGED <<durable, evidence, intents, write>>

SealBatch ==
    /\ ctl.at = "prepass" /\ write.at = "none" /\ ~Quarantined
    /\ gateway.batch.seen = gateway.batch.turns
    /\ gateway' = [gateway EXCEPT !.batch.sealed = TRUE]
    /\ ctl' = [ctl EXCEPT !.at = "sender"]
    /\ UNCHANGED <<durable, evidence, intents, write>>

\* The place of a turn's proposal among the eligible ones, and the turn at a place.
Place(t) == Cardinality({e \in gateway.batch.eligible : e <= t})

TurnAt(place) == CHOOSE t \in gateway.batch.eligible : Place(t) = place

\* The turn whose artifact the shuffled control delivers in turn t.
Source(t) ==
    TurnAt(setting.permutations[Cardinality(gateway.batch.eligible)][Place(t)])

SenderProposes ==
    /\ setting.condition \in {"normal", "disabled"}
    /\ \/ Write(Event("accepted", Turn, "", Turn), "sender")
       \/ Write(Event("rejected", Turn, "invalid", 0), "sender")

SubmitControlArtifact ==
    /\ setting.condition = "oracle"
    /\ Write(Event("control", Turn, "", Turn), "sender")

SubmitPrepared ==
    /\ setting.condition = "shuffled"
    /\ ctl.at = "sender" /\ ctl.slots[Turn] = "prepared"
    /\ gateway.batch.sealed
    /\ Turn \in gateway.batch.eligible \ gateway.batch.consumed
    /\ Write(Event("accepted", Turn, "", Source(Turn)), "sender")

\* A turn whose proposal the pre-pass rejected returns that rejection.
ReturnSlot ==
    /\ ctl.at = "sender" /\ write.at = "none" /\ setting.condition = "shuffled"
    /\ ctl.slots[Turn] \in {"rejected", "rejected and pause"}
    /\ ctl' = [ctl EXCEPT !.at = "record", !.pause = ctl.slots[Turn] = "rejected and pause"]
    /\ UNCHANGED <<durable, evidence, intents, gateway, write>>

\* The receiver cites a channel event; only the delivery to it in this turn counts.
SubmitInterpretation(cited) ==
    Write(IF [turn |-> Turn, of |-> cited] \in gateway.deliveries
          THEN Event("interpreted", Turn, "", cited)
          ELSE Event("rejected", Turn, "interpretation", 0), "receiver")

\* An invalid task action forfeits the turn without a channel event.
SubmitTaskAction ==
    \/ Write(Event("action", Turn, "", 0), "action")
    \/ /\ ctl.at = "action" /\ write.at = "none" /\ ~Quarantined
       /\ ctl' = [ctl EXCEPT !.at = "record"]
       /\ UNCHANGED <<durable, evidence, intents, gateway, write>>

Waits == ctl.at \in {"prepass", "sender", "receiver", "action"} /\ write.at = "none"

\* What the pre-pass had prepared is forgotten with the step that threw.
ForgetSlots == IF ctl.at = "prepass" THEN NoSlots ELSE ctl.slots

\* A learner misses its deadline.
RejectForTimeout ==
    /\ Waits
    /\ Send(Event("rejected", Turn, "timeout", 0))
    /\ ctl' = [ctl EXCEPT !.at = "forfeit", !.slots = ForgetSlots]
    /\ UNCHANGED <<durable, evidence, gateway>>

\* A learner fails through its retries: the turn is recorded and the run pauses.
AdapterFails ==
    /\ Waits
    /\ ctl' = [ctl EXCEPT !.at = "record", !.pause = TRUE, !.slots = ForgetSlots]
    /\ UNCHANGED <<durable, evidence, intents, gateway, write>>

RecordTurn ==
    /\ ctl.at = "record"
    /\ recorded' = recorded + 1
    /\ ctl' = [ctl EXCEPT !.at = IF ctl.pause THEN "paused" ELSE "rest",
                          !.turn = @ + 1, !.pause = FALSE]
    /\ UNCHANGED <<setting, evidence, intents, confirmed, gateway, write, mishaps>>

Resume ==
    /\ ctl.at = "paused" /\ ~ControllerStops
    /\ evidence' = Append(evidence,
            [kind |-> "resume", turn |-> Turn, why |-> "", of |-> ChannelSize(Len(evidence)),
             id |-> 0])
    /\ ctl' = [ctl EXCEPT !.at = "resuming"]
    /\ UNCHANGED <<durable, intents, gateway, write>>

ResetRejectionCounter ==
    /\ ctl.at = "resuming"
    /\ gateway' = [gateway EXCEPT !.rejections = 0]
    /\ ctl' = [ctl EXCEPT !.at = "rest"]
    /\ UNCHANGED <<durable, evidence, intents, write>>

---------------------------------------------------------------------------
(* The end of the processes, and recovery *)

Crash ==
    /\ ctl.at # "down"
    /\ mishaps.crashes < MaxCrashes
    /\ mishaps' = [mishaps EXCEPT !.crashes = @ + 1]
    /\ gateway' = Fresh
    /\ write' \in Abandoned
    /\ ctl' = [ctl EXCEPT !.at = "down", !.slots = NoSlots, !.pause = FALSE]
    /\ UNCHANGED <<setting, evidence, recorded, intents, confirmed>>

OpenIntents == (1..intents) \ confirmed

\* Channel events of a turn that has no record.
OrphanedTurns == {i \in ChannelPlaces : evidence[i].turn >= recorded}

Resumes == {i \in DOMAIN evidence : evidence[i].kind = "resume"}

Reviewed == IF Resumes = {} THEN 0 ELSE evidence[Max(Resumes)].of

\* The streak of the channel events behind the first ones: the rejections that
\* no accepted event follows.
CountStreak(first) ==
    Cardinality({i \in ChannelPlaces :
        /\ ChannelSize(i) > first
        /\ \A k \in ChannelPlaces : k >= i => evidence[k].kind = "rejected"})

\* Mutant: the streak is counted over the whole channel.
CountFromStart == CountStreak(0)

\* The streak is counted over the channel events that no resume has reviewed.
Recounted == CountStreak(Reviewed)

\* A new process gets a port only from a journal without open intents.
JournalOpens == OpenIntents = {}

Recover ==
    /\ ctl.at = "down"
    /\ JournalOpens
    /\ OrphanedTurns = {}
    /\ Recounted <= Ceiling
    /\ gateway' = [Fresh EXCEPT !.rejections = Recounted]
    /\ ctl' = [ctl EXCEPT !.at = "rest", !.turn = recorded, !.quarantined = FALSE]
    /\ UNCHANGED <<durable, evidence, intents, write>>

---------------------------------------------------------------------------

GatewayInit ==
    /\ setting \in [condition : Conditions, hosting : Hostings,
                    permutations : {f \in [1..BatchSize -> UNION {Deranged(n) : n \in 1..BatchSize}] :
                                        \A n \in 1..BatchSize : f[n] \in Deranged(n)}]
    /\ evidence = <<>>
    /\ recorded = 0 /\ intents = 0 /\ confirmed = {}
    /\ gateway = Fresh
    /\ write = NoWrite
    /\ ctl = [at |-> "rest", turn |-> 0, pause |-> FALSE, slots |-> NoSlots,
              quarantined |-> FALSE]
    /\ mishaps = [lost |-> 0, crashes |-> 0]

Interpret == \E cited \in 0..intents : SubmitInterpretation(cited)

Preflight == \E t \in 0..MaxTurns - 1 : PreflightEligible(t) \/ PreflightRejected(t)

\* What the controller and the Gateway do of themselves.
Proceeds ==
    \/ Commit \/ Answer \/ SafetyTrigger
    \/ BeginBatch \/ StartTurn \/ Preflight \/ SealBatch
    \/ SenderProposes \/ SubmitControlArtifact \/ SubmitPrepared \/ ReturnSlot
    \/ Interpret \/ SubmitTaskAction \/ RecordTurn

GatewayNext ==
    \/ Proceeds
    \/ RejectForTimeout \/ AdapterFails
    \/ Resume \/ ResetRejectionCounter
    \/ Lose \/ IntentFails \/ ClientTimesOut \/ Crash \/ Recover

GatewaySpec == GatewayInit /\ [][GatewayNext]_gwVars

\* The learners answer or fail, and the calls in one process are answered.
GatewayMoves == Proceeds \/ ResetRejectionCounter

GatewayFairness == WF_gwVars(GatewayMoves)
---------------------------------------------------------------------------
(* Properties *)

Events ==
    [kind : {"accepted", "control", "rejected", "interpreted", "action", "trigger", "resume"},
     turn : 0..MaxTurns, why : {"", "invalid", "timeout", "interpretation"},
     of : Nat, id : Nat]

\* Every variable has the shape the code gives it.
GatewayTypeOK ==
    /\ evidence \in Seq(Events)
    /\ recorded \in 0..MaxTurns /\ intents \in Nat /\ confirmed \subseteq 1..intents
    /\ gateway.rejections \in Nat /\ {gateway.uncertain, gateway.quarantined} \subseteq BOOLEAN
    /\ \A d \in gateway.deliveries : d.turn \in 0..MaxTurns - 1 /\ d.of \in 1..intents
    /\ gateway.batch.consumed \subseteq gateway.batch.eligible
    /\ gateway.batch.eligible \subseteq gateway.batch.seen
    /\ gateway.batch.seen \subseteq gateway.batch.turns
    /\ write = NoWrite \/ (/\ write.at \in {"intended", "committed", "late", "ceiling"}
                           /\ write.event \in Events)
    /\ ctl.turn \in 0..MaxTurns /\ {ctl.pause, ctl.quarantined} \subseteq BOOLEAN
    /\ ctl.slots \in [0..MaxTurns - 1 -> Slots]

\* Rejections at the end of a prefix of the evidence, since an accepted event
\* or an operator's resume.
StreakAt(i) ==
    Cardinality({j \in 1..i : /\ evidence[j].kind = "rejected"
                              /\ \A k \in j..i : evidence[k].kind \notin
                                    {"accepted", "control", "resume"}})

\* Between two calls the Gateway's streak is the one the evidence shows, in the
\* process that wrote it and in every later one
\* (symbol-gateway.ts restoreAfterVerifiedPrefix, nursery-runtime.ts:3820).
StreakIsInEvidence ==
    (ctl.at \in {"rest", "paused"} /\ ~Quarantined /\ write.at = "none")
        => gateway.rejections = StreakAt(Len(evidence))

\* A streak that reaches the ceiling leaves one safety trigger, directly after
\* the rejection that reached it, unless the run stopped there; nothing else
\* does (symbol-gateway.ts commitRejection).
TriggerPerStreak ==
    \A i \in 1..Len(evidence) - 1 :
        (evidence[i].kind = "rejected" /\ StreakAt(i) = Ceiling)
            <=> evidence[i + 1].kind = "trigger"

\* At most one write of a run is of unknown outcome, and it is the last: a write
\* that was confirmed is in the evidence, and no write follows an unconfirmed
\* one, in this process or a later one (write-intent-journal.ts openPort, send).
OneUnknownWrite ==
    /\ OpenIntents \subseteq {intents}
    /\ \A id \in 1..intents :
        LET copies == {i \in DOMAIN evidence : evidence[i].id = id} IN
        /\ Cardinality(copies) <= 1
        /\ id \in confirmed => copies # {}

\* An interpretation in the evidence cites the one channel event that delivered
\* an artifact in its turn, and a turn has at most one
\* (symbol-gateway.ts submitInterpretation).
InterpretsOwnDelivery ==
    \A i \in DOMAIN evidence : evidence[i].kind = "interpreted" =>
        /\ \E j \in 1..i - 1 : /\ evidence[j].id = evidence[i].of
                               /\ Delivers(evidence[j])
                               /\ evidence[j].turn = evidence[i].turn
        /\ \A j \in 1..i - 1 : evidence[j].kind = "interpreted" =>
                               evidence[j].turn # evidence[i].turn

\* Under the shuffled control the turns of a batch deliver different artifacts,
\* none that the pre-pass rejected, and none its own when the batch has several
\* (symbol-gateway.ts shuffledArtifact).
ShufflesTheBatch ==
    LET batch == gateway.batch
        delivered == {e \in Range(evidence) : e.kind = "accepted" /\ e.turn \in batch.turns}
    IN  setting.condition = "shuffled" =>
            \A d, other \in delivered :
                /\ d.turn # other.turn => d.of # other.of
                /\ d.of \in batch.eligible
                /\ d.of = d.turn => batch.eligible = {d.turn}

\* A turn that was begun ends in its record, or the run is stopped for good.
TurnsEnd ==
    ctl.at \in {"prepass", "sender", "receiver", "action", "forfeit", "record"}
        ~> ctl.at \in {"rest", "paused", "failed", "down"}

\* What step() promises: one record on every exit path, accepted, rejected by
\* the Gateway, forfeited and adapter crash alike (nursery-runtime.ts:900).
\* Without a lost answer no step throws.
RejectedTurnsAreRecorded == ctl.at = "failed" => mishaps.lost > 0

\* The same, of the pre-pass: after a step that forfeited its turn the next one
\* can begin.
NextTurnBegins ==
    (MayStart /\ setting.condition = "shuffled" /\ ctl.slots[Turn] = "free") => BatchComplete

(* What the Gateway and its write-intent journal promise of turns, streaks   *)
(* and batches.                                                              *)
GatewaySafe ==
    /\ GatewayTypeOK /\ StreakIsInEvidence /\ TriggerPerStreak /\ OneUnknownWrite
    /\ InterpretsOwnDelivery /\ ShufflesTheBatch
=============================================================================
