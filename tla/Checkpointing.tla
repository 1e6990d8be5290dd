--------------------------- MODULE Checkpointing ---------------------------
(* Checkpoints of one run (packages/checkpoint/src/checkpoint-service.ts and *)
(* scheduler.ts): a signed manifest commits a prefix of every stream. The    *)
(* runtime asks for one at lifecycle events, the scheduler after so many     *)
(* events or so much time. The two share the service and nothing else: an    *)
(* attempt reads the newest manifest, then the streams one after the other,  *)
(* awaits the witness's signature and inserts; the store refuses a manifest  *)
(* whose predecessor is no longer the newest.                                *)
EXTENDS Integers, Sequences, FiniteSets, SequencesExt

CONSTANTS
    Streams,            \* CHECKPOINT_STREAMS
    EventInterval,      \* eventInterval: events that trigger a checkpoint
    MaxEvents,          \* bound: events appended
    MaxCheckpoints,     \* bound: checkpoints the runtime asks for beside
                        \* the final one
    MaxFaults           \* bound: calls that fail, and stored entries changed
                        \* behind the writer's back

ASSUME StreamsAssumption == IsFiniteSet(Streams)
ASSUME IntervalAssumption == EventInterval \in Nat \ {0}
ASSUME CheckpointBoundsAssumption ==
    MaxEvents \in Nat /\ MaxCheckpoints \in Nat /\ MaxFaults \in Nat

VARIABLES
    events,             \* stream -> its stored entries
    manifests,          \* checkpoint_manifests, in order
    attempt,            \* caller -> its call of createCheckpointIfChanged
    pendingCount,       \* eventsSinceCheckpoint
    elapsed,            \* timeIntervalMs has passed since lastCheckpointAtMs
    chain,              \* triggers that wait in the promise chain
    unrecorded,         \* events whose writer has not told the scheduler yet
    recorded,           \* history: events the scheduler was told of
    damaged,            \* history: a stored entry was changed or lost
    spent               \* how much of each bound is used up

cpVars == <<events, manifests, attempt, pendingCount, elapsed, chain,
            unrecorded, recorded, damaged, spent>>

CheckpointCallers == {"runtime", "scheduler"}
IntervalReasons == {"event-interval", "time-interval"}
Reasons == {"none", "intervention", "run-sealed"} \cup IntervalReasons

ManifestType == [cut : [Streams -> Seq(Int)], reason : Reasons]
TriggerType == [reason : IntervalReasons, consumed : Nat]
SpentType == [events : Nat, checkpoints : Nat, faults : Nat]
AttemptType ==
    [at : {"idle", "reading", "signing"}, reason : Reasons, prev : Nat,
     left : SUBSET Streams, cut : [Streams -> Seq(Int)], consumed : Nat]

NoAttempt == [at |-> "idle", reason |-> "none", prev |-> 0, left |-> {},
              cut |-> [s \in Streams |-> <<>>], consumed |-> 0]

---------------------------------------------------------------------------
(* trees.ts *)

EmptyCut == [s \in Streams |-> <<>>]

CutAt(n) == IF n = 0 THEN EmptyCut ELSE manifests[n].cut

\* Mutant: sizes are compared, roots are not.
SizesUnchanged(n, cut) ==
    \A s \in Streams : Len(CutAt(n)[s]) <= Len(cut[s])

\* assertPrefixUnchanged: no tree shrank, and every committed root is found.
PrefixUnchanged(n, cut) == \A s \in Streams : IsPrefix(CutAt(n)[s], cut[s])

HasGrown(n, cut) == \E s \in Streams : Len(cut[s]) # Len(CutAt(n)[s])

\* The sum of a function's values: the cells that it marks off are counted.
Cells(size) == UNION {{x} \X (1 .. size[x]) : x \in DOMAIN size}
Total(size) == Cardinality(Cells(size))

Sizes(cut) == [s \in Streams |-> Len(cut[s])]

Committed(n) == Total(Sizes(CutAt(n)))

---------------------------------------------------------------------------
(* The evidence, and what the host tells the scheduler *)

\* The writer appends an entry. Entries are numbered over all streams, so that
\* no two are equal.
AppendEvent(s) ==
    /\ spent.events < MaxEvents
    /\ events' = [events EXCEPT ![s] = Append(@, spent.events + 1)]
    /\ spent' = [spent EXCEPT !.events = @ + 1]
    /\ unrecorded' = unrecorded + 1
    /\ UNCHANGED <<manifests, attempt, pendingCount, elapsed, chain, recorded,
                   damaged>>

\* A committed entry is replaced in the file, or the last one disappears.
Damage(s) ==
    /\ spent.faults < MaxFaults
    /\ events[s] # <<>>
    /\ events' = [events EXCEPT ![s] = Front(@)]
       \/ \E i \in DOMAIN events[s] : events' = [events EXCEPT ![s][i] = -@]
    /\ damaged' = TRUE
    /\ spent' = [spent EXCEPT !.faults = @ + 1]
    /\ UNCHANGED <<manifests, attempt, pendingCount, elapsed, chain, unrecorded,
                   recorded>>

---------------------------------------------------------------------------
(* scheduler.ts *)

\* trigger: the window is reserved before anything is awaited.
Trigger(reason, count) ==
    /\ pendingCount' = 0
    /\ elapsed' = FALSE
    /\ chain' = Append(chain, [reason |-> reason, consumed |-> count])

RecordAcceptedEvents ==
    \E n \in 1 .. unrecorded :
        /\ unrecorded' = unrecorded - n
        /\ recorded' = recorded + n
        /\ IF pendingCount + n >= EventInterval
           THEN Trigger("event-interval", pendingCount + n)
           ELSE /\ pendingCount' = pendingCount + n
                /\ UNCHANGED <<elapsed, chain>>
        /\ UNCHANGED <<events, manifests, attempt, damaged, spent>>

\* Time counts when a tick would look at it.
TimePasses ==
    /\ ~elapsed
    /\ pendingCount > 0
    /\ elapsed' = TRUE
    /\ UNCHANGED <<events, manifests, attempt, pendingCount, chain, unrecorded,
                   recorded, damaged, spent>>

\* Mutant: the timer waits for a full interval of events.
TickWhenFull ==
    /\ pendingCount >= EventInterval
    /\ elapsed
    /\ Trigger("time-interval", pendingCount)
    /\ UNCHANGED <<events, manifests, attempt, unrecorded, recorded, damaged, spent>>

Tick ==
    /\ pendingCount > 0
    /\ elapsed
    /\ Trigger("time-interval", pendingCount)
    /\ UNCHANGED <<events, manifests, attempt, unrecorded, recorded, damaged, spent>>

---------------------------------------------------------------------------
(* createCheckpointIfChanged, from one await to the next *)

Begin(c, reason, consumed) ==
    attempt' = [attempt EXCEPT ![c] =
        [at |-> "reading", reason |-> reason, prev |-> Len(manifests),
         left |-> Streams, cut |-> EmptyCut, consumed |-> consumed]]

\* The checkpoint of an operator's action. It may be asked for at any time,
\* also after the final one.
StartLifecycle ==
    /\ attempt["runtime"].at = "idle"
    /\ spent.checkpoints < MaxCheckpoints
    /\ spent' = [spent EXCEPT !.checkpoints = @ + 1]
    /\ Begin("runtime", "intervention", 0)
    /\ UNCHANGED <<events, manifests, pendingCount, elapsed, chain, unrecorded,
                   recorded, damaged>>

\* Mutant: "the last checkpoint" is looked at.
LastIsFinal == manifests # <<>> /\ Last(manifests).reason = "run-sealed"

\* #finalCheckpoint: a final manifest, wherever it sits in the chain.
FinalTaken == \E i \in DOMAIN manifests : manifests[i].reason = "run-sealed"

\* #sealEvidence, entered at the end of the run and again after every failure: a
\* final manifest is taken unless there is one.
SealEvidence ==
    /\ attempt["runtime"].at = "idle"
    /\ ~FinalTaken
    /\ Begin("runtime", "run-sealed", 0)
    /\ UNCHANGED <<events, manifests, pendingCount, elapsed, chain, unrecorded,
                   recorded, damaged, spent>>

\* It is taken again only when the ledgers lack the run.sealed that was appended
\* before it: the store lost them.
SealAgain ==
    /\ attempt["runtime"].at = "idle"
    /\ damaged
    /\ spent.checkpoints < MaxCheckpoints
    /\ spent' = [spent EXCEPT !.checkpoints = @ + 1]
    /\ Begin("runtime", "run-sealed", 0)
    /\ UNCHANGED <<events, manifests, pendingCount, elapsed, chain, unrecorded,
                   recorded, damaged>>

\* The next trigger of the chain: one at a time.
StartScheduled ==
    /\ attempt["scheduler"].at = "idle"
    /\ chain # <<>>
    /\ Begin("scheduler", Head(chain).reason, Head(chain).consumed)
    /\ chain' = Tail(chain)
    /\ UNCHANGED <<events, manifests, pendingCount, elapsed, unrecorded, recorded,
                   damaged, spent>>

\* The answer to readEvents of one stream.
ReadStream(c, s) ==
    /\ attempt[c].at = "reading"
    /\ s \in attempt[c].left
    /\ attempt' = [attempt EXCEPT ![c].left = @ \ {s},
                                  ![c].cut = [@ EXCEPT ![s] = events[s]]]
    /\ UNCHANGED <<events, manifests, pendingCount, elapsed, chain, unrecorded,
                   recorded, damaged, spent>>

\* The attempt throws. The scheduler counts its events again.
GiveBack(c) ==
    /\ attempt' = [attempt EXCEPT ![c] = NoAttempt]
    /\ pendingCount' = pendingCount + attempt[c].consumed
    /\ UNCHANGED elapsed

\* It returns; for the scheduler the interval starts again.
Succeed(c) ==
    /\ attempt' = [attempt EXCEPT ![c] = NoAttempt]
    /\ elapsed' = (elapsed /\ c = "runtime")
    /\ UNCHANGED pendingCount

\* The code between the last read and the signature.
Decide(c) ==
    LET a == attempt[c] IN
    /\ a.at = "reading"
    /\ a.left = {}
    /\ IF ~PrefixUnchanged(a.prev, a.cut) THEN GiveBack(c)
       ELSE IF /\ a.prev # 0
               /\ a.reason \in IntervalReasons
               /\ ~HasGrown(a.prev, a.cut)
       THEN Succeed(c)
       ELSE /\ attempt' = [attempt EXCEPT ![c].at = "signing"]
            /\ UNCHANGED <<pendingCount, elapsed>>
    /\ UNCHANGED <<events, manifests, chain, unrecorded, recorded, damaged, spent>>

\* The signature arrives; insertCheckpointManifest compares the predecessor.
Insert(c) ==
    LET a == attempt[c] IN
    /\ a.at = "signing"
    /\ IF a.prev = Len(manifests)
       THEN /\ manifests' = Append(manifests, [cut |-> a.cut, reason |-> a.reason])
            /\ Succeed(c)
       ELSE /\ GiveBack(c)
            /\ UNCHANGED manifests
    /\ UNCHANGED <<events, chain, unrecorded, recorded, damaged, spent>>

\* The store inserts, and its answer is lost: the caller is told of an error.
InsertUnanswered(c) ==
    LET a == attempt[c] IN
    /\ a.at = "signing"
    /\ a.prev = Len(manifests)
    /\ spent.faults < MaxFaults
    /\ spent' = [spent EXCEPT !.faults = @ + 1]
    /\ manifests' = Append(manifests, [cut |-> a.cut, reason |-> a.reason])
    /\ GiveBack(c)
    /\ UNCHANGED <<events, chain, unrecorded, recorded, damaged>>

\* A read, the signer or the store answers with an error.
AttemptFails(c) ==
    /\ attempt[c].at # "idle"
    /\ spent.faults < MaxFaults
    /\ spent' = [spent EXCEPT !.faults = @ + 1]
    /\ GiveBack(c)
    /\ UNCHANGED <<events, manifests, chain, unrecorded, recorded, damaged>>

---------------------------------------------------------------------------

CheckpointingInit ==
    /\ events = [s \in Streams |-> <<>>]
    /\ manifests = <<>>
    /\ attempt = [c \in CheckpointCallers |-> NoAttempt]
    /\ pendingCount = 0
    /\ elapsed = FALSE
    /\ chain = <<>>
    /\ unrecorded = 0
    /\ recorded = 0
    /\ spent = [events |-> 0, checkpoints |-> 0, faults |-> 0]
    /\ damaged = FALSE

Host ==
    \/ \E s \in Streams : AppendEvent(s) \/ Damage(s)
    \/ RecordAcceptedEvents
    \/ StartLifecycle
    \/ SealEvidence
    \/ SealAgain

Timer == TimePasses \/ Tick

Service(c) ==
    \/ \E s \in Streams : ReadStream(c, s)
    \/ Decide(c)
    \/ Insert(c)

CheckpointingNext ==
    \/ Host
    \/ Timer
    \/ StartScheduled
    \/ \E c \in CheckpointCallers :
        Service(c) \/ InsertUnanswered(c) \/ AttemptFails(c)

CheckpointingSpec == CheckpointingInit /\ [][CheckpointingNext]_cpVars

\* Calls of the service return, the chain goes on, and the timer keeps firing.
CheckpointingFairness ==
    /\ \A c \in CheckpointCallers : WF_cpVars(Service(c))
    /\ WF_cpVars(StartScheduled)
    /\ WF_cpVars(TimePasses)
    /\ WF_cpVars(Tick)

CheckpointingFairSpec == CheckpointingSpec /\ CheckpointingFairness

---------------------------------------------------------------------------
(* Properties *)

\* The variables stay in their types.
CheckpointingTypeOK ==
    /\ events \in [Streams -> Seq(Int)]
    /\ manifests \in Seq(ManifestType)
    /\ attempt \in [CheckpointCallers -> AttemptType]
    /\ chain \in Seq(TriggerType)
    /\ spent \in SpentType
    /\ pendingCount \in Nat /\ unrecorded \in Nat /\ recorded \in Nat
    /\ elapsed \in BOOLEAN /\ damaged \in BOOLEAN

\* Checkpoints are a log of cuts that extend each other (CutLog): whoever
\* takes them, and whatever happens to the stored entries meanwhile.
Promised == INSTANCE CutLog WITH
    Event <- Int, cuts <- [i \in DOMAIN manifests |-> manifests[i].cut]

CutsSpec == Promised!SpecRead

InChain == Total([i \in DOMAIN chain |-> chain[i].consumed])

\* Every event the scheduler was told of is in the newest manifest, or counted
\* towards the next trigger, or part of a trigger under way: none falls between
\* two windows (scheduler.ts, criterion 2 and trigger), unless the store lost it.
NoEventForgotten ==
    ~damaged =>
        recorded <= Committed(Len(manifests)) + pendingCount + InChain
                        + attempt["scheduler"].consumed

\* A run has one final checkpoint, however often its seal fails, is answered
\* late or not at all, and is entered again, and whatever manifests the scheduler
\* and the operators' actions put after the final one (nursery-runtime.ts,
\* #sealEvidence: "no run acquires [...] two final checkpoints").
OneFinalCheckpoint ==
    ~damaged =>
        \A i, j \in DOMAIN manifests :
            manifests[i].reason = "run-sealed" /\ manifests[j].reason = "run-sealed"
                => i = j

\* Not so: "a scheduled checkpoint cannot land after the final one" (scheduler.ts,
\* `pending'). Nothing makes the runtime wait for the scheduler, and what is
\* appended after the final checkpoint is due for one of its own.
FinalStaysLast ==
    \A i \in DOMAIN manifests :
        manifests[i].reason = "run-sealed" => i = Len(manifests)

\* While the store keeps its entries, whatever was recorded is committed by some
\* manifest in the end, also after failed attempts.
EventuallyCommitted ==
    \A n \in 1 .. MaxEvents :
        recorded >= n ~> (Committed(Len(manifests)) >= n \/ damaged)

(* What the service and the scheduler promise of the chain of manifests.     *)
CheckpointingSafe == CheckpointingTypeOK /\ NoEventForgotten /\ OneFinalCheckpoint
=============================================================================
