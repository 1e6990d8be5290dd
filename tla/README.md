# Specifications of the agentic-language-development runtime

TLA+ specifications of the parts of this repository that decide whether an
experiment's evidence can be trusted: the evidence writer, the life of a run, its
checkpoints and their anchors, the services a turn passes through, what a learner
remembers, what an exported bundle proves, and the collections built on top. TLC
checks them on small instances; TLAPS proves the most important of the properties
for every value of the constants. Paths below are relative to the repository;
`PROJECT.json` (`map`) names the source lines of every definition.

    tlc -workers 2 -config NurseryRunOperators.cfg MCNurseryOperators   # one run
    tlapm NurseryRunProofs.tla                                          # one proof module

1 the system, 2 the modules, 3 the runs, 4 findings and disagreements, 5 what is
proved, 6 observations, 7 what is not modelled, and what is left.

## 1. The system

Three surfaces, `baby-a`, `baby-b` and `nursery` (`docs/architecture.md`). Two
learners exchange artifacts; everything that happens is written to an append-only
store, checkpointed with Merkle roots, anchored on a public chain, and sealed.

One turn: the scenario engine makes the observations; the sender's adapter
proposes; the Symbol Gateway validates and has the evidence writer commit the
channel event and the sender's ledger event in one transaction; the receiver gets
the committed artifact only; the runtime evaluates the outcome and appends the
turn record; checkpoints are taken at intervals and at lifecycle changes.

| Component (package) | State it keeps | Operations | Talks to | What is hard | What makes it correct |
|---|---|---|---|---|---|
| Evidence writer (`evidence`) | SQLite tables of seven event streams, forks, manifests, attachments; in memory a FIFO mutex and the integrity block | commits and appends, `insertCheckpointManifest`, `recover`, `acknowledgeIntegrityReview` | signer services (await inside the mutex), every other component over sockets | two processes on one file, signatures that fail, crash, a lost tail | linked chains, whole turns, forks preserved, checkpointed prefixes kept |
| Run lifecycle (`lifecycle`) | the run's state | `apply` | runtime | – | terminal states are final |
| Nursery runtime (`orchestrator`) | counters, pending repair, quarantine, run registry | `createRun`, `step`, `pause`, `resume`, `annotate`, `abort`, `seal`, `retrySeal`, `abandonSeal`, `recover` | all | asynchronous methods without a lock, five-call seal, restart at any await | budgets, no turn twice, a pause holds, sealed once, a valid run is anchored |
| Checkpoint service and scheduler (`checkpoint`, `ops`) | pending event count, last checkpoint time, a promise chain | `createCheckpointIfChanged`, `recordAcceptedEvents`, `tick` | evidence, witness signer | reads across awaits, insert race, failed attempt gives its events back | successive manifests extend each other, no event outside every window |
| Anchor publisher (`anchor`) | in-flight maps, reservations, pending sidecar file, pinned transactions | `submit`, `awaitConfirmation` | chain RPC, evidence | a send of unknown outcome, crash before the reservation, reverts | one payment and one receipt per checkpoint and chain |
| Symbol Gateway (`gateway`) | rejection streak, shuffled batch | `submitProposal`, `restoreAfterVerifiedPrefix` | evidence through the write-intent journal | streak over a restart | what is delivered is what was committed |
| Write-intent journal (`gateway`) | intents on disk, a queue | `send`, `openPort` | evidence RPC | reply lost after the intent | an unknown outcome is never repeated |
| Affect protocol (`gateway`) | windows, in memory | `openWindow`, `submitAffectFrom` | evidence | appends in flight together | one answer per window, in the order they were made |
| Isolation boundary (`isolation`, learner relay) | pending requests, policy cache, partial frames | `request`, host methods, quarantine | learner hosts | late answers, deadlines | no late answer reaches another call; the cached policy is one the host had |
| Evidence RPC and signers (`evidence`, `hashing`) | one socket per call | framed calls | – | timeouts of unknown outcome | never retried |
| Merkle, verifier, export (`merkle`, `verifier`, `evidence`) | none | proofs, export, bundle checks | files | reads that other calls come between; every way to damage a file | what is accepted was committed; what was sealed valid stays verifiable |
| Learners (`learners`) | tables, ledger registries, forms, a frozen model's memory | `act`, `receive`, `onOutcome`, `update`, `restore` | runtime, ledger | retried calls, refused appends, restart from the latest policy file | the ledger and the memory agree; learnt once |
| Interventions (`interventions`) | probe schedule, curriculum stage | freeze, apply, observe | runtime | restart inside a stage, refused append | the schedule is fixed before the outcomes it predicts |
| Operations (`ops`) | snapshots, retention log | snapshot timer, `autoRestore`, retention jobs | runtime | stale snapshot, overlapping jobs | a restored state is a prefix of the evidence, a purge is traced |
| Experiments (`orchestrator/experiments`, `ala`) | stage journal and its lock, attempt journal | collectors, dyads | runtime | resumed collection, journals read and written whole | a slot is collected once, a verdict is final |
| Scenario engine (`scenario`) | none beyond the episode | generation, observation, hygiene | runtime | partitions, utilities, one-sided delivery | held-out cases stay unseen |
| Analysis, leakage, types, config, auditor, scripts | – | numerical or pure | – | – | outside these specifications |

`PROJECT.json` lists each of them under `components` with its status, and under
`hazards` what in them is hard to test, at its line, with the properties that watch
it or the reason why none does.

## 2. Modules

| Module | Models | Uses |
|---|---|---|
| `EvidenceLog` | what readers of the store are promised: an abstract append-only log | – |
| `EvidenceWriter` | `writer.ts`, `mutex.ts`: writer objects, their mutex, signatures, transactions, forks, recovery, disk | implements `EvidenceLog` (`LogSpec`) |
| `RunLifecycle` | `state-machine.ts`: the transition table and its queries | – |
| `NurseryRun` | `nursery-runtime.ts`: one run, its evidence and the process that drives it | `RunLifecycle` |
| `CutLog` | what checkpoints are promised to be: cuts that extend each other | – |
| `Checkpointing` | `checkpoint-service.ts`, `scheduler.ts` | implements `CutLog` (`CutsSpec`) |
| `Anchoring` | `publisher.ts`, `pending.ts`: submissions, confirmations, the node and the chain | – |
| `Gateway` | `symbol-gateway.ts`, `write-intent-journal.ts`, the controller's turn | – |
| `Affect`, `Frames`, `Isolation` | affect windows; framing; the proxy, the relay and the host of a learner | – |
| `Carriers`, `Glyphs` | what crosses the channel, from completion to probe; strokes and components | – |
| `Verification`, `Bundle` | the verifier as predicates on a bundle; a run's evidence up to its verdict, its exports and their damage | `Bundle` extends `Verification` |
| `Learner`, `Learning`, `Forms`, `FrozenLlm` | the learners of five tracks and their calls, forms, the frozen model's adapter | `Learning` extends `Learner` |
| `Probes` | the causal probes of an evaluation, from the ledgers to the observations | – |
| `Snapshots`, `Retention` | `snapshot.ts`, `retention.ts` | – |
| `Treatments`, `Collection`, `Schedules`, `Dyads`, `Scenarios` | LV01 batches and stages, ALA cases and dyads, the scenario engine | – |
| `MC*` | instances for TLC; components that share no state run side by side, chosen by `part` or `setting` | |
| `EvidenceWriterProofs`, `WitnessingProofs`, `NurseryRunProofs`, `NurseryTurnProofs`, `ServicesProofs`, `OperationsProofs`, `LearningProofs`, `BundleProofs` | theorems (section 5) | TLAPS |

Each module holds, beside its definitions, the mutants that `PROJECT.json` names:
plausible mistakes in one definition, marked `Mutant:`, used by no run; they show
that each property of a run can fail.

### How the modules correspond to the code

*Awaits.* The runtime, the services and the learners are asynchronous methods that
take no lock. An action is one stretch between two awaits: a call that is answered
and the code up to the next one. The place of a method is a variable (`task[c].at`,
`attempt[c]`, `sending`, `ctl.at`, `pc`, ...) and its values are named for the await.

*Idealisations.* A hash is the thing that is hashed: two rows have the same hash
exactly when they are the same row. A root is the prefix that it commits. Seeded
draws are free choices among the values that may be drawn.

*EvidenceWriter.* `table` is the event tables, stream -> sequence -> row; `forks`,
`manifests`, `attachments`, `registered` the other tables. Per writer object: `up`,
`queue`, `current` and `rows` (the call in the critical section and the rows it has
signed so far), `block`, and the history variable `vetted`. A call is queued
(`Call`); it enters when the mutex is free and throws (`Refuse`) or builds its row on
the chain head and awaits the signer (`EnterSigned`, `SignChannel`), or goes straight
on (`EnterUnsigned`). `Commit` is the transaction: all rows, or, when a row's number
is taken, none, both entries preserved as a fork and the writer blocked. `LoseTail`
is the damage `recover` looks for.

*NurseryRun.* The evidence: `metadata`, `channel`, `turns`, `scheduled`, `sealed`,
`journal` (interventions and checkpoints in order), `records`, `receipt`, `forked`,
`quarantined`. The process: `loaded`, `state`, `mem` (the counters of `RunRuntime`),
`task` (what the driver's and the operator's method waits for). A crash clears the
process and keeps the evidence. With `Overlap` an operator call may start while the
driver's awaits; the public interface allows it (SPECIFICATION.md 7.1 and 7.3,
`docs/api-reference.md`), the callers inside the repository are sequential, and so is
`Overlap = FALSE`. Where the configuration says `disabled`, a turn may have neither a
channel event nor a trigger. `Mishaps` are `crash`; `fault` (an evidence call rejects; through
the Gateway, as the ledger events of a policy checkpoint do, it may have been applied,
and quarantines the run); `lost` (the turn
record is committed and its answer is lost); `signers`; `fork`. `#reconstruct`
compares timestamps of interventions and checkpoints, the model their positions in
`journal`, so ties are left out. Export and verification are part of the record step
that follows them; `Bundle` has them in detail.

*Checkpointing, Anchoring.* A checkpoint attempt reads the newest manifest, then the
streams one by one, awaits the signature and inserts; the store refuses a manifest
whose predecessor is not the newest. The seal's own attempt ends nothing: events are
appended after it, and the scheduler's attempts and a second seal go on. The publisher's `submit` and
`awaitConfirmation` are joined per checkpoint (`sending`, `confirming`); the node's
mempool, the chain and its loss of answers are external, modelled from how
`viem-transport.ts` uses them: a mined nonce is not mined again, and the node refuses
a second transaction of the same nonce. Publishers share one wallet.

*Gateway* refines the single step `ExecuteTurn` of `NurseryRun`: the turn's proposals
and deliveries under the four communication conditions, local or remote, each
evidence write framed by an intent and a confirmation file. *Isolation* counts time
in ticks; a policy is the number of its changes. *Learning* runs one learner through
the calls of its turns, with retries, refused appends, crashes and the restart from
the latest policy file; `Learner` has one handler per call and track, as the set of
its possible results.

*Bundle* runs the driver's calls to their end except where evidence can be seen
half-way: an abort comes at a turn boundary, and a crash before the seal. An export asks
for its seven streams together and is answered one by one, then reads checkpoints, receipts, attachments and the record, and
other calls come between; the model reads some of the streams at one instant, the others
at a later one, in every division into `reads` instants. `Verification` is the exit code that
the verifier's checks add up to.

*FrozenLlm, Retention, Collection, Dyads.* What fails in them is what the code lets fail.
A hypothesis or first use of the frozen model may be appended without an answer, and a
call that was given up goes on beside the turns that follow. A retention job reads the
release marker and the receipts, describes its entries and deletes them one by one, while
exports write the same files. The lock of a stage is taken in two steps, of which the
second may fail, and giving it back may fail; the operator removes what is left. The
watchdog of a dyad waits for the process it launched, and the worker below it may go
on; a runner that ends amid an append leaves a prefix of the journal, torn or not.

## 3. Runs

Twelve runs, one per question. A run over several components chooses one of them per
behaviour; its composite properties are conjunctions of the named ones.

| Run | Question | Bounds |
|---|---|---|
| `EvidenceWriterRace` | Two writer objects on one file: do chains stay linked, turns whole, forks preserved, in every interleaving of signatures, commits and crashes? (`TypeOK`, `ChainLinked`, `TurnPairs`, `ForkKeepsBoth`, `LogSpec`) | 2 writers, 2 stamps, one row per stream before the race, 1 waiting call |
| `EvidenceWriterRecords` | Every recording operation by two Babies under a fair event loop; or a store that loses tails (`BindingsHold`, `VettedPrefixIntact`, `MutexReleased`) | 1 writer, 1 or 2 rows per stream |
| `NurseryRunMishaps` | Two operator calls and a crash at any await; or two mishaps of every kind around the seal (`TypeOK`, `SealedIsFinal`, `SealIsCovered`, `StopsHold`) | 1 + 1 turns, or an evaluation-only run; 2 calls, 2 mishaps |
| `NurseryRunOperators` | Four operator calls around a blocked seal; two that overlap a step or a seal; one and a crash under fairness (`VerdictOnce`, `TurnsNumbered`, `BudgetsHold`, `PauseHolds`, `NoStepBack`, `FairRunRests`) | 1 + 1 turns, repairs on; no publisher and no channel in the fair setting |
| `NurseryRunCaptureOnly` | `evaluationTurns` 0: `WithinBudget` is violated (finding 1) | 1 + 0 turns |
| `NurseryRunAbortLost` | A crash during an abort: `AbortedNeverValid` is violated (finding 2) | 1 call, 1 crash |
| `Witnessing` | Runtime and scheduler take checkpoints of one run, with failures and damage; two publishers with one wallet (`CheckpointingSafe`, `AnchoringSafe`, `CutsSpec`, `EventuallyCommitted`) | 2 streams, 2 events, 1 failure; 2 checkpoints, 3 blocks, 1 lost answer, 1 restart |
| `Services` | Gateway, isolation, affect, frames, carriers, glyphs (`GatewaySafe`, `IsolationSafe`, `ChannelsSafe`, `CodecsSafe`, `ServicesLive`) | 3 turns, batches of 2, 1 lost answer, 1 crash; 2 relayed turns, deadline 1, 1 retry; 5 affect turns, windows of 2; 2 messages of 2 chunks; grid 4 x 4 |
| `Bundle` | Does what a run leaves behind verify, and is what the verifier accepts true? (`AcceptanceIsSound`, `SealedVerifies`) | 1 + 1 turns; 2 mishaps, or a note and a copy whose streams are read at 2 instants, or 2 steps of damage |
| `Learning` | Learners of every track under the runtime, forms, the frozen model's memory (`LedgerKept`, `PolicyKept`, `MemorySafe`) | 2 marks, 2 types, 2 training turns and one held-out, 1 fault, 1 crash; the frozen model: 3 turns, 2 attempts of a call, 2 failures |
| `Operations` | Snapshots and restores, overlapping retention jobs, causal probes (`SnapshotsSafe`, `ProbesSafe`, `RetentionSafe`, `OperationsLive`) | 2 runs, 3 commits, 2 restarts; 2 retention jobs, 3 starts, 2 exported files, 1 process end; 2 + 2 turns, 1 crash |
| `Experiments` | Treatment batches, an LV01 stage, ALA dyads and cases, scenarios (`CollectionSafe`, `DyadsSafe`, `PlansSafe`, `ScenariosSafe`) | 2 collectors, 2 primaries and 2 reserves, 2 faults, 1 death; 2 runners, 3 dyads, 2 attempts, 1 crash, 1 breach |

*Why the bounds are enough to be of interest.* A race at a chain head needs two writers
and one head. A tail that is lost and grows again needs two manifests, so that an
older one could be forgotten. A restart can meet every await of a step, of each
operator call and of the seal with one crash; budgets of one turn make the boundary
of a budget coincide with every pause, trigger and restart. Two mishaps let a fault be
followed by a crash, a fork by a retry. Two publishers and one wallet are what a
nonce can collide between. A batch of two is the smallest that a shuffle moves. One
retry is what a late answer needs to meet a second call of the same kind. Two jobs,
two collectors, two runners are what overlap takes. The theorems of section 5 hold
for every bound, so that for the components they are about the bounds only matter to
liveness and to the properties that are not proved.

*Bounds that hide something.* The dyads are explored only while no two appends to their
journal crossed (`Explored`): the code loses entries then (hazard at
`ala-runner.ts:311`), and the properties are about journals that did not, also where a
crash cut one short.
`CheckpointedNumbersStay` and the other refuted statements of section 4 are defined
but checked by no run.

*Deadlock.* Every cfg says `CHECK_DEADLOCK FALSE`: a run that is sealed, a batch that is
built, or a component whose bounds are used up really stops.

*Fairness.*
`EvidenceWriter`: a process that is up goes on serving its mutex, as a signer call has
a timeout (`domain-signer-rpc.ts`), SQLite calls return, and the event loop is fair
to resolved promises; a crash ends the call as well.
`NurseryRun`: a method that awaits is resumed or throws (every RPC has a timeout), and
the driver goes on: `runToCompletion` steps while turns are accepted and then seals,
and a process that lost its run recovers it on start (the CLI and `autoRestore`).
Operator calls, crashes and faults are not fair. `FairRunRests` says where a run may
then stop: at a terminal state, paused or sealing-blocked (an operator's decision is
due), quarantined after an uncertain write, or stopped by a turn without its record.
`Checkpointing`: attempts and the timer go on. `Gateway`: the controller's turn goes on.
`Isolation`: timers fire, whatever the host does. `Snapshots`: a queued snapshot, its
write and the shutdown are carried out. The chain of `Anchoring` is under no fairness.

## 4. Findings and disagreements

Two runs end in a counterexample that is a behaviour of the code and contradicts what
the repository says; the quotations are in `PROJECT.json` (`findings`).

1. *A capture-only run plays a held-out turn.* The stage transitions are looked at once
   per turn, so with `evaluationTurns: 0` one held-out turn is played
   (`nursery-runtime.ts:3334`), against `schemas.ts:388`. Run `NurseryRunCaptureOnly`.
2. *An abort that a crash interrupts is forgotten.* The rebuilt run goes on and can be
   sealed as valid (`nursery-runtime.ts:4242`), against `terminal-recovery.test.ts:7`.
   Run `NurseryRunAbortLost`.

The following statements of the repository are definitions of the modules that no run
checks, because TLC refutes them; paths are below `packages/`.

| Definition | What happens | Against |
|---|---|---|
| `EvidenceWriter!CheckpointedNumbersStay` | after a lost tail is reviewed, the writer goes on below the stored checkpoint (`evidence/src/writer.ts:1346`) | `recovery.test.ts:330` |
| `Anchoring!OneSubmission` | a send whose process ends before the reservation is written is sent again, by other bytes, after the restart (`publisher.ts:513`) | the class comment, `publisher.ts:11` |
| `Gateway!RejectedTurnsAreRecorded`, `NextTurnBegins` | a remote Gateway's rejection is an error to the controller, and the turn has no record (`service-rpc.ts:225`); after a forfeit in the pre-pass of the shuffled control the next turn cannot begin | `nursery-runtime.ts:900` |
| `Isolation!OneCallInFlight` | after a deadline the next call is sent while the host still serves the first (`nursery-runtime.ts:1899`) | `remote-adapter.ts:694` |
| `Bundle!RetriedSealIsValid` | the event of `retrySeal` follows the final checkpoint, and is in no anchored prefix (`nursery-runtime.ts:2228`) | the runtime's tests of a retried seal |
| `Bundle!ValidBundlesVerify` | an annotation that the seal overtakes is recorded without a checkpoint (2099) | the comment there |
| `Bundle!ProbeBindsItsDelivery` | a deadline late in the turn replaces the delivered mark and keeps the probe (1004) | the turn record's binding |
| `Learning!StageSurvivesRestart` | a restart during a curriculum continues under the first stage's knobs (4041) | `nursery-runtime.ts:1173` |
| `Learning!DerivedKeepsParent` | a derived run's restart before its first update starts from nothing (2592) | SPECIFICATION.md:536 |
| `Checkpointing!FinalStaysLast` | interventions are appended after the final checkpoint (2230, 2262, 2399), and a tick or a queued attempt commits them (2440-2448 says so) | "cannot land after the final one", `checkpoint/src/scheduler.ts:148` |
| `Snapshots!NoRunStranded` | a policy file that cannot be written rejects the restore, and the runs behind it are not come to (`ops/src/snapshot.ts:557`) | "one unusable run cannot strand the others", `snapshot.ts:540` |
| `Retention!PurgeIsHashed` | a file exported after its entry was described is deleted undescribed (`ops/src/retention.ts:562`) | "Every purged file is hashed before deletion", `retention.ts:28` |
| `Collection!LockIsGivenBack` | an acquisition whose write fails (`ledger-value-journal.ts:34`) and a release whose close fails (41) leave the lock with a process that goes on | the `finally` of `collectLv01Stage` |
| `Dyads!VerdictNotAborted` | the watchdog aborts a dyad that has its verdict | `scripts/ala-watchdog.sh` |
| `Dyads!AbortedIsGone` | the watchdog waits for the process it launched (128); the worker below it may still write | "process terminated, `aborted` journalled", its header |
| `Dyads!BudgetIsReal` | a crash in an append cuts attempts off the journal, which are made again (`ala-runner.ts:318`) | the budget of development attempts |
| `FrozenLlm!NoNumberTwice` | a hypothesis that was appended and whose answer was lost is followed by another of its number | `learners/src/llm-memory.ts:106` |
| `Probes!PlannedProbesAreTried` | a restart compares turn numbers, repairs included, with the budget of episodes, so that a probe may be planned for a training turn | `#restoreProbeSchedule`, "from training-only evidence" (`nursery-runtime.ts:3404`) |

## 5. What is proved

For every value of the constants that satisfies the named assumptions, any number of
writers, callers, calls, checkpoints, mishaps and restarts.

| Module | Theorem | Establishes |
|---|---|---|
| `EvidenceWriterProofs` | `TypeCorrect`, `ChainsLinked`, `TurnsArePaired`, `Implements` | `TypeOK`, `ChainLinked`, `TurnPairs`, and the refinement `LogSpec` |
| `EvidenceWriterProofs` | `VettedIsIntact`, `ForksAreKept`, `BindingsAreKept` | `VettedPrefixIntact`, `ForkKeepsBoth`, `BindingsHold` |
| `WitnessingProofs` | `CheckpointsAreSafe`, `CheckpointsImplementCutLog` | `CheckpointingSafe`, and the refinement `CutsSpec` |
| `WitnessingProofs` | `AnchorPromisesHold` | `AnchoringSafe` |
| `NurseryRunProofs` | `RunIsWellTyped`, `SealIsFinal`, `ValidRunsAreAnchored`, `SealCovers`, `PauseIsKept`, `TurnsAreNumbered` | `TypeOK`, `SealedIsFinal`, `ValidIsAnchored`, `SealIsCovered`, the action property `PauseHolds`, `TurnsNumbered` |
| `NurseryRunProofs` | `VerdictIsGivenOnce`, `NoStepGoesBack` | `VerdictOnce`, and the action properties `NoStepBack` |
| `NurseryTurnProofs` | `BudgetsAreKept`, `StopsAreHeld` | `BudgetsHold`, and the action property `StopsHold` |
| `ServicesProofs` | `GatewayKeepsItsPromises`, `CallsAreSafe`, `ChannelsAreKept` | `GatewaySafe`, `IsolationSafe`, `ChannelsSafe` |
| `OperationsProofs` | `SnapshotsAreCuts`, `PurgesAreTraced` | `SnapshotsSafe`, `RetentionSafe` |
| `OperationsProofs` | `StagesAreCollected`, `DyadsKeepTheirWord` | `CollectionSafe`, `DyadsSafe` |
| `LearningProofs` | `LedgersAreKept`, `PoliciesAreKept` | `LedgerKept`, `PolicyKept`, each with its action property |
| `BundleProofs` | `AcceptedBundlesAreSound` | `AcceptanceIsSound` |

*EvidenceWriter.* `ChainLinked` is not inductive: a commit inserts a row that was built
some awaits ago. `IInv` is `TableOK` (dense linked chains) and `RowsOK`: each row under
way follows a row that is still in its table, with the right number and predecessor.
Tables only grow while some process is up, and a process that goes down drops its rows,
so following is stable, also under `LoseTail`, which needs every process to be down.
When a row's number is free, density makes it the next number, so its predecessor is
the head. `RowsOK` also carries the shape of a turn's two rows, from which the
refinement and the pairing follow.

`VettedPrefixIntact` speaks of every manifest, while the code only ever
compares the newest one. `ManifestsOK` closes the gap: for every manifest there is a
chain, of the length it records, that keeps every manifest up to it. A writer
that vetted the newest prefix then has them all, by induction along the linked
entries (by a least counterexample, as two chains with the same entry agree before
it). `BindInv` is `BindingsHold` together with what the rows under way refer to.

*Checkpointing.* What has to be known of an attempt under way: the cut it has read so far
extends the manifest it has read (`AttemptsLinked`), manifests only grow (`CutsGrow`), a
final manifest is asked for by the runtime alone, and while there is none (`FinalOnce`), and
every recorded event is committed, counted, queued or consumed by the attempt (`Windows`).
Nothing is assumed of what is appended, or committed, after the final manifest: that it
stays the last one is not so (section 4). Sums over streams are cardinalities of sets of
pairs, as a recursive sum cannot be reasoned about.

*Anchoring.* `CheckpointInv` says, per checkpoint, what the submit, the confirmation and the
runtime's call each know, and that a transaction which was ever given to the node is
on the chain, in the mempool, or lost for good behind a mined nonce. The payments are
counted against `orphaned`, the occasions on which a submit lost sight of one.

*NurseryRun.* The properties of the seal are only true because of what the calls under way
may still do. `Shape` has the types. `CallsInv` says what a call's place tells of the
state of the run (a call in the pause holds the run in `pausing` or later, one in the
seal in a state that takes no turn), and which calls are never under way at once: each
begins with a transition of the lifecycle table, which refuses the second. `SealInv`
says what has been written when a call gets to a place of the seal. The three are
inductive together and give `SealedIsFinal` and `ValidIsAnchored` for overlapping calls
and every mishap. `SealIsCovered` says moreover that no checkpoint follows the final
one; the theorem assumes `~Overlap`, as with overlapping calls an annotation does write
one (section 4, `ValidBundlesVerify`); `TipInv` says which places may still write a
checkpoint. `PauseInv` ties what the evidence says of a pause to the state, so that a
rebuilt run is paused exactly when the run that was lost was. `TurnsNumbered` assumes
that no answer to a turn record is lost: after a lost one the code plays the number
again (section 6).
`VerdictOnce` speaks of runs without mishaps, as a process that ends inside the seal
writes parts of it again. `VerdictInv` says that each part of the seal is
written once because no two callers are ever about to write it: a second abort, and a
seal beside an abort, have no transition to begin with, and the operator tries a seal
again only when its evidence exists. `NoStepBack` is about the channel: `ChannelInv` says
that it holds the turns that have a record and the one whose record is next, or else the
process has found a turn without its record and goes no further. It assumes that
no answer is refused or lost. A terminal state is left by no operation of the process
that reached it; a restart may find a sealed run whose verifier failed in
`sealing-blocked` (section 6), so that `TerminalStays` is about one process.

Two more theorems say which turns are played, both for calls that do not overlap.
`BudgetsHold` compares the turn records with the budgets, while step() looks at the
counters in memory and at the state, which an earlier turn or a resume was to
change. `BudgetInv` therefore says that the counters are those of the evidence
(`CountersFit`), that the turn under way has room (`PlayedFits`), that a run at rest in a
state that takes turns has room for one more (`StageFits`), and that a run with a
held-out turn was never paused (`EarlyFits`): else a rebuilt one would be paused,
resumed and train again. It assumes that no call rejects and no answer is lost, as the code
plays such a turn again. `StopsHold` rests on `StopsInv`: in a state that leads
to a turn every trigger is answered, unless the turn that raised it is still on its way
to its pause or its abort (`Escalates`), which then holds the driver; and the adapter's flag
in memory says what the evidence says.
Every action is shown to be an abstract move of one caller (`PlainStep`, `TipMoves`,
`PauseMoves`, `BudgetMoves`, `StopMoves`), and the move to preserve the invariant.

*Gateway.* What the writes of a turn promise across a restart is decided where recovery
looks at what is left. `GatewayInv` says what each part then knows: the call under
way (`CallsFit`), the files of the journal against the evidence (`JournalFits`: no open
intent, no write under way), the streak of forfeits against the evidence (`StreakFits`),
the deliveries that a batch still owes (`DeliveriesFit`, `BatchFits`). A counter of
forfeits that was rebuilt from the evidence is the streak of the evidence behind the
reviewed part of the channel (`RecountedIsStreak`). That a shuffled batch delivers each
message once is a statement on permutations, proved by counting places.

*Isolation.* What the proxy may take for the answer to its call is a matter of numbers.
Every call that the proxy, the wire, the relay or the host knows carries a number the
proxy has given out, numbers are never reused, and the call that carries the number the
proxy waits for is the call it made (`RequestsFit`, `AnswersFit`, `ServedFit`). A
late answer therefore carries an older number and is dropped. `RelayKeeps` says that behind
the relay what is under way at the host is the call the relay has let through, from
which follows that an append is stamped with the turn of the call that asked for it.

*Affect and carriers.* The remembered windows are in the order of their turns and only the
last can be open, so what was answered, accepted or not, is of the last window or of an
earlier one (`SpentFit`): a window the buffer has forgotten is never answered again, however
submissions overlap. A carrier's validator is a list of rules of which the first that
holds decides (`FirstIs`); a drawn message passes because no run of a mark in it is
longer than the bound that is drawn against (`RunsAreShort`, `DrawnRunsAreShort`), and the
invariant keeps an artifact's acceptance (`ListPasses`) from delivery until a probe has
changed it and the validator has looked at it again.

*Collection.* Only the holder of the lock writes (`LockHeld`), so the lines of the journal and
what the holder has in memory can be compared: they agree on every slot but its current
one (`Agrees`). That the lock has one holder at work (`OneAtStage`) does not need that locks
are given back: an acquisition that fails half-way, a release that fails and a process that
ends each leave a lock that nobody works under, and the operator removes only those. A
line by itself is sound (`WellUsed`, `Whole`), and later lines follow earlier ones
(`Follows`); that a slot is tried once is a consequence for any three lines. The audit takes
no lock; it is right because a journal with its last word is not written again (`AuditSound`:
as long as the stage is open, nothing verified depends on the lines).

*Dyads.* A journal that every runner writes back whole says nothing reliable once two
appends crossed, so the theorem is about the history before that (`raced`). Before it,
every append acts on the journal that is there: what a runner saw at its gate still holds
when its attempt is journaled (`GateFits`), and an attempt is journaled before it touches the
dyad's directory (`AttemptIsJournaled`). A crash inside an append is part of that history: it
leaves a prefix of the journal, which keeps `VerdictIsFinal` and `BudgetKept`, as both speak
of the entries that are there; the entries it cut off are remembered in `forgotten`, and a
dyad of which nothing is left is attempted again in the directory of the lost attempt, so
`ValidDyadIsWhole` leaves those dyads out. An abort does not mean that the worker is gone, so
a dyad may be resumed, or started, beside the worker the watchdog gave up on: such dyads are
`crossed`. A dyad that nothing crossed has one runner and one watchdog at it (`OneAt`), so that
a verdict comes behind its runner, and what is in the directory is of the attempt under
way (`DirIsOwn`). The budget is counted over the dyads with any state, which is more than
those that were attempted.

*Snapshots.* A file's content was fixed when it was built, without an await, and later
commits only extend the sequences of its process, so it stays a cut (`FilesFit`). A
restore works through the runs in an order that names each once (`RestoreFits`): runs
before its place have their report, runs behind it are as the process found them. A run
whose recovery is refused is reported and the next one is gone on to; a policy file that
cannot be written ends the restore (`unwritten`), and then the theorem says nothing of the
runs behind it (`NoRunStranded`, section 4).

*Retention.* `PurgeIsTraced` is the property with, in addition, that what an entry holds when a
job is about to delete it is what the job described, or was written behind it (`DescribedFit`,
`TracedInv`). It holds of every file a job deleted, jobs that overlap, exports at any time and
torn lines included; it excepts, file by file, what a job described that ended before its
entry was whole (`dropped`) and what was written behind a job's description (`late`), which
is where the code does not keep its word (section 4). `PlaceFits` says how far the job has
looked: past the marker and the receipts, its run was not public when it took it up. The
chain of the entries needs that a job which appends has read the last entry, unless two
appended at once (`AppendsFit`).

*Bundle.* Nothing about the turns is needed to see that the verifier cannot be deceived:
`StoreInv` says that the store numbers its rows in order and that a receipt names a
checkpoint, `CallsInv` that the calls under way name checkpoints that exist, and `FilesInv`
that no damage forges (`Genuine`): a line that is still whole in a file is what the store
holds under its number, a checkpoint or receipt in it is one of the store's. A file whose
lines pass the chain check is numbered from one without a gap, hence a prefix of the store;
the last checkpoint of the file has a confirmed receipt when the strict verifier
accepts, and it says how long each stream is. The proof uses these checks only; that
the others refuse no honest bundle is `SealedVerifies`. Both bundles, the run's
own and an operator's copy, are covered, and it does not matter at how many instants the
streams of a copy were read.

*Learning.* Five tracks answer each call in their own way, with appends that are refused or
lost at any of their places. The first part of the proof says once, for each handler, what all
its results have in common (`Sent`, `Received`, `Selected`, `Answered`, `Updated`), and of
a policy what loading it gives back (`LoadedFrom`). `LedgerKept` is not inductive
because a restart loads registries that an earlier process exported: `Backed` says of the
registries in memory, of those kept for the next export, and of the policy file that all
they refer to is on the ledger. `LearntOnce` needs where the turn stands: before its outcome
its number is not in the tables, after it only if the turn was closed (`LearntInOrder`,
`SensedInOrder`); and a policy file that has the turn already was written after the turn's event
reached the channel chain, which is when a restart refuses to play it again (`Reloadable`).
`RefFollows` says between which calls the last update's answer still names the live policy,
`StagesFollow` that the recorded stages are the first ones of the schedule and the knobs
are what they set one after the other; that the stages up to a turn are the first ones follows
from the schedule's order, which `curriculum.ts` validates (`ScheduleAssumption`).

*Assumed.* The constants' types, the order of a curriculum's stages, and that a mark of a
carrier is none of the elements its validator refuses, as `ASSUME`s of the modules, which
TLC evaluates in the runs; nothing else.

*Only model-checked.* Liveness (`MutexReleased`, `FairRunRests`, `EventuallyCommitted`,
`ServicesLive`, `OperationsLive`): fairness and ENABLED are outside what the prover
does. `CodecsSafe`, `MemorySafe`, `ProbesSafe`, `PlansSafe`, `ScenariosSafe`, `SealedVerifies`: most of them filter or fold
sequences, so that what they say rests on an induction over data that the provers cannot
instantiate.

## 6. Observations

Seen in the models or in TLC's traces; each is a behaviour of the code.

*Evidence.* An append that awaits its signature when `recover()` blocks the writer still
commits (`writer.ts:1370`); the block is in memory only, a restart clears it until
`recover` runs again.

*Nursery.* A safety trigger that a crash follows does not pause (`nursery-runtime.ts:1145`).
When the final checkpoint is rejected, or the process ends, after `run.sealed`, the
next seal appends `run.sealed` again (2426). A run that is sealed but whose verifier
failed is rebuilt as `sealing-blocked` (4460). `pause()` completes while a step is in
flight (2015). A refused signer registry leaves the run in `#runs`, where it accepts
calls (2531). The lost answer of a turn record leaves the counter behind, and the
number is played again (1097). An operator call that overlaps a seal may write a
checkpoint after the final one (2099), and a step that starts while `resume` awaits the
policy checkpoint of the stage transition plays a training turn beyond the budget
(3334); `#autoPause` aborts a run that the operator has
paused meanwhile (3302). An abort or a pause whose call rejects leaves the run in
`aborting` or `pausing`, from which only a restart leads out (2143).

*Anchoring.* A confirmation that overtakes a read of "no receipt" leads to a second
transaction after a restart. A failed write of the sidecar leaves a promise in memory
only. A failed receipt is returned for ever (`publisher.ts:435`).

*Gateway and boundary.* Slot rejections report a stale `pauseRequested`; `resume` does not
clear the slots' pauses; a crash amid a batch with a rejection in its pre-pass cannot
be recovered. Affect windows are in memory, evicted after 4096, not restored. A closed
connection still reads lines and serves `ledger_append` (`channel.ts:305`); an append in
transit when a host exits is stamped with a later turn; an update is learnt twice when
the first answer comes too late. A message that repeats a symbol more often than
`maxSymbolRepeats` is rejected at the Gateway though the learner may say it.

*Bundles.* A copy made while the run goes on may hold streams of different instants and fail
the verifier; nothing tells its reader why. A run derived from a derived run never verifies (`verify-bundle.ts:585`). An
applied probe whose turn is lost, or a repair that is scheduled and then aborted, makes an
honest bundle fail. Receipts with too few confirmations still count as anchored.

*Learners.* A hybrid payload's head is updated on every `onOutcome`, retries included. Under
`disabled`, a crash after `latest` and before the turn record has the turn learnt twice. An
update that is applied and whose answer is lost leaves a stale `policyRef`. The
frozen-llm memory is folded before its hypotheses are appended, so a retry loses them, and
an append of unknown outcome leaves its number to the next hypothesis;
without a `latest` file its recovery starts with empty memory; a symbol evicted at the
end of `fold` gets a hypothesis from the uniform distribution.

*Probes.* When the append of the schedule is refused, the evaluation goes on under a
schedule that is not recorded, and a restart freezes another one. After a failed freeze
the next step plays a training turn beyond the budget. Training claims behind
`maxTurnsPerRun` are dropped when repairs shifted the numbers.

*Operations.* `autoRestore` overwrites a newer rolling policy with the snapshot's, and its
`ok` ignores `turnMatches`; a torn newest snapshot fails the restore with no fallback. A
crash between a purge's deletes and its log entry is never logged, and a torn line takes the
next entry with it; overlapping jobs fork the log's chain; an unreadable marker counts as
not released.

*Experiments.* A crash leaves the stage's lock for ever, by design, and so does a failed
acquisition or release. A torn journal line
makes it unreadable. `collectLv01Slot` passes no `treatmentBatchVersion` (its comment says 2
is selected). `appendAlaJournal` loses entries of concurrent runners (`ala-runner.ts:17`);
a crash in the write truncates the journal, at times to an empty one that reads well; a resumed dyad may switch its protocol
version. Prose of at most 24 characters passes the hygiene scan.

## 7. Not modelled, and the plan

Out of scope for good: gradients, probabilities and prompts of the learners, image and
text scanning, analysis, leakage, scripts (numerical or pure functions over one input),
telemetry and metrics (read-only), launching of processes.

Left out of what is modelled: replay and the read side of the runtime; schema migrations
and backups of the store; the scheduler's stop; `previewAct`; the remote Gateway under
conditions other than `normal`, and the relay's authority over upstream deadlines;
restores without policies, dry runs of retention, the shuffled previews of the frozen-llm
track; supervised retries
(`failure-policy.ts`); the formats of exported files.

To prove next: the ledger of a learner and the parts of `ProbesSafe` that do not fold over
the ledgers.
