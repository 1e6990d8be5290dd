------------------------------ MODULE Snapshots ------------------------------
(* Snapshots of the runs of one process (ops/src/snapshot.ts): the scheduler *)
(* and the shutdown handler that take them, the directory they are written   *)
(* to, and autoRestore, which loads the newest one over whatever the         *)
(* evidence store and the policy files have become since.                    *)
EXTENDS Integers, Sequences, FiniteSets, SequencesExt

CONSTANTS
    Runs,               \* run ids
    MaxCommits,          \* bound: events committed and turns learnt, all runs together
    MaxTaken,           \* bound: snapshots begun
    MaxRestarts,        \* bound: process ends
    MaxLostTails        \* bound: stores that come back without their last events

ASSUME SnapshotsAssumption ==
    /\ IsFiniteSet(Runs) /\ Runs # {}
    /\ {MaxCommits, MaxTaken, MaxRestarts, MaxLostTails} \subseteq Nat

VARIABLES
    up,                 \* "up", "down", or the restore's step
    stamp,              \* ids given to committed events and learnt turns so far
    stored,             \* the evidence store: each run's events, two for a turn
    policy,             \* each adapter's policy: the turns it has learnt
    rolling,            \* <role>-latest.json: a policy, or nothing yet
    stopped,            \* runs whose recovery was refused
    dir,                \* snapshot files in name order
    queued, busy,       \* the scheduler's promise chain: waiting, and in flight
    final,              \* the shutdown's own snapshot
    loaded,             \* the snapshot a restore reads from
    report,             \* its result for each run it has come to
    unwritten,          \* history: a policy file of it could not be written
    taken, restarts, tails  \* counters of the bounds

store == <<stamp, stored, policy, rolling, stopped>>
taking == <<dir, queued, busy, final, taken>>
restoring == <<loaded, report, unwritten>>
snapVars == <<up, store, taking, restoring, restarts, tails>>

NoFile == [kind |-> "none"]
Torn == [kind |-> "torn"]
Idle == [kind |-> "idle"]
NoPolicy == [learnt |-> <<>>, saved |-> FALSE]

TurnOpen(r) == Len(stored[r]) % 2 = 1

---------------------------------------------------------------------------
(* The runs *)

\* A turn's channel event, or its turn record.
Commit(r) ==
    /\ up = "up" /\ r \notin stopped /\ stamp < MaxCommits
    /\ stamp' = stamp + 1 /\ stored' = [stored EXCEPT ![r] = Append(@, stamp')]
    /\ UNCHANGED <<up, policy, rolling, stopped, taking, restoring, restarts, tails>>

\* An update, with the rolling policy file it leaves.
Learn(r) ==
    /\ up = "up" /\ r \notin stopped /\ TurnOpen(r) /\ stamp < MaxCommits
    /\ \A i \in Range(policy[r]) : i < Last(stored[r])
    /\ stamp' = stamp + 1 /\ policy' = [policy EXCEPT ![r] = Append(@, stamp')]
    /\ rolling' = [rolling EXCEPT ![r] = [learnt |-> policy'[r], saved |-> TRUE]]
    /\ UNCHANGED <<up, stored, stopped, taking, restoring, restarts, tails>>

---------------------------------------------------------------------------
(* Taking a snapshot *)

\* It is built without an await: every run's head and policy at one moment.
BuildRuntimeSnapshot == [kind |-> "snapshot", at |-> taken, boot |-> restarts, stored |-> stored, policy |-> policy]

FileOf(s) == s

TriggerSnapshot ==
    /\ up = "up" /\ taken + queued < MaxTaken
    /\ queued' = queued + 1
    /\ UNCHANGED <<up, store, dir, busy, final, taken, restoring, restarts, tails>>

TakeNext ==
    /\ up = "up" /\ busy = Idle /\ queued > 0 /\ taken < MaxTaken
    /\ busy' = BuildRuntimeSnapshot
    /\ queued' = queued - 1 /\ taken' = taken + 1
    /\ UNCHANGED <<up, store, dir, final, restoring, restarts, tails>>

\* Names sort by the instant of the build, whenever the write ends.
Named(files, f) ==
    {InsertAt(files, i, f) : i \in {j \in 1..(Len(files) + 1) :
        /\ \A k \in 1..(j - 1) : files[k].at <= f.at
        /\ \A k \in j..Len(files) : files[k].at >= f.at}}

\* Mutant: a failure breaks the chain of promises.
SettleWithoutCatch ==
    /\ up = "up" /\ busy.kind = "snapshot"
    /\ \/ dir' \in Named(dir, FileOf(busy)) /\ busy' = Idle
       \/ busy' = [busy EXCEPT !.kind = "failed"] /\ UNCHANGED dir
    /\ UNCHANGED <<up, store, queued, final, taken, restoring, restarts, tails>>

\* The file is written, or the failure is reported; the next trigger is taken.
Settle ==
    /\ up = "up" /\ busy # Idle
    /\ dir' \in Named(dir, FileOf(busy)) \cup {dir}
    /\ busy' = Idle
    /\ UNCHANGED <<up, store, queued, final, taken, restoring, restarts, tails>>

\* A second signal finds the first one's promise.
Signal ==
    /\ up = "up" /\ final = Idle /\ taken < MaxTaken /\ restarts < MaxRestarts
    /\ final' = BuildRuntimeSnapshot /\ taken' = taken + 1
    /\ UNCHANGED <<up, store, dir, queued, busy, restoring, restarts, tails>>

\* The process exits once the final snapshot has settled, written or not;
\* what the scheduler was writing may be left torn.
ShutDown ==
    /\ up = "up" /\ final # Idle /\ restarts < MaxRestarts
    /\ \E d \in Named(dir, FileOf(final)) \cup {dir} :
          dir' \in {d} \cup IF busy = Idle THEN {} ELSE Named(d, [busy EXCEPT !.kind = "torn"])
    /\ up' = "down" /\ restarts' = restarts + 1
    /\ final' = Idle /\ queued' = 0 /\ busy' = Idle
    /\ UNCHANGED <<store, taken, restoring, tails>>

\* The process ends anywhere; a snapshot in flight is absent or torn.
Kill ==
    /\ up # "down" /\ restarts < MaxRestarts
    /\ dir' \in {dir} \cup UNION {Named(dir, [s EXCEPT !.kind = "torn"]) : s \in {busy, final} \ {Idle}}
    /\ up' = "down" /\ restarts' = restarts + 1
    /\ final' = Idle /\ queued' = 0 /\ busy' = Idle
    /\ loaded' = NoFile /\ report' = <<>> /\ unwritten' = FALSE
    /\ UNCHANGED <<store, taken, tails>>

\* The store that is opened next is an older copy of this one.
LoseTail(r) ==
    /\ up = "down" /\ tails < MaxLostTails /\ stored[r] # <<>>
    /\ tails' = tails + 1
    /\ \E n \in 0..(Len(stored[r]) - 1) : stored' = [stored EXCEPT ![r] = SubSeq(@, 1, n)]
    /\ UNCHANGED <<up, stamp, policy, rolling, stopped, taking, restoring, restarts>>

---------------------------------------------------------------------------
(* Restoring *)

Order == SetToSeq(Runs)

\* The newest file, or none; a file that cannot be read fails the restore.
Load ==
    /\ up = "down"
    /\ loaded' = IF dir = <<>> THEN NoFile
                 ELSE IF Last(dir).kind = "torn" THEN Torn ELSE Last(dir)
    /\ up' = IF loaded'.kind = "snapshot" THEN "files" ELSE "plain"
    /\ report' = <<>> /\ unwritten' = FALSE
    /\ policy' = [r \in Runs |-> <<>>] /\ stopped' = {}
    /\ UNCHANGED <<stamp, stored, rolling, taking, restarts, tails>>

\* Without a snapshot the operator recovers the runs as they are; behind a
\* restore that failed, those it had not come to.
RecoverPlain ==
    /\ up = "plain"
    /\ LET left == Runs \ {e.run : e \in Range(report)}
           refused == {r \in left : TurnOpen(r)}
       IN  /\ stopped' = stopped \cup refused
           /\ policy' = [r \in Runs |-> IF r \in left \ refused THEN rolling[r].learnt ELSE policy[r]]
    /\ up' = "up"
    /\ UNCHANGED <<stamp, stored, rolling, taking, restoring, restarts, tails>>

\* The snapshot's policy is written over the rolling file of the next run. A
\* write that fails leaves the file as it was, written or cut short, which
\* reads as none, and ends the restore.
RestorePolicyFiles ==
    /\ up = "files"
    /\ LET r == Order[Len(report) + 1]
           written == [rolling EXCEPT ![r] = [learnt |-> loaded.policy[r], saved |-> TRUE]]
       IN  \/ up' = "recover" /\ rolling' = written /\ UNCHANGED unwritten
          \/ /\ up' = "plain" /\ unwritten' = TRUE
             /\ rolling' \in {written, rolling, [rolling EXCEPT ![r] = NoPolicy]}
    /\ UNCHANGED <<stamp, stored, policy, stopped, taking, loaded, report, restarts, tails>>

\* Mutant: only the length of the prefix is compared.
LengthHolds(r) == Len(stored[r]) >= Len(loaded.stored[r])

\* The entry at the snapshot's size has the snapshot's hash, which is of all
\* the entries up to it.
PrefixHolds(r) == IsPrefix(loaded.stored[r], stored[r])

\* A turn without its record refuses recovery: reported, and the next run is
\* gone on to.
RecoverRun ==
    /\ up = "recover"
    /\ LET r == Order[Len(report) + 1]
       IN  /\ policy' = IF TurnOpen(r) THEN policy ELSE [policy EXCEPT ![r] = rolling[r].learnt]
           /\ stopped' = IF TurnOpen(r) THEN stopped \cup {r} ELSE stopped
           /\ report' = Append(report,
                 [run |-> r, error |-> TurnOpen(r),
                  ok |-> ~TurnOpen(r) /\ PrefixHolds(r) /\ policy'[r] = loaded.policy[r]])
    /\ up' = IF Len(report') = Cardinality(Runs) THEN "up" ELSE "files"
    /\ UNCHANGED <<stamp, stored, rolling, taking, loaded, unwritten, restarts, tails>>

---------------------------------------------------------------------------

SnapshotsInit ==
    /\ up = "up" /\ stamp = 0
    /\ stored = [r \in Runs |-> <<>>] /\ policy = [r \in Runs |-> <<>>]
    /\ rolling = [r \in Runs |-> NoPolicy] /\ stopped = {}
    /\ dir = <<>> /\ queued = 0 /\ busy = Idle /\ final = Idle
    /\ loaded = NoFile /\ report = <<>> /\ unwritten = FALSE
    /\ taken = 0 /\ restarts = 0 /\ tails = 0

SnapshotsNext ==
    \/ \E r \in Runs : Commit(r) \/ Learn(r) \/ LoseTail(r)
    \/ TriggerSnapshot \/ TakeNext \/ Settle \/ Signal \/ ShutDown \/ Kill
    \/ Load \/ RecoverPlain \/ RestorePolicyFiles \/ RecoverRun

SnapshotsSpec == SnapshotsInit /\ [][SnapshotsNext]_snapVars

---------------------------------------------------------------------------
(* Properties *)

SnapshotsTypeOK ==
    /\ up \in {"up", "down", "files", "recover", "plain"}
    /\ \A r \in Runs : Len(stored[r]) + Len(policy[r]) <= 2 * stamp /\ rolling[r].saved \in BOOLEAN
    /\ stamp \in 0..MaxCommits /\ taken \in 0..MaxTaken /\ queued \in 0..MaxTaken
    /\ Len(report) <= Cardinality(Runs)

\* What a sequence of ids was when the last id was c.
CutAt(whole, c, part) ==
    IsPrefix(part, whole) /\ \A i \in DOMAIN whole : whole[i] <= c <=> i <= Len(part)

\* Every snapshot is of one moment: of what this process committed and learnt
\* before the cut it has all, of what came after it nothing, over all the
\* runs, whenever it reached the disk (buildRuntimeSnapshot has no await).
SnapshotIsACut ==
    \A f \in Range(dir) :
        f.kind = "snapshot" /\ f.boot = restarts /\ up = "up" =>
            \E c \in 0..stamp : \A r \in Runs :
                CutAt(stored[r], c, f.stored[r]) /\ CutAt(policy[r], c, f.policy[r])

\* A run that a restore reports as restored goes on from an extension of the
\* snapshot's chain and from its policy, also where the store has lost events
\* and grown others since (verifySnapshotPrefix, autoRestore).
RestoredAsReported ==
    \A i \in DOMAIN report :
        report[i].ok /\ up \in {"files", "recover"} =>
            /\ IsPrefix(loaded.stored[report[i].run], stored[report[i].run])
            /\ policy[report[i].run] = loaded.policy[report[i].run]

\* When a restore is through, every run goes on from the snapshot's policy
\* unless its own recovery was refused: a refusal strands no run behind it
\* (autoRestore).
RefusalStrandsNone ==
    loaded.kind = "snapshot" /\ report # <<>> /\ up = "up" /\ ~unwritten =>
        \A r \in Runs : TurnOpen(r) \/ IsPrefix(loaded.policy[r], policy[r])

\* Not so: the same whatever makes a run unusable ("one unusable run cannot
\* strand the others", autoRestore). A policy file that cannot be written
\* rejects the restore, and the runs behind it are not come to.
NoRunStranded ==
    loaded.kind = "snapshot" /\ report # <<>> /\ up = "up" =>
        \A r \in Runs : TurnOpen(r) \/ IsPrefix(loaded.policy[r], policy[r])

\* A signal ends the process, also when the final snapshot cannot be written.
SignalEnds == final # Idle ~> up = "down"

\* A trigger is settled: no failure stops the ones after it.
TriggersSettle == queued > 0 ~> (queued = 0 \/ taken = MaxTaken \/ up = "down")

(* What a snapshot and a restore promise.                                    *)
SnapshotsSafe == SnapshotsTypeOK /\ SnapshotIsACut /\ RestoredAsReported /\ RefusalStrandsNone
=============================================================================
