------------------------------ MODULE Retention ------------------------------
(* The retention job (ops/src/retention.ts): what it decides about a run's   *)
(* bundle, the files it deletes, the tombstone and the chained log entry     *)
(* that record it; jobs that overlap, and a process that ends on the way.    *)
EXTENDS Integers, Sequences, FiniteSets, SequencesExt

CONSTANTS
    Bundles,            \* runs with a bundle
    Purgeable,          \* the bundle entries the job may delete, in order
    Jobs,               \* jobs that may overlap
    MaxExports,         \* bound: exports of a bundle
    MaxStarts,          \* bound: jobs started
    MaxEnds             \* bound: processes that end

ASSUME RetentionAssumption ==
    {MaxExports, MaxStarts, MaxEnds} \subseteq Nat /\ Len(Purgeable) \in Nat \ {0}

VARIABLES
    files,              \* of each bundle: its purgeable entries, by the write that left them
    exports,            \* entries of each bundle that were written
    released,           \* bundles whose PUBLIC-RELEASE.json is a valid marker
    anchored,           \* runs with a mainnet receipt
    expired,            \* runs older than their retention
    tombstone,          \* bundles with RETENTION-PURGED.json
    log,                \* retention-log.jsonl: its lines
    job,                \* each job's place: the bundle, whether it was released or anchored when
                        \* the job took it up (history), the step, what it described and read
    deleted,            \* files that a job deleted
    dropped,            \* files described by a job that ended before its entry was whole in the log
    late,               \* files written behind a job that had described their entry
    overlapped,         \* whether two appends to the log ever overlapped
    starts, ends        \* counters of the bounds

world == <<exports, released, anchored, expired>>
retVars == <<files, world, tombstone, log, job, deleted, dropped, late, overlapped, starts, ends>>

AtRest == [bundle |-> "none", public |-> FALSE, step |-> "rest", todo |-> Bundles, described |-> {}, at |-> 0, last |-> 0]

---------------------------------------------------------------------------
(* The world *)

\* The job has described the entry, and is still to delete it.
HasDescribed(j, b, e) ==
    /\ job[j].bundle = b
    /\ \/ job[j].step = "describe" /\ e < job[j].at
       \/ job[j].step = "remove" /\ job[j].at <= e

\* Re-exporting writes the files again, one by one, whatever the jobs do.
Export(b, e) ==
    /\ exports[b] < MaxExports
    /\ exports' = [exports EXCEPT ![b] = @ + 1]
    /\ files' = [files EXCEPT ![b][e] = exports[b] + 1]
    /\ late' = IF \E j \in Jobs : HasDescribed(j, b, e) THEN late \cup {<<b, e, exports[b] + 1>>} ELSE late
    /\ UNCHANGED <<released, anchored, expired, tombstone, log, job, deleted, dropped, overlapped, starts, ends>>

Declare(b) ==
    /\ \/ released' = released \cup {b} /\ UNCHANGED <<anchored, expired>>
       \/ anchored' = anchored \cup {b} /\ UNCHANGED <<released, expired>>
       \/ expired' = expired \cup {b} /\ UNCHANGED <<released, anchored>>
    /\ UNCHANGED <<files, exports, tombstone, log, job, deleted, dropped, late, overlapped, starts, ends>>

---------------------------------------------------------------------------
(* The job *)

histories == <<deleted, dropped, late, overlapped>>

Start(j) ==
    /\ job[j] = AtRest /\ starts < MaxStarts
    /\ starts' = starts + 1
    /\ job' = [job EXCEPT ![j].step = "next"]
    /\ UNCHANGED <<files, world, tombstone, log, histories, ends>>

\* On to the next run.
Onward(j) == [AtRest EXCEPT !.step = "next", !.todo = job[j].todo]

\* The next run's configuration and checkpoints are read; a young run is passed over.
TakeUp(j) ==
    /\ job[j].step = "next"
    /\ \E b \in job[j].todo :
          job' = [job EXCEPT ![j] =
                IF b \in expired
                THEN [Onward(j) EXCEPT !.todo = @ \ {b}, !.step = "marker", !.bundle = b,
                                       !.public = b \in released \cup anchored]
                ELSE [Onward(j) EXCEPT !.todo = @ \ {b}]]
    /\ UNCHANGED <<files, world, tombstone, log, histories, starts, ends>>

\* The marker, then, an await later, the anchor receipts: a public run is passed over.
ReadMarker(j) ==
    /\ job[j].step = "marker"
    /\ job' = [job EXCEPT ![j] =
          IF job[j].bundle \in released THEN Onward(j) ELSE [job[j] EXCEPT !.step = "receipts"]]
    /\ UNCHANGED <<files, world, tombstone, log, histories, starts, ends>>

ReadReceipts(j) ==
    /\ job[j].step = "receipts"
    /\ job' = [job EXCEPT ![j] =
          IF job[j].bundle \in anchored THEN Onward(j) ELSE [job[j] EXCEPT !.step = "describe", !.at = 1]]
    /\ UNCHANGED <<files, world, tombstone, log, histories, starts, ends>>

\* The files an entry has now, hashed.
FilesOf(b, e) == IF files[b][e] > 0 THEN {<<b, e, files[b][e]>>} ELSE {}

\* One entry after the other.
DescribeEntry(j) ==
    /\ job[j].step = "describe" /\ job[j].at <= Len(Purgeable)
    /\ job' = [job EXCEPT ![j].described = @ \cup FilesOf(job[j].bundle, job[j].at), ![j].at = @ + 1]
    /\ UNCHANGED <<files, world, tombstone, log, histories, starts, ends>>

\* A bundle that has nothing left is passed over.
Decide(j) ==
    /\ job[j].step = "describe" /\ job[j].at > Len(Purgeable)
    /\ job' = [job EXCEPT ![j] =
          IF job[j].described = {} THEN Onward(j) ELSE [job[j] EXCEPT !.step = "remove", !.at = 1]]
    /\ UNCHANGED <<files, world, tombstone, log, histories, starts, ends>>

Done(j) ==
    /\ job[j].step = "next" /\ job[j].todo = {}
    /\ job' = [job EXCEPT ![j] = AtRest]
    /\ UNCHANGED <<files, world, tombstone, log, histories, starts, ends>>

\* One entry after the other.
RemoveEntry(j) ==
    /\ job[j].step = "remove" /\ job[j].at <= Len(Purgeable)
    /\ files' = [files EXCEPT ![job[j].bundle][job[j].at] = 0]
    /\ deleted' = deleted \cup FilesOf(job[j].bundle, job[j].at)
    /\ job' = [job EXCEPT ![j].at = @ + 1]
    /\ UNCHANGED <<world, tombstone, log, dropped, late, overlapped, starts, ends>>

Tombstone(j) ==
    /\ job[j].step = "remove" /\ job[j].at > Len(Purgeable)
    /\ tombstone' = tombstone \cup {job[j].bundle}
    /\ job' = [job EXCEPT ![j].step = "read"]
    /\ UNCHANGED <<files, world, log, histories, starts, ends>>

\* Lines that are entries, and the number of the last one.
EntryLines == {i \in DOMAIN log : log[i].kind = "entry"}

LastSequence ==
    IF EntryLines = {} THEN 0
    ELSE log[CHOOSE i \in EntryLines : \A k \in EntryLines : k <= i].sequence

\* The log is read for the entry to chain to, then appended to.
ReadLog(j) ==
    /\ job[j].step = "read"
    /\ job' = [job EXCEPT ![j].step = "append",
                          ![j].last = LastSequence]
    /\ overlapped' = (overlapped \/ \E k \in Jobs \ {j} : job[k].step = "append")
    /\ UNCHANGED <<files, world, tombstone, log, deleted, dropped, late, starts, ends>>

Line(kind, j) ==
    [kind |-> kind, sequence |-> job[j].last + 1, previous |-> job[j].last, files |-> job[j].described]

\* What is appended behind a torn line becomes part of it.
Swallowed == log # <<>> /\ Last(log).kind = "torn"

Appended(l) ==
    IF Swallowed THEN Append(Front(log), [Last(log) EXCEPT !.kind = "spoilt"]) ELSE Append(log, l)

\* Mutant: the entry names what is still there.
AppendRemaining(j) ==
    /\ job[j].step = "append"
    /\ log' = Appended([Line("entry", j) EXCEPT !.files =
                            UNION {FilesOf(job[j].bundle, e) : e \in 1..Len(Purgeable)}])
    /\ dropped' = IF Swallowed THEN dropped \cup job[j].described ELSE dropped
    /\ job' = [job EXCEPT ![j] = Onward(j)]
    /\ UNCHANGED <<files, world, tombstone, deleted, late, overlapped, starts, ends>>

AppendEntry(j) ==
    /\ job[j].step = "append"
    /\ log' = Appended(Line("entry", j))
    /\ dropped' = IF Swallowed THEN dropped \cup job[j].described ELSE dropped
    /\ job' = [job EXCEPT ![j] = Onward(j)]
    /\ UNCHANGED <<files, world, tombstone, deleted, late, overlapped, starts, ends>>

\* The steps of a job that has decided to purge.
Working == {"remove", "read", "append"}

\* A job throws, or its process ends; a line it was writing may be torn.
End(j) ==
    /\ job[j].step # "rest" /\ ends < MaxEnds
    /\ ends' = ends + 1
    /\ log' \in {log} \cup IF job[j].step = "append" THEN {Appended(Line("torn", j))} ELSE {}
    /\ dropped' = IF job[j].step \in Working THEN dropped \cup job[j].described ELSE dropped
    /\ job' = [job EXCEPT ![j] = AtRest]
    /\ UNCHANGED <<files, world, tombstone, deleted, late, overlapped, starts>>

---------------------------------------------------------------------------

RetentionInit ==
    /\ files = [b \in Bundles |-> [e \in 1..Len(Purgeable) |-> 1]]
    /\ exports = [b \in Bundles |-> 1]
    /\ released = {} /\ anchored = {} /\ expired = {} /\ tombstone = {}
    /\ log = <<>> /\ job = [j \in Jobs |-> AtRest]
    /\ deleted = {} /\ dropped = {} /\ late = {} /\ overlapped = FALSE /\ starts = 0 /\ ends = 0

RetentionNext ==
    \/ \E b \in Bundles : Declare(b) \/ \E e \in 1..Len(Purgeable) : Export(b, e)
    \/ \E j \in Jobs : \/ Start(j) \/ TakeUp(j) \/ ReadMarker(j) \/ ReadReceipts(j)
                       \/ DescribeEntry(j) \/ Decide(j) \/ Done(j)
                       \/ RemoveEntry(j) \/ Tombstone(j) \/ ReadLog(j) \/ AppendEntry(j) \/ End(j)

RetentionSpec == RetentionInit /\ [][RetentionNext]_retVars

---------------------------------------------------------------------------
(* Properties *)

\* No job deletes a file of a run that was released or anchored on mainnet
\* when it took the run up (decideAndPurge).
PublicIsKept ==
    [][\A j \in Jobs : job[j].step = "remove" /\ files' # files /\ job[j] # job'[j]
         => ~job[j].public]_retVars

Traced == UNION {log[i].files : i \in EntryLines}
Underway == UNION {job[j].described : j \in {k \in Jobs : job[k].step \in Working}}

\* Every file that is gone is named by an entry of the log, or by a job that is
\* still to write its entry, whichever of two jobs got to it first; unless that
\* job ended before its entry, a torn line swallowed the entry, or the file was
\* written behind a job that had described its entry (decideAndPurge).
PurgeIsTraced == deleted \subseteq Traced \cup Underway \cup dropped \cup late

\* Not so: every purged file is hashed before its deletion, and named (retention.ts).
PurgeIsHashed == deleted \subseteq Traced \cup Underway \cup dropped

\* The entries that can be read chain to one another, across torn lines and
\* processes that ended, as long as no two jobs append at once
\* (RetentionAuditLog.append, readRetentionLog).
EntriesChain ==
    ~overlapped =>
        \A i \in EntryLines :
            /\ log[i].sequence = Cardinality({k \in EntryLines : k <= i})
            /\ log[i].previous = log[i].sequence - 1

(* What a retention job promises: public records stay, and every purge is    *)
(* in the log.                                                               *)
RetentionSafe == [](PurgeIsTraced /\ EntriesChain) /\ PublicIsKept
=============================================================================
