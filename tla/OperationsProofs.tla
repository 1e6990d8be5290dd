--------------------------- MODULE OperationsProofs ---------------------------
(* Proofs about what works beside the turns: the retention jobs, which trace  *)
(* what they purge; the snapshots, each of one moment of all runs, and what a *)
(* restore puts back.                                                         *)
(* About Collection: what the collection of a stage promises holds for every  *)
(* number of collectors, of slots, of branches, of faults and of deaths       *)
(* (StagesAreCollected). Whoever holds the lock is the only one to write;     *)
(* while a collector works on a slot, the lines of the journal agree with     *)
(* what it has in memory (Agrees), and a journal with its last word is never  *)
(* written again, which is what an audit that takes no lock relies on.        *)
(* And about Dyads: what the journal of the ALA dyads promises, as long as no *)
(* two appends crossed, whoever else was at a dyad (DyadsKeepTheirWord).      *)
EXTENDS Snapshots, Retention, Collection, Dyads, TLAPS, FiniteSetTheorems, SequenceTheorems,
        WellFoundedInduction

---------------------------------------------------------------------------
(* Retention: the jobs and the log *)

\* The greatest of a set of numbers that has a bound.
LEMMA GreatestOf ==
    ASSUME NEW S \in SUBSET Nat, S # {}, NEW n \in Nat, \A i \in S : i <= n
    PROVE  \E i \in S : \A k \in S : k <= i
<1> DEFINE T == {n - i : i \in S}
           R == OpToRel(<, Nat)
<1>0. \A i \in S : n - i \in Nat
  OBVIOUS
<1>1. T \subseteq Nat /\ T # {}
  BY <1>0
<1>2. IsWellFoundedOn(R, Nat)
  BY NatLessThanWellFounded
<1>3. \A x, y \in Nat : x < y => <<x, y>> \in R
  BY DEF OpToRel
<1> HIDE DEF R
<1>4. PICK x \in T : \A y \in T : ~ (<<y, x>> \in R)
  BY <1>1, <1>2, WFMin
<1>5. PICK i \in S : x = n - i
  OBVIOUS
<1>6. ASSUME NEW k \in S PROVE k <= i
  <2>1. n - k \in T /\ n - k \in Nat /\ x \in Nat
    BY <1>1
  <2>2. ~(n - k < x)
    BY <1>3, <1>4, <2>1
  <2> QED BY <1>5, <2>2
<1> QED BY <1>6

Deeds == Bundles \X (1..Len(Purgeable)) \X Nat
LineType ==
    [kind : {"entry", "torn", "spoilt"}, sequence : Nat, previous : Int, files : SUBSET Deeds]
JobType ==
    [bundle : Bundles \cup {"none"}, public : BOOLEAN,
     step : {"rest", "next", "marker", "receipts", "describe", "remove", "read", "append"},
     todo : SUBSET Bundles, described : SUBSET Deeds, at : Nat, last : Nat]

RetentionTypes ==
    /\ files \in [Bundles -> [1..Len(Purgeable) -> Nat]]
    /\ exports \in [Bundles -> Nat]
    /\ log \in Seq(LineType)
    /\ job \in [Jobs -> JobType]
    /\ deleted \subseteq Deeds
    /\ overlapped \in BOOLEAN

\* A job's place: once the marker and the receipts are read, the bundle is not one
\* that was public when the job took it up.
PlaceFits(t) ==
    /\ t.step = "rest" => t = AtRest
    /\ t.step \in {"marker", "receipts", "describe", "remove"} => t.bundle \in Bundles
    /\ t.public =>
        /\ t.step = "marker" => t.bundle \in released \cup anchored
        /\ t.step = "receipts" => t.bundle \in anchored
        /\ t.step \notin {"describe", "remove"}
    /\ t.step \in {"describe", "remove"} => t.at > 0

JobsFit == \A j \in Jobs : PlaceFits(job[j])

\* The job has described the entry, and is still to delete it: what the entry holds
\* now is what the job described, or was written behind it.
Seen(t, b, e) ==
    /\ t.bundle = b
    /\ \/ t.step = "describe" /\ e < t.at
       \/ t.step = "remove" /\ t.at <= e
DescribedFit ==
    \A j \in Jobs, b \in Bundles, e \in 1..Len(Purgeable) :
        Seen(job[j], b, e) => FilesOf(b, e) \subseteq job[j].described \cup late

\* As long as no two jobs are between the read and the append, what a job read is
\* still the number of the last entry.
AppendsFit ==
    ~overlapped =>
        /\ \A j, k \in Jobs : job[j].step = "append" /\ job[k].step = "append" => j = k
        /\ \A j \in Jobs : job[j].step = "append" => job[j].last = LastSequence

\* PurgeIsTraced, file by file.
TracedInv ==
    \A f \in deleted :
        \/ \E i \in EntryLines : f \in log[i].files
        \/ f \in dropped \cup late
        \/ \E j \in Jobs : job[j].step \in Working /\ f \in job[j].described

LEMMA TracedIs == TracedInv => PurgeIsTraced
BY DEF TracedInv, PurgeIsTraced, Working, Traced, Underway

RetentionInv ==
    RetentionTypes /\ JobsFit /\ DescribedFit /\ AppendsFit /\ EntriesChain /\ TracedInv

\* Two ways to append: a line of its own, or the end of a torn one.
LEMMA AppendedEffect ==
    ASSUME log \in Seq(LineType), NEW l \in LineType, log' = Appended(l)
    PROVE  /\ log' \in Seq(LineType)
           /\ \/ ~Swallowed /\ log' = Append(log, l)
              \/ Swallowed /\ EntryLines' = EntryLines /\ \A i \in EntryLines : log'[i] = log[i]
<1>1. CASE Swallowed
  <2> DEFINE n == Len(log)
             spoilt == [Last(log) EXCEPT !.kind = "spoilt"]
  <2>1. n \in Nat \ {0} /\ DOMAIN log = 1..n /\ Last(log) = log[n] /\ log[n] \in LineType
    BY <1>1 DEF Last, Swallowed
  <2>2. spoilt \in LineType /\ spoilt.kind = "spoilt"
    BY <2>1 DEF LineType
  <2>3. /\ Front(log) \in Seq(LineType) /\ Len(Front(log)) = n - 1
        /\ \A i \in 1..(n - 1) : Front(log)[i] = log[i]
    BY <2>1 DEF Front
  <2>4. log' = Append(Front(log), spoilt)
    BY <1>1 DEF Appended
  <2> HIDE DEF spoilt, n
  <2>5. /\ log' \in Seq(LineType) /\ DOMAIN log' = 1..n /\ log'[n] = spoilt
        /\ \A i \in 1..(n - 1) : log'[i] = log[i]
    BY <2>1, <2>2, <2>3, <2>4
  <2>6. n \notin EntryLines
    BY <1>1, <2>1 DEF EntryLines, Swallowed
  <2> QED BY <1>1, <2>1, <2>2, <2>5, <2>6 DEF EntryLines
<1>2. CASE ~Swallowed
  BY <1>2 DEF Appended
<1> QED BY <1>1, <1>2

LEMMA LastSequenceIs ==
    ASSUME log \in Seq(LineType)
    PROVE  \/ EntryLines = {} /\ LastSequence = 0
           \/ \E m \in EntryLines : /\ \A k \in EntryLines : k <= m
                                    /\ LastSequence = log[m].sequence
<1>1. CASE EntryLines = {}
  BY <1>1 DEF LastSequence
<1>2. CASE EntryLines # {}
  <2>1. EntryLines \in SUBSET Nat /\ Len(log) \in Nat /\ \A i \in EntryLines : i <= Len(log)
    BY DEF EntryLines
  <2>2. \E m \in EntryLines : \A k \in EntryLines : k <= m
    BY <1>2, <2>1, GreatestOf
  <2> QED BY <1>2, <2>2 DEF LastSequence
<1> QED BY <1>1, <1>2

\* The entries that are there up to a line.
UpTo(i) == {k \in EntryLines : k <= i}

LEMMA AppendChains ==
    ASSUME log \in Seq(LineType), NEW l \in LineType, log' = Append(log, l),
           l.kind = "entry", l.sequence = LastSequence + 1, l.previous = LastSequence,
           \A i \in EntryLines : /\ log[i].sequence = Cardinality(UpTo(i))
                                 /\ log[i].previous = log[i].sequence - 1
    PROVE  \A i \in EntryLines' : /\ log'[i].sequence = Cardinality({k \in EntryLines' : k <= i})
                                  /\ log'[i].previous = log'[i].sequence - 1
<1> DEFINE n == Len(log) + 1
<1>1. /\ n \in Nat \ {0} /\ DOMAIN log = 1..(n - 1) /\ DOMAIN log' = 1..n
      /\ log'[n] = l /\ \A i \in DOMAIN log : log'[i] = log[i]
  OBVIOUS
<1> HIDE DEF n
<1>2. EntryLines' = EntryLines \cup {n} /\ n \notin EntryLines /\ \A k \in EntryLines : k < n
  BY <1>1 DEF EntryLines
<1>3. EntryLines \in SUBSET Nat /\ IsFiniteSet(EntryLines)
  <2>1. EntryLines \in SUBSET Nat /\ \A k \in EntryLines : k <= n
    BY <1>1 DEF EntryLines
  <2> QED BY <1>1, <2>1, FS_BoundedSetOfNaturals
<1>4. Cardinality(EntryLines) = LastSequence
  <2>1. CASE EntryLines = {} /\ LastSequence = 0
    BY <2>1, FS_EmptySet
  <2>2. CASE \E m \in EntryLines : /\ \A k \in EntryLines : k <= m
                                   /\ LastSequence = log[m].sequence
    <3>1. PICK m \in EntryLines : (\A k \in EntryLines : k <= m) /\ LastSequence = log[m].sequence
      BY <2>2
    <3>2. UpTo(m) = EntryLines
      BY <3>1 DEF UpTo
    <3> QED BY <3>1, <3>2
  <2> QED BY <2>1, <2>2, LastSequenceIs
<1>5. ASSUME NEW i \in EntryLines'
      PROVE  /\ log'[i].sequence = Cardinality({k \in EntryLines' : k <= i})
             /\ log'[i].previous = log'[i].sequence - 1
  <2>1. CASE i \in EntryLines
    <3>1. {k \in EntryLines' : k <= i} = UpTo(i)
      BY <1>2, <1>3, <1>1, <2>1 DEF UpTo
    <3>2. log'[i] = log[i]
      BY <1>1, <2>1 DEF EntryLines
    <3> QED BY <2>1, <3>1, <3>2
  <2>2. CASE i = n
    <3>1. {k \in EntryLines' : k <= i} = EntryLines \cup {n}
      <4>1. n \in Nat /\ EntryLines \subseteq Nat /\ \A k \in EntryLines : k <= n
        BY ONLY <1>1, <1>2, <1>3
      <4>2. ASSUME NEW k \in EntryLines' PROVE k <= i
        <5>1. CASE k \in EntryLines
          BY <2>2, <4>1, <5>1
        <5>2. CASE k = n
          BY <2>2, <4>1, <5>2
        <5> QED BY <1>2, <5>1, <5>2
      <4> QED BY ONLY <1>2, <4>2
    <3>2. Cardinality(EntryLines \cup {n}) = Cardinality(EntryLines) + 1
      BY <1>2, <1>3, FS_AddElement
    <3>3. Cardinality(EntryLines) \in Nat
      BY <1>3, FS_CardinalityType
    <3>4. log'[i] = l
      BY <1>1, <2>2
    <3>5. l.sequence = Cardinality({k \in EntryLines' : k <= i})
      BY <1>4, <3>1, <3>2
    <3> QED BY <1>4, <3>3, <3>4, <3>5
  <2> QED BY <1>2, <2>1, <2>2
<1> QED BY <1>5

\* A step that leaves the log, of the jobs moves j only, and has j append nothing.
LEMMA LogStays ==
    ASSUME AppendsFit, EntriesChain, log' = log, overlapped' = overlapped,
           NEW j \in Jobs, \A k \in Jobs : k # j => job'[k] = job[k],
           job'[j].step # "append"
    PROVE  AppendsFit' /\ EntriesChain'
<1>1. EntryLines' = EntryLines /\ LastSequence' = LastSequence
  BY DEF EntryLines, LastSequence
<1> QED BY <1>1 DEF AppendsFit, EntriesChain

\* What a job's step does to the jobs.
LEMMA JobTo ==
    ASSUME RetentionTypes, NEW j \in Jobs, NEW to \in JobType, job' = [job EXCEPT ![j] = to]
    PROVE  /\ job' \in [Jobs -> JobType] /\ job'[j] = to
           /\ \A k \in Jobs : k # j => job'[k] = job[k]
BY DEF RetentionTypes

\* A job's step that reads only: its new place fits, and what it describes does.
LEMMA JobMoves ==
    ASSUME RetentionInv, NEW j \in Jobs, NEW to \in JobType, job' = [job EXCEPT ![j] = to],
           UNCHANGED <<files, exports, released, anchored, log, deleted, dropped, late, overlapped>>,
           PlaceFits(to), to.step # "append",
           job[j].step \in Working => to.step \in Working /\ to.described = job[j].described,
           \A b \in Bundles, e \in 1..Len(Purgeable) :
                Seen(to, b, e) => FilesOf(b, e) \subseteq to.described \cup late
    PROVE  RetentionInv'
<1>1. /\ job' \in [Jobs -> JobType] /\ job'[j] = to
      /\ \A k \in Jobs : k # j => job'[k] = job[k]
  BY JobTo DEF RetentionInv
<1>2. JobsFit'
  <2>1. \A t : PlaceFits(t)' <=> PlaceFits(t)
    BY DEF PlaceFits
  <2> QED BY <1>1, <2>1 DEF RetentionInv, JobsFit, PlaceFits
<1>3. DescribedFit'
  <2>1. \A b \in Bundles, e \in 1..Len(Purgeable) : FilesOf(b, e)' = FilesOf(b, e)
    BY DEF FilesOf
  <2>2. ASSUME NEW k \in Jobs, NEW b \in Bundles, NEW e \in 1..Len(Purgeable), Seen(job'[k], b, e)
        PROVE  FilesOf(b, e) \subseteq job'[k].described \cup late
    <3>1. CASE k = j
      BY <1>1, <2>2, <3>1
    <3>2. CASE k # j
      BY <1>1, <2>2, <3>2 DEF RetentionInv, DescribedFit
    <3> QED BY <3>1, <3>2
  <2> QED BY <2>1, <2>2 DEF DescribedFit, Seen
<1>4. AppendsFit' /\ EntriesChain'
  BY <1>1, LogStays DEF RetentionInv
<1>5. TracedInv'
  BY <1>1 DEF RetentionInv, TracedInv, EntryLines
<1> QED BY <1>1, <1>2, <1>3, <1>4, <1>5 DEF RetentionInv, RetentionTypes

LEMMA RestType ==
    /\ AtRest \in JobType /\ AtRest.step = "rest" /\ PlaceFits(AtRest)
    /\ \A b, e : ~Seen(AtRest, b, e)
BY DEF AtRest, JobType, PlaceFits, Seen

LEMMA OnwardIs ==
    ASSUME RetentionTypes, NEW j \in Jobs
    PROVE  /\ Onward(j) \in JobType /\ Onward(j).step = "next" /\ PlaceFits(Onward(j))
           /\ \A b, e : ~Seen(Onward(j), b, e)
<1>1. job[j] \in JobType
  BY DEF RetentionTypes
<1> QED BY <1>1 DEF Onward, AtRest, JobType, PlaceFits, Seen

LEMMA OnwardStarts ==
    ASSUME NEW j \in Jobs, job[j] \in JobType
    PROVE  Onward(j) \in JobType /\ Onward(j).step = "next" /\ Onward(j).public = FALSE
BY DEF Onward, AtRest, JobType

LEMMA ExportKeeps ==
    ASSUME RetentionInv, NEW b \in Bundles, NEW e \in 1..Len(Purgeable), Export(b, e)
    PROVE  RetentionInv'
<1> DEFINE deed == <<b, e, exports[b] + 1>>
<1>1. /\ UNCHANGED <<released, anchored, log, job, deleted, dropped, overlapped>>
      /\ files' = [files EXCEPT ![b][e] = exports[b] + 1]
      /\ exports' = [exports EXCEPT ![b] = @ + 1]
      /\ late' = IF \E j \in Jobs : HasDescribed(j, b, e) THEN late \cup {deed} ELSE late
  BY DEF Export
<1>2. /\ exports' \in [Bundles -> Nat] /\ files' \in [Bundles -> [1..Len(Purgeable) -> Nat]]
      /\ files'[b][e] = exports[b] + 1
      /\ \A c \in Bundles, f \in 1..Len(Purgeable) : <<c, f>> # <<b, e>> => files'[c][f] = files[c][f]
  BY <1>1 DEF RetentionInv, RetentionTypes
<1>3. late \subseteq late' /\ ((\E j \in Jobs : Seen(job[j], b, e)) => deed \in late')
  BY <1>1 DEF HasDescribed, Seen
<1>4. JobsFit'
  BY <1>1 DEF RetentionInv, JobsFit, PlaceFits
<1>5. DescribedFit'
  <2> SUFFICES ASSUME NEW j \in Jobs, NEW c \in Bundles, NEW f \in 1..Len(Purgeable), Seen(job[j], c, f)
               PROVE  FilesOf(c, f)' \subseteq job[j].described \cup late'
    BY <1>1 DEF DescribedFit, Seen
  <2>1. CASE c = b /\ f = e
    <3>1. FilesOf(c, f)' \subseteq {deed}
      BY <1>2, <2>1 DEF FilesOf
    <3> QED BY <1>3, <2>1, <3>1
  <2>2. CASE ~(c = b /\ f = e)
    <3>1. FilesOf(c, f)' = FilesOf(c, f)
      BY <1>2, <2>2 DEF FilesOf
    <3> QED BY <1>3, <3>1 DEF RetentionInv, DescribedFit
  <2> QED BY <2>1, <2>2
<1>6. EntryLines' = EntryLines /\ LastSequence' = LastSequence
  BY <1>1 DEF EntryLines, LastSequence
<1>7. TracedInv'
  BY <1>1, <1>3, <1>6 DEF RetentionInv, TracedInv
<1> QED BY <1>1, <1>2, <1>4, <1>5, <1>6, <1>7 DEF RetentionInv, RetentionTypes, AppendsFit, EntriesChain

LEMMA DeclareKeeps ==
    ASSUME RetentionInv, NEW b \in Bundles, Declare(b)
    PROVE  RetentionInv'
<1>1. UNCHANGED <<files, exports, log, job, deleted, dropped, late, overlapped>>
      /\ released \subseteq released' /\ anchored \subseteq anchored'
  BY DEF Declare
<1>2. JobsFit'
  BY <1>1 DEF RetentionInv, JobsFit, PlaceFits
<1>3. EntryLines' = EntryLines /\ LastSequence' = LastSequence /\ DescribedFit'
  BY <1>1 DEF EntryLines, LastSequence, RetentionInv, DescribedFit, FilesOf, Seen
<1> QED BY <1>1, <1>2, <1>3 DEF RetentionInv, RetentionTypes, AppendsFit, EntriesChain, TracedInv

LEMMA StartKeeps ==
    ASSUME RetentionInv, NEW j \in Jobs, Start(j)
    PROVE  RetentionInv'
<1> DEFINE to == [job[j] EXCEPT !.step = "next"]
<1>1. /\ job[j] = AtRest /\ job' = [job EXCEPT ![j] = to]
      /\ UNCHANGED <<files, exports, released, anchored, log, deleted, dropped, late, overlapped>>
  BY DEF Start, world, histories
<1>2. /\ to \in JobType /\ to.step = "next" /\ PlaceFits(to) /\ \A b, e : ~Seen(to, b, e)
  <2>1. to.step = "next" /\ to.public = FALSE
    BY <1>1 DEF AtRest
  <2>2. to \in JobType
    BY <1>1, RestType DEF JobType
  <2> HIDE DEF to
  <2> QED BY <2>1, <2>2 DEF PlaceFits, Seen
<1>3. job[j].step \notin Working
  BY <1>1 DEF AtRest, Working
<1> HIDE DEF to
<1> QED BY <1>1, <1>2, <1>3, JobMoves

LEMMA TakeUpKeeps ==
    ASSUME RetentionInv, NEW j \in Jobs, TakeUp(j)
    PROVE  RetentionInv'
<1>1. /\ job[j].step = "next" /\ job[j] \in JobType
      /\ UNCHANGED <<files, exports, released, anchored, log, deleted, dropped, late, overlapped>>
  BY DEF TakeUp, world, histories, RetentionInv, RetentionTypes
<1>2. PICK b \in job[j].todo :
        job' = [job EXCEPT ![j] =
                  IF b \in expired
                  THEN [Onward(j) EXCEPT !.todo = @ \ {b}, !.step = "marker", !.bundle = b,
                                         !.public = b \in released \cup anchored]
                  ELSE [Onward(j) EXCEPT !.todo = @ \ {b}]]
  BY DEF TakeUp
<1> DEFINE on == [Onward(j) EXCEPT !.todo = @ \ {b}, !.step = "marker", !.bundle = b,
                                   !.public = b \in released \cup anchored]
           pass == [Onward(j) EXCEPT !.todo = @ \ {b}]
<1>3. b \in Bundles
  BY <1>1 DEF JobType
<1>4. /\ on \in JobType /\ on.step = "marker" /\ PlaceFits(on) /\ \A c, e : ~Seen(on, c, e)
  <2> DEFINE open == b \in released \cup anchored
             o == Onward(j)
  <2>0. o \in JobType /\ open \in BOOLEAN
    <3>1. o \in JobType
      BY <1>1, OnwardStarts
    <3>2. open \in BOOLEAN
      OBVIOUS
    <3> QED BY <3>1, <3>2
  <2>1. o.todo \ {b} \in SUBSET Bundles
    <3> HIDE DEF o
    <3> QED BY <2>0 DEF JobType
  <2>2. on = [o EXCEPT !.todo = @ \ {b}, !.step = "marker", !.bundle = b, !.public = open]
    OBVIOUS
  <2> HIDE DEF open, o
  <2>3. /\ on \in JobType /\ on.step = "marker" /\ on.bundle = b /\ on.public = open
    BY <1>3, <2>0, <2>1, <2>2 DEF JobType
  <2> HIDE DEF on
  <2> QED BY <1>3, <2>3 DEF PlaceFits, Seen, open
<1>5. /\ pass \in JobType /\ pass.step = "next" /\ PlaceFits(pass) /\ \A c, e : ~Seen(pass, c, e)
  <2>1. pass \in JobType /\ pass.step = "next" /\ pass.public = FALSE
    BY <1>1, <1>3, OnwardStarts DEF JobType
  <2> HIDE DEF pass
  <2> QED BY <2>1 DEF PlaceFits, Seen
<1>6. job[j].step \notin Working
  BY <1>1 DEF Working
<1>7. job' = [job EXCEPT ![j] = on] \/ job' = [job EXCEPT ![j] = pass]
  BY <1>2
<1> HIDE DEF on, pass
<1> QED BY <1>1, <1>4, <1>5, <1>6, <1>7, JobMoves

LEMMA ReadMarkerKeeps ==
    ASSUME RetentionInv, NEW j \in Jobs, ReadMarker(j)
    PROVE  RetentionInv'
<1> DEFINE to == [job[j] EXCEPT !.step = "receipts"]
<1>1. /\ job[j].step = "marker" /\ job[j] \in JobType /\ PlaceFits(job[j])
      /\ job' = [job EXCEPT ![j] = IF job[j].bundle \in released THEN Onward(j) ELSE to]
      /\ UNCHANGED <<files, exports, released, anchored, log, deleted, dropped, late, overlapped>>
  BY DEF ReadMarker, world, histories, RetentionInv, RetentionTypes, JobsFit
<1>2. job[j].bundle \notin released =>
        /\ to \in JobType /\ to.step = "receipts" /\ PlaceFits(to) /\ \A b, e : ~Seen(to, b, e)
  BY <1>1 DEF JobType, PlaceFits, Seen
<1>3. job[j].step \notin Working
  BY <1>1 DEF Working
<1> HIDE DEF to
<1>4. CASE job[j].bundle \in released
  <2>1. job' = [job EXCEPT ![j] = Onward(j)]
    BY <1>1, <1>4
  <2> QED BY <1>1, <1>3, <2>1, OnwardIs, JobMoves DEF RetentionInv
<1>5. CASE job[j].bundle \notin released
  <2>1. job' = [job EXCEPT ![j] = to]
    BY <1>1, <1>5
  <2> QED BY <1>1, <1>2, <1>3, <1>5, <2>1, JobMoves
<1> QED BY <1>4, <1>5

LEMMA ReadReceiptsKeeps ==
    ASSUME RetentionInv, NEW j \in Jobs, ReadReceipts(j)
    PROVE  RetentionInv'
<1> DEFINE to == [job[j] EXCEPT !.step = "describe", !.at = 1]
<1>1. /\ job[j].step = "receipts" /\ job[j] \in JobType /\ PlaceFits(job[j])
      /\ job' = [job EXCEPT ![j] = IF job[j].bundle \in anchored THEN Onward(j) ELSE to]
      /\ UNCHANGED <<files, exports, released, anchored, log, deleted, dropped, late, overlapped>>
  BY DEF ReadReceipts, world, histories, RetentionInv, RetentionTypes, JobsFit
<1>2. job[j].bundle \notin anchored =>
        /\ to \in JobType /\ to.step = "describe" /\ PlaceFits(to)
        /\ \A b \in Bundles, e \in 1..Len(Purgeable) : ~Seen(to, b, e)
  <2>1. /\ to \in JobType /\ to.step = "describe" /\ to.at = 1
        /\ to.bundle = job[j].bundle /\ to.public = job[j].public
    BY <1>1 DEF JobType
  <2> HIDE DEF to
  <2>2. Len(Purgeable) \in Nat
    BY RetentionAssumption
  <2> QED BY <1>1, <2>1, <2>2 DEF PlaceFits, Seen
<1>3. job[j].step \notin Working
  BY <1>1 DEF Working
<1> HIDE DEF to
<1>4. CASE job[j].bundle \in anchored
  <2>1. job' = [job EXCEPT ![j] = Onward(j)]
    BY <1>1, <1>4
  <2> QED BY <1>1, <1>3, <2>1, OnwardIs, JobMoves DEF RetentionInv
<1>5. CASE job[j].bundle \notin anchored
  <2>1. job' = [job EXCEPT ![j] = to]
    BY <1>1, <1>5
  <2> QED BY <1>1, <1>2, <1>3, <1>5, <2>1, JobMoves
<1> QED BY <1>4, <1>5

LEMMA DescribeEntryKeeps ==
    ASSUME RetentionInv, NEW j \in Jobs, DescribeEntry(j)
    PROVE  RetentionInv'
<1> DEFINE b == job[j].bundle
           e == job[j].at
           to == [job[j] EXCEPT !.described = job[j].described \cup FilesOf(b, e), !.at = e + 1]
<1>1. /\ job[j].step = "describe" /\ job[j] \in JobType /\ PlaceFits(job[j]) /\ e <= Len(Purgeable)
      /\ job' = [job EXCEPT ![j] = to]
      /\ UNCHANGED <<files, exports, released, anchored, log, deleted, dropped, late, overlapped>>
  BY DEF DescribeEntry, world, histories, RetentionInv, RetentionTypes, JobsFit
<1>2. b \in Bundles /\ e \in 1..Len(Purgeable) /\ e \in Nat /\ ~job[j].public
  BY <1>1 DEF PlaceFits, JobType
<1>3. FilesOf(b, e) \in SUBSET Deeds
  BY <1>2 DEF FilesOf, Deeds, RetentionInv, RetentionTypes
<1>4. /\ to \in JobType /\ to.step = "describe" /\ to.bundle = b /\ to.at = e + 1 /\ ~to.public
      /\ to.described = job[j].described \cup FilesOf(b, e)
  <2> HIDE DEF b, e
  <2>1. b = job[j].bundle /\ e = job[j].at
    BY DEF b, e
  <2>2. job[j].at \in Nat /\ job[j].at + 1 \in Nat
    BY <1>1 DEF JobType
  <2>3. job[j].described \cup FilesOf(b, e) \in SUBSET Deeds
    BY <1>1, <1>3 DEF JobType
  <2> QED BY <1>1, <1>2, <2>1, <2>2, <2>3 DEF JobType
<1>5. job[j].step \notin Working
  BY <1>1 DEF Working
<1> HIDE DEF to
<1>6. PlaceFits(to)
  BY <1>2, <1>4 DEF PlaceFits
<1>7. ASSUME NEW c \in Bundles, NEW f \in 1..Len(Purgeable), Seen(to, c, f)
      PROVE  FilesOf(c, f) \subseteq to.described \cup late
  <2>1. c = b /\ f < e + 1
    BY <1>4, <1>7 DEF Seen
  <2>2. CASE f = e
    BY <1>4, <2>1, <2>2
  <2>3. CASE f < e
    <3>1. Seen(job[j], c, f)
      BY <1>1, <2>1, <2>3 DEF Seen
    <3> QED BY <1>4, <3>1 DEF RetentionInv, DescribedFit
  <2> QED BY <1>2, <2>1, <2>2, <2>3
<1> QED BY <1>1, <1>4, <1>5, <1>6, <1>7, JobMoves

LEMMA DecideKeeps ==
    ASSUME RetentionInv, NEW j \in Jobs, Decide(j)
    PROVE  RetentionInv'
<1> DEFINE to == [job[j] EXCEPT !.step = "remove", !.at = 1]
<1>1. /\ job[j].step = "describe" /\ job[j] \in JobType /\ PlaceFits(job[j]) /\ job[j].at > Len(Purgeable)
      /\ job' = [job EXCEPT ![j] = IF job[j].described = {} THEN Onward(j) ELSE to]
      /\ UNCHANGED <<files, exports, released, anchored, log, deleted, dropped, late, overlapped>>
  BY DEF Decide, world, histories, RetentionInv, RetentionTypes, JobsFit
<1>2. /\ to \in JobType /\ to.step = "remove" /\ PlaceFits(to) /\ to.described = job[j].described
      /\ to.bundle = job[j].bundle
  <2>1. /\ to \in JobType /\ to.step = "remove" /\ to.described = job[j].described /\ to.at = 1
        /\ to.bundle = job[j].bundle /\ to.public = job[j].public
    BY <1>1 DEF JobType
  <2> HIDE DEF to
  <2> QED BY <1>1, <2>1 DEF PlaceFits
<1>3. job[j].step \notin Working
  BY <1>1 DEF Working
<1> HIDE DEF to
<1>4. ASSUME NEW c \in Bundles, NEW f \in 1..Len(Purgeable), Seen(to, c, f)
      PROVE  FilesOf(c, f) \subseteq to.described \cup late
  <2>1. job[j].at \in Nat /\ Len(Purgeable) \in Nat
    BY <1>1, RetentionAssumption DEF JobType
  <2>2. Seen(job[j], c, f)
    BY <1>1, <1>2, <1>4, <2>1 DEF Seen
  <2> QED BY <1>2, <2>2 DEF RetentionInv, DescribedFit
<1>5. CASE job[j].described = {}
  <2>1. job' = [job EXCEPT ![j] = Onward(j)]
    BY <1>1, <1>5
  <2> QED BY <1>1, <1>3, <2>1, OnwardIs, JobMoves DEF RetentionInv
<1>6. CASE job[j].described # {}
  <2>1. job' = [job EXCEPT ![j] = to]
    BY <1>1, <1>6
  <2> QED BY <1>1, <1>2, <1>3, <1>4, <2>1, JobMoves
<1> QED BY <1>5, <1>6

LEMMA DoneKeeps ==
    ASSUME RetentionInv, NEW j \in Jobs, Done(j)
    PROVE  RetentionInv'
<1>1. /\ job[j].step \notin Working /\ job' = [job EXCEPT ![j] = AtRest]
      /\ UNCHANGED <<files, exports, released, anchored, log, deleted, dropped, late, overlapped>>
  BY DEF Done, world, histories, Working
<1> QED BY <1>1, RestType, JobMoves

LEMMA TombstoneKeeps ==
    ASSUME RetentionInv, NEW j \in Jobs, Tombstone(j)
    PROVE  RetentionInv'
<1> DEFINE to == [job[j] EXCEPT !.step = "read"]
<1>1. /\ job[j].step = "remove" /\ job[j] \in JobType /\ job' = [job EXCEPT ![j] = to]
      /\ UNCHANGED <<files, exports, released, anchored, log, deleted, dropped, late, overlapped>>
  BY DEF Tombstone, world, histories, RetentionInv, RetentionTypes
<1>2. /\ to \in JobType /\ to.step = "read" /\ PlaceFits(to) /\ to.described = job[j].described
      /\ \A b, e : ~Seen(to, b, e)
  BY <1>1 DEF JobType, PlaceFits, Seen
<1>3. to.step \in Working
  BY <1>2 DEF Working
<1> HIDE DEF to
<1> QED BY <1>1, <1>2, <1>3, JobMoves

LEMMA RemoveEntryKeeps ==
    ASSUME RetentionInv, NEW j \in Jobs, RemoveEntry(j)
    PROVE  RetentionInv'
<1> DEFINE b == job[j].bundle
           e == job[j].at
           to == [job[j] EXCEPT !.at = e + 1]
<1>1. /\ UNCHANGED <<exports, released, anchored, log, dropped, late, overlapped>>
      /\ job[j].step = "remove" /\ job[j] \in JobType /\ PlaceFits(job[j]) /\ e <= Len(Purgeable)
      /\ job' = [job EXCEPT ![j] = to]
      /\ files' = [files EXCEPT ![b][e] = 0]
      /\ deleted' = deleted \cup FilesOf(b, e)
  BY DEF RemoveEntry, world, RetentionInv, RetentionTypes, JobsFit
<1>2. b \in Bundles /\ e \in 1..Len(Purgeable) /\ e \in Nat /\ ~job[j].public
  BY <1>1 DEF PlaceFits, JobType
<1>3. FilesOf(b, e) \subseteq job[j].described \cup late /\ FilesOf(b, e) \subseteq Deeds
  <2>1. Seen(job[j], b, e)
    BY <1>1, <1>2 DEF Seen
  <2> QED BY <1>2, <2>1 DEF RetentionInv, DescribedFit, FilesOf, Deeds, RetentionTypes
<1>4. /\ to \in JobType /\ to.at = e + 1 /\ to.step = "remove" /\ to.bundle = b
      /\ to.described = job[j].described /\ ~to.public
  <2> HIDE DEF b, e
  <2>1. b = job[j].bundle /\ e = job[j].at
    BY DEF b, e
  <2> QED BY <1>1, <1>2, <2>1 DEF JobType
<1> HIDE DEF to
<1>5. /\ job' \in [Jobs -> JobType] /\ job'[j] = to
      /\ \A k \in Jobs : k # j => job'[k] = job[k]
  BY <1>1, <1>4, JobTo DEF RetentionInv
<1>6. /\ files' \in [Bundles -> [1..Len(Purgeable) -> Nat]]
      /\ \A c \in Bundles, f \in 1..Len(Purgeable) : files'[c][f] = files[c][f] \/ files'[c][f] = 0
  BY <1>1, <1>2 DEF RetentionInv, RetentionTypes
<1>7. JobsFit'
  <2>1. PlaceFits(to)
    BY <1>2, <1>4 DEF PlaceFits
  <2>2. \A k \in Jobs : PlaceFits(job'[k])
    BY <1>5, <2>1 DEF RetentionInv, JobsFit
  <2> QED BY <1>1, <2>2 DEF JobsFit, PlaceFits
<1>8. DescribedFit'
  <2> SUFFICES ASSUME NEW k \in Jobs, NEW c \in Bundles, NEW f \in 1..Len(Purgeable), Seen(job'[k], c, f)
               PROVE  FilesOf(c, f)' \subseteq job'[k].described \cup late
    BY <1>1 DEF DescribedFit, Seen
  <2>1. FilesOf(c, f)' \subseteq FilesOf(c, f)
    BY <1>6 DEF FilesOf
  <2>2. Seen(job[k], c, f) /\ job'[k].described = job[k].described
    <3>1. CASE k = j
      BY <1>1, <1>2, <1>4, <1>5, <3>1 DEF Seen
    <3>2. CASE k # j
      BY <1>5, <3>2
    <3> QED BY <3>1, <3>2
  <2> QED BY <2>1, <2>2 DEF RetentionInv, DescribedFit
<1>9. AppendsFit' /\ EntriesChain'
  BY <1>1, <1>4, <1>5, LogStays DEF RetentionInv
<1>10. TracedInv'
  <2>1. \A k \in Jobs : job'[k].step = job[k].step /\ job'[k].described = job[k].described
    BY <1>1, <1>4, <1>5
  <2>2. \A f \in deleted' : f \in deleted \/ f \in job[j].described \/ f \in late
    BY <1>1, <1>3
  <2>3. job[j].step \in Working
    BY <1>1 DEF Working
  <2> QED BY <1>1, <2>1, <2>2, <2>3 DEF RetentionInv, TracedInv, EntryLines
<1>11. deleted' \subseteq Deeds
  BY <1>1, <1>3 DEF RetentionInv, RetentionTypes
<1> QED BY <1>1, <1>5, <1>6, <1>7, <1>8, <1>9, <1>10, <1>11 DEF RetentionInv, RetentionTypes

LEMMA ReadLogKeeps ==
    ASSUME RetentionInv, NEW j \in Jobs, ReadLog(j)
    PROVE  RetentionInv'
<1> DEFINE to == [job[j] EXCEPT !.step = "append", !.last = LastSequence]
<1>1. /\ UNCHANGED <<files, exports, released, anchored, log, deleted, dropped, late>>
      /\ job[j].step = "read" /\ job[j] \in JobType /\ job' = [job EXCEPT ![j] = to]
      /\ overlapped' = (overlapped \/ \E k \in Jobs \ {j} : job[k].step = "append")
  BY DEF ReadLog, world, RetentionInv, RetentionTypes
<1>2. LastSequence \in Nat
  <2>1. log \in Seq(LineType)
    BY DEF RetentionInv, RetentionTypes
  <2>2. \A m \in EntryLines : log[m] \in LineType
    BY <2>1 DEF EntryLines
  <2>3. \A m \in EntryLines : log[m].sequence \in Nat
    BY <2>2 DEF LineType
  <2> QED BY <2>1, <2>3, LastSequenceIs
<1>3. /\ to \in JobType /\ to.step = "append" /\ to.last = LastSequence
      /\ to.described = job[j].described /\ PlaceFits(to) /\ \A b, e : ~Seen(to, b, e)
  BY <1>1, <1>2 DEF JobType, PlaceFits, Seen
<1> HIDE DEF to
<1>4. /\ job' \in [Jobs -> JobType] /\ job'[j] = to
      /\ \A k \in Jobs : k # j => job'[k] = job[k]
  BY <1>1, <1>3, JobTo DEF RetentionInv
<1>5. JobsFit' /\ DescribedFit'
  <2>1. JobsFit'
    <3>1. \A k \in Jobs : PlaceFits(job'[k])
      BY <1>3, <1>4 DEF RetentionInv, JobsFit
    <3> QED BY <1>1, <3>1 DEF JobsFit, PlaceFits
  <2>2. DescribedFit'
    <3>1. ASSUME NEW k \in Jobs, NEW b \in Bundles, NEW e \in 1..Len(Purgeable), Seen(job'[k], b, e)
          PROVE  FilesOf(b, e) \subseteq job'[k].described \cup late
      BY <1>3, <1>4, <3>1 DEF RetentionInv, DescribedFit
    <3> QED BY <1>1, <3>1 DEF DescribedFit, FilesOf, Seen
  <2> QED BY <2>1, <2>2
<1>6. EntryLines' = EntryLines /\ LastSequence' = LastSequence
  BY <1>1 DEF EntryLines, LastSequence
<1>7. ~overlapped' => ~overlapped /\ \A k \in Jobs : k # j => job[k].step # "append"
  BY <1>1
<1>8. AppendsFit' /\ EntriesChain'
  BY <1>1, <1>3, <1>4, <1>6, <1>7 DEF RetentionInv, AppendsFit, EntriesChain
<1>9. TracedInv'
  BY <1>1, <1>3, <1>4, <1>6 DEF RetentionInv, TracedInv, Working
<1>10. overlapped' \in BOOLEAN
  BY <1>1 DEF RetentionInv, RetentionTypes
<1> QED BY <1>1, <1>4, <1>5, <1>8, <1>9, <1>10 DEF RetentionInv, RetentionTypes

LEMMA LineIs ==
    ASSUME RetentionTypes, NEW j \in Jobs, NEW kind \in {"entry", "torn"}
    PROVE  /\ Line(kind, j) \in LineType /\ Line(kind, j).kind = kind
           /\ Line(kind, j).sequence = job[j].last + 1 /\ Line(kind, j).previous = job[j].last
           /\ Line(kind, j).files = job[j].described
<1>1. job[j] \in JobType
  BY DEF RetentionTypes
<1> QED BY <1>1 DEF Line, LineType, JobType

\* A step that leaves the files, and has a job describe nothing any more.
LEMMA DescribedStay ==
    ASSUME RetentionInv, NEW j \in Jobs, NEW to \in JobType, UNCHANGED <<files, released, anchored, late>>,
           job' \in [Jobs -> JobType], job'[j] = to, \A k \in Jobs : k # j => job'[k] = job[k],
           PlaceFits(to), \A b, e : ~Seen(to, b, e)
    PROVE  JobsFit' /\ DescribedFit'
<1>1. JobsFit'
  <2>1. \A k \in Jobs : PlaceFits(job'[k])
    BY DEF RetentionInv, JobsFit
  <2> QED BY <2>1 DEF JobsFit, PlaceFits
<1>2. DescribedFit'
  <2>1. ASSUME NEW k \in Jobs, NEW b \in Bundles, NEW e \in 1..Len(Purgeable), Seen(job'[k], b, e)
        PROVE  FilesOf(b, e) \subseteq job'[k].described \cup late
    BY <2>1 DEF RetentionInv, DescribedFit
  <2> QED BY <2>1 DEF DescribedFit, FilesOf, Seen
<1> QED BY <1>1, <1>2

LEMMA AppendEntryKeeps ==
    ASSUME RetentionInv, NEW j \in Jobs, AppendEntry(j)
    PROVE  RetentionInv'
<1>1. /\ UNCHANGED <<files, exports, released, anchored, deleted, late, overlapped>>
      /\ job[j].step = "append" /\ job[j] \in JobType /\ log \in Seq(LineType)
      /\ job' = [job EXCEPT ![j] = Onward(j)]
      /\ log' = Appended(Line("entry", j))
      /\ dropped \subseteq dropped' /\ (Swallowed => job[j].described \subseteq dropped')
  BY DEF AppendEntry, world, RetentionInv, RetentionTypes
<1>2. PICK to \in JobType : /\ to = Onward(j) /\ to.step = "next" /\ PlaceFits(to)
                            /\ \A b, e : ~Seen(to, b, e)
  BY OnwardIs DEF RetentionInv
<1>3. /\ job' \in [Jobs -> JobType] /\ job'[j] = to
      /\ \A k \in Jobs : k # j => job'[k] = job[k]
  BY <1>1, <1>2, JobTo DEF RetentionInv
<1>4. JobsFit' /\ DescribedFit'
  BY <1>1, <1>2, <1>3, DescribedStay
<1>5. PICK l \in LineType :
        /\ l = Line("entry", j) /\ l.kind = "entry" /\ l.sequence = job[j].last + 1
        /\ l.previous = job[j].last /\ l.files = job[j].described
  BY LineIs DEF RetentionInv
<1>6. /\ log' \in Seq(LineType)
      /\ \/ ~Swallowed /\ log' = Append(log, l)
         \/ Swallowed /\ EntryLines' = EntryLines /\ \A i \in EntryLines : log'[i] = log[i]
  BY <1>1, <1>5, AppendedEffect
<1>7. AppendsFit'
  BY <1>1, <1>2, <1>3 DEF RetentionInv, AppendsFit
<1>8. EntriesChain'
  <2> SUFFICES ASSUME ~overlapped'
               PROVE  \A i \in EntryLines' :
                        /\ log'[i].sequence = Cardinality({k \in EntryLines' : k <= i})
                        /\ log'[i].previous = log'[i].sequence - 1
    BY DEF EntriesChain
  <2>1. /\ job[j].last = LastSequence
        /\ \A i \in EntryLines : /\ log[i].sequence = Cardinality(UpTo(i))
                                 /\ log[i].previous = log[i].sequence - 1
    BY <1>1 DEF RetentionInv, AppendsFit, EntriesChain, UpTo
  <2>2. CASE log' = Append(log, l)
    BY <1>1, <1>5, <2>1, <2>2, AppendChains
  <2>3. CASE EntryLines' = EntryLines /\ \A i \in EntryLines : log'[i] = log[i]
    BY <2>1, <2>3 DEF UpTo
  <2> QED BY <1>6, <2>2, <2>3
<1>9. TracedInv'
  <2>1. CASE log' = Append(log, l)
    <3>1. /\ \A i \in DOMAIN log : i \in DOMAIN log' /\ log'[i] = log[i]
          /\ Len(log) + 1 \in DOMAIN log' /\ log'[Len(log) + 1] = l
      BY <1>1, <2>1
    <3>2. /\ \A i \in EntryLines : i \in EntryLines' /\ log'[i] = log[i]
          /\ Len(log) + 1 \in EntryLines'
      BY <1>5, <3>1 DEF EntryLines
    <3> QED BY <1>1, <1>3, <1>5, <3>1, <3>2 DEF RetentionInv, TracedInv
  <2>2. CASE Swallowed /\ EntryLines' = EntryLines /\ \A i \in EntryLines : log'[i] = log[i]
    BY <1>1, <1>3, <2>2 DEF RetentionInv, TracedInv
  <2> QED BY <1>6, <2>1, <2>2
<1> QED BY <1>1, <1>3, <1>4, <1>6, <1>7, <1>8, <1>9 DEF RetentionInv, RetentionTypes

LEMMA EndKeeps ==
    ASSUME RetentionInv, NEW j \in Jobs, End(j)
    PROVE  RetentionInv'
<1>1. /\ UNCHANGED <<files, exports, released, anchored, deleted, late, overlapped>>
      /\ job[j] \in JobType /\ log \in Seq(LineType)
      /\ job' = [job EXCEPT ![j] = AtRest]
      /\ dropped \subseteq dropped' /\ (job[j].step \in Working => job[j].described \subseteq dropped')
      /\ \/ log' = log
         \/ job[j].step = "append" /\ log' = Appended(Line("torn", j))
  <2>1. log' \in {log} \cup IF job[j].step = "append" THEN {Appended(Line("torn", j))} ELSE {}
    BY DEF End
  <2>2. /\ UNCHANGED <<files, exports, released, anchored, deleted, late, overlapped>>
        /\ dropped' = IF job[j].step \in Working THEN dropped \cup job[j].described ELSE dropped
        /\ job' = [job EXCEPT ![j] = AtRest]
    BY DEF End, world
  <2>3. job[j] \in JobType /\ log \in Seq(LineType)
    BY DEF RetentionInv, RetentionTypes
  <2> QED BY <2>1, <2>2, <2>3
<1>2. /\ job' \in [Jobs -> JobType] /\ job'[j] = AtRest
      /\ \A k \in Jobs : k # j => job'[k] = job[k]
  BY <1>1, JobTo, RestType DEF RetentionInv
<1>3. JobsFit' /\ DescribedFit'
  BY <1>1, <1>2, RestType, DescribedStay
<1>4. EntryLines' = EntryLines /\ log' \in Seq(LineType) /\ \A i \in EntryLines : log'[i] = log[i]
  <2>1. CASE log' = log
    BY <1>1, <2>1 DEF EntryLines
  <2>2. CASE log' = Appended(Line("torn", j))
    <3>1. PICK l \in LineType : l = Line("torn", j) /\ l.kind = "torn"
      BY LineIs DEF RetentionInv
    <3>2. /\ log' \in Seq(LineType)
          /\ \/ log' = Append(log, l)
             \/ EntryLines' = EntryLines /\ \A i \in EntryLines : log'[i] = log[i]
      BY <1>1, <2>2, <3>1, AppendedEffect
    <3>3. CASE log' = Append(log, l)
      <4> DEFINE n == Len(log)
      <4>2. n \in Nat /\ DOMAIN log = 1..n /\ DOMAIN log' = 1..(n + 1) /\ log'[n + 1] = l
            /\ \A i \in 1..n : log'[i] = log[i]
        BY <1>1, <3>3
      <4> HIDE DEF n
      <4>1. /\ DOMAIN log' = DOMAIN log \cup {n + 1} /\ log'[n + 1] = l
            /\ \A i \in DOMAIN log : log'[i] = log[i]
        BY <4>2
      <4> QED BY <3>1, <3>2, <4>1 DEF EntryLines
    <3> QED BY <3>2, <3>3
  <2> QED BY <1>1, <2>1, <2>2
<1>5. TracedInv'
  BY <1>1, <1>2, <1>4 DEF RetentionInv, TracedInv
<1>6. EntriesChain'
  BY <1>1, <1>4 DEF RetentionInv, EntriesChain
<1>7. AppendsFit'
  <2>1. CASE log' = log
    BY <1>1, <1>2, <2>1, LogStays, RestType DEF RetentionInv
  <2>2. CASE job[j].step = "append"
    BY <1>1, <1>2, <2>2, RestType DEF RetentionInv, AppendsFit
  <2> QED BY <1>1, <2>1, <2>2
<1> QED BY <1>1, <1>2, <1>3, <1>4, <1>5, <1>6, <1>7 DEF RetentionInv, RetentionTypes

LEMMA RetentionKeeps == RetentionInv /\ [RetentionNext]_retVars => RetentionInv'
<1> SUFFICES ASSUME RetentionInv, [RetentionNext]_retVars PROVE RetentionInv'
  OBVIOUS
<1>1. CASE UNCHANGED retVars
  <2>1. /\ UNCHANGED <<files, exports, released, anchored, log, job, deleted>>
        /\ UNCHANGED <<dropped, late, overlapped>>
    BY <1>1 DEF retVars, world
  <2>2. EntryLines' = EntryLines /\ LastSequence' = LastSequence
    BY <2>1 DEF EntryLines, LastSequence
  <2>3. RetentionTypes' /\ JobsFit' /\ DescribedFit'
    BY <2>1 DEF RetentionInv, RetentionTypes, JobsFit, PlaceFits, DescribedFit, FilesOf, Seen
  <2>4. AppendsFit' /\ EntriesChain'
    BY <2>1, <2>2 DEF RetentionInv, AppendsFit, EntriesChain
  <2>5. TracedInv'
    BY <2>1, <2>2 DEF RetentionInv, TracedInv
  <2> QED BY <2>3, <2>4, <2>5 DEF RetentionInv
<1>2. CASE \E b \in Bundles : Declare(b) \/ \E e \in 1..Len(Purgeable) : Export(b, e)
  BY <1>2, DeclareKeeps, ExportKeeps
<1>3. ASSUME NEW j \in Jobs,
             \/ Start(j) \/ TakeUp(j) \/ ReadMarker(j) \/ ReadReceipts(j) \/ DescribeEntry(j)
             \/ Decide(j) \/ Done(j) \/ RemoveEntry(j) \/ Tombstone(j) \/ ReadLog(j)
             \/ AppendEntry(j) \/ End(j)
      PROVE  RetentionInv'
  BY <1>3, StartKeeps, TakeUpKeeps, ReadMarkerKeeps, ReadReceiptsKeeps, DescribeEntryKeeps,
     DecideKeeps, DoneKeeps, RemoveEntryKeeps, TombstoneKeeps, ReadLogKeeps, AppendEntryKeeps, EndKeeps
<1> QED BY <1>1, <1>2, <1>3 DEF RetentionNext

\* However many jobs overlap, whatever is exported meanwhile and wherever they end: what
\* is purged is in the log unless its entry could not be written whole or the file was
\* written behind the job that described its entry, the entries chain as long as no two
\* jobs append at once, and no file goes that was public when its job took the run up.
THEOREM PurgesAreTraced == RetentionSpec => RetentionSafe
<1>1. RetentionInit => RetentionInv
  <2> SUFFICES ASSUME RetentionInit PROVE RetentionInv
    OBVIOUS
  <2>1. RetentionTypes
    <3>1. /\ files \in [Bundles -> [1..Len(Purgeable) -> Nat]]
          /\ exports \in [Bundles -> Nat]
      BY DEF RetentionInit
    <3>2. log \in Seq(LineType) /\ overlapped \in BOOLEAN
      <4>1. log = <<>> /\ overlapped = FALSE
        BY DEF RetentionInit
      <4>2. <<>> \in Seq(LineType)
        OBVIOUS
      <4> QED BY <4>1, <4>2, Zenon
    <3>3. job \in [Jobs -> JobType]
      BY RestType DEF RetentionInit
    <3>4. deleted \subseteq Deeds
      BY DEF RetentionInit
    <3> QED BY <3>1, <3>2, <3>3, <3>4 DEF RetentionTypes
  <2>2. JobsFit /\ DescribedFit
    BY RestType DEF RetentionInit, JobsFit, DescribedFit
  <2> QED BY <2>1, <2>2, RestType DEF RetentionInit, RetentionInv, AppendsFit, EntriesChain,
             TracedInv, EntryLines
<1>2. RetentionInv => PurgeIsTraced /\ EntriesChain
  BY TracedIs DEF RetentionInv
<1>3. RetentionInv /\ [RetentionNext]_retVars =>
        [\A j \in Jobs : job[j].step = "remove" /\ files' # files /\ job[j] # job'[j]
            => ~job[j].public]_retVars
  BY DEF RetentionInv, JobsFit, PlaceFits
<1> QED BY <1>1, <1>2, <1>3, RetentionKeeps, PTL DEF RetentionSpec, RetentionSafe, PublicIsKept

---------------------------------------------------------------------------
(* Snapshots: what is written, and what a restore reads back *)

\* Ids given so far, in the order in which a run got them.
Ids(n) == {q \in Seq(Nat) : Len(q) <= n /\ \A i \in 1..Len(q) : q[i] <= n}

LEMMA IdsAre ==
    ASSUME NEW n \in Nat
    PROVE  /\ <<>> \in Ids(n)
           /\ \A q \in Ids(n) : /\ q \in Ids(n + 1) /\ Append(q, n + 1) \in Ids(n + 1)
                                /\ q \in Seq(Nat) /\ Len(q) <= n /\ \A i \in 1..Len(q) : q[i] <= n
<1>1. <<>> \in Ids(n)
  BY DEF Ids
<1>2. ASSUME NEW q \in Ids(n)
      PROVE  /\ q \in Ids(n + 1) /\ Append(q, n + 1) \in Ids(n + 1)
             /\ q \in Seq(Nat) /\ Len(q) <= n /\ \A i \in 1..Len(q) : q[i] <= n
  <2> DEFINE a == Append(q, n + 1)
             l == Len(q)
  <2>1. q \in Seq(Nat) /\ Len(q) <= n /\ \A i \in 1..Len(q) : q[i] <= n
    BY DEF Ids
  <2>2. /\ a \in Seq(Nat) /\ Len(a) = l + 1 /\ a[l + 1] = n + 1
        /\ \A i \in 1..l : a[i] = q[i]
    BY <2>1
  <2>3. l \in Nat
    BY <2>1
  <2>4. a \in Ids(n + 1)
    <3> HIDE DEF a
    <3>1. l <= n /\ \A i \in 1..l : q[i] <= n
      BY <2>1
    <3> HIDE DEF l
    <3>2. ASSUME NEW i \in 1..(l + 1) PROVE a[i] <= n + 1
      <4>1. CASE i = l + 1
        BY <2>2, <4>1
      <4>2. CASE i \in 1..l
        <5>1. q[i] \in Nat
          BY <2>1, <4>2 DEF l
        <5> QED BY <2>2, <3>1, <4>2, <5>1
      <4> QED BY <2>3, <4>1, <4>2
    <3> QED BY <2>2, <2>3, <3>1, <3>2 DEF Ids
  <2>5. q \in Ids(n + 1)
    BY <2>1, <2>3 DEF Ids
  <2> QED BY <2>1, <2>4, <2>5
<1> QED BY <1>1, <1>2

LEMMA IdsCut ==
    ASSUME NEW n \in Nat, NEW q \in Ids(n), NEW k \in 0..Len(q)
    PROVE  SubSeq(q, 1, k) \in Ids(n)
<1>1. q \in Seq(Nat) /\ Len(q) \in Nat /\ Len(q) <= n /\ \A i \in 1..Len(q) : q[i] <= n
  BY DEF Ids
<1>2. /\ SubSeq(q, 1, k) \in Seq(Nat) /\ Len(SubSeq(q, 1, k)) = k
      /\ \A i \in 1..k : SubSeq(q, 1, k)[i] = q[i]
  BY <1>1
<1> DEFINE a == SubSeq(q, 1, k)
<1> HIDE DEF a
<1>3. a \in Seq(Nat) /\ Len(a) = k /\ k <= n /\ \A i \in 1..k : a[i] <= n
  BY <1>1, <1>2 DEF a
<1>4. a \in Ids(n)
  BY <1>3 DEF Ids
<1> QED BY <1>4 DEF a

\* A prefix, place by place.
LEMMA PrefixIs ==
    ASSUME NEW s \in Seq(Nat), NEW t \in Seq(Nat)
    PROVE  IsPrefix(s, t) <=> Len(s) <= Len(t) /\ \A i \in 1..Len(s) : s[i] = t[i]
<1>1. ASSUME Len(s) <= Len(t)
      PROVE  /\ SubSeq(s, 1, Len(s)) \in Seq(Nat) /\ Len(SubSeq(s, 1, Len(s))) = Len(s)
             /\ \A i \in 1..Len(s) : SubSeq(s, 1, Len(s))[i] = s[i]
             /\ SubSeq(t, 1, Len(s)) \in Seq(Nat) /\ Len(SubSeq(t, 1, Len(s))) = Len(s)
             /\ \A i \in 1..Len(s) : SubSeq(t, 1, Len(s))[i] = t[i]
  BY <1>1
<1>2. CASE Len(s) <= Len(t)
  <2> DEFINE a == SubSeq(s, 1, Len(s))
             b == SubSeq(t, 1, Len(s))
             n == Len(s)
  <2>1. /\ a \in Seq(Nat) /\ Len(a) = n /\ \A i \in 1..n : a[i] = s[i]
        /\ b \in Seq(Nat) /\ Len(b) = n /\ \A i \in 1..n : b[i] = t[i] /\ n \in Nat
    BY <1>1, <1>2
  <2>2. IsPrefix(s, t) <=> a = b
    BY <1>2 DEF IsPrefix
  <2>3. n <= Len(t)
    BY <1>2
  <2> HIDE DEF a, b, n
  <2>4. a \in [1..n -> Nat] /\ b \in [1..n -> Nat]
    BY <2>1
  <2>5. ASSUME \A i \in 1..n : s[i] = t[i] PROVE a = b
    <3>1. \A i \in 1..n : a[i] = b[i]
      BY <2>1, <2>5
    <3>2. a = [i \in 1..n |-> a[i]] /\ b = [i \in 1..n |-> b[i]]
      BY <2>4
    <3> QED BY <3>1, <3>2, Zenon
  <2>6. a = b => \A i \in 1..n : s[i] = t[i]
    BY <2>1
  <2> QED BY <2>2, <2>3, <2>5, <2>6 DEF n
<1>3. CASE ~(Len(s) <= Len(t))
  BY <1>3 DEF IsPrefix
<1> QED BY <1>2, <1>3

\* Of all there is, everything was there; what comes later was not.
LEMMA CutNow ==
    ASSUME NEW n \in Nat, NEW q \in Ids(n)
    PROVE  CutAt(q, n, q)
<1>1. q \in Seq(Nat) /\ Len(q) \in Nat /\ DOMAIN q = 1..Len(q) /\ \A i \in 1..Len(q) : q[i] <= n
  BY DEF Ids
<1> QED BY <1>1, PrefixIs DEF CutAt

LEMMA CutKept ==
    ASSUME NEW n \in Nat, NEW q \in Ids(n), NEW c \in 0..n, NEW p \in Seq(Nat), CutAt(q, c, p)
    PROVE  CutAt(Append(q, n + 1), c, p)
<1> DEFINE l == Len(q)
           a == Append(q, n + 1)
<1>1. q \in Seq(Nat) /\ l \in Nat /\ DOMAIN q = 1..l
  BY DEF Ids
<1>2. /\ a \in Seq(Nat) /\ Len(a) = l + 1 /\ DOMAIN a = 1..(l + 1) /\ a[l + 1] = n + 1
      /\ \A i \in 1..l : a[i] = q[i]
  BY <1>1
<1>3. Len(p) <= l /\ Len(p) \in Nat /\ \A i \in 1..Len(p) : p[i] = q[i]
  BY <1>1, PrefixIs DEF CutAt
<1>4. \A i \in 1..l : q[i] <= c <=> i <= Len(p)
  BY <1>1 DEF CutAt
<1> HIDE DEF a, l
<1>5. IsPrefix(p, a)
  <2>1. IsPrefix(p, a) <=> Len(p) <= Len(a) /\ \A i \in 1..Len(p) : p[i] = a[i]
    BY <1>2, PrefixIs
  <2> QED BY <1>1, <1>2, <1>3, <2>1
<1>6. ASSUME NEW i \in 1..(l + 1) PROVE a[i] <= c <=> i <= Len(p)
  <2>1. CASE i \in 1..l
    BY <1>2, <1>4, <2>1
  <2>2. CASE i = l + 1
    BY <1>1, <1>2, <1>3, <2>2
  <2> QED BY <1>1, <2>1, <2>2
<1> QED BY <1>2, <1>5, <1>6 DEF CutAt, a

LEMMA PrefixGrows ==
    ASSUME NEW s \in Seq(Nat), NEW t \in Seq(Nat), NEW e \in Nat, IsPrefix(s, t)
    PROVE  IsPrefix(s, Append(t, e))
<1>1. Len(s) <= Len(t) /\ Len(s) \in Nat /\ Len(t) \in Nat /\ \A i \in 1..Len(s) : s[i] = t[i]
  <2>1. IsPrefix(s, t) <=> Len(s) <= Len(t) /\ \A i \in 1..Len(s) : s[i] = t[i]
    BY PrefixIs
  <2>2. Len(s) \in Nat /\ Len(t) \in Nat
    OBVIOUS
  <2> QED BY <2>1, <2>2
<1>2. /\ Append(t, e) \in Seq(Nat) /\ Len(Append(t, e)) = Len(t) + 1
      /\ \A i \in 1..Len(t) : Append(t, e)[i] = t[i]
  OBVIOUS
<1>3. \A i \in 1..Len(s) : s[i] = Append(t, e)[i]
  BY <1>1, <1>2
<1>4. IsPrefix(s, Append(t, e))
        <=> Len(s) <= Len(Append(t, e)) /\ \A i \in 1..Len(s) : s[i] = Append(t, e)[i]
  BY <1>2, PrefixIs
<1> QED BY <1>1, <1>2, <1>3, <1>4, SMTT(30)

LEMMA PrefixOfItself ==
    ASSUME NEW s \in Seq(Nat)
    PROVE  IsPrefix(s, s)
BY PrefixIs

\* The restore comes to every run once.
LEMMA OrderIs ==
    /\ Cardinality(Runs) \in Nat \ {0}
    /\ Order \in [1..Cardinality(Runs) -> Runs]
    /\ \A i, k \in 1..Cardinality(Runs) : Order[i] = Order[k] => i = k
    /\ \A r \in Runs : \E i \in 1..Cardinality(Runs) : Order[i] = r
<1> DEFINE n == Cardinality(Runs)
<1>1. n \in Nat /\ n # 0 /\ IsFiniteSet(Runs)
  BY SnapshotsAssumption, FS_CardinalityType, FS_EmptySet
<1>2. ExistsBijection(1..n, Runs)
  BY <1>1, FS_CardinalityType
<1>3. \E f \in [1..n -> Runs] : IsInjective(f)
  BY <1>2 DEF ExistsBijection, Bijection, Injection
<1>4. Order = CHOOSE f \in [1..n -> Runs] : IsInjective(f)
  BY DEF Order, SetToSeq
<1>5. Order \in [1..n -> Runs] /\ IsInjective(Order)
  BY <1>3, <1>4
<1>6. Order \in Injection(1..n, Runs)
  BY <1>5 DEF Injection
<1>7. IsFiniteSet(1..n) /\ Cardinality(1..n) = n
  BY <1>1, FS_Interval
<1>8. Order \in Surjection(1..n, Runs)
  BY <1>1, <1>6, <1>7, FS_Injection
<1>9. \A i, k \in 1..n : Order[i] = Order[k] => i = k
  BY <1>5 DEF IsInjective
<1>10. \A r \in Runs : \E i \in 1..n : Order[i] = r
  BY <1>8 DEF Surjection
<1> QED BY <1>1, <1>5, <1>9, <1>10

Snap(n) ==
    [kind : {"snapshot", "torn"}, at : Nat, boot : Nat,
     stored : [Runs -> Ids(n)], policy : [Runs -> Ids(n)]]

IsCut(f) == \E c \in 0..stamp : \A r \in Runs :
                CutAt(stored[r], c, f.stored[r]) /\ CutAt(policy[r], c, f.policy[r])

\* What may be on the disk or on its way there: of this process, cuts.
Files ==
    {f \in Snap(stamp) : f.kind = "snapshot" =>
        f.boot <= restarts /\ (f.boot = restarts => up = "up" /\ IsCut(f))}

SnapTypes ==
    /\ up \in {"up", "down", "files", "recover", "plain"}
    /\ stamp \in 0..MaxCommits /\ taken \in 0..MaxTaken /\ queued \in 0..MaxTaken
    /\ restarts \in Nat
    /\ stored \in [Runs -> Ids(stamp)] /\ policy \in [Runs -> Ids(stamp)]
    /\ rolling \in [Runs -> [learnt : Ids(stamp), saved : BOOLEAN]]

FilesFit ==
    /\ dir \in Seq(Files) /\ busy \in Files \cup {Idle} /\ final \in Files \cup {Idle}

\* What the restore has come to, in its order, it has put back or refused; what it
\* has written over, it recovers next.
RestoreFits ==
    /\ loaded \in Snap(stamp) \cup {NoFile, Torn}
    /\ report \in Seq([run : Runs, error : BOOLEAN, ok : BOOLEAN])
    /\ Len(report) <= Cardinality(Runs)
    /\ \A i \in 1..Len(report) : report[i].run = Order[i]
    /\ up \in {"files", "recover"} => Len(report) < Cardinality(Runs)
    /\ up = "plain" => loaded.kind # "snapshot" \/ unwritten
    /\ up \in {"files", "recover"} =>
        /\ loaded.kind = "snapshot"
        /\ \A i \in 1..Len(report) :
            \/ Order[i] \in stopped /\ TurnOpen(Order[i])
            \/ policy[Order[i]] = loaded.policy[Order[i]]
    /\ up = "recover" => rolling[Order[Len(report) + 1]].learnt = loaded.policy[Order[Len(report) + 1]]
    /\ up = "up" /\ loaded.kind = "snapshot" /\ report # <<>> /\ ~unwritten =>
        \A r \in Runs : \/ r \in stopped /\ TurnOpen(r)
                        \/ IsPrefix(loaded.policy[r], policy[r])

SnapshotsInv == SnapTypes /\ FilesFit /\ RestoreFits /\ RestoredAsReported

LEMMA SnapshotsInvImplies == SnapshotsInv => SnapshotsSafe
<1> SUFFICES ASSUME SnapshotsInv PROVE SnapshotsSafe
  OBVIOUS
<1>1. SnapshotsTypeOK
  <2>1. ASSUME NEW r \in Runs
        PROVE  Len(stored[r]) + Len(policy[r]) <= 2 * stamp /\ rolling[r].saved \in BOOLEAN
    <3>1. stored[r] \in Ids(stamp) /\ policy[r] \in Ids(stamp) /\ stamp \in Nat
      BY SnapshotsAssumption DEF SnapshotsInv, SnapTypes
    <3>2. Len(stored[r]) <= stamp /\ Len(stored[r]) \in Nat /\ Len(policy[r]) <= stamp /\ Len(policy[r]) \in Nat
      BY <3>1 DEF Ids
    <3>3. rolling[r].saved \in BOOLEAN
      BY DEF SnapshotsInv, SnapTypes
    <3>4. Len(stored[r]) + Len(policy[r]) <= 2 * stamp
      <4>1. \A a, b, n \in Nat : a <= n /\ b <= n => a + b <= 2 * n
        OBVIOUS
      <4> QED BY <3>1, <3>2, <4>1
    <3> QED BY <3>3, <3>4
  <2> QED BY <2>1 DEF SnapshotsTypeOK, SnapshotsInv, SnapTypes, RestoreFits
<1>2. SnapshotIsACut
  <2>1. \A f \in Range(dir) : f \in Files
    BY DEF SnapshotsInv, FilesFit, Range
  <2> QED BY <2>1 DEF SnapshotIsACut, Files, IsCut
<1>3. RefusalStrandsNone
  BY DEF SnapshotsInv, RestoreFits, RefusalStrandsNone
<1> QED BY <1>1, <1>2, <1>3 DEF SnapshotsSafe, SnapshotsInv

\* A file goes into the directory between two others.
LEMMA NamedIs ==
    ASSUME NEW S, NEW listed \in Seq(S), NEW f \in S, NEW d \in Named(listed, f)
    PROVE  d \in Seq(S)
<1>1. PICK i \in 1..(Len(listed) + 1) : d = InsertAt(listed, i, f)
  BY DEF Named
<1> DEFINE a == SubSeq(listed, 1, i - 1)
           b == SubSeq(listed, i, Len(listed))
<1>2. a \in Seq(S)
  BY <1>1
<1>3. b \in Seq(S)
  BY <1>1
<1>4. d = a \o <<f>> \o b
  BY <1>1 DEF InsertAt
<1> HIDE DEF a, b
<1>5. <<f>> \in Seq(S)
  OBVIOUS
<1> QED BY <1>2, <1>3, <1>4, <1>5

LEMMA SameFiles ==
    ASSUME UNCHANGED <<up, stamp, stored, policy, restarts>>
    PROVE  Files' = Files
BY DEF Files, Snap, Ids, IsCut, CutAt

LEMMA MoreIds ==
    ASSUME NEW n \in Nat
    PROVE  Ids(n) \subseteq Ids(n + 1) /\ Snap(n) \subseteq Snap(n + 1)
<1>1. Ids(n) \subseteq Ids(n + 1)
  BY IdsAre
<1> QED BY <1>1 DEF Snap

\* No file is of a process that is down or restoring.
LEMMA OlderFiles ==
    ASSUME SnapTypes, stamp' = stamp, restarts' \in Nat,
           \/ up # "up" /\ restarts' = restarts
           \/ restarts' = restarts + 1
    PROVE  Files \subseteq Files'
<1>1. SUFFICES ASSUME NEW f \in Files PROVE f \in Files'
  OBVIOUS
<1>2. f \in Snap(stamp) /\ f \in Snap(stamp)' /\ f.boot \in Nat /\ restarts \in Nat
  BY DEF Files, Snap, Ids, SnapTypes
<1>3. f.kind = "snapshot" => f.boot <= restarts /\ (f.boot = restarts => up = "up")
  BY DEF Files
<1>4. f.kind = "snapshot" => f.boot <= restarts' /\ f.boot # restarts'
  BY <1>2, <1>3
<1> QED BY <1>2, <1>4 DEF Files

\* One id more, in one sequence of one run: what was a cut still is one.
LEMMA FilesGrow ==
    ASSUME SnapTypes, UNCHANGED <<up, restarts>>, stamp' = stamp + 1, NEW r \in Runs,
           \/ policy' = policy /\ stored' = [stored EXCEPT ![r] = Append(stored[r], stamp + 1)]
           \/ stored' = stored /\ policy' = [policy EXCEPT ![r] = Append(policy[r], stamp + 1)]
    PROVE  /\ Files \subseteq Files'
           /\ stored' \in [Runs -> Ids(stamp')] /\ policy' \in [Runs -> Ids(stamp')]
<1>1. stamp \in Nat /\ stored \in [Runs -> Ids(stamp)] /\ policy \in [Runs -> Ids(stamp)]
  BY SnapshotsAssumption DEF SnapTypes
<1>2. \A q \in Runs : /\ stored'[q] = stored[q] \/ stored'[q] = Append(stored[q], stamp + 1)
                      /\ policy'[q] = policy[q] \/ policy'[q] = Append(policy[q], stamp + 1)
  BY <1>1
<1>3. \A q \in Runs : stored'[q] \in Ids(stamp + 1) /\ policy'[q] \in Ids(stamp + 1)
  BY <1>1, <1>2, IdsAre
<1>4. DOMAIN stored' = Runs /\ DOMAIN policy' = Runs /\ stored' = [q \in Runs |-> stored'[q]]
      /\ policy' = [q \in Runs |-> policy'[q]]
  BY <1>1
<1>5. stored' \in [Runs -> Ids(stamp')] /\ policy' \in [Runs -> Ids(stamp')]
  BY <1>3, <1>4
<1>6. ASSUME NEW f \in Files PROVE f \in Files'
  <2>1. f \in Snap(stamp) /\ f \in Snap(stamp)' /\ f.boot = f.boot
    BY <1>1, MoreIds DEF Files
  <2>2. ASSUME IsCut(f) PROVE IsCut(f)'
    <3>1. PICK c \in 0..stamp : \A q \in Runs : CutAt(stored[q], c, f.stored[q]) /\ CutAt(policy[q], c, f.policy[q])
      BY <2>2 DEF IsCut
    <3>2. \A q \in Runs : f.stored[q] \in Seq(Nat) /\ f.policy[q] \in Seq(Nat)
      BY <2>1, <1>1, IdsAre DEF Snap
    <3>3. ASSUME NEW q \in Runs
          PROVE  CutAt(stored'[q], c, f.stored[q]) /\ CutAt(policy'[q], c, f.policy[q])
      <4>1. stored[q] \in Ids(stamp) /\ policy[q] \in Ids(stamp) /\ f.stored[q] \in Seq(Nat) /\ f.policy[q] \in Seq(Nat)
        BY <1>1, <3>2
      <4>2. CutAt(stored[q], c, f.stored[q]) /\ CutAt(policy[q], c, f.policy[q])
        BY <3>1
      <4>3. CutAt(Append(stored[q], stamp + 1), c, f.stored[q])
        BY <1>1, <4>1, <4>2, CutKept
      <4>4. CutAt(Append(policy[q], stamp + 1), c, f.policy[q])
        BY <1>1, <4>1, <4>2, CutKept
      <4> QED BY <1>2, <4>2, <4>3, <4>4
    <3>4. c \in 0..stamp'
      BY <1>1
    <3> QED BY <3>3, <3>4 DEF IsCut
  <2> QED BY <2>1, <2>2 DEF Files
<1> QED BY <1>5, <1>6

LEMMA FilesStay ==
    ASSUME FilesFit, Files \subseteq Files', dir' = dir, busy' \in {busy, Idle}, final' \in {final, Idle}
    PROVE  FilesFit'
BY DEF FilesFit

LEMMA NowIsACut ==
    ASSUME SnapTypes, up = "up"
    PROVE  BuildRuntimeSnapshot \in Files /\ BuildRuntimeSnapshot.kind = "snapshot"
<1> DEFINE f == BuildRuntimeSnapshot
<1>1. /\ stamp \in Nat /\ taken \in Nat /\ restarts \in Nat
      /\ stored \in [Runs -> Ids(stamp)] /\ policy \in [Runs -> Ids(stamp)]
  BY SnapshotsAssumption DEF SnapTypes
<1>2. f = [kind |-> "snapshot", at |-> taken, boot |-> restarts, stored |-> stored, policy |-> policy]
  BY DEF BuildRuntimeSnapshot
<1> HIDE DEF f
<1>3. f \in Snap(stamp) /\ f.kind = "snapshot" /\ f.boot = restarts /\ f.stored = stored /\ f.policy = policy
  BY <1>1, <1>2 DEF Snap
<1>4. \A r \in Runs : CutAt(stored[r], stamp, stored[r]) /\ CutAt(policy[r], stamp, policy[r])
  BY <1>1, CutNow
<1>5. IsCut(f)
  BY <1>1, <1>3, <1>4 DEF IsCut
<1>6. f \in Files
  BY <1>1, <1>3, <1>5 DEF Files
<1> QED BY <1>3, <1>6 DEF f

LEMMA TornIs ==
    ASSUME NEW f \in Files
    PROVE  [f EXCEPT !.kind = "torn"] \in Files
<1> DEFINE t == [f EXCEPT !.kind = "torn"]
<1>1. f \in Snap(stamp)
  BY DEF Files
<1>2. t \in Snap(stamp) /\ t.kind = "torn"
  BY <1>1 DEF Snap
<1> HIDE DEF t
<1>3. t \in Files
  BY <1>2 DEF Files
<1> QED BY <1>3 DEF t

\* What a step leaves as it is when it takes snapshots only.
LEMMA OnlyTaking ==
    ASSUME SnapshotsInv, UNCHANGED <<up, store, restoring, restarts>>,
           taken' \in 0..MaxTaken, queued' \in 0..MaxTaken
    PROVE  SnapTypes' /\ RestoreFits' /\ RestoredAsReported' /\ Files' = Files
<1>1. /\ UNCHANGED <<up, stamp, stored, policy, rolling, stopped>>
      /\ UNCHANGED <<loaded, report, unwritten, restarts>>
  BY DEF store, restoring
<1>2. SnapTypes'
  BY <1>1 DEF SnapshotsInv, SnapTypes
<1>3. RestoreFits'
  BY <1>1 DEF SnapshotsInv, RestoreFits, TurnOpen
<1>4. RestoredAsReported'
  BY <1>1 DEF SnapshotsInv, RestoredAsReported
<1> QED BY <1>1, <1>2, <1>3, <1>4, SameFiles

LEMMA CommitKeeps ==
    ASSUME SnapshotsInv, NEW r \in Runs, Commit(r)
    PROVE  SnapshotsInv'
<1>1. /\ up = "up" /\ up' = up /\ r \notin stopped /\ stamp < MaxCommits
      /\ stamp' = stamp + 1 /\ stored' = [stored EXCEPT ![r] = Append(stored[r], stamp + 1)]
      /\ UNCHANGED <<policy, rolling, stopped, dir, queued, busy, final, taken>>
      /\ UNCHANGED <<loaded, report, unwritten, restarts>>
  BY DEF Commit, taking, restoring
<1>2. SnapTypes /\ FilesFit /\ RestoreFits /\ stamp \in Nat /\ MaxCommits \in Nat
  BY SnapshotsAssumption DEF SnapshotsInv, SnapTypes
<1>3. /\ Files \subseteq Files'
      /\ stored' \in [Runs -> Ids(stamp')] /\ policy' \in [Runs -> Ids(stamp')]
  BY <1>1, <1>2, FilesGrow
<1>4. FilesFit'
  BY <1>1, <1>2, <1>3, FilesStay
<1>5. rolling' \in [Runs -> [learnt : Ids(stamp'), saved : BOOLEAN]]
  BY <1>1, <1>2, MoreIds DEF SnapTypes
<1>6. SnapTypes'
  BY <1>1, <1>2, <1>3, <1>5 DEF SnapTypes
<1>7. RestoreFits'
  <2>1. \A q \in Runs \ {r} : stored'[q] = stored[q]
    BY <1>1, <1>2 DEF SnapTypes
  <2>2. \A q \in stopped : q \in Runs /\ TurnOpen(q) => TurnOpen(q)'
    BY <1>1, <2>1 DEF TurnOpen
  <2>3. loaded' \in Snap(stamp') \cup {NoFile, Torn}
    BY <1>1, <1>2, MoreIds DEF RestoreFits
  <2> QED BY <1>1, <1>2, <2>2, <2>3 DEF RestoreFits
<1>8. RestoredAsReported'
  BY <1>1 DEF RestoredAsReported
<1> QED BY <1>4, <1>6, <1>7, <1>8 DEF SnapshotsInv

LEMMA LearnKeeps ==
    ASSUME SnapshotsInv, NEW r \in Runs, Learn(r)
    PROVE  SnapshotsInv'
<1>1. /\ up = "up" /\ up' = up /\ r \notin stopped /\ stamp < MaxCommits
      /\ stamp' = stamp + 1 /\ policy' = [policy EXCEPT ![r] = Append(policy[r], stamp + 1)]
      /\ rolling' = [rolling EXCEPT ![r] = [learnt |-> policy'[r], saved |-> TRUE]]
      /\ UNCHANGED <<stored, stopped, dir, queued, busy, final, taken>>
      /\ UNCHANGED <<loaded, report, unwritten, restarts>>
  BY DEF Learn, taking, restoring
<1>2. SnapTypes /\ FilesFit /\ RestoreFits /\ stamp \in Nat /\ MaxCommits \in Nat
  BY SnapshotsAssumption DEF SnapshotsInv, SnapTypes
<1>3. /\ Files \subseteq Files'
      /\ stored' \in [Runs -> Ids(stamp')] /\ policy' \in [Runs -> Ids(stamp')]
  BY <1>1, <1>2, FilesGrow
<1>4. FilesFit'
  BY <1>1, <1>2, <1>3, FilesStay
<1>5. rolling' \in [Runs -> [learnt : Ids(stamp'), saved : BOOLEAN]]
  <2>1. rolling \in [Runs -> [learnt : Ids(stamp'), saved : BOOLEAN]]
    BY <1>1, <1>2, MoreIds DEF SnapTypes
  <2> QED BY <1>1, <1>3, <2>1
<1>6. SnapTypes'
  BY <1>1, <1>2, <1>3, <1>5 DEF SnapTypes
<1>7. RestoreFits'
  <2>1. loaded' \in Snap(stamp') \cup {NoFile, Torn}
    BY <1>1, <1>2, MoreIds DEF RestoreFits
  <2>2. ASSUME loaded.kind = "snapshot", report # <<>>, ~unwritten, NEW q \in Runs
        PROVE  \/ q \in stopped' /\ TurnOpen(q)'
               \/ IsPrefix(loaded'.policy[q], policy'[q])
    <3>1. \/ q \in stopped /\ TurnOpen(q)
          \/ IsPrefix(loaded.policy[q], policy[q])
      BY <1>1, <1>2, <2>2 DEF RestoreFits
    <3>2. CASE q \in stopped /\ TurnOpen(q)
      BY <1>1, <3>2 DEF TurnOpen
    <3>3. CASE IsPrefix(loaded.policy[q], policy[q])
      <4>1. policy[q] \in Seq(Nat)
        BY <1>2 DEF SnapTypes, Ids
      <4>2. loaded \in Snap(stamp)
        BY <1>2, <2>2 DEF RestoreFits, NoFile, Torn
      <4>3. loaded.policy[q] \in Seq(Nat)
        BY <4>2 DEF Snap, Ids
      <4>4. IsPrefix(loaded.policy[q], Append(policy[q], stamp + 1))
        BY <1>2, <3>3, <4>1, <4>3, PrefixGrows
      <4>5. policy'[q] = policy[q] \/ policy'[q] = Append(policy[q], stamp + 1)
        BY <1>1, <1>2 DEF SnapTypes
      <4> QED BY <1>1, <3>3, <4>4, <4>5
    <3> QED BY <3>1, <3>2, <3>3
  <2> QED BY <1>1, <1>2, <2>1, <2>2 DEF RestoreFits
<1>8. RestoredAsReported'
  BY <1>1 DEF RestoredAsReported
<1> QED BY <1>4, <1>6, <1>7, <1>8 DEF SnapshotsInv

LEMMA TriggerSnapshotKeeps ==
    ASSUME SnapshotsInv, TriggerSnapshot
    PROVE  SnapshotsInv'
<1>1. UNCHANGED <<up, store, restoring, restarts, dir, busy, final>>
      /\ taken' \in 0..MaxTaken /\ queued' \in 0..MaxTaken
  BY SnapshotsAssumption DEF TriggerSnapshot, SnapshotsInv, SnapTypes
<1>2. SnapTypes' /\ RestoreFits' /\ RestoredAsReported' /\ Files' = Files
  BY <1>1, OnlyTaking
<1> QED BY <1>1, <1>2 DEF SnapshotsInv, FilesFit

LEMMA TakeNextKeeps ==
    ASSUME SnapshotsInv, TakeNext
    PROVE  SnapshotsInv'
<1>1. UNCHANGED <<up, store, restoring, restarts, dir, final>>
      /\ taken' \in 0..MaxTaken /\ queued' \in 0..MaxTaken
      /\ up = "up" /\ busy' = BuildRuntimeSnapshot
  BY SnapshotsAssumption DEF TakeNext, SnapshotsInv, SnapTypes
<1>2. SnapTypes' /\ RestoreFits' /\ RestoredAsReported' /\ Files' = Files
  BY <1>1, OnlyTaking
<1>3. BuildRuntimeSnapshot \in Files
  BY <1>1, NowIsACut DEF SnapshotsInv
<1> QED BY <1>1, <1>2, <1>3 DEF SnapshotsInv, FilesFit

LEMMA SettleKeeps ==
    ASSUME SnapshotsInv, Settle
    PROVE  SnapshotsInv'
<1>1. UNCHANGED <<up, store, restoring, restarts, queued, final, taken>>
      /\ taken' \in 0..MaxTaken /\ queued' \in 0..MaxTaken
      /\ busy # Idle /\ busy' = Idle /\ dir' \in Named(dir, busy) \cup {dir}
  BY SnapshotsAssumption DEF Settle, FileOf, SnapshotsInv, SnapTypes
<1>2. SnapTypes' /\ RestoreFits' /\ RestoredAsReported' /\ Files' = Files
  BY <1>1, OnlyTaking
<1>3. dir \in Seq(Files) /\ busy \in Files
  BY <1>1 DEF SnapshotsInv, FilesFit
<1>4. dir' \in Seq(Files)
  BY <1>1, <1>3, NamedIs
<1> QED BY <1>1, <1>2, <1>4 DEF SnapshotsInv, FilesFit

LEMMA SignalKeeps ==
    ASSUME SnapshotsInv, Signal
    PROVE  SnapshotsInv'
<1>1. UNCHANGED <<up, store, restoring, restarts, dir, busy>>
      /\ taken' \in 0..MaxTaken /\ queued' \in 0..MaxTaken
      /\ up = "up" /\ final' = BuildRuntimeSnapshot
  BY SnapshotsAssumption DEF Signal, SnapshotsInv, SnapTypes
<1>2. SnapTypes' /\ RestoreFits' /\ RestoredAsReported' /\ Files' = Files
  BY <1>1, OnlyTaking
<1>3. BuildRuntimeSnapshot \in Files
  BY <1>1, NowIsACut DEF SnapshotsInv
<1> QED BY <1>1, <1>2, <1>3 DEF SnapshotsInv, FilesFit

LEMMA ShutDownKeeps ==
    ASSUME SnapshotsInv, ShutDown
    PROVE  SnapshotsInv'
<1>1. /\ UNCHANGED <<stamp, stored, policy, rolling, stopped, taken, loaded, report>>
      /\ final # Idle /\ up' = "down" /\ restarts' = restarts + 1
      /\ final' = Idle /\ queued' = 0 /\ busy' = Idle
  BY DEF ShutDown, store, restoring
<1>2. PICK d \in Named(dir, final) \cup {dir} :
        dir' \in {d} \cup IF busy = Idle THEN {} ELSE Named(d, [busy EXCEPT !.kind = "torn"])
  BY DEF ShutDown, FileOf
<1>3. dir \in Seq(Files) /\ busy \in Files \cup {Idle} /\ final \in Files
  BY <1>1 DEF SnapshotsInv, FilesFit
<1>4. d \in Seq(Files)
  BY <1>2, <1>3, NamedIs
<1>5. dir' \in Seq(Files)
  <2>1. CASE dir' = d
    BY <1>4, <2>1
  <2>2. CASE busy # Idle /\ dir' \in Named(d, [busy EXCEPT !.kind = "torn"])
    BY <1>3, <1>4, <2>2, NamedIs, TornIs
  <2> QED BY <1>2, <2>1, <2>2
<1>6. SnapTypes'
  BY <1>1, SnapshotsAssumption DEF SnapshotsInv, SnapTypes
<1>7. Files \subseteq Files'
  BY <1>1, <1>6, OlderFiles DEF SnapshotsInv, SnapTypes
<1>8. RestoreFits'
  BY <1>1 DEF SnapshotsInv, RestoreFits
<1>9. RestoredAsReported'
  BY <1>1 DEF RestoredAsReported
<1> QED BY <1>1, <1>5, <1>6, <1>7, <1>8, <1>9 DEF SnapshotsInv, FilesFit

LEMMA KillKeeps ==
    ASSUME SnapshotsInv, Kill
    PROVE  SnapshotsInv'
<1>1. /\ UNCHANGED <<stamp, stored, policy, rolling, stopped, taken>>
      /\ loaded' = NoFile /\ report' = <<>> /\ up' = "down" /\ restarts' = restarts + 1
      /\ final' = Idle /\ queued' = 0 /\ busy' = Idle
      /\ dir' \in {dir} \cup UNION {Named(dir, [s EXCEPT !.kind = "torn"]) : s \in {busy, final} \ {Idle}}
  BY DEF Kill, store
<1>2. dir \in Seq(Files) /\ busy \in Files \cup {Idle} /\ final \in Files \cup {Idle}
  BY DEF SnapshotsInv, FilesFit
<1>3. dir' \in Seq(Files)
  <2>1. CASE dir' = dir
    BY <1>2, <2>1
  <2>2. ASSUME NEW s \in {busy, final} \ {Idle}, dir' \in Named(dir, [s EXCEPT !.kind = "torn"])
        PROVE  dir' \in Seq(Files)
    BY <1>2, <2>2, NamedIs, TornIs
  <2> QED BY <1>1, <2>1, <2>2
<1>4. SnapTypes'
  BY <1>1, SnapshotsAssumption DEF SnapshotsInv, SnapTypes
<1>5. Files \subseteq Files'
  BY <1>1, <1>4, OlderFiles DEF SnapshotsInv, SnapTypes
<1>6. RestoreFits'
  BY <1>1, OrderIs DEF RestoreFits, NoFile
<1>7. RestoredAsReported'
  BY <1>1 DEF RestoredAsReported
<1> QED BY <1>1, <1>3, <1>4, <1>5, <1>6, <1>7 DEF SnapshotsInv, FilesFit

LEMMA LoseTailKeeps ==
    ASSUME SnapshotsInv, NEW r \in Runs, LoseTail(r)
    PROVE  SnapshotsInv'
<1>1. /\ UNCHANGED <<up, stamp, policy, rolling, stopped, dir, queued, busy, final, taken>>
      /\ UNCHANGED <<loaded, report, unwritten, restarts>> /\ up = "down"
  BY DEF LoseTail, taking, restoring
<1>2. PICK n \in 0..(Len(stored[r]) - 1) : stored' = [stored EXCEPT ![r] = SubSeq(stored[r], 1, n)]
  BY DEF LoseTail
<1>3. stored \in [Runs -> Ids(stamp)] /\ stamp \in Nat /\ restarts \in Nat
  BY SnapshotsAssumption DEF SnapshotsInv, SnapTypes
<1>4. Len(stored[r]) \in Nat /\ n \in 0..Len(stored[r])
  BY <1>2, <1>3 DEF Ids
<1>5. SubSeq(stored[r], 1, n) \in Ids(stamp)
  BY <1>3, <1>4, IdsCut
<1>6. stored' \in [Runs -> Ids(stamp)]
  BY <1>2, <1>3, <1>5
<1>7. SnapTypes'
  BY <1>1, <1>6 DEF SnapshotsInv, SnapTypes
<1>8. Files \subseteq Files'
  BY <1>1, <1>3, OlderFiles DEF SnapshotsInv
<1>9. FilesFit'
  BY <1>1, <1>8, FilesStay DEF SnapshotsInv
<1>10. RestoreFits' /\ RestoredAsReported'
  BY <1>1 DEF SnapshotsInv, RestoreFits, RestoredAsReported
<1> QED BY <1>7, <1>9, <1>10 DEF SnapshotsInv

LEMMA LoadKeeps ==
    ASSUME SnapshotsInv, Load
    PROVE  SnapshotsInv'
<1>1. /\ UNCHANGED <<stamp, stored, rolling, dir, queued, busy, final, taken, restarts>>
      /\ up = "down" /\ report' = <<>> /\ policy' = [r \in Runs |-> <<>>]
      /\ loaded' = IF dir = <<>> THEN NoFile
                   ELSE IF Last(dir).kind = "torn" THEN Torn ELSE Last(dir)
      /\ up' = IF loaded'.kind = "snapshot" THEN "files" ELSE "plain"
  BY DEF Load, taking
<1>2. SnapTypes /\ FilesFit /\ stamp \in Nat /\ restarts \in Nat
  BY SnapshotsAssumption DEF SnapshotsInv, SnapTypes
<1>3. policy' \in [Runs -> Ids(stamp)]
  BY <1>1, <1>2, IdsAre
<1>4. SnapTypes'
  BY <1>1, <1>2, <1>3 DEF SnapTypes
<1>5. FilesFit'
  BY <1>1, <1>2, OlderFiles, FilesStay
<1>6. loaded' \in Snap(stamp) \cup {NoFile, Torn}
  <2>1. CASE dir = <<>>
    BY <1>1, <2>1
  <2>2. CASE dir # <<>>
    <3>1. Last(dir) \in Files
      BY <1>2, <2>2 DEF FilesFit, Last
    <3> QED BY <1>1, <2>2, <3>1 DEF Files
  <2> QED BY <2>1, <2>2
<1>7. RestoreFits'
  BY <1>1, <1>6, OrderIs DEF RestoreFits
<1>8. RestoredAsReported'
  BY <1>1 DEF RestoredAsReported
<1> QED BY <1>4, <1>5, <1>7, <1>8 DEF SnapshotsInv

LEMMA RecoverPlainKeeps ==
    ASSUME SnapshotsInv, RecoverPlain
    PROVE  SnapshotsInv'
<1>1. /\ UNCHANGED <<stamp, stored, rolling, dir, queued, busy, final, taken>>
      /\ UNCHANGED <<loaded, report, unwritten, restarts>>
      /\ up = "plain" /\ up' = "up"
      /\ DOMAIN policy' = Runs /\ policy' = [r \in Runs |-> policy'[r]]
      /\ \A r \in Runs : policy'[r] = rolling[r].learnt \/ policy'[r] = policy[r]
  BY DEF RecoverPlain, taking, restoring
<1>2. SnapTypes /\ FilesFit /\ RestoreFits /\ stamp \in Nat /\ restarts \in Nat
  BY SnapshotsAssumption DEF SnapshotsInv, SnapTypes
<1>3. policy' \in [Runs -> Ids(stamp)]
  <2>1. \A r \in Runs : policy'[r] \in Ids(stamp)
    BY <1>1, <1>2 DEF SnapTypes
  <2> QED BY <1>1, <2>1
<1>4. SnapTypes'
  BY <1>1, <1>2, <1>3 DEF SnapTypes
<1>5. FilesFit'
  BY <1>1, <1>2, OlderFiles, FilesStay
<1>6. RestoreFits'
  BY <1>1, <1>2 DEF RestoreFits
<1>7. RestoredAsReported'
  BY <1>1 DEF RestoredAsReported
<1> QED BY <1>4, <1>5, <1>6, <1>7 DEF SnapshotsInv

\* The run that is next.
LEMMA NextRun ==
    ASSUME SnapshotsInv, up \in {"files", "recover"}
    PROVE  /\ Len(report) \in Nat /\ Len(report) + 1 \in 1..Cardinality(Runs)
           /\ Order[Len(report) + 1] \in Runs
           /\ \A i \in 1..Len(report) : Order[i] # Order[Len(report) + 1]
           /\ loaded \in Snap(stamp)
<1>1. /\ report \in Seq([run : Runs, error : BOOLEAN, ok : BOOLEAN])
      /\ Len(report) < Cardinality(Runs) /\ loaded.kind = "snapshot"
      /\ loaded \in Snap(stamp) \cup {NoFile, Torn}
  BY DEF SnapshotsInv, RestoreFits
<1>2. Len(report) \in Nat /\ Cardinality(Runs) \in Nat
  BY <1>1, OrderIs
<1> DEFINE n == Len(report)
<1>3. n \in Nat /\ n < Cardinality(Runs)
  BY <1>1, <1>2
<1> HIDE DEF n
<1>4. n + 1 \in 1..Cardinality(Runs) /\ \A i \in 1..n : i \in 1..Cardinality(Runs) /\ i # n + 1
  BY <1>2, <1>3
<1>5. Order[n + 1] \in Runs /\ \A i \in 1..n : Order[i] # Order[n + 1]
  BY <1>4, OrderIs
<1>6. loaded \in Snap(stamp)
  BY <1>1 DEF NoFile, Torn
<1> QED BY <1>2, <1>4, <1>5, <1>6 DEF n

LEMMA RestorePolicyFilesKeeps ==
    ASSUME SnapshotsInv, RestorePolicyFiles
    PROVE  SnapshotsInv'
<1> DEFINE r == Order[Len(report) + 1]
           written == [rolling EXCEPT ![r] = [learnt |-> loaded.policy[r], saved |-> TRUE]]
<1>1. /\ UNCHANGED <<stamp, stored, policy, stopped, dir, queued, busy, final, taken>>
      /\ UNCHANGED <<loaded, report, restarts>>
      /\ up = "files"
      /\ \/ up' = "recover" /\ rolling' = written
         \/ /\ up' = "plain" /\ unwritten'
            /\ rolling' \in {written, rolling, [rolling EXCEPT ![r] = NoPolicy]}
  BY DEF RestorePolicyFiles, taking
<1>2. SnapTypes /\ FilesFit /\ RestoreFits /\ stamp \in Nat /\ restarts \in Nat
  BY SnapshotsAssumption DEF SnapshotsInv, SnapTypes
<1>3. r \in Runs /\ loaded \in Snap(stamp)
  BY <1>1, NextRun
<1> HIDE DEF r
<1>4. loaded.policy[r] \in Ids(stamp) /\ <<>> \in Ids(stamp)
  BY <1>2, <1>3, IdsAre DEF Snap
<1>5. /\ written \in [Runs -> [learnt : Ids(stamp), saved : BOOLEAN]]
      /\ written[r].learnt = loaded.policy[r]
      /\ [rolling EXCEPT ![r] = NoPolicy] \in [Runs -> [learnt : Ids(stamp), saved : BOOLEAN]]
  BY <1>2, <1>3, <1>4 DEF SnapTypes, NoPolicy
<1> HIDE DEF written
<1>6. SnapTypes'
  BY <1>1, <1>2, <1>5 DEF SnapTypes
<1>7. FilesFit'
  BY <1>1, <1>2, OlderFiles, FilesStay
<1>8. RestoreFits'
  <2>1. CASE up' = "recover" /\ rolling' = written
    BY <1>1, <1>2, <1>5, <2>1 DEF RestoreFits, TurnOpen, r
  <2>2. CASE up' = "plain" /\ unwritten'
    BY <1>1, <1>2, <2>2 DEF RestoreFits
  <2> QED BY <1>1, <2>1, <2>2
<1>9. RestoredAsReported'
  BY <1>1 DEF SnapshotsInv, RestoredAsReported
<1> QED BY <1>6, <1>7, <1>8, <1>9 DEF SnapshotsInv

LEMMA RecoverRunKeeps ==
    ASSUME SnapshotsInv, RecoverRun
    PROVE  SnapshotsInv'
<1> DEFINE r == Order[Len(report) + 1]
           n == Len(report)
           card == Cardinality(Runs)
           l == [run |-> r, error |-> TurnOpen(r),
                 ok |-> ~TurnOpen(r) /\ PrefixHolds(r) /\ policy'[r] = loaded.policy[r]]
<1>1. /\ UNCHANGED <<stamp, stored, rolling, dir, queued, busy, final, taken>>
      /\ UNCHANGED <<loaded, unwritten, restarts>> /\ up = "recover"
      /\ policy' = IF TurnOpen(r) THEN policy ELSE [policy EXCEPT ![r] = rolling[r].learnt]
      /\ stopped' = IF TurnOpen(r) THEN stopped \cup {r} ELSE stopped
      /\ report' = Append(report, l)
      /\ up' = IF Len(report') = card THEN "up" ELSE "files"
  BY DEF RecoverRun, taking
<1>2. SnapTypes /\ FilesFit /\ RestoreFits /\ stamp \in Nat /\ restarts \in Nat
  BY SnapshotsAssumption DEF SnapshotsInv, SnapTypes
<1>3. /\ n \in Nat /\ n + 1 \in 1..card /\ r \in Runs /\ \A i \in 1..n : Order[i] # r
      /\ loaded \in Snap(stamp) /\ card \in Nat
  BY <1>1, NextRun, OrderIs
<1>4. rolling[r].learnt = loaded.policy[r]
  BY <1>1, <1>2 DEF RestoreFits
<1>5. l \in [run : Runs, error : BOOLEAN, ok : BOOLEAN] /\ l.run = r
  BY <1>3 DEF TurnOpen, PrefixHolds, IsPrefix
<1>6. l.ok => PrefixHolds(r) /\ policy'[r] = loaded.policy[r]
  OBVIOUS
<1>7. /\ report' \in Seq([run : Runs, error : BOOLEAN, ok : BOOLEAN]) /\ Len(report') = n + 1
      /\ DOMAIN report' = 1..(n + 1) /\ DOMAIN report = 1..n
      /\ report'[n + 1] = l /\ \A i \in 1..n : report'[i] = report[i]
  <2> HIDE DEF l
  <2> QED BY <1>1, <1>2, <1>5 DEF RestoreFits
<1>8. \/ policy'[r] = loaded.policy[r]
      \/ TurnOpen(r) /\ r \in stopped'
  <2> HIDE DEF r, l, n
  <2>1. CASE TurnOpen(r)
    BY <1>1, <2>1
  <2>2. CASE ~TurnOpen(r)
    <3>1. policy' = [policy EXCEPT ![r] = loaded.policy[r]]
      BY <1>1, <1>4, <2>2
    <3> QED BY <1>2, <1>3, <3>1 DEF SnapTypes
  <2> QED BY <2>1, <2>2
<1>9. \A q \in Runs : q # r => policy'[q] = policy[q]
  BY <1>1, <1>2 DEF SnapTypes
<1>10. \A i \in 1..n : Order[i] \in Runs
  BY <1>3, OrderIs
<1>11. Order[n + 1] = r
  OBVIOUS
<1> HIDE DEF r, n, l, card
<1>12. policy' \in [Runs -> Ids(stamp)]
  <2>1. rolling[r].learnt \in Ids(stamp)
    BY <1>2, <1>3 DEF SnapTypes
  <2> QED BY <1>1, <1>2, <1>3, <2>1 DEF SnapTypes
<1>13. SnapTypes'
  BY <1>1, <1>2, <1>12 DEF SnapTypes
<1>14. FilesFit'
  BY <1>1, <1>2, OlderFiles, FilesStay
<1>15. \A i \in 1..(n + 1) : \/ Order[i] \in stopped' /\ TurnOpen(Order[i])
                             \/ policy'[Order[i]] = loaded.policy[Order[i]]
  <2>1. ASSUME NEW i \in 1..n
        PROVE  \/ Order[i] \in stopped' /\ TurnOpen(Order[i])
               \/ policy'[Order[i]] = loaded.policy[Order[i]]
    <3>1. \/ Order[i] \in stopped /\ TurnOpen(Order[i])
          \/ policy[Order[i]] = loaded.policy[Order[i]]
      BY <1>1, <1>2, <2>1 DEF RestoreFits, n
    <3>2. policy'[Order[i]] = policy[Order[i]] /\ stopped \subseteq stopped'
      BY <1>1, <1>3, <1>9, <1>10, <2>1
    <3> QED BY <3>1, <3>2
  <2>2. \A i \in 1..(n + 1) : i \in 1..n \/ i = n + 1
    BY <1>3
  <2> QED BY <1>8, <1>11, <2>1, <2>2
<1>16. \A q \in Runs : TurnOpen(q)' <=> TurnOpen(q)
  BY <1>1 DEF TurnOpen
<1>17. \A i \in 1..(n + 1) : report'[i].run = Order[i]
  <2>1. \A i \in 1..n : report[i].run = Order[i]
    BY <1>2 DEF RestoreFits, n
  <2>2. \A i \in 1..(n + 1) : i \in 1..n \/ i = n + 1
    BY <1>3
  <2> QED BY <1>5, <1>7, <1>11, <2>1, <2>2
<1>18. up' = "up" => \A q \in Runs : \/ q \in stopped' /\ TurnOpen(q)
                                     \/ IsPrefix(loaded.policy[q], policy'[q])
  <2>1. SUFFICES ASSUME up' = "up", NEW q \in Runs
                 PROVE  \/ q \in stopped' /\ TurnOpen(q)
                        \/ IsPrefix(loaded.policy[q], policy'[q])
    OBVIOUS
  <2>2. n + 1 = card
    BY <1>1, <1>7, <2>1
  <2>3. PICK i \in 1..card : Order[i] = q
    BY OrderIs DEF card
  <2>4. loaded.policy[q] \in Seq(Nat)
    BY <1>3 DEF Snap, Ids
  <2>5. IsPrefix(loaded.policy[q], loaded.policy[q])
    BY <2>4, PrefixOfItself
  <2> QED BY <1>15, <2>2, <2>3, <2>5
<1>19. \A i \in 1..(n + 1) : Order[i] \in Runs
  BY <1>3, <1>10, <1>11
<1>20. loaded.kind = "snapshot"
  BY <1>1, <1>2 DEF RestoreFits
<1>21. RestoreFits'
  <2>1. /\ loaded' \in Snap(stamp') /\ loaded'.kind = "snapshot" /\ up' \in {"up", "files"}
        /\ Len(report') <= Cardinality(Runs) /\ (up' = "files" => Len(report') < Cardinality(Runs))
    BY <1>1, <1>3, <1>7, <1>20 DEF card
  <2>2. \A i \in 1..(n + 1) : \/ Order[i] \in stopped' /\ TurnOpen(Order[i])'
                              \/ policy'[Order[i]] = loaded'.policy[Order[i]]
    BY <1>1, <1>15, <1>16, <1>19
  <2>3. up' = "up" => \A q \in Runs : \/ q \in stopped' /\ TurnOpen(q)'
                                      \/ IsPrefix(loaded'.policy[q], policy'[q])
    BY <1>1, <1>16, <1>18
  <2> QED BY <1>7, <1>17, <2>1, <2>2, <2>3 DEF RestoreFits
<1>22. RestoredAsReported'
  <2>1. SUFFICES ASSUME NEW i \in 1..(n + 1), report'[i].ok
                 PROVE  /\ IsPrefix(loaded.stored[report'[i].run], stored[report'[i].run])
                        /\ policy'[report'[i].run] = loaded.policy[report'[i].run]
    BY <1>1, <1>7 DEF RestoredAsReported
  <2>2. CASE i = n + 1
    BY <1>5, <1>6, <1>7, <2>1, <2>2 DEF PrefixHolds
  <2>3. CASE i \in 1..n
    <3>1. report'[i] = report[i] /\ report[i].run = Order[i] /\ Order[i] \in Runs /\ Order[i] # r
      BY <1>3, <1>7, <1>10, <1>17, <2>3
    <3>2. /\ IsPrefix(loaded.stored[report[i].run], stored[report[i].run])
          /\ policy[report[i].run] = loaded.policy[report[i].run]
      BY <1>1, <1>7, <2>1, <2>3, <3>1 DEF SnapshotsInv, RestoredAsReported
    <3> QED BY <1>9, <3>1, <3>2
  <2> QED BY <1>3, <2>2, <2>3
<1> QED BY <1>13, <1>14, <1>21, <1>22 DEF SnapshotsInv

LEMMA SnapshotsKeeps == SnapshotsInv /\ [SnapshotsNext]_snapVars => SnapshotsInv'
<1> SUFFICES ASSUME SnapshotsInv, [SnapshotsNext]_snapVars PROVE SnapshotsInv'
  OBVIOUS
<1>1. CASE UNCHANGED snapVars
  <2>1. UNCHANGED <<up, store, taking, restoring, restarts>>
    BY <1>1 DEF snapVars
  <2>2. UNCHANGED <<dir, queued, busy, final, taken>>
    BY <2>1 DEF taking
  <2>3. taken' \in 0..MaxTaken /\ queued' \in 0..MaxTaken
    BY <2>2 DEF SnapshotsInv, SnapTypes
  <2>4. SnapTypes' /\ RestoreFits' /\ RestoredAsReported' /\ Files' = Files
    BY <2>1, <2>3, OnlyTaking
  <2> QED BY <2>2, <2>4 DEF SnapshotsInv, FilesFit
<1> QED BY <1>1, CommitKeeps, LearnKeeps, LoseTailKeeps, TriggerSnapshotKeeps, TakeNextKeeps, SettleKeeps,
           SignalKeeps, ShutDownKeeps, KillKeeps, LoadKeeps, RecoverPlainKeeps,
           RestorePolicyFilesKeeps, RecoverRunKeeps DEF SnapshotsNext

\* Whatever is committed and learnt while a snapshot is under way, wherever the
\* process ends and whatever the store loses meanwhile: what this process wrote is
\* one moment of all runs, a run reported as restored goes on from the snapshot's
\* chain and policy, and no run is left behind by another's refusal; a policy file
\* that cannot be written may leave some behind.
THEOREM SnapshotsAreCuts == SnapshotsSpec => []SnapshotsSafe
<1>1. SnapshotsInit => SnapshotsInv
  <2> SUFFICES ASSUME SnapshotsInit PROVE SnapshotsInv
    OBVIOUS
  <2>1. <<>> \in Ids(0) /\ stamp = 0
    BY IdsAre DEF SnapshotsInit
  <2>2. SnapTypes
    <3>1. stored \in [Runs -> Ids(stamp)] /\ policy \in [Runs -> Ids(stamp)]
      BY <2>1 DEF SnapshotsInit
    <3>2. rolling \in [Runs -> [learnt : Ids(stamp), saved : BOOLEAN]]
      BY <2>1 DEF SnapshotsInit, NoPolicy
    <3>3. /\ up = "up" /\ stamp \in 0..MaxCommits /\ taken \in 0..MaxTaken /\ queued \in 0..MaxTaken
          /\ restarts \in Nat
      BY SnapshotsAssumption DEF SnapshotsInit
    <3> QED BY <3>1, <3>2, <3>3 DEF SnapTypes
  <2>3. FilesFit
    BY DEF SnapshotsInit, FilesFit
  <2>4. RestoreFits
    BY OrderIs DEF SnapshotsInit, RestoreFits, NoFile
  <2>5. RestoredAsReported
    BY DEF SnapshotsInit, RestoredAsReported
  <2> QED BY <2>2, <2>3, <2>4, <2>5 DEF SnapshotsInv
<1> QED BY <1>1, SnapshotsKeeps, SnapshotsInvImplies, PTL DEF SnapshotsSpec

---------------------------------------------------------------------------
(* Collection: the inductive invariant *)

SlotVerdicts == {"valid", "invalid"}
SlotStatuses == {"unattempted", "running"} \cup SlotVerdicts

Events == [slots : [Slots -> SlotStatuses], terminal : {"open", "completed", "failed"}]
Lines == Events \cup {TornLine}

AtWork == {"slot", "prepare", "branches", "journal"}
InSlot == {"prepare", "branches", "journal"}
Holding == AtWork \cup {"initialize", "release"}

Memories == [journal : Events, slot : Nat \ {0}, invalid : Nat]
SlotDirs == [batch : BOOLEAN, served : Seq(Slots \cup {0})]

CollectionTypeOK ==
    /\ lock \in Collectors \cup {"free"}
    /\ journal \in Seq(Lines)
    /\ at \in [Collectors -> Holding \cup {"off", "ended", "dead"}]
    /\ mem \in [Collectors -> Memories]
    /\ slotDir \in [Slots -> SlotDirs]
    /\ DOMAIN runsOf = Slots
    /\ auditing \in Events \cup {NotAuditing}

\* Only the holder of the lock is at work.
LockHeld == \A c \in Collectors : at[c] \in Holding => lock = c

Invalids(slots) == {s \in Slots : IsPrimary(s) /\ slots[s] = "invalid"}
Used(slots) == {s \in Slots : ~IsPrimary(s) /\ slots[s] # "unattempted"}

\* The reserves of one line.
WellUsed(slots) ==
    Used(slots) # {} =>
        /\ Used(slots) = (Primaries + 1)..(Primaries + Cardinality(Used(slots)))
        /\ Cardinality(Used(slots)) <= Cardinality(Invalids(slots))
        /\ \A s \in Slots : IsPrimary(s) => slots[s] \in SlotVerdicts

\* A later line: what was attempted has its verdict, and a verdict stands.
Follows(earlier, later) ==
    \A s \in Slots : earlier[s] # "unattempted" =>
        later[s] \in SlotVerdicts /\ (earlier[s] \in SlotVerdicts => later[s] = earlier[s])

Whole(slots) == \A s \in Slots : slots[s] = "valid" => CaseHolds(s)

\* Every line but the last is of a stage under way ...
OpenBefore ==
    \A i \in DOMAIN journal : i < Len(journal) =>
        journal[i] # TornLine /\ journal[i].terminal = "open"

\* ... each is sound by itself, and follows those before it.
LinesSound ==
    /\ \A i \in DOMAIN journal : journal[i] # TornLine =>
        WellUsed(journal[i].slots) /\ Whole(journal[i].slots)
    /\ \A i, j \in DOMAIN journal : i < j /\ journal[j] # TornLine =>
        Follows(journal[i].slots, journal[j].slots)

BatchFirst == \A s \in Slots : runsOf[s] # {} => slotDir[s].batch

\* What a collector at work has in memory: the slots before its own have their
\* verdicts, those after it are unattempted ...
MemoryOf(c) ==
    LET slot == mem[c].slot
        slots == mem[c].journal.slots
    IN  /\ mem[c].journal.terminal = "open"
        /\ slot <= Primaries + Reserves + 1
        /\ \A s \in Slots : s < slot => slots[s] \in SlotVerdicts
        /\ \A s \in Slots : s > slot => slots[s] = "unattempted"
        /\ mem[c].invalid = Cardinality(Invalids(slots))
        /\ Whole(slots)
        /\ slot <= Primaries + 1 + mem[c].invalid
        /\ at[c] \in InSlot => slot \in Slots /\ (slot <= Primaries \/ slot <= Primaries + mem[c].invalid)
        /\ slot \in Slots =>
            IF at[c] = "journal" THEN slots[slot] \in SlotVerdicts ELSE slots[slot] = "unattempted"
        /\ at[c] = "branches" => slotDir[slot].batch

\* ... and the journal says the same, but for the slot it is at.
Agrees(c) ==
    /\ journal # <<>>
    /\ \A i \in DOMAIN journal :
        /\ journal[i] # TornLine /\ journal[i].terminal = "open"
        /\ \A s \in Slots :
            /\ s < mem[c].slot /\ journal[i].slots[s] \in SlotVerdicts =>
                journal[i].slots[s] = mem[c].journal.slots[s]
            /\ s > mem[c].slot => journal[i].slots[s] = "unattempted"
            /\ s = mem[c].slot =>
                \/ journal[i].slots[s] = "unattempted"
                \/ journal[i].slots[s] = "running" /\ at[c] \in InSlot

WorkAgrees == \A c \in Collectors : at[c] \in AtWork => MemoryOf(c) /\ Agrees(c)

\* What an audit has read of a stage that is over is the journal's last word.
IsLastWord(event) == journal # <<>> /\ event = journal[Len(journal)]

AuditSound ==
    /\ auditing # NotAuditing /\ auditing.terminal # "open" => IsLastWord(auditing)
    /\ receipt.status = "verified" =>
        /\ IsLastWord(receipt.event) /\ receipt.event \in Events
        /\ receipt.event.terminal # "open"
        /\ \A s \in receipt.cases : s \in Slots /\ CaseHolds(s)

CollectionInv ==
    /\ CollectionTypeOK /\ LockHeld /\ OpenBefore /\ LinesSound
    /\ BatchFirst /\ WorkAgrees /\ AuditSound

---------------------------------------------------------------------------
(* Slots and lines *)

LEMMA SlotsAreNumbers ==
    /\ Primaries \in Nat /\ Reserves \in Nat
    /\ Slots = 1..(Primaries + Reserves) /\ Slots \subseteq Nat \ {0} /\ IsFiniteSet(Slots)
<1>1. Primaries \in Nat /\ Reserves \in Nat
  BY CollectionAssumption
<1>2. Primaries + Reserves \in Int /\ 1 \in Int
  BY <1>1
<1>3. IsFiniteSet(1..(Primaries + Reserves))
  BY <1>2, FS_Interval
<1> QED
  BY <1>1, <1>3 DEF Slots

LEMMA InvalidsFinite ==
    ASSUME NEW slots
    PROVE  IsFiniteSet(Invalids(slots)) /\ Cardinality(Invalids(slots)) \in Nat
<1>1. Invalids(slots) \in SUBSET Slots
  BY DEF Invalids
<1>2. IsFiniteSet(Invalids(slots))
  BY <1>1, SlotsAreNumbers, FS_Subset
<1> QED
  BY <1>2, FS_CardinalityType

\* A verdict on a slot that had none.
LEMMA InvalidsCount ==
    ASSUME NEW slots \in [Slots -> SlotStatuses], NEW k \in Slots, slots[k] # "invalid",
           NEW v \in SlotStatuses, NEW next, next = [slots EXCEPT ![k] = v]
    PROVE  Cardinality(Invalids(next)) =
               Cardinality(Invalids(slots)) + IF v = "invalid" /\ IsPrimary(k) THEN 1 ELSE 0
<1>1. \A s \in Slots : next[s] = IF s = k THEN v ELSE slots[s]
  OBVIOUS
<1>2. k \notin Invalids(slots)
  BY DEF Invalids
<1>3. CASE v = "invalid" /\ IsPrimary(k)
  <2>1. Invalids(next) = Invalids(slots) \cup {k}
    BY <1>1, <1>3 DEF Invalids
  <2> QED
    BY <1>2, <1>3, <2>1, InvalidsFinite, FS_AddElement
<1>4. CASE ~(v = "invalid" /\ IsPrimary(k))
  <2>1. Invalids(next) = Invalids(slots)
    BY <1>1, <1>4 DEF Invalids
  <2>2. Cardinality(Invalids(slots)) \in Nat
    BY InvalidsFinite
  <2> QED
    BY <1>4, <2>1, <2>2
<1> QED
  BY <1>3, <1>4

\* The slots up to n are attempted: the reserves among them have their reason.
LEMMA UsedUpTo ==
    ASSUME NEW slots \in [Slots -> SlotStatuses], NEW n \in Nat, n <= Primaries + Reserves,
           \A s \in Slots : s <= n <=> slots[s] # "unattempted",
           n > Primaries => /\ \A s \in Slots : IsPrimary(s) => slots[s] \in SlotVerdicts
                            /\ n <= Primaries + Cardinality(Invalids(slots))
    PROVE  WellUsed(slots)
<1> SUFFICES ASSUME Used(slots) # {}
             PROVE  /\ Used(slots) = (Primaries + 1)..(Primaries + Cardinality(Used(slots)))
                    /\ Cardinality(Used(slots)) <= Cardinality(Invalids(slots))
                    /\ \A s \in Slots : IsPrimary(s) => slots[s] \in SlotVerdicts
  BY DEF WellUsed
<1>1. n > Primaries
  <2>1. PICK s \in Slots : ~IsPrimary(s) /\ slots[s] # "unattempted"
    BY DEF Used
  <2>2. s <= n /\ s > Primaries /\ s \in Nat
    BY <2>1, SlotsAreNumbers DEF IsPrimary
  <2> QED
    BY <2>2, SlotsAreNumbers
<1>2. Used(slots) = (Primaries + 1)..n
  <2>1. \A s : s \in Used(slots) <=> s \in 1..(Primaries + Reserves) /\ s > Primaries /\ s <= n
    BY SlotsAreNumbers DEF Used, IsPrimary
  <2>2. \A s : s \in (Primaries + 1)..n <=> s \in 1..(Primaries + Reserves) /\ s > Primaries /\ s <= n
    BY SlotsAreNumbers
  <2> QED
    BY <2>1, <2>2
<1>3. Cardinality(Used(slots)) = n - Primaries
  <2>1. Primaries + 1 \in Int /\ n \in Int /\ ~(Primaries + 1 > n)
    BY <1>1, SlotsAreNumbers
  <2>2. Cardinality((Primaries + 1)..n) = n - (Primaries + 1) + 1
    BY <2>1, FS_Interval
  <2> QED
    BY <1>2, <2>2, SlotsAreNumbers
<1>4. Cardinality(Invalids(slots)) \in Nat
  BY InvalidsFinite
<1>5. Primaries + Cardinality(Used(slots)) = n
  BY <1>3, SlotsAreNumbers
<1>6. Cardinality(Used(slots)) <= Cardinality(Invalids(slots))
  BY <1>1, <1>3, <1>4, SlotsAreNumbers
<1> QED
  BY <1>1, <1>2, <1>5, <1>6

\* A line is an event, or torn.
LEMMA LineShape ==
    ASSUME CollectionTypeOK, NEW i \in DOMAIN journal
    PROVE  /\ journal[i] \in Lines
           /\ journal[i] # TornLine =>
                journal[i] \in Events /\ journal[i].slots \in [Slots -> SlotStatuses]
<1>1. journal[i] \in Lines
  BY ElementOfSeq DEF CollectionTypeOK
<1> QED
  BY <1>1 DEF Lines, Events

LEMMA TornIsNoEvent == \A e \in Events : e # TornLine /\ e # NotAuditing
<1> SUFFICES ASSUME NEW e \in Events PROVE e # TornLine /\ e # NotAuditing
  OBVIOUS
<1>1. e.terminal \in {"open", "completed", "failed"}
  BY DEF Events
<1>2. TornLine.terminal = "torn" /\ NotAuditing.terminal = "none"
  BY DEF TornLine, NotAuditing
<1> QED
  BY <1>1, <1>2

---------------------------------------------------------------------------
(* The lock *)

LEMMA OnlyHolder ==
    ASSUME LockHeld, NEW c \in Collectors, at[c] \in Holding
    PROVE  lock = c /\ \A d \in Collectors : d # c => at[d] \notin Holding
BY DEF LockHeld

\* The holder goes on ...
LEMMA HolderGoes ==
    ASSUME CollectionTypeOK, LockHeld, NEW c \in Collectors, at[c] \in Holding,
           NEW next \in Holding, at' = [at EXCEPT ![c] = next], lock' = lock
    PROVE  /\ LockHeld'
           /\ \A d \in Collectors : at'[d] \in Holding => d = c
           /\ at'[c] = next /\ at' \in [Collectors -> Holding \cup {"off", "ended", "dead"}]
<1>1. lock = c /\ \A d \in Collectors : d # c => at[d] \notin Holding
  BY OnlyHolder
<1>2. /\ at'[c] = next /\ \A d \in Collectors : d # c => at'[d] = at[d]
      /\ at' \in [Collectors -> Holding \cup {"off", "ended", "dead"}]
  BY DEF CollectionTypeOK
<1> QED
  BY <1>1, <1>2 DEF LockHeld

\* ... or leaves, is through, or dies: then nobody is at work, whether the lock
\* was given back or not.
Goes(c) ==
    \/ Leave(c)
    \/ at' = [at EXCEPT ![c] = "ended"] /\ (lock' = "free" \/ lock' = lock)
    \/ at' = [at EXCEPT ![c] = "dead"] /\ lock' = lock

LEMMA HolderLeaves ==
    ASSUME CollectionTypeOK, LockHeld, NEW c \in Collectors, at[c] \in Holding, Goes(c)
    PROVE  /\ LockHeld' /\ \A d \in Collectors : at'[d] \notin AtWork
           /\ at' \in [Collectors -> Holding \cup {"off", "ended", "dead"}]
           /\ lock' \in Collectors \cup {"free"}
<1>1. lock = c /\ \A d \in Collectors : d # c => at[d] \notin Holding
  BY OnlyHolder
<1> PICK end \in {"release", "ended", "dead"} :
        /\ at' = [at EXCEPT ![c] = end]
        /\ lock' = c \/ (lock' = "free" /\ end = "ended")
  BY <1>1 DEF Leave, Goes
<1>2. /\ at'[c] = end /\ \A d \in Collectors : d # c => at'[d] = at[d]
      /\ at' \in [Collectors -> Holding \cup {"off", "ended", "dead"}]
  BY DEF CollectionTypeOK, Holding
<1>3. \A d \in Collectors : at'[d] \notin AtWork
  BY <1>1, <1>2 DEF Holding, AtWork
<1>4. LockHeld'
  BY <1>1, <1>2 DEF LockHeld, Holding, AtWork
<1> QED
  BY <1>2, <1>3, <1>4

LEMMA NobodyAtWork ==
    (\A d \in Collectors : at'[d] \notin AtWork) => WorkAgrees'
BY DEF WorkAgrees

---------------------------------------------------------------------------
(* The journal *)

\* The stage is not over.
StillOpen == journal = <<>> \/ journal[Len(journal)].terminal = "open"

\* Nothing has been read of a stage that is over: what is written is no matter.
LEMMA AuditWaits ==
    AuditSound /\ StillOpen /\ auditing' = auditing /\ receipt' = receipt => AuditSound'
BY DEF AuditSound, StillOpen, IsLastWord

LEMMA AuditStays ==
    AuditSound /\ UNCHANGED <<journal, slotDir, auditing, receipt>>
        => AuditSound'
<1> SUFFICES ASSUME AuditSound, UNCHANGED <<journal, slotDir, auditing, receipt>>
             PROVE  AuditSound'
  OBVIOUS
<1>1. \A s : CaseHolds(s)' <=> CaseHolds(s)
  BY DEF CaseHolds
<1> QED
  BY <1>1 DEF AuditSound, IsLastWord, Events, Slots

\* The lines stay, and so do the cases they call valid.
LEMMA LinesStay ==
    ASSUME CollectionTypeOK, LinesSound, OpenBefore, journal' = journal,
           \A i \in DOMAIN journal : \A s \in Slots :
                journal[i] # TornLine /\ journal[i].slots[s] = "valid" /\ CaseHolds(s)
                    => CaseHolds(s)'
    PROVE  LinesSound' /\ OpenBefore'
<1>1. \A i \in DOMAIN journal : journal[i] # TornLine => Whole(journal[i].slots)'
  BY DEF LinesSound, Whole
<1> QED
  BY <1>1 DEF LinesSound, OpenBefore, Whole

LEMMA SameLines ==
    ASSUME CollectionTypeOK, LinesSound, OpenBefore, UNCHANGED <<journal, slotDir>>
    PROVE  LinesSound' /\ OpenBefore'
<1>1. \A s \in Slots : CaseHolds(s) => CaseHolds(s)'
  BY DEF CaseHolds
<1> QED
  BY <1>1, LinesStay

\* A line is appended to a journal of a stage that is under way, or to none.
LEMMA OneMoreLine ==
    ASSUME CollectionTypeOK, LinesSound, OpenBefore,
           journal # <<>> => journal[Len(journal)] # TornLine
                             /\ journal[Len(journal)].terminal = "open",
           NEW e \in Lines, journal' = Append(journal, e), slotDir' = slotDir,
           e # TornLine => /\ WellUsed(e.slots) /\ Whole(e.slots)
                           /\ \A i \in DOMAIN journal : Follows(journal[i].slots, e.slots)
    PROVE  journal' \in Seq(Lines) /\ LinesSound' /\ OpenBefore'
<1>1. /\ journal' \in Seq(Lines) /\ Len(journal) \in Nat /\ Len(journal') = Len(journal) + 1
      /\ DOMAIN journal = 1..Len(journal) /\ DOMAIN journal' = 1..(Len(journal) + 1)
      /\ journal'[Len(journal) + 1] = e
      /\ \A i \in DOMAIN journal : journal'[i] = journal[i]
  BY AppendProperties, LenProperties DEF CollectionTypeOK
<1>2. \A s : CaseHolds(s)' <=> CaseHolds(s)
  BY DEF CaseHolds
<1>3. \A i \in DOMAIN journal : journal[i] # TornLine /\ journal[i].terminal = "open"
  <2> SUFFICES ASSUME NEW i \in DOMAIN journal
               PROVE  journal[i] # TornLine /\ journal[i].terminal = "open"
    OBVIOUS
  <2>1. journal # <<>> /\ (i < Len(journal) \/ i = Len(journal))
    BY <1>1
  <2> QED
    BY <2>1 DEF OpenBefore
<1>4. OpenBefore'
  BY <1>1, <1>3 DEF OpenBefore
<1>5. ASSUME NEW i \in DOMAIN journal', journal'[i] # TornLine
      PROVE  WellUsed(journal'[i].slots) /\ Whole(journal'[i].slots)
  <2>1. CASE i \in DOMAIN journal
    BY <1>1, <1>5, <2>1 DEF LinesSound
  <2>2. CASE i = Len(journal) + 1
    BY <1>1, <1>5, <2>2
  <2> QED
    BY <1>1, <2>1, <2>2
<1>6. ASSUME NEW i \in DOMAIN journal', NEW j \in DOMAIN journal', i < j, journal'[j] # TornLine
      PROVE  Follows(journal'[i].slots, journal'[j].slots)
  <2>1. i \in DOMAIN journal
    BY <1>1, <1>6
  <2>2. CASE j \in DOMAIN journal
    BY <1>1, <1>6, <2>1, <2>2 DEF LinesSound
  <2>3. CASE j = Len(journal) + 1
    BY <1>1, <1>6, <2>1, <2>3
  <2> QED
    BY <1>1, <2>2, <2>3
<1>7. \A slots : Whole(slots)' <=> Whole(slots)
  BY <1>2 DEF Whole
<1>8. LinesSound'
  BY <1>5, <1>6, <1>7, SMTT(30) DEF LinesSound, WellUsed, Follows, Whole
<1> QED
  BY <1>1, <1>4, <1>8

---------------------------------------------------------------------------
(* Steps of the one that is at work *)

LEMMA WorkerFacts ==
    ASSUME CollectionInv, NEW c \in Collectors, at[c] \in AtWork
    PROVE  /\ MemoryOf(c) /\ Agrees(c) /\ StillOpen /\ at[c] \in Holding
           /\ mem[c] \in Memories /\ mem[c].journal \in Events
           /\ mem[c].journal.slots \in [Slots -> SlotStatuses]
           /\ mem[c].slot \in Nat \ {0} /\ mem[c].invalid \in Nat
<1>1. MemoryOf(c) /\ Agrees(c)
  BY DEF CollectionInv, WorkAgrees
<1>2. StillOpen
  <2>1. journal # <<>> /\ Len(journal) \in DOMAIN journal
    BY <1>1, LenProperties DEF Agrees, CollectionInv, CollectionTypeOK
  <2> QED
    BY <1>1, <2>1 DEF StillOpen, Agrees
<1>3. mem[c] \in Memories
  BY DEF CollectionInv, CollectionTypeOK
<1> QED
  BY <1>1, <1>2, <1>3 DEF Memories, Events, Holding

\* The journal and the memory stay, and the slot is still under way.
LEMMA AgreesStays ==
    ASSUME NEW c, Agrees(c), journal' = journal, mem'[c] = mem[c],
           at[c] \in InSlot => at'[c] \in InSlot
    PROVE  Agrees(c)'
<1>1. Slots' = Slots
  BY DEF Slots
<1> QED
  BY <1>1 DEF Agrees

\* A step that writes no line.
LEMMA WorksOn ==
    ASSUME CollectionInv, NEW c \in Collectors, at[c] \in AtWork,
           NEW next \in AtWork, at' = [at EXCEPT ![c] = next],
           UNCHANGED <<lock, journal, receipt, auditing>>,
           mem' \in [Collectors -> Memories], slotDir' \in [Slots -> SlotDirs],
           DOMAIN runsOf' = Slots, BatchFirst',
           \A s \in Slots : s # mem[c].slot => (CaseHolds(s) => CaseHolds(s)'),
           MemoryOf(c)', Agrees(c)'
    PROVE  CollectionInv'
<1>1. /\ MemoryOf(c) /\ Agrees(c) /\ StillOpen /\ at[c] \in Holding
      /\ mem[c].slot \in Nat \ {0}
  BY WorkerFacts
<1>2. next \in Holding
  BY DEF Holding
<1>3. /\ LockHeld' /\ \A d \in Collectors : at'[d] \in Holding => d = c
      /\ at'[c] = next /\ at' \in [Collectors -> Holding \cup {"off", "ended", "dead"}]
  BY <1>1, <1>2, HolderGoes DEF CollectionInv
<1>4. WorkAgrees'
  BY <1>3 DEF WorkAgrees, Holding
<1>5. CollectionTypeOK'
  BY <1>3 DEF CollectionInv, CollectionTypeOK, Slots, Events
<1>6. \A i \in DOMAIN journal : \A s \in Slots :
        journal[i] # TornLine /\ journal[i].slots[s] = "valid" /\ CaseHolds(s) => CaseHolds(s)'
  BY <1>1 DEF Agrees
<1>7. LinesSound' /\ OpenBefore'
  BY <1>6, LinesStay DEF CollectionInv
<1>8. AuditSound'
  BY <1>1, AuditWaits DEF CollectionInv
<1> QED
  BY <1>3, <1>4, <1>5, <1>7, <1>8 DEF CollectionInv

\* A step that ends with a line: it is written, refused, or torn.
LEMMA Appends ==
    ASSUME CollectionInv, NEW c \in Collectors, at[c] \in AtWork,
           NEW e \in Events, NEW next \in Holding, AppendEvent(c, e, next),
           UNCHANGED <<slotDir, runsOf, receipt, auditing>>,
           mem' \in [Collectors -> Memories],
           WellUsed(e.slots), Whole(e.slots),
           \A i \in DOMAIN journal : Follows(journal[i].slots, e.slots),
           journal' = Append(journal, e) /\ at'[c] = next /\ next \in AtWork
               => MemoryOf(c)' /\ Agrees(c)'
    PROVE  CollectionInv'
<1>1. StillOpen /\ at[c] \in Holding
  BY WorkerFacts
<1>2. AuditSound'
  BY <1>1, AuditWaits DEF CollectionInv
<1>3. BatchFirst'
  BY DEF CollectionInv, BatchFirst, Slots
<1>4. Readable => journal # <<>> /\ Len(journal) \in DOMAIN journal
                  /\ journal[Len(journal)] # TornLine
  BY LenProperties DEF Readable, CollectionInv, CollectionTypeOK
<1>5. e # TornLine /\ e \in Lines /\ TornLine \in Lines
  BY TornIsNoEvent DEF Lines
<1>6. CASE /\ Readable /\ Last(journal).terminal = "open"
           /\ journal' = Append(journal, e)
           /\ at' = [at EXCEPT ![c] = next] /\ UNCHANGED <<lock, faults>>
  <2>1. /\ LockHeld' /\ \A d \in Collectors : at'[d] \in Holding => d = c
        /\ at'[c] = next /\ at' \in [Collectors -> Holding \cup {"off", "ended", "dead"}]
    BY <1>1, <1>6, HolderGoes DEF CollectionInv
  <2>2. journal' \in Seq(Lines) /\ LinesSound' /\ OpenBefore'
    BY <1>4, <1>5, <1>6, OneMoreLine DEF CollectionInv, Last
  <2>3. WorkAgrees'
    BY <1>6, <2>1 DEF WorkAgrees, Holding
  <2>4. CollectionTypeOK'
    BY <1>6, <2>1, <2>2 DEF CollectionInv, CollectionTypeOK, Slots, Events
  <2> QED
    BY <1>2, <1>3, <2>1, <2>2, <2>3, <2>4 DEF CollectionInv
<1>7. CASE Leave(c) /\ journal' = journal
  <2>1. /\ LockHeld' /\ \A d \in Collectors : at'[d] \notin AtWork
        /\ at' \in [Collectors -> Holding \cup {"off", "ended", "dead"}]
        /\ lock' \in Collectors \cup {"free"}
    BY <1>1, <1>7, HolderLeaves DEF CollectionInv, Goes
  <2>2. LinesSound' /\ OpenBefore'
    BY <1>7, SameLines DEF CollectionInv
  <2>3. CollectionTypeOK'
    BY <1>7, <2>1 DEF CollectionInv, CollectionTypeOK, Slots, Events
  <2> QED
    BY <1>2, <1>3, <2>1, <2>2, <2>3, NobodyAtWork DEF CollectionInv
<1>8. CASE /\ Leave(c) /\ Readable /\ Last(journal).terminal = "open"
           /\ \E line \in {TornLine, e} : journal' = Append(journal, line)
  <2> PICK line \in {TornLine, e} : journal' = Append(journal, line)
    BY <1>8
  <2>1. /\ LockHeld' /\ \A d \in Collectors : at'[d] \notin AtWork
        /\ at' \in [Collectors -> Holding \cup {"off", "ended", "dead"}]
        /\ lock' \in Collectors \cup {"free"}
    BY <1>1, <1>8, HolderLeaves DEF CollectionInv, Goes
  <2>2. journal' \in Seq(Lines) /\ LinesSound' /\ OpenBefore'
    BY <1>4, <1>5, <1>8, OneMoreLine DEF CollectionInv, Last
  <2>3. CollectionTypeOK'
    BY <2>1, <2>2 DEF CollectionInv, CollectionTypeOK, Slots, Events
  <2> QED
    BY <1>2, <1>3, <2>1, <2>2, <2>3, NobodyAtWork DEF CollectionInv
<1> QED
  BY <1>6, <1>7, <1>8 DEF AppendEvent

\* What the new line says follows what the lines say.
LEMMA FollowsAll ==
    ASSUME CollectionInv, NEW c \in Collectors, at[c] \in AtWork,
           NEW slots \in [Slots -> SlotStatuses],
           \A s \in Slots : s < mem[c].slot => slots[s] = mem[c].journal.slots[s],
           at[c] \in InSlot /\ mem[c].slot \in Slots => slots[mem[c].slot] \in SlotVerdicts
    PROVE  \A i \in DOMAIN journal : Follows(journal[i].slots, slots)
<1>1. /\ MemoryOf(c) /\ Agrees(c) /\ mem[c].slot \in Nat \ {0}
  BY WorkerFacts
<1> SUFFICES ASSUME NEW i \in DOMAIN journal, NEW s \in Slots, journal[i].slots[s] # "unattempted"
             PROVE  /\ slots[s] \in SlotVerdicts
                    /\ journal[i].slots[s] \in SlotVerdicts => slots[s] = journal[i].slots[s]
  BY DEF Follows
<1>2. s \in Nat /\ (s < mem[c].slot \/ s = mem[c].slot)
  BY <1>1, SlotsAreNumbers DEF Agrees
<1>3. CASE s < mem[c].slot
  <2>1. slots[s] \in SlotVerdicts
    BY <1>1, <1>3 DEF MemoryOf
  <2> QED
    BY <1>1, <1>3, <2>1 DEF Agrees
<1>4. CASE s = mem[c].slot
  <2>1. journal[i].slots[s] = "running" /\ at[c] \in InSlot
    BY <1>1, <1>4 DEF Agrees
  <2> QED
    BY <1>4, <2>1 DEF SlotVerdicts
<1> QED
  BY <1>2, <1>3, <1>4

\* What is thrown in a slot ends it, and nothing else.
LEMMA ThrowsKeep ==
    ASSUME CollectionInv, NEW c \in Collectors, at[c] \in {"prepare", "branches"}, Throws(c),
           journal' = journal,
           \A s \in Slots : s # mem[c].slot => (CaseHolds(s) => CaseHolds(s)')
    PROVE  /\ mem' \in [Collectors -> Memories] /\ MemoryOf(c)' /\ Agrees(c)'
           /\ at' = [at EXCEPT ![c] = "journal"]
<1>1. /\ MemoryOf(c) /\ Agrees(c) /\ mem[c] \in Memories /\ mem[c].journal \in Events
      /\ mem[c].journal.slots \in [Slots -> SlotStatuses]
      /\ mem[c].slot \in Nat \ {0} /\ mem[c].invalid \in Nat
  BY WorkerFacts DEF AtWork
<1>2. mem[c].slot \in Slots /\ mem[c].journal.slots[mem[c].slot] = "unattempted"
  BY <1>1 DEF MemoryOf, InSlot
<1> PICK slots : slots = [mem[c].journal.slots EXCEPT ![mem[c].slot] = "invalid"]
  OBVIOUS
<1> PICK k \in Nat : k = IF IsPrimary(mem[c].slot) THEN mem[c].invalid + 1 ELSE mem[c].invalid
  BY <1>1
<1>3. /\ mem' = [mem EXCEPT ![c].journal = [@ EXCEPT !.slots = slots], ![c].invalid = k]
      /\ at' = [at EXCEPT ![c] = "journal"]
  BY DEF Throws, WithStatus
<1>4. slots \in [Slots -> SlotStatuses]
  BY <1>1 DEF SlotStatuses, SlotVerdicts
<1>5. [mem[c].journal EXCEPT !.slots = slots] \in Events
  BY <1>1, <1>4 DEF Events
<1>6. mem \in [Collectors -> Memories]
  BY DEF CollectionInv, CollectionTypeOK
<1>7. /\ mem' \in [Collectors -> Memories]
      /\ mem'[c].slot = mem[c].slot /\ mem'[c].invalid = k
      /\ mem'[c].journal.slots = slots /\ mem'[c].journal.terminal = mem[c].journal.terminal
  BY <1>1, <1>3, <1>5, <1>6 DEF Memories, Events
<1>8. at'[c] = "journal"
  BY <1>3 DEF CollectionInv, CollectionTypeOK
<1>9. Cardinality(Invalids(slots)) = k
  <2>1. "invalid" \in SlotStatuses
    BY DEF SlotStatuses, SlotVerdicts
  <2>2. Cardinality(Invalids(slots)) =
            Cardinality(Invalids(mem[c].journal.slots)) + IF IsPrimary(mem[c].slot) THEN 1 ELSE 0
    BY <1>1, <1>2, <2>1, InvalidsCount
  <2>3. Cardinality(Invalids(mem[c].journal.slots)) = mem[c].invalid
    BY <1>1 DEF MemoryOf
  <2> QED
    BY <1>1, <2>2, <2>3
<1>10. \A s \in Slots : slots[s] = IF s = mem[c].slot THEN "invalid" ELSE mem[c].journal.slots[s]
  BY <1>1
<1>11. Whole(slots)'
  <2>1. \A s \in Slots : slots[s] = "valid" => s # mem[c].slot /\ CaseHolds(s)
    BY <1>1, <1>10 DEF MemoryOf, Whole
  <2> QED
    BY <2>1 DEF Whole, Slots
<1>12. MemoryOf(c)'
  <2>1. mem[c].invalid <= k
    BY <1>1
  <2>2. /\ mem'[c].journal.terminal = "open"
        /\ mem'[c].slot <= Primaries + Reserves + 1
        /\ \A s \in Slots : s < mem'[c].slot => slots[s] \in SlotVerdicts
        /\ \A s \in Slots : s > mem'[c].slot => slots[s] = "unattempted"
    <3>1. mem[c].journal.terminal = "open"
      BY <1>1 DEF MemoryOf
    <3>2. mem[c].slot <= Primaries + Reserves + 1
      BY <1>2, SlotsAreNumbers
    <3>3. \A s \in Slots : s \in Nat /\ (s < mem[c].slot \/ s > mem[c].slot => s # mem[c].slot)
      BY <1>1, SlotsAreNumbers
    <3>4. \A s \in Slots : s < mem[c].slot => slots[s] \in SlotVerdicts
      <4>1. \A s \in Slots : s < mem[c].slot => mem[c].journal.slots[s] \in SlotVerdicts
        BY <1>1 DEF MemoryOf
      <4> QED
        BY <1>10, <3>3, <4>1
    <3>5. \A s \in Slots : s > mem[c].slot => slots[s] = "unattempted"
      <4>1. \A s \in Slots : s > mem[c].slot => mem[c].journal.slots[s] = "unattempted"
        BY <1>1 DEF MemoryOf
      <4> QED
        BY <1>10, <3>3, <4>1
    <3> QED
      BY <1>7, <3>1, <3>2, <3>4, <3>5
  <2>3. /\ mem'[c].slot <= Primaries + 1 + mem'[c].invalid
        /\ mem'[c].slot <= Primaries \/ mem'[c].slot <= Primaries + mem'[c].invalid
    BY <1>1, <1>7, <2>1, SlotsAreNumbers, SMTT(30) DEF MemoryOf, InSlot
  <2>4. slots[mem'[c].slot] \in SlotVerdicts /\ mem'[c].slot \in Slots
    BY <1>2, <1>7, <1>10 DEF SlotVerdicts
  <2> QED
    BY <1>7, <1>8, <1>9, <1>11, <2>2, <2>3, <2>4 DEF MemoryOf, Slots, Invalids, IsPrimary
<1>13. Agrees(c)'
  <2> SUFFICES ASSUME NEW i \in DOMAIN journal
               PROVE  /\ journal[i] # TornLine /\ journal[i].terminal = "open"
                      /\ \A s \in Slots :
                          /\ s < mem[c].slot /\ journal[i].slots[s] \in SlotVerdicts =>
                              journal[i].slots[s] = slots[s]
                          /\ s > mem[c].slot => journal[i].slots[s] = "unattempted"
                          /\ s = mem[c].slot => journal[i].slots[s] \in {"unattempted", "running"}
    BY <1>1, <1>7, <1>8 DEF Agrees, Slots, InSlot
  <2>1. \A s \in Slots : s < mem[c].slot => slots[s] = mem[c].journal.slots[s]
    BY <1>10, <1>1, SlotsAreNumbers
  <2> QED
    BY <1>1, <2>1 DEF Agrees
<1> QED
  BY <1>3, <1>7, <1>12, <1>13

LEMMA PrepareSlotKeeps == ASSUME NEW c \in Collectors, CollectionInv, PrepareSlot(c)
                          PROVE  CollectionInv'
<1>1. /\ MemoryOf(c) /\ Agrees(c)
      /\ mem[c].slot \in Nat \ {0} /\ mem[c].slot \in Slots /\ at[c] \in AtWork
  BY WorkerFacts DEF PrepareSlot, AtWork, MemoryOf, InSlot
<1>2. /\ slotDir \in [Slots -> SlotDirs] /\ mem \in [Collectors -> Memories]
      /\ DOMAIN runsOf = Slots /\ BatchFirst
  BY DEF CollectionInv, CollectionTypeOK
<1>3. CASE /\ slotDir' = [slotDir EXCEPT ![mem[c].slot].batch = TRUE]
           /\ at' = [at EXCEPT ![c] = "branches"] /\ UNCHANGED <<mem, faults>>
  <2>1. slotDir' \in [Slots -> SlotDirs] /\ slotDir'[mem[c].slot].batch
        /\ \A s \in Slots : slotDir'[s].served = slotDir[s].served
                            /\ (slotDir[s].batch => slotDir'[s].batch)
    BY <1>1, <1>2, <1>3 DEF SlotDirs
  <2>2. \A s \in Slots : CaseHolds(s) => CaseHolds(s)'
    BY <2>1 DEF CaseHolds
  <2>3. BatchFirst'
    BY <1>2, <2>1 DEF BatchFirst, PrepareSlot, Slots
  <2>4. at'[c] = "branches"
    BY <1>3 DEF CollectionInv, CollectionTypeOK
  <2>5. Whole(mem[c].journal.slots)'
    BY <1>1, <1>3, <2>2 DEF MemoryOf, Whole, Slots
  <2>6. MemoryOf(c)'
    BY <1>1, <1>3, <2>1, <2>4, <2>5 DEF MemoryOf, InSlot, Slots, Invalids, IsPrimary, PrepareSlot
  <2>7. Agrees(c)'
    BY <1>1, <1>3, <2>4, AgreesStays DEF InSlot, PrepareSlot
  <2> QED
    BY <1>1, <1>2, <1>3, <2>1, <2>2, <2>3, <2>6, <2>7, WorksOn DEF PrepareSlot, AtWork
<1>4. CASE Fault /\ Throws(c) /\ UNCHANGED slotDir
  <2>1. \A s \in Slots : CaseHolds(s) => CaseHolds(s)'
    BY <1>4 DEF CaseHolds
  <2>2. /\ mem' \in [Collectors -> Memories] /\ MemoryOf(c)' /\ Agrees(c)'
        /\ at' = [at EXCEPT ![c] = "journal"]
    BY <1>4, <2>1, ThrowsKeep DEF PrepareSlot
  <2>3. BatchFirst'
    BY <1>2, <1>4 DEF BatchFirst, PrepareSlot, Slots
  <2> QED
    BY <1>1, <1>2, <1>4, <2>1, <2>2, <2>3, WorksOn DEF PrepareSlot, AtWork
<1> QED
  BY <1>3, <1>4 DEF PrepareSlot

LEMMA RunBranchKeeps == ASSUME NEW c \in Collectors, CollectionInv, RunBranch(c)
                        PROVE  CollectionInv'
<1>1. /\ MemoryOf(c) /\ Agrees(c)
      /\ mem[c].slot \in Nat \ {0} /\ mem[c].slot \in Slots /\ at[c] = "branches"
      /\ at[c] \in AtWork /\ slotDir[mem[c].slot].batch
      /\ mem[c].journal.slots[mem[c].slot] = "unattempted"
  BY WorkerFacts DEF RunBranch, AtWork, MemoryOf, InSlot
<1>2. /\ slotDir \in [Slots -> SlotDirs] /\ mem \in [Collectors -> Memories]
      /\ DOMAIN runsOf = Slots /\ BatchFirst
      /\ at \in [Collectors -> Holding \cup {"off", "ended", "dead"}]
  BY DEF CollectionInv, CollectionTypeOK
<1> PICK s : s = mem[c].slot
  OBVIOUS
<1> PICK b : b = Branches[Len(slotDir[s].served) + 1]
  OBVIOUS
\* The branch was asked, or was refused before it.
<1>3. CASE Throws(c) /\ UNCHANGED slotDir
           /\ (runsOf' = runsOf \/ runsOf' = [runsOf EXCEPT ![s] = @ \cup {b}])
  <2>1. \A t \in Slots : CaseHolds(t) => CaseHolds(t)'
    BY <1>3 DEF CaseHolds
  <2>2. /\ mem' \in [Collectors -> Memories] /\ MemoryOf(c)' /\ Agrees(c)'
        /\ at' = [at EXCEPT ![c] = "journal"]
    BY <1>3, <2>1, ThrowsKeep DEF RunBranch
  <2>3. DOMAIN runsOf' = Slots /\ \A t \in Slots : t # s => runsOf'[t] = runsOf[t]
    BY <1>1, <1>2, <1>3
  <2>4. BatchFirst'
    BY <1>1, <1>2, <1>3, <2>3 DEF BatchFirst, Slots
  <2> QED
    BY <1>1, <1>2, <1>3, <2>1, <2>2, <2>3, <2>4, WorksOn DEF RunBranch, AtWork
\* Its bundle is there: of the scheduled case, or of another.
<1>4. ASSUME NEW case \in {s, 0}, slotDir' = [slotDir EXCEPT ![s].served = Append(@, case)],
             runsOf' = [runsOf EXCEPT ![s] = @ \cup {b}], UNCHANGED <<at, mem>>
      PROVE  CollectionInv'
  <2>1. slotDir[s] \in SlotDirs /\ slotDir[s].served \in Seq(Slots \cup {0})
    BY <1>1, <1>2 DEF SlotDirs
  <2>2. Append(slotDir[s].served, case) \in Seq(Slots \cup {0})
    BY <1>1, <2>1
  <2>3. /\ slotDir' \in [Slots -> SlotDirs]
        /\ \A t \in Slots : slotDir'[t].batch = slotDir[t].batch /\ (t # s => slotDir'[t] = slotDir[t])
    BY <1>1, <1>2, <1>4, <2>2, ZenonT(60) DEF SlotDirs
  <2>4. \A t \in Slots : t # s => (CaseHolds(t) => CaseHolds(t)')
    BY <2>3 DEF CaseHolds
  <2>5. DOMAIN runsOf' = Slots /\ \A t \in Slots : t # s => runsOf'[t] = runsOf[t]
    BY <1>1, <1>2, <1>4
  <2>6. BatchFirst'
    BY <1>1, <1>2, <2>3, <2>5 DEF BatchFirst, Slots
  <2>7. Whole(mem[c].journal.slots)'
    BY <1>1, <1>4, <2>4 DEF MemoryOf, Whole, Slots
  <2>8. MemoryOf(c)'
    BY <1>1, <1>4, <2>3, <2>7 DEF MemoryOf, InSlot, Slots, Invalids, IsPrimary
  <2>9. Agrees(c)'
    BY <1>1, <1>4, AgreesStays DEF RunBranch
  <2>10. at' = [at EXCEPT ![c] = "branches"]
    BY <1>1, <1>2, <1>4
  <2> QED
    BY <1>1, <1>2, <1>4, <2>3, <2>4, <2>5, <2>6, <2>8, <2>9, <2>10, WorksOn DEF RunBranch, AtWork
<1> QED
  BY <1>3, <1>4 DEF RunBranch

\* The holder leaves, or dies, and writes nothing.
LEMMA LeavesKeep ==
    ASSUME CollectionInv, NEW c \in Collectors, at[c] \in Holding, Goes(c),
           UNCHANGED <<journal, mem, slotDir, runsOf, receipt, auditing>>
    PROVE  CollectionInv'
<1>1. /\ LockHeld' /\ \A d \in Collectors : at'[d] \notin AtWork
      /\ at' \in [Collectors -> Holding \cup {"off", "ended", "dead"}]
      /\ lock' \in Collectors \cup {"free"}
  BY HolderLeaves DEF CollectionInv
<1>2. LinesSound' /\ OpenBefore'
  BY SameLines DEF CollectionInv
<1>3. AuditSound'
  BY AuditStays DEF CollectionInv
<1>4. BatchFirst'
  BY DEF CollectionInv, BatchFirst, Slots
<1>5. CollectionTypeOK'
  BY <1>1 DEF CollectionInv, CollectionTypeOK, Slots, Events
<1> QED
  BY <1>1, <1>2, <1>3, <1>4, <1>5, NobodyAtWork DEF CollectionInv

LEMMA AuditSlotKeeps == ASSUME NEW c \in Collectors, CollectionInv, AuditSlot(c)
                        PROVE  CollectionInv'
<1>1. /\ MemoryOf(c) /\ Agrees(c) /\ mem[c] \in Memories /\ mem[c].journal \in Events
      /\ mem[c].journal.slots \in [Slots -> SlotStatuses]
      /\ mem[c].slot \in Nat \ {0} /\ mem[c].slot \in Slots /\ at[c] = "branches"
      /\ at[c] \in AtWork /\ mem[c].journal.slots[mem[c].slot] = "unattempted"
  BY WorkerFacts DEF AuditSlot, AtWork, MemoryOf, InSlot
<1>2. /\ slotDir \in [Slots -> SlotDirs] /\ mem \in [Collectors -> Memories]
      /\ DOMAIN runsOf = Slots /\ BatchFirst
      /\ at \in [Collectors -> Holding \cup {"off", "ended", "dead"}]
  BY DEF CollectionInv, CollectionTypeOK
<1>3. \A s \in Slots : CaseHolds(s) => CaseHolds(s)'
  BY DEF CaseHolds, AuditSlot
<1>4. BatchFirst'
  BY <1>2 DEF BatchFirst, AuditSlot, Slots
<1>5. CASE Throws(c) /\ UNCHANGED lock
  <2>1. /\ mem' \in [Collectors -> Memories] /\ MemoryOf(c)' /\ Agrees(c)'
        /\ at' = [at EXCEPT ![c] = "journal"]
    BY <1>1, <1>3, <1>5, ThrowsKeep DEF AuditSlot
  <2> QED
    BY <1>1, <1>2, <1>3, <1>4, <1>5, <2>1, WorksOn DEF AuditSlot, AtWork
<1>6. CASE Leave(c) /\ UNCHANGED mem
  BY <1>1, <1>6, LeavesKeep DEF AuditSlot, Holding, Goes
<1>7. CASE /\ AuditPasses(mem[c].slot)
           /\ mem' = [mem EXCEPT ![c].journal = WithStatus(@, mem[c].slot, "valid")]
           /\ at' = [at EXCEPT ![c] = "journal"] /\ UNCHANGED lock
  <2> PICK slots : slots = [mem[c].journal.slots EXCEPT ![mem[c].slot] = "valid"]
    OBVIOUS
  <2>1. mem' = [mem EXCEPT ![c].journal = [@ EXCEPT !.slots = slots]]
    BY <1>7 DEF WithStatus
  <2>2. slots \in [Slots -> SlotStatuses]
    BY <1>1 DEF SlotStatuses, SlotVerdicts
  <2>3. [mem[c].journal EXCEPT !.slots = slots] \in Events
    BY <1>1, <2>2 DEF Events
  <2>4. /\ mem' \in [Collectors -> Memories]
        /\ mem'[c].slot = mem[c].slot /\ mem'[c].invalid = mem[c].invalid
        /\ mem'[c].journal.slots = slots /\ mem'[c].journal.terminal = mem[c].journal.terminal
    BY <1>1, <1>2, <2>1, <2>3 DEF Memories, Events
  <2>5. at'[c] = "journal"
    BY <1>2, <1>7
  <2>6. Cardinality(Invalids(slots)) = mem[c].invalid
    <3>1. "valid" \in SlotStatuses
      BY DEF SlotStatuses, SlotVerdicts
    <3>2. Cardinality(Invalids(slots)) = Cardinality(Invalids(mem[c].journal.slots)) + 0
      BY <1>1, <3>1, InvalidsCount
    <3>3. Cardinality(Invalids(mem[c].journal.slots)) = mem[c].invalid
      BY <1>1 DEF MemoryOf
    <3> QED
      BY <1>1, <3>2, <3>3 DEF Memories
  <2>7. \A s \in Slots : slots[s] = IF s = mem[c].slot THEN "valid" ELSE mem[c].journal.slots[s]
    BY <1>1
  <2>8. Whole(slots)'
    <3>1. \A s \in Slots : slots[s] = "valid" => CaseHolds(s)
      BY <1>1, <1>7, <2>7 DEF MemoryOf, Whole, AuditPasses
    <3> QED
      BY <1>3, <3>1 DEF Whole, Slots
  <2>9. MemoryOf(c)'
    <3>1. /\ mem'[c].journal.terminal = "open"
          /\ mem'[c].slot <= Primaries + Reserves + 1
          /\ \A s \in Slots : s < mem'[c].slot => slots[s] \in SlotVerdicts
          /\ \A s \in Slots : s > mem'[c].slot => slots[s] = "unattempted"
      BY <1>1, <2>4, <2>7, SlotsAreNumbers DEF MemoryOf
    <3>2. slots[mem'[c].slot] \in SlotVerdicts /\ mem'[c].slot \in Slots
      BY <1>1, <2>4, <2>7 DEF SlotVerdicts
    <3>3. /\ mem'[c].slot <= Primaries + 1 + mem'[c].invalid
          /\ mem'[c].slot <= Primaries \/ mem'[c].slot <= Primaries + mem'[c].invalid
      BY <1>1, <2>4 DEF MemoryOf, InSlot
    <3> QED
      BY <2>4, <2>5, <2>6, <2>8, <3>1, <3>2, <3>3 DEF MemoryOf, Slots, Invalids, IsPrimary
  <2>10. Agrees(c)'
    <3> SUFFICES ASSUME NEW i \in DOMAIN journal
                 PROVE  /\ journal[i] # TornLine /\ journal[i].terminal = "open"
                        /\ \A s \in Slots :
                            /\ s < mem[c].slot /\ journal[i].slots[s] \in SlotVerdicts =>
                                journal[i].slots[s] = slots[s]
                            /\ s > mem[c].slot => journal[i].slots[s] = "unattempted"
                            /\ s = mem[c].slot => journal[i].slots[s] \in {"unattempted", "running"}
      BY <1>1, <2>4, <2>5 DEF Agrees, Slots, InSlot, AuditSlot
    <3>1. \A s \in Slots : s < mem[c].slot => slots[s] = mem[c].journal.slots[s]
      BY <1>1, <2>7, SlotsAreNumbers
    <3> QED
      BY <1>1, <3>1 DEF Agrees
  <2> QED
    BY <1>1, <1>2, <1>3, <1>4, <1>7, <2>4, <2>9, <2>10, WorksOn DEF AuditSlot, AtWork
<1> QED
  BY <1>5, <1>6, <1>7 DEF AuditSlot

---------------------------------------------------------------------------
(* Steps that write a line *)

LEMMA StartSlotKeeps == ASSUME NEW c \in Collectors, CollectionInv, StartSlot(c)
                        PROVE  CollectionInv'
<1>1. /\ MemoryOf(c) /\ Agrees(c) /\ mem[c].journal \in Events
      /\ mem[c].journal.slots \in [Slots -> SlotStatuses]
      /\ mem[c].slot \in Nat \ {0} /\ mem[c].invalid \in Nat /\ at[c] = "slot" /\ at[c] \in AtWork
  BY WorkerFacts DEF StartSlot, AtWork
<1>2. /\ mem[c].slot \in Slots /\ mem[c].slot <= Primaries + Reserves
      /\ mem[c].slot <= Primaries + mem[c].invalid
  BY <1>1, SlotsAreNumbers DEF StartSlot, Planned
<1>3. mem[c].journal.slots[mem[c].slot] = "unattempted"
  BY <1>1, <1>2 DEF MemoryOf
<1> PICK slots : slots = [mem[c].journal.slots EXCEPT ![mem[c].slot] = "running"]
  OBVIOUS
<1> PICK e : e = [mem[c].journal EXCEPT !.slots = slots]
  OBVIOUS
<1>4. slots \in [Slots -> SlotStatuses]
  BY <1>1 DEF SlotStatuses
<1>5. e \in Events /\ e.slots = slots /\ e.terminal = "open" /\ e = WithStatus(mem[c].journal, mem[c].slot, "running")
  BY <1>1, <1>4 DEF Events, WithStatus, MemoryOf
<1>6. \A s \in Slots : slots[s] = IF s = mem[c].slot THEN "running" ELSE mem[c].journal.slots[s]
  BY <1>1
<1>7. Cardinality(Invalids(slots)) = mem[c].invalid
  <2>1. "running" \in SlotStatuses
    BY DEF SlotStatuses
  <2>2. Cardinality(Invalids(slots)) = Cardinality(Invalids(mem[c].journal.slots)) + 0
    BY <1>1, <1>2, <1>3, <2>1, InvalidsCount
  <2>3. Cardinality(Invalids(mem[c].journal.slots)) = mem[c].invalid
    BY <1>1 DEF MemoryOf
  <2> QED
    BY <1>1, <2>2, <2>3
<1>8. WellUsed(slots)
  <2>1. \A s \in Slots : s <= mem[c].slot <=> slots[s] # "unattempted"
    <3> SUFFICES ASSUME NEW s \in Slots PROVE s <= mem[c].slot <=> slots[s] # "unattempted"
      OBVIOUS
    <3>1. s \in Nat /\ (s < mem[c].slot \/ s = mem[c].slot \/ s > mem[c].slot)
      BY <1>1, SlotsAreNumbers
    <3> QED
      BY <1>1, <1>6, <3>1 DEF MemoryOf, SlotVerdicts
  <2>2. mem[c].slot > Primaries => \A s \in Slots : IsPrimary(s) => slots[s] \in SlotVerdicts
    <3> SUFFICES ASSUME mem[c].slot > Primaries, NEW s \in Slots, IsPrimary(s)
                 PROVE  slots[s] \in SlotVerdicts
      OBVIOUS
    <3>1. s < mem[c].slot
      BY <1>1, SlotsAreNumbers DEF IsPrimary
    <3> QED
      BY <1>1, <1>6, <3>1 DEF MemoryOf
  <2> QED
    BY <1>1, <1>2, <1>4, <1>7, <2>1, <2>2, UsedUpTo
<1>9. Whole(slots)
  BY <1>1, <1>6 DEF MemoryOf, Whole
<1>10. \A i \in DOMAIN journal : Follows(journal[i].slots, slots)
  <2>1. \A s \in Slots : s < mem[c].slot => slots[s] = mem[c].journal.slots[s]
    BY <1>1, <1>6, SlotsAreNumbers
  <2> QED
    BY <1>1, <1>4, <2>1, FollowsAll DEF InSlot
<1>11. ASSUME journal' = Append(journal, e), at'[c] = "prepare"
       PROVE  MemoryOf(c)' /\ Agrees(c)'
  <2>1. Whole(mem[c].journal.slots)'
    BY <1>1 DEF MemoryOf, Whole, Slots, CaseHolds, StartSlot
  <2>2. MemoryOf(c)'
    BY <1>1, <1>2, <1>11, <2>1 DEF MemoryOf, StartSlot, Slots, Invalids, IsPrimary
  <2>3. /\ DOMAIN journal' = 1..(Len(journal) + 1) /\ DOMAIN journal = 1..Len(journal)
        /\ Len(journal) \in Nat /\ journal'[Len(journal) + 1] = e /\ journal' # <<>>
        /\ \A i \in DOMAIN journal : journal'[i] = journal[i]
    <3>1. journal \in Seq(Lines) /\ e \in Lines
      BY <1>5 DEF CollectionInv, CollectionTypeOK, Lines
    <3> QED
      BY <1>11, <3>1, AppendProperties, LenProperties
  <2>4. e # TornLine
    BY <1>5, TornIsNoEvent
  <2>5. ASSUME NEW i \in DOMAIN journal', NEW s \in Slots
        PROVE  /\ journal'[i] # TornLine /\ journal'[i].terminal = "open"
               /\ s < mem[c].slot /\ journal'[i].slots[s] \in SlotVerdicts =>
                    journal'[i].slots[s] = mem[c].journal.slots[s]
               /\ s > mem[c].slot => journal'[i].slots[s] = "unattempted"
               /\ s = mem[c].slot => journal'[i].slots[s] \in {"unattempted", "running"}
    <3>1. CASE i \in DOMAIN journal
      BY <1>1, <2>3, <3>1 DEF Agrees
    <3>2. CASE i = Len(journal) + 1
      <4>1. journal'[i] = e
        BY <2>3, <3>2
      <4>2. e.slots[s] = IF s = mem[c].slot THEN "running" ELSE mem[c].journal.slots[s]
        BY <1>5, <1>6
      <4>3. s \in Nat
        BY SlotsAreNumbers
      <4>4. s > mem[c].slot => e.slots[s] = "unattempted"
        BY <1>1, <4>2, <4>3 DEF MemoryOf
      <4>5. s < mem[c].slot => e.slots[s] = mem[c].journal.slots[s]
        BY <1>1, <4>2, <4>3
      <4> QED
        BY <1>5, <2>4, <4>1, <4>2, <4>4, <4>5
    <3> QED
      BY <2>3, <3>1, <3>2
  <2>6. mem[c].slot \in Slots /\ DOMAIN journal' # {}
    BY <1>2, <2>3
  <2>7. Agrees(c)'
    <3>1. mem'[c] = mem[c] /\ at'[c] \in InSlot /\ Slots' = Slots
      BY <1>11 DEF StartSlot, InSlot, Slots
    <3>2. \A i \in DOMAIN journal' : journal'[i] # TornLine /\ journal'[i].terminal = "open"
      BY <2>5, <2>6
    <3> QED
      BY <2>3, <2>5, <3>1, <3>2 DEF Agrees
  <2> QED
    BY <2>2, <2>7
<1>12. mem' \in [Collectors -> Memories] /\ UNCHANGED <<slotDir, runsOf, receipt, auditing>>
  BY DEF StartSlot, CollectionInv, CollectionTypeOK
<1>13. AppendEvent(c, e, "prepare") /\ "prepare" \in Holding
  BY <1>5 DEF StartSlot, Holding, AtWork
<1>14. /\ WellUsed(e.slots) /\ Whole(e.slots)
       /\ \A i \in DOMAIN journal : Follows(journal[i].slots, e.slots)
  BY <1>5, <1>8, <1>9, <1>10
<1>15. journal' = Append(journal, e) /\ at'[c] = "prepare" /\ "prepare" \in AtWork
        => MemoryOf(c)' /\ Agrees(c)'
  BY <1>11
<1> QED
  BY <1>1, <1>5, <1>12, <1>13, <1>14, <1>15, Appends

LEMMA JournalSlotKeeps == ASSUME NEW c \in Collectors, CollectionInv, JournalSlot(c)
                          PROVE  CollectionInv'
<1>1. /\ MemoryOf(c) /\ Agrees(c) /\ mem[c] \in Memories /\ mem[c].journal \in Events
      /\ mem[c].journal.slots \in [Slots -> SlotStatuses]
      /\ mem[c].slot \in Nat \ {0} /\ mem[c].invalid \in Nat /\ at[c] = "journal" /\ at[c] \in AtWork
  BY WorkerFacts DEF JournalSlot, AtWork
<1> PICK slots : slots = mem[c].journal.slots
  OBVIOUS
<1> PICK e : e = mem[c].journal
  OBVIOUS
<1>2. /\ mem[c].slot \in Slots /\ mem[c].slot <= Primaries + Reserves
      /\ mem[c].slot <= Primaries \/ mem[c].slot <= Primaries + mem[c].invalid
      /\ slots[mem[c].slot] \in SlotVerdicts /\ e \in Events /\ e.slots = slots /\ e.terminal = "open"
  BY <1>1, SlotsAreNumbers DEF MemoryOf, InSlot
<1>3. \A s \in Slots : s <= mem[c].slot => slots[s] \in SlotVerdicts
  <2> SUFFICES ASSUME NEW s \in Slots, s <= mem[c].slot PROVE slots[s] \in SlotVerdicts
    OBVIOUS
  <2>1. s < mem[c].slot \/ s = mem[c].slot
    BY <1>1, SlotsAreNumbers
  <2> QED
    BY <1>1, <1>2, <2>1 DEF MemoryOf
<1>4. \A s \in Slots : s > mem[c].slot => slots[s] = "unattempted"
  BY <1>1 DEF MemoryOf
<1>5. Cardinality(Invalids(slots)) = mem[c].invalid
  BY <1>1 DEF MemoryOf
<1>6. WellUsed(slots)
  <2>1. \A s \in Slots : s <= mem[c].slot <=> slots[s] # "unattempted"
    <3> SUFFICES ASSUME NEW s \in Slots PROVE s <= mem[c].slot <=> slots[s] # "unattempted"
      OBVIOUS
    <3>1. s <= mem[c].slot \/ (s > mem[c].slot /\ ~(s <= mem[c].slot))
      BY <1>1, SlotsAreNumbers
    <3> QED
      BY <1>3, <1>4, <3>1 DEF SlotVerdicts
  <2>2. mem[c].slot > Primaries => \A s \in Slots : IsPrimary(s) => slots[s] \in SlotVerdicts
    <3> SUFFICES ASSUME mem[c].slot > Primaries, NEW s \in Slots, IsPrimary(s)
                 PROVE  slots[s] \in SlotVerdicts
      OBVIOUS
    <3>1. s <= mem[c].slot
      BY <1>1, SlotsAreNumbers DEF IsPrimary
    <3> QED
      BY <1>3, <3>1
  <2>3. mem[c].slot > Primaries => mem[c].slot <= Primaries + mem[c].invalid
    BY <1>1, <1>2, SlotsAreNumbers
  <2> QED
    BY <1>1, <1>2, <1>5, <2>1, <2>2, <2>3, UsedUpTo
<1>7. Whole(slots)
  BY <1>1 DEF MemoryOf
<1>8. \A i \in DOMAIN journal : Follows(journal[i].slots, slots)
  BY <1>1, <1>2, FollowsAll
<1>9. mem' = [mem EXCEPT ![c].slot = @ + 1]
  BY DEF JournalSlot
<1>10. /\ mem' \in [Collectors -> Memories] /\ mem'[c].slot = mem[c].slot + 1
       /\ mem'[c].journal = mem[c].journal /\ mem'[c].invalid = mem[c].invalid
  <2>1. mem \in [Collectors -> Memories]
    BY DEF CollectionInv, CollectionTypeOK
  <2>2. mem[c].slot + 1 \in Nat \ {0}
    BY <1>1
  <2> QED
    BY <1>1, <1>9, <2>1, <2>2 DEF Memories
<1>11. ASSUME journal' = Append(journal, e), at'[c] = "slot"
       PROVE  MemoryOf(c)' /\ Agrees(c)'
  <2>1. Whole(slots)'
    BY <1>7 DEF Whole, Slots, CaseHolds, JournalSlot
  <2>2. /\ mem[c].slot + 1 <= Primaries + Reserves + 1
        /\ mem[c].slot + 1 <= Primaries + 1 + mem[c].invalid
    BY <1>1, <1>2, SlotsAreNumbers
  <2>3. \A s \in Slots : s < mem[c].slot + 1 => s <= mem[c].slot
    BY <1>1, SlotsAreNumbers
  <2>4. \A s \in Slots : s > mem[c].slot + 1 \/ s = mem[c].slot + 1 => s > mem[c].slot
    BY <1>1, SlotsAreNumbers
  <2>5. /\ \A s \in Slots : s < mem[c].slot + 1 => slots[s] \in SlotVerdicts
        /\ \A s \in Slots : s > mem[c].slot + 1 => slots[s] = "unattempted"
        /\ mem[c].slot + 1 \in Slots => slots[mem[c].slot + 1] = "unattempted"
    BY <1>3, <1>4, <2>3, <2>4
  <2>6. MemoryOf(c)'
    BY <1>2, <1>5, <1>10, <1>11, <2>1, <2>2, <2>5
    DEF MemoryOf, Slots, Invalids, IsPrimary, InSlot
  <2>7. /\ DOMAIN journal' = 1..(Len(journal) + 1) /\ DOMAIN journal = 1..Len(journal)
        /\ Len(journal) \in Nat /\ journal'[Len(journal) + 1] = e /\ journal' # <<>>
        /\ \A i \in DOMAIN journal : journal'[i] = journal[i]
    <3>1. journal \in Seq(Lines) /\ e \in Lines
      BY <1>2 DEF CollectionInv, CollectionTypeOK, Lines
    <3> QED
      BY <1>11, <3>1, AppendProperties, LenProperties
  <2>8. e # TornLine
    BY <1>2, TornIsNoEvent
  <2>9. ASSUME NEW i \in DOMAIN journal', NEW s \in Slots
        PROVE  /\ journal'[i] # TornLine /\ journal'[i].terminal = "open"
               /\ s < mem[c].slot + 1 /\ journal'[i].slots[s] \in SlotVerdicts =>
                    journal'[i].slots[s] = slots[s]
               /\ s > mem[c].slot + 1 \/ s = mem[c].slot + 1 =>
                    journal'[i].slots[s] = "unattempted"
    <3>1. CASE i \in DOMAIN journal
      <4>1. journal'[i] = journal[i]
        BY <2>7, <3>1
      <4>2. journal[i] # TornLine /\ journal[i].terminal = "open"
        BY <1>1, <3>1 DEF Agrees
      <4>3. s <= mem[c].slot /\ journal[i].slots[s] \in SlotVerdicts => journal[i].slots[s] = slots[s]
        <5> SUFFICES ASSUME s <= mem[c].slot, journal[i].slots[s] \in SlotVerdicts
                     PROVE  journal[i].slots[s] = slots[s]
          OBVIOUS
        <5>1. s < mem[c].slot \/ s = mem[c].slot
          BY <1>1, SlotsAreNumbers
        <5>2. s # mem[c].slot
          BY <1>1, <3>1 DEF Agrees, SlotVerdicts
        <5> QED
          BY <1>1, <3>1, <5>1, <5>2 DEF Agrees
      <4>4. s > mem[c].slot => journal[i].slots[s] = "unattempted"
        BY <1>1, <3>1 DEF Agrees
      <4> QED
        BY <2>3, <2>4, <4>1, <4>2, <4>3, <4>4
    <3>2. CASE i = Len(journal) + 1
      <4>1. journal'[i] = e
        BY <2>7, <3>2
      <4> QED
        BY <1>2, <1>4, <2>4, <2>8, <4>1
    <3> QED
      BY <2>7, <3>1, <3>2
  <2>10. Agrees(c)'
    BY <1>2, <1>10, <2>7, <2>9 DEF Agrees, Slots
  <2> QED
    BY <2>6, <2>10
<1>12. UNCHANGED <<slotDir, runsOf, receipt, auditing>>
  BY DEF JournalSlot
<1>13. AppendEvent(c, e, "slot") /\ "slot" \in Holding
  BY DEF JournalSlot, Holding, AtWork
<1>14. /\ WellUsed(e.slots) /\ Whole(e.slots)
       /\ \A i \in DOMAIN journal : Follows(journal[i].slots, e.slots)
  BY <1>2, <1>6, <1>7, <1>8
<1>15. journal' = Append(journal, e) /\ at'[c] = "slot" /\ "slot" \in AtWork
        => MemoryOf(c)' /\ Agrees(c)'
  BY <1>11
<1> QED
  BY <1>1, <1>2, <1>10, <1>12, <1>13, <1>14, <1>15, Appends

LEMMA FinalizeStageKeeps == ASSUME NEW c \in Collectors, CollectionInv, FinalizeStage(c)
                            PROVE  CollectionInv'
<1>1. /\ MemoryOf(c) /\ Agrees(c) /\ mem[c].journal \in Events
      /\ mem[c].journal.slots \in [Slots -> SlotStatuses]
      /\ mem[c].slot \in Nat \ {0} /\ mem[c].invalid \in Nat /\ at[c] = "slot" /\ at[c] \in AtWork
  BY WorkerFacts DEF FinalizeStage, AtWork
<1> PICK slots : slots = mem[c].journal.slots
  OBVIOUS
<1> PICK e : e = [mem[c].journal EXCEPT !.terminal = Terminal(mem[c].journal)]
  OBVIOUS
<1>2. e \in Events /\ e.slots = slots
  <2>1. Terminal(mem[c].journal) \in {"open", "completed", "failed"}
    BY DEF Terminal
  <2> QED
    BY <1>1, <2>1 DEF Events
<1> PICK n \in Nat : n + 1 = mem[c].slot
  <2>1. mem[c].slot - 1 \in Nat /\ (mem[c].slot - 1) + 1 = mem[c].slot
    BY <1>1
  <2> QED
    BY <2>1
<1>3. WellUsed(slots)
  <2>1. \A s \in Slots : s <= n <=> slots[s] # "unattempted"
    <3> SUFFICES ASSUME NEW s \in Slots PROVE s <= n <=> slots[s] # "unattempted"
      OBVIOUS
    <3>1. \/ s <= n /\ s < mem[c].slot
          \/ ~(s <= n) /\ (s = mem[c].slot \/ s > mem[c].slot)
      BY SlotsAreNumbers
    <3>2. s < mem[c].slot => slots[s] \in SlotVerdicts
      BY <1>1 DEF MemoryOf
    <3>3. s = mem[c].slot \/ s > mem[c].slot => slots[s] = "unattempted"
      BY <1>1 DEF MemoryOf
    <3> QED
      BY <3>1, <3>2, <3>3 DEF SlotVerdicts
  <2>2. n > Primaries => \A s \in Slots : IsPrimary(s) => slots[s] \in SlotVerdicts
    <3> SUFFICES ASSUME n > Primaries, NEW s \in Slots, IsPrimary(s)
                 PROVE  slots[s] \in SlotVerdicts
      OBVIOUS
    <3>1. s < mem[c].slot
      BY <1>1, SlotsAreNumbers DEF IsPrimary
    <3> QED
      BY <1>1, <3>1 DEF MemoryOf
  <2>3. n <= Primaries + Reserves /\ n <= Primaries + mem[c].invalid
    <3>1. mem[c].slot <= Primaries + Reserves + 1 /\ mem[c].slot <= Primaries + 1 + mem[c].invalid
      BY <1>1 DEF MemoryOf
    <3> QED
      BY <1>1, <3>1, SlotsAreNumbers
  <2>4. Cardinality(Invalids(slots)) = mem[c].invalid
    BY <1>1 DEF MemoryOf
  <2> QED
    BY <1>1, <2>1, <2>2, <2>3, <2>4, UsedUpTo
<1>4. Whole(slots)
  BY <1>1 DEF MemoryOf
<1>5. \A i \in DOMAIN journal : Follows(journal[i].slots, slots)
  BY <1>1, FollowsAll DEF InSlot
<1>6. mem' \in [Collectors -> Memories] /\ UNCHANGED <<slotDir, runsOf, receipt, auditing>>
  BY DEF FinalizeStage, CollectionInv, CollectionTypeOK
<1>7. AppendEvent(c, e, "release") /\ "release" \in Holding /\ "release" \notin AtWork
  BY DEF FinalizeStage, Holding, AtWork
<1>8. /\ WellUsed(e.slots) /\ Whole(e.slots)
      /\ \A i \in DOMAIN journal : Follows(journal[i].slots, e.slots)
  BY <1>2, <1>3, <1>4, <1>5
<1> QED
  BY <1>1, <1>2, <1>6, <1>7, <1>8, Appends

---------------------------------------------------------------------------
(* The lock, the end of a process and the audit *)

\* Nobody that was not at work begins to be, and nothing is written.
LEMMA OthersStay ==
    ASSUME CollectionInv, UNCHANGED <<journal, mem, slotDir, runsOf, receipt, auditing>>,
           \A d \in Collectors : at'[d] \in AtWork => at'[d] = at[d],
           at' \in [Collectors -> Holding \cup {"off", "ended", "dead"}],
           lock' \in Collectors \cup {"free"}, LockHeld'
    PROVE  CollectionInv'
<1>1. CollectionTypeOK'
  BY DEF CollectionInv, CollectionTypeOK, Slots, Events
<1>2. LinesSound' /\ OpenBefore'
  BY SameLines DEF CollectionInv
<1>3. AuditSound'
  BY AuditStays DEF CollectionInv
<1>4. BatchFirst'
  BY DEF CollectionInv, BatchFirst, Slots
<1>5. ASSUME NEW d \in Collectors, at'[d] \in AtWork PROVE MemoryOf(d)' /\ Agrees(d)'
  <2>1. at'[d] = at[d] /\ MemoryOf(d) /\ Agrees(d)
    BY <1>5 DEF CollectionInv, WorkAgrees
  <2>2. Whole(mem[d].journal.slots)'
    BY <2>1 DEF MemoryOf, Whole, Slots, CaseHolds
  <2>3. MemoryOf(d)'
    BY <2>1, <2>2 DEF MemoryOf, Slots, Invalids, IsPrimary
  <2>4. Agrees(d)'
    BY <2>1, AgreesStays
  <2> QED
    BY <2>3, <2>4
<1>6. WorkAgrees'
  BY <1>5 DEF WorkAgrees
<1> QED
  BY <1>1, <1>2, <1>3, <1>4, <1>6 DEF CollectionInv

LEMMA AcquireKeeps == ASSUME NEW c \in Collectors, CollectionInv, Acquire(c)
                      PROVE  CollectionInv'
<1>1. /\ at \in [Collectors -> Holding \cup {"off", "ended", "dead"}]
      /\ lock \in Collectors \cup {"free"} /\ LockHeld
      /\ "free" \notin Collectors
  BY CollectionAssumption DEF CollectionInv, CollectionTypeOK
<1> PICK next \in {"initialize", "ended"} :
        /\ at' = [at EXCEPT ![c] = next]
        /\ \/ lock = "free" /\ lock' = c
           \/ next = "ended" /\ lock' = lock
  BY DEF Acquire
<1>2. /\ at'[c] = next /\ \A d \in Collectors : d # c => at'[d] = at[d]
      /\ at' \in [Collectors -> Holding \cup {"off", "ended", "dead"}]
  BY <1>1 DEF Holding
<1>3. \A d \in Collectors : at'[d] \in AtWork => at'[d] = at[d]
  BY <1>2 DEF AtWork
<1>4. LockHeld'
  BY <1>1, <1>2 DEF LockHeld, Holding, AtWork
<1> QED
  BY <1>1, <1>2, <1>3, <1>4, OthersStay DEF Acquire

LEMMA RemoveLockKeeps == CollectionInv /\ RemoveLock => CollectionInv'
<1> SUFFICES ASSUME CollectionInv, RemoveLock PROVE CollectionInv'
  OBVIOUS
<1>1. LockHeld'
  BY DEF LockHeld, Holding, AtWork, RemoveLock, CollectionInv
<1>2. /\ at' \in [Collectors -> Holding \cup {"off", "ended", "dead"}]
      /\ lock' \in Collectors \cup {"free"} /\ at' = at
  BY DEF RemoveLock, CollectionInv, CollectionTypeOK
<1> QED
  BY <1>1, <1>2, OthersStay DEF RemoveLock

LEMMA ReleaseKeeps == ASSUME NEW c \in Collectors, CollectionInv, Release(c)
                      PROVE  CollectionInv'
BY LeavesKeep DEF Release, Holding, Goes

LEMMA InitializeKeeps == ASSUME NEW c \in Collectors, CollectionInv, Initialize(c)
                         PROVE  CollectionInv'
<1>1. at[c] = "initialize" /\ at[c] \in Holding
  BY DEF Initialize, Holding
<1>2. CASE journal # <<>>
  BY <1>1, <1>2, LeavesKeep DEF Initialize, Goes
<1>3. CASE /\ journal = <<>> /\ journal' = <<CreateStageJournal>>
           /\ at' = [at EXCEPT ![c] = "slot"] /\ UNCHANGED <<lock, faults>>
           /\ mem' = [mem EXCEPT ![c] = [journal |-> CreateStageJournal, slot |-> 1, invalid |-> 0]]
  <2> PICK e : e = CreateStageJournal
    OBVIOUS
  <2>1. /\ e \in Events /\ e \in Lines /\ e # TornLine /\ e.terminal = "open"
        /\ \A s \in Slots : e.slots[s] = "unattempted"
    <3>1. e \in Events /\ e.terminal = "open" /\ \A s \in Slots : e.slots[s] = "unattempted"
      BY DEF CreateStageJournal, Events, SlotStatuses
    <3> QED
      BY <3>1, TornIsNoEvent DEF Lines
  <2>2. /\ journal' = <<e>> /\ journal' = Append(journal, e)
        /\ at' = [at EXCEPT ![c] = "slot"] /\ lock' = lock
        /\ mem' = [mem EXCEPT ![c] = [journal |-> e, slot |-> 1, invalid |-> 0]]
        /\ UNCHANGED <<slotDir, runsOf, receipt, auditing>>
    BY <1>3 DEF Initialize
  <2>3. "slot" \in Holding
    BY DEF Holding, AtWork
  <2>4. /\ LockHeld' /\ \A d \in Collectors : at'[d] \in Holding => d = c
        /\ at'[c] = "slot" /\ at' \in [Collectors -> Holding \cup {"off", "ended", "dead"}]
    BY <1>1, <2>2, <2>3, HolderGoes DEF CollectionInv
  <2>5. Used(e.slots) = {} /\ Invalids(e.slots) = {}
    BY <2>1 DEF Used, Invalids
  <2>6. WellUsed(e.slots) /\ Whole(e.slots) /\ Whole(e.slots)'
    BY <2>1, <2>5 DEF WellUsed, Whole, Slots
  <2>7. \A i \in DOMAIN journal : Follows(journal[i].slots, e.slots)
    BY <1>3
  <2>8. journal' \in Seq(Lines) /\ LinesSound' /\ OpenBefore'
    BY <1>3, <2>1, <2>2, <2>6, <2>7, OneMoreLine DEF CollectionInv
  <2>9. mem' \in [Collectors -> Memories]
        /\ mem'[c].journal = e /\ mem'[c].slot = 1 /\ mem'[c].invalid = 0
    BY <2>1, <2>2 DEF CollectionInv, CollectionTypeOK, Memories
  <2>10. AuditSound'
    BY <1>3, <2>2, AuditWaits DEF CollectionInv, StillOpen
  <2>11. BatchFirst'
    BY <2>2 DEF CollectionInv, BatchFirst, Slots
  <2>12. MemoryOf(c)'
    <3>1. Cardinality(Invalids(e.slots)) = 0
      BY <2>5, FS_EmptySet
    <3>2. \A s \in Slots : ~(s < 1)
      BY SlotsAreNumbers
    <3>3. 1 <= Primaries + Reserves + 1 /\ 1 <= Primaries + 1 + 0
      BY SlotsAreNumbers
    <3> QED
      BY <2>1, <2>4, <2>6, <2>9, <3>1, <3>2, <3>3
      DEF MemoryOf, InSlot, Slots, Invalids, IsPrimary
  <2>13. Agrees(c)'
    <3>1. \A i \in DOMAIN journal' : journal'[i] = e
      BY <2>2
    <3> QED
      BY <2>1, <2>2, <2>9, <3>1 DEF Agrees, Slots
  <2>14. WorkAgrees'
    BY <2>4, <2>12, <2>13 DEF WorkAgrees, Holding
  <2>15. CollectionTypeOK'
    BY <2>2, <2>4, <2>8, <2>9 DEF CollectionInv, CollectionTypeOK, Slots, Events
  <2> QED
    BY <2>4, <2>8, <2>10, <2>11, <2>14, <2>15 DEF CollectionInv
<1>4. CASE journal = <<>> /\ journal' = <<TornLine>> /\ Leave(c) /\ UNCHANGED mem
  <2>1. /\ LockHeld' /\ \A d \in Collectors : at'[d] \notin AtWork
        /\ at' \in [Collectors -> Holding \cup {"off", "ended", "dead"}]
        /\ lock' \in Collectors \cup {"free"}
    BY <1>1, <1>4, HolderLeaves DEF CollectionInv, Goes
  <2>2. TornLine \in Lines /\ journal' = Append(journal, TornLine)
    BY <1>4 DEF Lines
  <2>3. UNCHANGED <<slotDir, runsOf, receipt, auditing>>
    BY DEF Initialize
  <2>4. journal' \in Seq(Lines) /\ LinesSound' /\ OpenBefore'
    BY <1>4, <2>2, <2>3, OneMoreLine DEF CollectionInv
  <2>5. AuditSound'
    BY <1>4, <2>3, AuditWaits DEF CollectionInv, StillOpen
  <2>6. BatchFirst'
    BY <2>3 DEF CollectionInv, BatchFirst, Slots
  <2>7. CollectionTypeOK'
    BY <1>4, <2>1, <2>3, <2>4 DEF CollectionInv, CollectionTypeOK, Slots, Events
  <2> QED
    BY <2>1, <2>4, <2>5, <2>6, <2>7, NobodyAtWork DEF CollectionInv
<1> QED
  BY <1>2, <1>3, <1>4 DEF Initialize

LEMMA DieKeeps == ASSUME NEW c \in Collectors, CollectionInv, Die(c)
                  PROVE  CollectionInv'
<1>1. at[c] \in Holding /\ at' = [at EXCEPT ![c] = "dead"] /\ lock' = lock
      /\ UNCHANGED <<mem, slotDir, runsOf, receipt, auditing>>
  BY DEF Die, CollectionInv, CollectionTypeOK
<1>2. CASE journal' = journal
  BY <1>1, <1>2, LeavesKeep DEF Goes
<1>3. CASE /\ \/ at[c] = "initialize" /\ journal = <<>>
              \/ at[c] \in {"slot", "journal"} /\ Readable
           /\ journal' = Append(journal, TornLine)
  <2>1. journal # <<>> => journal[Len(journal)] # TornLine
                          /\ journal[Len(journal)].terminal = "open"
    <3> SUFFICES ASSUME journal # <<>> PROVE journal[Len(journal)] # TornLine
                                             /\ journal[Len(journal)].terminal = "open"
      OBVIOUS
    <3>1. Agrees(c)
      BY <1>3 DEF CollectionInv, WorkAgrees, AtWork
    <3>2. Len(journal) \in DOMAIN journal
      BY LenProperties DEF CollectionInv, CollectionTypeOK
    <3> QED
      BY <3>1, <3>2 DEF Agrees
  <2>2. StillOpen
    BY <2>1 DEF StillOpen
  <2>3. /\ LockHeld' /\ \A d \in Collectors : at'[d] \notin AtWork
        /\ at' \in [Collectors -> Holding \cup {"off", "ended", "dead"}]
        /\ lock' \in Collectors \cup {"free"}
    BY <1>1, HolderLeaves DEF CollectionInv, Goes
  <2>4. TornLine \in Lines
    BY DEF Lines
  <2>5. journal' \in Seq(Lines) /\ LinesSound' /\ OpenBefore'
    BY <1>1, <1>3, <2>1, <2>4, OneMoreLine DEF CollectionInv
  <2>6. AuditSound'
    BY <1>1, <2>2, AuditWaits DEF CollectionInv
  <2>7. BatchFirst'
    BY <1>1 DEF CollectionInv, BatchFirst, Slots
  <2>8. CollectionTypeOK'
    BY <1>1, <2>3, <2>5 DEF CollectionInv, CollectionTypeOK, Slots, Events
  <2> QED
    BY <2>3, <2>5, <2>6, <2>7, <2>8, NobodyAtWork DEF CollectionInv
<1> QED
  BY <1>2, <1>3 DEF Die

\* A step of the audit alone.
LEMMA AuditAlone ==
    ASSUME CollectionInv, UNCHANGED <<lock, journal, slotDir, runsOf, at, mem>>,
           auditing' \in Events \cup {NotAuditing}, AuditSound'
    PROVE  CollectionInv'
<1>1. CollectionTypeOK'
  BY DEF CollectionInv, CollectionTypeOK, Slots, Events
<1>2. LinesSound' /\ OpenBefore'
  BY SameLines DEF CollectionInv
<1>3. BatchFirst' /\ LockHeld'
  BY DEF CollectionInv, BatchFirst, Slots, LockHeld
<1>4. ASSUME NEW d \in Collectors, at'[d] \in AtWork PROVE MemoryOf(d)' /\ Agrees(d)'
  <2>1. MemoryOf(d) /\ Agrees(d)
    BY <1>4 DEF CollectionInv, WorkAgrees
  <2>2. Whole(mem[d].journal.slots)'
    BY <2>1 DEF MemoryOf, Whole, Slots, CaseHolds
  <2>3. MemoryOf(d)'
    BY <2>1, <2>2 DEF MemoryOf, Slots, Invalids, IsPrimary
  <2>4. Agrees(d)'
    BY <2>1, AgreesStays
  <2> QED
    BY <2>3, <2>4
<1> QED
  BY <1>1, <1>2, <1>3, <1>4 DEF CollectionInv, WorkAgrees

LEMMA ReadForAuditKeeps == CollectionInv /\ ReadForAudit => CollectionInv'
<1> SUFFICES ASSUME CollectionInv, ReadForAudit PROVE CollectionInv'
  OBVIOUS
<1>1. /\ journal # <<>> /\ journal \in Seq(Lines) /\ Len(journal) \in DOMAIN journal
      /\ journal[Len(journal)] # TornLine
  BY LenProperties DEF ReadForAudit, Readable, CollectionInv, CollectionTypeOK
<1>2. auditing' = journal[Len(journal)] /\ auditing' \in Events
  <2>1. journal[Len(journal)] \in Lines
    BY <1>1, ElementOfSeq
  <2> QED
    BY <1>1, <2>1 DEF ReadForAudit, Last, Lines
<1>3. \A s \in Slots : CaseHolds(s) => CaseHolds(s)'
  BY DEF CaseHolds, ReadForAudit, stageFiles
<1>4. AuditSound'
  BY <1>1, <1>2, <1>3
  DEF AuditSound, IsLastWord, CollectionInv, ReadForAudit, stageFiles, Events, Slots
<1> QED
  BY <1>2, <1>4, AuditAlone DEF ReadForAudit, stageFiles

LEMMA JudgeStageKeeps == CollectionInv /\ JudgeStage => CollectionInv'
<1> SUFFICES ASSUME CollectionInv, JudgeStage PROVE CollectionInv'
  OBVIOUS
<1>1. \A s \in Slots : CaseHolds(s) => CaseHolds(s)'
  BY DEF CaseHolds, JudgeStage
<1>2. auditing' = NotAuditing /\ auditing # NotAuditing /\ auditing \in Events
  BY DEF JudgeStage, CollectionInv, CollectionTypeOK
<1> PICK valid : valid = {s \in Slots : auditing.slots[s] = "valid"}
  OBVIOUS
<1>3. CASE /\ \A s \in valid : CaseHolds(s)
           /\ receipt' = [status |-> AuditStatus, event |-> auditing, cases |-> valid]
  <2>1. receipt'.status = AuditStatus /\ receipt'.event = auditing /\ receipt'.cases = valid
    BY <1>3
  <2>2. AuditStatus = "verified" => auditing.terminal # "open" /\ IsLastWord(auditing)
    BY <1>2 DEF AuditStatus, CollectionInv, AuditSound
  <2>3. \A s \in valid : s \in Slots /\ CaseHolds(s)'
    BY <1>1, <1>3
  <2>4. AuditSound'
    BY <1>2, <2>1, <2>2, <2>3 DEF AuditSound, IsLastWord, JudgeStage, Events, Slots
  <2> QED
    BY <1>2, <2>4, AuditAlone DEF JudgeStage
<1>4. receipt' = receipt \/ /\ \A s \in valid : CaseHolds(s)
                            /\ receipt' = [status |-> AuditStatus, event |-> auditing, cases |-> valid]
  BY DEF JudgeStage
<1>5. CASE receipt' = receipt
  <2>1. AuditSound'
    BY <1>1, <1>2, <1>5 DEF AuditSound, IsLastWord, CollectionInv, JudgeStage, Events, Slots
  <2> QED
    BY <1>2, <2>1, AuditAlone DEF JudgeStage
<1> QED
  BY <1>3, <1>4, <1>5

---------------------------------------------------------------------------
(* The theorem *)

LEMMA InitIsSound == CollectionInit => CollectionInv
<1> SUFFICES ASSUME CollectionInit PROVE CollectionInv
  OBVIOUS
<1>1. CreateStageJournal \in Events
  BY DEF CreateStageJournal, Events, SlotStatuses
<1>2. CollectionTypeOK
  <2>1. mem \in [Collectors -> Memories]
    BY <1>1 DEF CollectionInit, Memories
  <2>2. slotDir \in [Slots -> SlotDirs]
    BY DEF CollectionInit, SlotDirs
  <2>3. journal \in Seq(Lines)
    BY EmptySeq DEF CollectionInit
  <2> QED
    BY <2>1, <2>2, <2>3 DEF CollectionTypeOK, CollectionInit
<1>3. \A c \in Collectors : at[c] = "off"
  BY DEF CollectionInit
<1>4. LockHeld /\ WorkAgrees
  BY <1>3 DEF LockHeld, WorkAgrees, Holding, AtWork
<1>5. OpenBefore /\ LinesSound
  BY DEF OpenBefore, LinesSound, CollectionInit
<1>6. BatchFirst
  BY DEF BatchFirst, CollectionInit
<1>7. AuditSound
  BY DEF AuditSound, CollectionInit, NoReceipt
<1> QED
  BY <1>2, <1>4, <1>5, <1>6, <1>7 DEF CollectionInv

LEMMA NextKeeps == CollectionInv /\ [CollectionNext]_collVars => CollectionInv'
<1> SUFFICES ASSUME CollectionInv, [CollectionNext]_collVars PROVE CollectionInv'
  OBVIOUS
<1>1. ASSUME NEW c \in Collectors, Collect(c) PROVE CollectionInv'
  BY <1>1, AcquireKeeps, InitializeKeeps, StartSlotKeeps, PrepareSlotKeeps, RunBranchKeeps,
     AuditSlotKeeps, JournalSlotKeeps, FinalizeStageKeeps, ReleaseKeeps DEF Collect
<1>2. ASSUME NEW c \in Collectors, Die(c) PROVE CollectionInv'
  BY <1>2, DieKeeps
<1>3. CASE UNCHANGED collVars
  <2>1. /\ at' \in [Collectors -> Holding \cup {"off", "ended", "dead"}]
        /\ lock' \in Collectors \cup {"free"} /\ at' = at
    BY <1>3 DEF collVars, stageFiles, CollectionInv, CollectionTypeOK
  <2>2. LockHeld'
    BY <1>3 DEF collVars, stageFiles, CollectionInv, LockHeld
  <2> QED
    BY <1>3, <2>1, <2>2, OthersStay DEF collVars, stageFiles
<1> QED
  BY <1>1, <1>2, <1>3, RemoveLockKeeps, ReadForAuditKeeps, JudgeStageKeeps DEF CollectionNext

LEMMA InvIsSafe == CollectionInv => CollectionSafe
<1> SUFFICES ASSUME CollectionInv PROVE CollectionSafe
  OBVIOUS
<1>1. ValidIsWhole
  BY DEF ValidIsWhole, Statuses, CollectionInv, LinesSound, Whole, BatchFirst
<1>2. SlotTriedOnce
  <2> SUFFICES ASSUME NEW s \in Slots, NEW i \in Marks(s), NEW j \in Marks(s), i < j
               PROVE  /\ journal[j].slots[s] # "running"
                      /\ \A k \in Marks(s) : j < k => journal[k].slots[s] = journal[j].slots[s]
    BY DEF SlotTriedOnce
  <2>1. journal[j].slots[s] \in SlotVerdicts
    BY DEF Marks, CollectionInv, LinesSound, Follows
  <2>2. \A k \in Marks(s) : j < k => journal[k].slots[s] = journal[j].slots[s]
    BY <2>1 DEF Marks, CollectionInv, LinesSound, Follows
  <2> QED
    BY <2>1, <2>2 DEF SlotVerdicts
<1>3. ReservesReplacePrimaries
  <2> SUFFICES ASSUME NEW i \in DOMAIN journal, journal[i] # TornLine,
                      Used(journal[i].slots) # {}
               PROVE  /\ Used(journal[i].slots) =
                            (Primaries + 1)..(Primaries + Cardinality(Used(journal[i].slots)))
                      /\ Cardinality(Used(journal[i].slots)) <= Cardinality(Invalids(journal[i].slots))
                      /\ \A s \in Slots : IsPrimary(s) => journal[i].slots[s] \in {"valid", "invalid"}
    BY DEF ReservesReplacePrimaries, Used, Invalids
  <2> QED
    BY DEF CollectionInv, LinesSound, WellUsed, SlotVerdicts
<1>4. ReceiptIsFinal
  BY DEF ReceiptIsFinal, CollectionInv, AuditSound, IsLastWord, Last
<1>5. OneAtStage
  BY DEF OneAtStage, CollectionInv, CollectionTypeOK, LockHeld, Holding, AtWork
<1> QED
  BY <1>1, <1>2, <1>3, <1>4, <1>5 DEF CollectionSafe

\* Whatever collectors end on the way and whatever the journal loses: a slot
\* that the journal calls valid is a whole case, is tried once and keeps its
\* verdict, reserves stand only for primaries that were invalid, a verified
\* receipt is of the journal's last word, and one collector at a time is at the
\* stage, whichever locks were left behind (collectLv01Stage, auditLv01Stage).
THEOREM StagesAreCollected == CollectionSpec => []CollectionSafe
<1>1. CollectionSpec => []CollectionInv
  BY InitIsSound, NextKeeps, PTL DEF CollectionSpec
<1> QED
  BY <1>1, InvIsSafe, PTL

---------------------------------------------------------------------------
(* Dyads: the attempts, the journal they share, and what it says of them *)

States == Verdicts \cup Attempted \cup {"torn"}
JournalEntries == [dyad : DyadIds \cup {"none"}, state : States]

RunnerType ==
    [step : {"off", "read", "write", "prepare", "blocks", "case"}, dyad : DyadIds \cup {"none"},
     id : Nat, protocol : 0..2, resume : BOOLEAN, seen : Seq(JournalEntries), entry : JournalEntries,
     next : {"off", "prepare"}, slot : Nat]
WatchType ==
    [step : {"none", "sampling", "breach", "write"}, dyad : DyadIds \cup {"none"},
     seen : Seq(JournalEntries)]
DirType == [blocks : Nat, cases : SUBSET [slot : Nat, id : Nat], receipt : Nat]

DyadsTypes ==
    /\ dyads \in Seq(JournalEntries)
    /\ runner \in [Runners -> RunnerType]
    /\ watch \in [Runners -> WatchType]
    /\ dyadDir \in [DyadIds -> DirType]
    /\ attempts \in Nat /\ raced \in BOOLEAN

StatesIn(s, d) == {s[i].state : i \in {k \in DOMAIN s : s[k].dyad = d}}
UsedIn(s) == {d \in Budgeted : StatesIn(s, d) \cap (Verdicts \cup Attempted) # {}}

Writing(p) == runner[p].step \in {"read", "write"}
Entering(p) == Writing(p) /\ runner[p].next = "prepare"
Leaving(p) == Writing(p) /\ runner[p].next = "off"

\* A runner and the watchdog that launched it, which may have given up on it.
RunnerFits(p) ==
    /\ runner[p].step = "off" => runner[p] = Off
    /\ runner[p].step # "off" =>
        /\ runner[p].dyad \in DyadIds /\ watch[p].dyad \in {runner[p].dyad, "none"} /\ runner[p].id > 0
    /\ watch[p].step = "none" => watch[p] = Unwatched
    /\ watch[p].step # "none" => watch[p].dyad \in DyadIds
    /\ Entering(p) => runner[p].entry =
            Entry(runner[p].dyad, IF runner[p].resume THEN "resumed" ELSE "attempted")
    /\ Leaving(p) => \E state \in {"valid", "invalid", "failed"} :
            runner[p].entry = Entry(runner[p].dyad, state)

\* What a runner saw at its gate, and sees again when it journals its attempt.
GateFits(p) ==
    Entering(p) =>
        /\ TornEntry \notin Range(runner[p].seen)
        /\ StatesIn(runner[p].seen, runner[p].dyad) \cap Verdicts = {}
        /\ (StatesIn(runner[p].seen, runner[p].dyad) \cap Attempted # {}) <=> runner[p].resume
        /\ runner[p].dyad \in Budgeted /\ ~runner[p].resume => Cardinality(UsedIn(runner[p].seen)) < Budget

\* An attempt is in the journal before it touches the dyad's directory, and stays there
\* unless a crash cuts it off.
AttemptIsJournaled(p) ==
    runner[p].step # "off" /\ ~Entering(p) /\ runner[p].dyad \notin forgotten =>
        StatesOf(runner[p].dyad) \cap Attempted # {}

WholeBy(id, place) ==
    /\ id > 0 /\ place.receipt = id /\ place.blocks \in {0, id}
    /\ place.cases = {[slot |-> s, id |-> id] : s \in 1..Cases}

\* What is in the directory of a dyad that nothing crossed or cut off is of the attempt
\* under way.
OwnDir(r, place) ==
    /\ (r.step \in {"read", "write"} /\ r.next = "prepare") \/ r.step = "prepare" =>
            (r.resume \/ place = NoDyad) /\ r.slot = 1
    /\ r.step = "blocks" => place = NoDyad /\ r.slot = 1
    /\ r.step = "case" =>
        /\ r.slot \in 1..(Cases + 1) /\ place.receipt = 0 /\ place.blocks \in {0, r.id}
        /\ place.cases = {[slot |-> s, id |-> r.id] : s \in 1..(r.slot - 1)}
    /\ r.step \in {"read", "write"} /\ r.next = "off" /\ r.entry.state = "valid" => WholeBy(r.id, place)

DirIsOwn(p) ==
    runner[p].step # "off" /\ runner[p].dyad \notin crossed \cup forgotten =>
        OwnDir(runner[p], dyadDir[runner[p].dyad])

\* A dyad that nothing crossed has one runner, and one watchdog, at it.
OneAt == \A p, q \in Runners, d \in DyadIds \ crossed : At(p, d) /\ At(q, d) => p = q

\* A runner's last word comes behind all it did; what a dyad called valid has in its
\* directory is one attempt's.
DyadFits(d) ==
    /\ d \notin forgotten /\ StatesOf(d) \cap Attempted = {} => dyadDir[d] = NoDyad
    /\ d \notin crossed \cup forgotten /\ StatesOf(d) \cap {"valid", "invalid"} # {} =>
            \A p \in Runners : runner[p].dyad # d
    /\ d \notin crossed \cup forgotten /\ "valid" \in StatesOf(d) => WholeBy(dyadDir[d].receipt, dyadDir[d])

RunnersFit == \A p \in Runners : RunnerFits(p)
Unraced ==
    ~raced =>
        /\ \A p \in Runners : GateFits(p) /\ AttemptIsJournaled(p) /\ DirIsOwn(p)
        /\ \A d \in DyadIds : DyadFits(d)

DyadsInv == DyadsTypes /\ RunnersFit /\ OneAt /\ Unraced /\ VerdictIsFinal /\ BudgetKept

LEMMA DyadsInvImplies == DyadsInv => DyadsSafe
<1> SUFFICES ASSUME DyadsInv PROVE DyadsSafe
  OBVIOUS
<1>1. ~raced => \A d \in DyadIds : DyadFits(d)
  BY DEF DyadsInv, Unraced
<1>2. ValidDyadIsWhole
  BY <1>1 DEF ValidDyadIsWhole, DyadFits, WholeBy
<1> QED BY <1>2 DEF DyadsSafe, DyadsInv

---------------------------------------------------------------------------

LEMMA StatesInAppend ==
    ASSUME NEW s \in Seq(JournalEntries), NEW e \in JournalEntries, NEW d
    PROVE  /\ e.dyad # d => StatesIn(Append(s, e), d) = StatesIn(s, d)
           /\ e.dyad = d => StatesIn(Append(s, e), d) = StatesIn(s, d) \cup {e.state}
<1> DEFINE n == Len(s)
           t == Append(s, e)
<1>1. /\ n \in Nat /\ DOMAIN s = 1..n /\ DOMAIN t = 1..(n + 1) /\ t[n + 1] = e
      /\ \A i \in 1..n : t[i] = s[i]
  OBVIOUS
<1> HIDE DEF n, t
<1>2. 1..(n + 1) = (1..n) \cup {n + 1}
  BY <1>1
<1>3. DOMAIN t = DOMAIN s \cup {n + 1} /\ \A i \in DOMAIN s : t[i] = s[i]
  BY <1>1, <1>2
<1>4. e.dyad # d => StatesIn(t, d) = StatesIn(s, d)
  BY <1>1, <1>3 DEF StatesIn
<1>5. e.dyad = d => StatesIn(t, d) = StatesIn(s, d) \cup {e.state}
  BY <1>1, <1>3 DEF StatesIn
<1> QED BY <1>4, <1>5 DEF t

LEMMA StatesOfIs == \A d : StatesOf(d) = StatesIn(dyads, d)
BY DEF StatesOf, StatesIn

LEMMA EntryIs ==
    ASSUME NEW d \in DyadIds, NEW state \in Verdicts \cup Attempted
    PROVE  Entry(d, state) \in JournalEntries /\ Entry(d, state).dyad = d /\ Entry(d, state).state = state
BY DEF Entry, JournalEntries, States

LEMMA TornEntryIs ==
    TornEntry \in JournalEntries /\ TornEntry.dyad = "none" /\ TornEntry.state = "torn"
BY DEF TornEntry, Entry, JournalEntries, States

LEMMA WrittenIs ==
    ASSUME NEW s \in Seq(JournalEntries), NEW e \in JournalEntries
    PROVE  /\ Written(s, e) \in Seq(JournalEntries)
           /\ \/ Written(s, e) = Append(s, e)
              \/ Written(s, e) = s /\ TornEntry \in Range(s)
<1>1. CASE s # <<>> /\ Last(s) = TornEntry
  <2>1. Len(s) \in DOMAIN s /\ s[Len(s)] = TornEntry
    BY <1>1 DEF Last
  <2> QED BY <1>1, <2>1 DEF Written, Range
<1>2. CASE ~(s # <<>> /\ Last(s) = TornEntry)
  BY <1>2 DEF Written
<1> QED BY <1>1, <1>2

\* What a journal that was cut short still says.
LEMMA CutShortIs ==
    ASSUME DyadsTypes, NEW p \in Runners, CutShort(p)
    PROVE  /\ dyads' \in Seq(JournalEntries) /\ raced' \in BOOLEAN /\ forgotten \subseteq forgotten'
           /\ ~raced' =>
                /\ ~raced
                /\ \E n \in 0..Len(dyads) :
                    /\ DOMAIN dyads' \subseteq 1..(n + 1)
                    /\ \A i \in 1..n : i \in DOMAIN dyads' /\ dyads'[i] = dyads[i]
                    /\ n + 1 \in DOMAIN dyads' => dyads'[n + 1] = TornEntry
                    /\ \A i \in (n + 1)..Len(dyads) : dyads[i].dyad \in forgotten'
<1> DEFINE s == runner[p].seen
<1>1. s \in Seq(JournalEntries)
  BY DEF DyadsTypes, RunnerType
<1>2. PICK n \in 0..Len(s) :
        /\ dyads' \in {SubSeq(s, 1, n), Append(SubSeq(s, 1, n), TornEntry)}
        /\ forgotten' = forgotten \cup {s[i].dyad : i \in (n + 1)..Len(s)}
        /\ raced' = (raced \/ s # dyads)
  BY DEF CutShort
<1> DEFINE left == SubSeq(s, 1, n)
<1>3. /\ left \in Seq(JournalEntries) /\ Len(left) = n /\ n \in Nat /\ DOMAIN left = 1..n
      /\ \A i \in 1..n : left[i] = s[i]
  BY <1>1
<1>4. dyads' \in {left, Append(left, TornEntry)}
  BY <1>2
<1> HIDE DEF left
<1>5. /\ dyads' \in Seq(JournalEntries)
      /\ DOMAIN dyads' \subseteq 1..(n + 1)
      /\ \A i \in 1..n : i \in DOMAIN dyads' /\ dyads'[i] = s[i]
      /\ n + 1 \in DOMAIN dyads' => dyads'[n + 1] = TornEntry
  <2>1. CASE dyads' = left
    BY <1>3, <2>1
  <2>2. CASE dyads' = Append(left, TornEntry)
    BY <1>3, <2>2, TornEntryIs
  <2> QED BY <1>4, <2>1, <2>2
<1>6. raced' \in BOOLEAN
  BY <1>2 DEF DyadsTypes
<1>7. ~raced' => ~raced /\ s = dyads
  BY <1>2
<1>8. ASSUME ~raced'
      PROVE  \E k \in 0..Len(dyads) :
                /\ DOMAIN dyads' \subseteq 1..(k + 1)
                /\ \A i \in 1..k : i \in DOMAIN dyads' /\ dyads'[i] = dyads[i]
                /\ k + 1 \in DOMAIN dyads' => dyads'[k + 1] = TornEntry
                /\ \A i \in (k + 1)..Len(dyads) : dyads[i].dyad \in forgotten'
  <2>1. s = dyads
    BY <1>7, <1>8
  <2>2. \A i \in (n + 1)..Len(s) : s[i].dyad \in forgotten'
    BY <1>2
  <2> HIDE DEF s
  <2> QED BY <1>5, <2>1, <2>2
<1> QED BY <1>2, <1>5, <1>6, <1>7, <1>8

\* What a cut says of the dyads: less of those it cut, as much of the others.
LEMMA CutSays ==
    ASSUME dyads \in Seq(JournalEntries), NEW n \in 0..Len(dyads),
           DOMAIN dyads' \subseteq 1..(n + 1),
           \A i \in 1..n : i \in DOMAIN dyads' /\ dyads'[i] = dyads[i],
           n + 1 \in DOMAIN dyads' => dyads'[n + 1] = TornEntry,
           \A i \in (n + 1)..Len(dyads) : dyads[i].dyad \in forgotten'
    PROVE  \A d \in DyadIds : /\ StatesOf(d)' \subseteq StatesOf(d)
                              /\ d \notin forgotten' => StatesOf(d)' = StatesOf(d)
<1>1. n \in Nat /\ Len(dyads) \in Nat /\ DOMAIN dyads = 1..Len(dyads) /\ n <= Len(dyads)
  OBVIOUS
<1>2. ASSUME NEW d \in DyadIds PROVE StatesOf(d)' \subseteq StatesOf(d)
  <2> SUFFICES ASSUME NEW i \in DOMAIN dyads', dyads'[i].dyad = d
               PROVE  dyads'[i].state \in StatesOf(d)
    BY DEF StatesOf
  <2>1. i # n + 1
    BY TornEntryIs, DyadsAssumption
  <2>2. i \in 1..n
    BY <1>1, <2>1
  <2>3. i \in DOMAIN dyads /\ dyads[i] = dyads'[i]
    BY <1>1, <2>2
  <2> QED BY <2>3 DEF StatesOf
<1>3. ASSUME NEW d \in DyadIds, d \notin forgotten' PROVE StatesOf(d) \subseteq StatesOf(d)'
  <2> SUFFICES ASSUME NEW i \in DOMAIN dyads, dyads[i].dyad = d
               PROVE  dyads[i].state \in StatesOf(d)'
    BY DEF StatesOf
  <2>1. i \notin (n + 1)..Len(dyads)
    BY <1>3
  <2>2. i \in 1..n
    BY <1>1, <2>1
  <2> QED BY <2>2 DEF StatesOf
<1> QED BY <1>2, <1>3

\* A step that says nothing new of a dyad.
Quiet == /\ dyads' \in Seq(JournalEntries) /\ raced' \in BOOLEAN /\ forgotten \subseteq forgotten'
         /\ ~raced' =>
              /\ ~raced
              /\ \A d \in DyadIds : /\ StatesOf(d)' \subseteq StatesOf(d)
                                    /\ d \notin forgotten' => StatesOf(d)' = StatesOf(d)
         /\ VerdictIsFinal' /\ BudgetKept'

LEMMA FinalStays ==
    ASSUME ~raced, VerdictIsFinal, dyads \in Seq(JournalEntries), NEW e \in JournalEntries,
           dyads' = Append(dyads, e),
           e.state \in {"attempted", "resumed"} => StatesOf(e.dyad) \cap Verdicts = {}
    PROVE  VerdictIsFinal'
<1> DEFINE n == Len(dyads)
<1>1. /\ n \in Nat /\ DOMAIN dyads = 1..n /\ DOMAIN dyads' = 1..(n + 1) /\ dyads'[n + 1] = e
      /\ \A i \in 1..n : dyads'[i] = dyads[i]
  OBVIOUS
<1> HIDE DEF n
<1>2. SUFFICES ASSUME NEW i \in 1..(n + 1), NEW j \in 1..(n + 1), i < j,
                      dyads'[i].dyad = dyads'[j].dyad, dyads'[i].state \in Verdicts
               PROVE  dyads'[j].state \notin {"attempted", "resumed"}
  BY <1>1 DEF VerdictIsFinal
<1>3. i \in 1..n
  BY <1>1, <1>2
<1>4. CASE j \in 1..n
  BY <1>1, <1>2, <1>3, <1>4 DEF VerdictIsFinal
<1>5. CASE j = n + 1
  <2>1. dyads[i].state \in StatesOf(e.dyad)
    BY <1>1, <1>2, <1>3, <1>5 DEF StatesOf
  <2> QED BY <1>1, <1>2, <1>3, <1>5, <2>1
<1> QED BY <1>1, <1>4, <1>5

LEMMA QuietStep ==
    ASSUME DyadsInv,
           \/ dyads' = dyads /\ forgotten' = forgotten /\ raced' \in BOOLEAN /\ (raced => raced')
           \/ \E p \in Runners : CutShort(p)
    PROVE  Quiet
<1>1. CASE dyads' = dyads /\ forgotten' = forgotten /\ raced' \in BOOLEAN /\ (raced => raced')
  BY <1>1 DEF Quiet, DyadsInv, DyadsTypes, VerdictIsFinal, BudgetKept, StatesOf
<1>2. CASE \E p \in Runners : CutShort(p)
  <2>1. /\ dyads' \in Seq(JournalEntries) /\ raced' \in BOOLEAN /\ forgotten \subseteq forgotten'
        /\ ~raced' =>
             /\ ~raced
             /\ \E n \in 0..Len(dyads) :
                 /\ DOMAIN dyads' \subseteq 1..(n + 1)
                 /\ \A i \in 1..n : i \in DOMAIN dyads' /\ dyads'[i] = dyads[i]
                 /\ n + 1 \in DOMAIN dyads' => dyads'[n + 1] = TornEntry
                 /\ \A i \in (n + 1)..Len(dyads) : dyads[i].dyad \in forgotten'
    BY <1>2, CutShortIs DEF DyadsInv
  <2>2. dyads \in Seq(JournalEntries)
    BY DEF DyadsInv, DyadsTypes
  <2>3. ASSUME ~raced'
        PROVE  /\ ~raced
               /\ \A d \in DyadIds : /\ StatesOf(d)' \subseteq StatesOf(d)
                                     /\ d \notin forgotten' => StatesOf(d)' = StatesOf(d)
               /\ VerdictIsFinal' /\ BudgetKept'
    <3>1. PICK n \in 0..Len(dyads) :
                 /\ DOMAIN dyads' \subseteq 1..(n + 1)
                 /\ \A i \in 1..n : i \in DOMAIN dyads' /\ dyads'[i] = dyads[i]
                 /\ n + 1 \in DOMAIN dyads' => dyads'[n + 1] = TornEntry
                 /\ \A i \in (n + 1)..Len(dyads) : dyads[i].dyad \in forgotten'
      BY <2>1, <2>3
    <3>2. ~raced
      BY <2>1, <2>3
    <3>3. \A d \in DyadIds : /\ StatesOf(d)' \subseteq StatesOf(d)
                             /\ d \notin forgotten' => StatesOf(d)' = StatesOf(d)
      BY <2>2, <3>1, CutSays
    <3>4. VerdictIsFinal'
      <4>1. n \in Nat /\ n <= Len(dyads) /\ DOMAIN dyads = 1..Len(dyads) /\ Len(dyads) \in Nat
        BY <2>2
      <4> SUFFICES ASSUME NEW i \in DOMAIN dyads', NEW j \in DOMAIN dyads', i < j,
                          dyads'[i].dyad = dyads'[j].dyad, dyads'[i].state \in Verdicts
                   PROVE  dyads'[j].state \notin {"attempted", "resumed"}
        BY DEF VerdictIsFinal
      <4>2. CASE j = n + 1
        BY <3>1, <4>2, TornEntryIs
      <4>3. CASE j # n + 1
        <5>1. i \in 1..n /\ j \in 1..n
          BY <3>1, <4>1, <4>3
        <5>2. i \in DOMAIN dyads /\ j \in DOMAIN dyads /\ dyads[i] = dyads'[i] /\ dyads[j] = dyads'[j]
          BY <3>1, <4>1, <5>1
        <5> QED BY <3>2, <5>2 DEF DyadsInv, VerdictIsFinal
      <4> QED BY <4>2, <4>3
    <3>5. BudgetKept'
      <4> DEFINE A == {d \in Budgeted : "attempted" \in StatesOf(d)}
                 AA == {d \in Budgeted : "attempted" \in StatesOf(d)'}
      <4>1. AA \subseteq A /\ A \subseteq Budgeted
        BY <3>3, DyadsAssumption
      <4>2. Cardinality(A) <= Budget
        BY <3>2 DEF DyadsInv, BudgetKept
      <4> HIDE DEF A, AA
      <4>3. IsFiniteSet(A)
        BY <4>1, DyadsAssumption, FS_Subset
      <4>4. Cardinality(AA) <= Cardinality(A) /\ Cardinality(AA) \in Nat /\ Cardinality(A) \in Nat
        BY <4>1, <4>3, FS_Subset, FS_CardinalityType
      <4>5. Cardinality(AA) <= Budget
        BY <4>2, <4>4, DyadsAssumption
      <4> QED BY <4>5 DEF AA, BudgetKept
    <3> QED BY <3>2, <3>3, <3>4, <3>5
  <2>4. VerdictIsFinal' /\ BudgetKept'
    BY <2>3 DEF VerdictIsFinal, BudgetKept
  <2> QED BY <2>1, <2>3, <2>4 DEF Quiet
<1> QED BY <1>1, <1>2

\* A step of one runner or of its watchdog leaves the others as they are.
LEMMA OtherRunnersStay ==
    ASSUME DyadsInv, NEW p \in Runners, crossed \subseteq crossed', forgotten \subseteq forgotten',
           ~raced' => ~raced /\ \A d \in DyadIds \ forgotten' : StatesOf(d) \subseteq StatesOf(d)',
           \A d \in DyadIds : d # runner[p].dyad => dyadDir'[d] = dyadDir[d],
           NEW q \in Runners, q # p, runner'[q] = runner[q], watch'[q] = watch[q]
    PROVE  /\ RunnerFits(q)'
           /\ ~raced' => GateFits(q)' /\ AttemptIsJournaled(q)' /\ DirIsOwn(q)'
<1>1. RunnerFits(q)
  BY DEF DyadsInv, RunnersFit
<1>2. RunnerFits(q)'
  BY <1>1 DEF RunnerFits, Entering, Leaving, Writing
<1>3. ASSUME ~raced' PROVE GateFits(q)' /\ AttemptIsJournaled(q)' /\ DirIsOwn(q)'
  <2>1. ~raced /\ GateFits(q) /\ AttemptIsJournaled(q) /\ DirIsOwn(q)
    BY <1>3 DEF DyadsInv, Unraced
  <2>2. GateFits(q)'
    BY <2>1 DEF GateFits, Entering, Writing, UsedIn, StatesIn
  <2>3. runner[q].step # "off" => runner[q].dyad \in DyadIds
    BY <1>1 DEF RunnerFits
  <2>4. AttemptIsJournaled(q)'
    <3>1. SUFFICES ASSUME runner[q].step # "off", ~Entering(q), runner[q].dyad \notin forgotten'
                   PROVE  StatesOf(runner[q].dyad)' \cap Attempted # {}
      BY DEF AttemptIsJournaled, Entering, Writing, StatesOf
    <3> QED BY <1>3, <2>1, <2>3, <3>1 DEF AttemptIsJournaled
  <2>5. DirIsOwn(q)'
    <3>1. SUFFICES ASSUME runner[q].step # "off", runner[q].dyad \notin crossed' \cup forgotten'
                   PROVE  OwnDir(runner[q], dyadDir'[runner[q].dyad])
      BY DEF DirIsOwn, OwnDir, WholeBy
    <3>2. runner[q].dyad \notin crossed \cup forgotten /\ runner[q].dyad \in DyadIds
      BY <2>3, <3>1
    <3>3. runner[q].dyad # runner[p].dyad
      BY <3>2 DEF DyadsInv, OneAt, At
    <3>4. dyadDir'[runner[q].dyad] = dyadDir[runner[q].dyad]
      BY <3>2, <3>3
    <3> QED BY <2>1, <3>1, <3>2, <3>4 DEF DirIsOwn
  <2> QED BY <2>2, <2>4, <2>5
<1> QED BY <1>2, <1>3

\* A step that moves one runner or its watchdog along, and says nothing of a dyad.
LEMMA QuietMove ==
    ASSUME DyadsInv, NEW p \in Runners, crossed' = crossed, Quiet,
           runner' \in [Runners -> RunnerType], watch' \in [Runners -> WatchType],
           dyadDir' \in [DyadIds -> DirType], attempts' \in Nat,
           \A q \in Runners : q # p => runner'[q] = runner[q] /\ watch'[q] = watch[q],
           runner'[p].dyad \in {runner[p].dyad, "none"}, watch'[p].dyad \in {watch[p].dyad, "none"},
           \A d \in DyadIds : d # runner[p].dyad => dyadDir'[d] = dyadDir[d],
           dyadDir' = dyadDir \/ (runner[p].step # "off" /\ ~Entering(p)),
           RunnerFits(p)',
           ~raced' => GateFits(p)' /\ AttemptIsJournaled(p)' /\ DirIsOwn(p)'
    PROVE  DyadsInv'
<1>1. DyadsTypes'
  BY DEF DyadsTypes, Quiet
<1>2. RunnersFit' /\ (~raced' => \A q \in Runners : GateFits(q)' /\ AttemptIsJournaled(q)' /\ DirIsOwn(q)')
  <2>1. /\ forgotten \subseteq forgotten'
        /\ ~raced' => ~raced /\ \A d \in DyadIds \ forgotten' : StatesOf(d) \subseteq StatesOf(d)'
    BY DEF Quiet
  <2>2. ASSUME NEW q \in Runners
        PROVE  /\ RunnerFits(q)'
               /\ ~raced' => GateFits(q)' /\ AttemptIsJournaled(q)' /\ DirIsOwn(q)'
    <3>1. CASE q = p
      BY <3>1
    <3>2. CASE q # p
      BY <2>1, <3>2, OtherRunnersStay
    <3> QED BY <3>1, <3>2
  <2> QED BY <2>2 DEF RunnersFit
<1>3. OneAt'
  <2>1. \A q \in Runners : /\ watch'[q].dyad \in {watch[q].dyad, "none"}
                          /\ runner'[q].dyad \in {runner[q].dyad, "none"}
    OBVIOUS
  <2> QED BY <2>1, DyadsAssumption DEF DyadsInv, OneAt, At
<1>4. ASSUME ~raced', NEW d \in DyadIds PROVE DyadFits(d)'
  <2>1. /\ ~raced /\ DyadFits(d) /\ AttemptIsJournaled(p) /\ forgotten \subseteq forgotten'
        /\ d \notin forgotten' => StatesOf(d)' = StatesOf(d)
    BY <1>4 DEF Quiet, DyadsInv, Unraced
  <2>2. \A q \in Runners : runner'[q].dyad = runner[q].dyad \/ runner'[q].dyad = "none"
    OBVIOUS
  <2>3. d \notin forgotten' /\ StatesOf(d)' \cap Attempted = {} => dyadDir'[d] = NoDyad
    BY <2>1 DEF DyadFits, AttemptIsJournaled
  <2>4. d \notin crossed' \cup forgotten' /\ StatesOf(d)' \cap {"valid", "invalid"} # {} =>
            \A q \in Runners : runner'[q].dyad # d
    BY <2>1, <2>2, DyadsAssumption DEF DyadFits
  <2>5. d \notin crossed' \cup forgotten' /\ "valid" \in StatesOf(d)' =>
            WholeBy(dyadDir'[d].receipt, dyadDir'[d])
    <3>1. SUFFICES ASSUME d \notin crossed \cup forgotten, "valid" \in StatesOf(d)
                   PROVE  WholeBy(dyadDir'[d].receipt, dyadDir'[d])
      BY <2>1
    <3>2. runner[p].dyad # d
      BY <2>1, <3>1 DEF DyadFits
    <3> QED BY <2>1, <3>1, <3>2 DEF DyadFits
  <2> QED BY <2>3, <2>4, <2>5 DEF DyadFits, WholeBy
<1>5. VerdictIsFinal' /\ BudgetKept'
  BY DEF Quiet
<1> QED BY <1>1, <1>2, <1>3, <1>4, <1>5 DEF DyadsInv, Unraced

\* A runner's place changes; what it writes back and who watches it stays.
LEMMA RunnerTo ==
    ASSUME DyadsTypes, NEW p \in Runners, NEW to \in RunnerType, runner' = [runner EXCEPT ![p] = to]
    PROVE  /\ runner' \in [Runners -> RunnerType] /\ runner'[p] = to
           /\ \A q \in Runners : q # p => runner'[q] = runner[q]
BY DEF DyadsTypes

LEMMA WatchTo ==
    ASSUME DyadsTypes, NEW p \in Runners, NEW to \in WatchType, watch' = [watch EXCEPT ![p] = to]
    PROVE  /\ watch' \in [Runners -> WatchType] /\ watch'[p] = to
           /\ \A q \in Runners : q # p => watch'[q] = watch[q]
BY DEF DyadsTypes

LEMMA OffIs ==
    Off \in RunnerType /\ Off.step = "off" /\ Off.dyad = "none"
<1>1. <<>> \in Seq(JournalEntries)
  OBVIOUS
<1>2. TornEntry \in JournalEntries
  BY TornEntryIs
<1> QED BY <1>1, <1>2 DEF Off, RunnerType

LEMMA UnwatchedIs ==
    Unwatched \in WatchType /\ Unwatched.step = "none" /\ Unwatched.dyad = "none"
<1>1. <<>> \in Seq(JournalEntries)
  OBVIOUS
<1> QED BY <1>1 DEF Unwatched, WatchType

\* A runner that ends leaves its dyad to the watchdog, if that is still there.
LEMMA OffFits ==
    ASSUME NEW p \in Runners, RunnerFits(p), runner'[p] = Off, watch'[p] \in {watch[p], Unwatched}
    PROVE  /\ RunnerFits(p)'
           /\ GateFits(p)' /\ AttemptIsJournaled(p)' /\ DirIsOwn(p)'
BY DEF RunnerFits, Off, Unwatched, GateFits, Entering, Leaving, Writing, AttemptIsJournaled, DirIsOwn

LEMMA FactsOf ==
    ASSUME DyadsInv, NEW p \in Runners
    PROVE  /\ runner[p] \in RunnerType /\ watch[p] \in WatchType /\ RunnerFits(p)
           /\ dyads \in Seq(JournalEntries) /\ raced \in BOOLEAN /\ attempts \in Nat
           /\ dyadDir \in [DyadIds -> DirType]
           /\ ~raced => GateFits(p) /\ AttemptIsJournaled(p) /\ DirIsOwn(p)
BY DEF DyadsInv, DyadsTypes, RunnersFit, Unraced

LEMMA ReadJournalKeeps ==
    ASSUME DyadsInv, NEW p \in Runners, ReadJournal(p)
    PROVE  DyadsInv'
<1> DEFINE to == [runner[p] EXCEPT !.step = "write", !.seen = dyads]
<1>1. /\ runner[p].step = "read" /\ runner' = [runner EXCEPT ![p] = to]
      /\ raced' = (raced \/ (runner[p].next = "prepare" /\ runner[p].seen # dyads))
      /\ UNCHANGED <<dyads, dyadDir, watch, attempts, crossed, forgotten>>
  BY DEF ReadJournal, bounds
<1>2. /\ runner[p] \in RunnerType /\ RunnerFits(p) /\ dyads \in Seq(JournalEntries) /\ raced \in BOOLEAN
      /\ ~raced => GateFits(p) /\ AttemptIsJournaled(p) /\ DirIsOwn(p)
  BY FactsOf
<1>3. /\ to \in RunnerType /\ to.step = "write" /\ to.seen = dyads /\ to.dyad = runner[p].dyad
      /\ to.id = runner[p].id /\ to.resume = runner[p].resume /\ to.entry = runner[p].entry
      /\ to.next = runner[p].next /\ to.slot = runner[p].slot
  BY <1>2 DEF RunnerType
<1> HIDE DEF to
<1>4. /\ runner' \in [Runners -> RunnerType] /\ runner'[p] = to
      /\ \A q \in Runners : q # p => runner'[q] = runner[q]
  BY <1>1, <1>3, RunnerTo DEF DyadsInv
<1>5. Quiet
  <2>1. raced' \in BOOLEAN /\ (raced => raced')
    BY <1>1, <1>2
  <2> QED BY <1>1, <2>1, QuietStep
<1>6. RunnerFits(p)'
  BY <1>1, <1>2, <1>3, <1>4 DEF RunnerFits, Entering, Leaving, Writing
<1>7. ASSUME ~raced' PROVE GateFits(p)' /\ AttemptIsJournaled(p)' /\ DirIsOwn(p)'
  <2>1. ~raced /\ (runner[p].next = "prepare" => runner[p].seen = dyads)
    BY <1>1, <1>7
  <2>2. GateFits(p)'
    <3>1. Entering(p)' => /\ Entering(p) /\ runner'[p].seen = runner[p].seen
                          /\ runner'[p].dyad = runner[p].dyad /\ runner'[p].resume = runner[p].resume
      BY <1>1, <1>3, <1>4, <2>1 DEF Entering, Writing
    <3>2. GateFits(p)
      BY <1>2, <2>1
    <3> QED BY <3>1, <3>2 DEF GateFits, UsedIn, StatesIn
  <2>3. AttemptIsJournaled(p)'
    BY <1>1, <1>2, <1>3, <1>4, <2>1 DEF AttemptIsJournaled, Entering, Writing, StatesOf
  <2>4. DirIsOwn(p)'
    <3>1. runner[p].dyad \notin crossed \cup forgotten => OwnDir(to, dyadDir[runner[p].dyad])
      BY <1>1, <1>2, <1>3, <2>1 DEF DirIsOwn, OwnDir
    <3> QED BY <1>1, <1>3, <1>4, <3>1 DEF DirIsOwn, OwnDir, WholeBy
  <2> QED BY <2>2, <2>3, <2>4
<1> QED BY <1>1, <1>2, <1>3, <1>4, <1>5, <1>6, <1>7, QuietMove DEF DyadsInv, DyadsTypes

\* A runner that goes on to journal its last state.
LEMMA JournalsIs ==
    ASSUME NEW p \in Runners, runner[p] \in RunnerType, runner \in [Runners -> RunnerType], RunnerFits(p),
           runner[p].step # "off", NEW state \in {"valid", "invalid", "failed"}, Journals(p, state)
    PROVE  \E to \in RunnerType :
              /\ runner' = [runner EXCEPT ![p] = to] /\ to.step = "read" /\ to.next = "off"
              /\ to.entry = Entry(runner[p].dyad, state) /\ to.entry.state = state
              /\ to.dyad = runner[p].dyad /\ to.id = runner[p].id
<1> DEFINE to == [runner[p] EXCEPT !.step = "read", !.entry = Entry(runner[p].dyad, state), !.next = "off"]
<1>1. runner[p].dyad \in DyadIds
  BY DEF RunnerFits
<1>2. Entry(runner[p].dyad, state) \in JournalEntries /\ Entry(runner[p].dyad, state).state = state
  BY <1>1, EntryIs DEF Verdicts, Attempted
<1>3. /\ to \in RunnerType /\ to.step = "read" /\ to.next = "off"
      /\ to.entry = Entry(runner[p].dyad, state) /\ to.dyad = runner[p].dyad /\ to.id = runner[p].id
  BY <1>2 DEF RunnerType
<1>4. runner' = [runner EXCEPT ![p] = to]
  BY DEF Journals
<1> QED BY <1>2, <1>3, <1>4

LEMMA NoDyadIs == NoDyad \in DirType /\ NoDyad.blocks = 0 /\ NoDyad.cases = {} /\ NoDyad.receipt = 0
BY DEF NoDyad, DirType

LEMMA PrepareKeeps ==
    ASSUME DyadsInv, NEW p \in Runners, Prepare(p)
    PROVE  DyadsInv'
<1> DEFINE to == [runner[p] EXCEPT !.step = "blocks"]
           d == runner[p].dyad
<1>1. /\ runner[p].step = "prepare"
      /\ dyadDir' = IF runner[p].resume THEN [dyadDir EXCEPT ![d] = NoDyad] ELSE dyadDir
      /\ \/ runner' = [runner EXCEPT ![p] = to]
         \/ runner' = [runner EXCEPT ![p] = Off]
      /\ UNCHANGED <<dyads, raced, watch, attempts, crossed, forgotten>>
  BY DEF Prepare, bounds, dyadHistories
<1>2. /\ runner[p] \in RunnerType /\ watch[p] \in WatchType /\ RunnerFits(p) /\ raced \in BOOLEAN
      /\ dyadDir \in [DyadIds -> DirType]
      /\ ~raced => GateFits(p) /\ AttemptIsJournaled(p) /\ DirIsOwn(p)
  BY FactsOf
<1>3. d \in DyadIds
  BY <1>1, <1>2 DEF RunnerFits
<1>4. /\ to \in RunnerType /\ to.step = "blocks" /\ to.dyad = d /\ to.slot = runner[p].slot /\ to.id = runner[p].id
  BY <1>2 DEF RunnerType
<1> HIDE DEF to
<1>5. /\ dyadDir' \in [DyadIds -> DirType] /\ dyadDir'[d] = (IF runner[p].resume THEN NoDyad ELSE dyadDir[d])
      /\ \A e \in DyadIds : e # d => dyadDir'[e] = dyadDir[e]
  BY <1>1, <1>2, <1>3, NoDyadIs
<1>6. Quiet
  BY <1>1, <1>2, QuietStep
<1>7. runner[p].step # "off" /\ ~Entering(p)
  BY <1>1 DEF Entering, Writing
<1>8. CASE runner' = [runner EXCEPT ![p] = to]
  <2>1. /\ runner' \in [Runners -> RunnerType] /\ runner'[p] = to
        /\ \A q \in Runners : q # p => runner'[q] = runner[q]
    BY <1>4, <1>8, RunnerTo DEF DyadsInv
  <2>2. RunnerFits(p)'
    BY <1>1, <1>2, <1>4, <2>1 DEF RunnerFits, Entering, Leaving, Writing
  <2>3. ASSUME ~raced' PROVE GateFits(p)' /\ AttemptIsJournaled(p)' /\ DirIsOwn(p)'
    <3>1. GateFits(p)'
      BY <1>4, <2>1 DEF GateFits, Entering, Writing
    <3>2. AttemptIsJournaled(p)'
      BY <1>1, <1>2, <1>4, <1>7, <2>1, <2>3 DEF AttemptIsJournaled, StatesOf
    <3>3. DirIsOwn(p)'
      BY <1>1, <1>2, <1>3, <1>4, <1>5, <2>1, <2>3 DEF DirIsOwn, OwnDir
    <3> QED BY <3>1, <3>2, <3>3
  <2> HIDE DEF d
  <2> QED BY <1>1, <1>2, <1>4, <1>5, <1>6, <1>7, <2>1, <2>2, <2>3, QuietMove DEF DyadsInv, DyadsTypes, d
<1>9. CASE runner' = [runner EXCEPT ![p] = Off]
  <2>1. /\ runner' \in [Runners -> RunnerType] /\ runner'[p] = Off
        /\ \A q \in Runners : q # p => runner'[q] = runner[q]
    BY <1>9, OffIs, RunnerTo DEF DyadsInv
  <2>2. RunnerFits(p)' /\ GateFits(p)' /\ AttemptIsJournaled(p)' /\ DirIsOwn(p)'
    BY <1>1, <1>2, <2>1, OffFits
  <2> HIDE DEF d
  <2> QED BY <1>1, <1>2, <1>5, <1>6, <1>7, <2>1, <2>2, OffIs, QuietMove DEF DyadsInv, DyadsTypes, d
<1> QED BY <1>1, <1>8, <1>9

\* What a runner does to its dyad's directory before it goes on, or journals a verdict.
LEMMA OwnStepKeeps ==
    ASSUME DyadsInv, NEW p \in Runners, UNCHANGED <<dyads, raced, watch, attempts, crossed, forgotten>>,
           runner[p].step # "off", ~Entering(p), NEW to \in RunnerType, runner' = [runner EXCEPT ![p] = to],
           to.step # "off", to.dyad = runner[p].dyad, to.id = runner[p].id,
           to.step \in {"read", "write"} => to.next = "off" /\
                \E state \in {"valid", "invalid", "failed"} : to.entry = Entry(to.dyad, state),
           NEW place \in DirType, dyadDir' = [dyadDir EXCEPT ![runner[p].dyad] = place],
           OwnDir(runner[p], dyadDir[runner[p].dyad]) => OwnDir(to, place)
    PROVE  DyadsInv'
<1> DEFINE d == runner[p].dyad
<1>1. /\ runner[p] \in RunnerType /\ watch[p] \in WatchType /\ RunnerFits(p) /\ raced \in BOOLEAN
      /\ dyadDir \in [DyadIds -> DirType]
      /\ ~raced => GateFits(p) /\ AttemptIsJournaled(p) /\ DirIsOwn(p)
  BY FactsOf
<1>2. d \in DyadIds
  BY <1>1 DEF RunnerFits
<1>3. /\ dyadDir' \in [DyadIds -> DirType] /\ dyadDir'[d] = place
      /\ \A e \in DyadIds : e # d => dyadDir'[e] = dyadDir[e]
  BY <1>1, <1>2
<1>4. Quiet
  BY <1>1, QuietStep
<1>5. /\ runner' \in [Runners -> RunnerType] /\ runner'[p] = to
      /\ \A q \in Runners : q # p => runner'[q] = runner[q]
  BY RunnerTo DEF DyadsInv
<1>6. RunnerFits(p)'
  BY <1>1, <1>5 DEF RunnerFits, Entering, Leaving, Writing
<1>7. ASSUME ~raced' PROVE GateFits(p)' /\ AttemptIsJournaled(p)' /\ DirIsOwn(p)'
  <2>1. GateFits(p)'
    BY <1>5 DEF GateFits, Entering, Writing
  <2>2. AttemptIsJournaled(p)'
    BY <1>1, <1>5, <1>7 DEF AttemptIsJournaled, StatesOf
  <2>3. runner[p].dyad \notin crossed \cup forgotten => OwnDir(to, place)
    BY <1>1, <1>7 DEF DirIsOwn
  <2>4. DirIsOwn(p)'
    BY <1>3, <1>5, <2>3 DEF DirIsOwn, OwnDir, WholeBy
  <2> QED BY <2>1, <2>2, <2>4
<1> HIDE DEF d
<1> QED BY <1>1, <1>3, <1>4, <1>5, <1>6, <1>7, QuietMove DEF DyadsInv, DyadsTypes, d

LEMMA BuildBlocksKeeps ==
    ASSUME DyadsInv, NEW p \in Runners, BuildBlocks(p)
    PROVE  DyadsInv'
<1> DEFINE to == [runner[p] EXCEPT !.step = "case"]
           d == runner[p].dyad
           new == IF runner[p].protocol = 2 THEN runner[p].id ELSE dyadDir[d].blocks
           place == [dyadDir[d] EXCEPT !.blocks = new]
<1>1. /\ runner[p].step = "blocks" /\ UNCHANGED <<dyads, raced, watch, attempts, crossed, forgotten>>
      /\ \/ runner' = [runner EXCEPT ![p] = to] /\ dyadDir' = [dyadDir EXCEPT ![d] = place]
         \/ \E state \in {"invalid", "failed"} : Journals(p, state) /\ dyadDir' = dyadDir
  BY DEF BuildBlocks, bounds, dyadHistories
<1>2. /\ runner[p] \in RunnerType /\ RunnerFits(p) /\ dyadDir \in [DyadIds -> DirType]
      /\ d \in DyadIds /\ ~Entering(p) /\ runner \in [Runners -> RunnerType]
  BY <1>1, FactsOf DEF RunnerFits, Entering, Writing, DyadsInv, DyadsTypes
<1>3. dyadDir[d] \in DirType
  BY <1>2
<1>4. CASE runner' = [runner EXCEPT ![p] = to] /\ dyadDir' = [dyadDir EXCEPT ![d] = place]
  <2>1. /\ to \in RunnerType /\ to.step = "case" /\ to.dyad = d /\ to.slot = runner[p].slot /\ to.id = runner[p].id
    BY <1>2 DEF RunnerType
  <2>2. new \in Nat /\ runner[p].id \in Nat
    BY <1>2, <1>3 DEF RunnerType, DirType
  <2>3. place \in DirType /\ place.blocks = new /\ place.cases = dyadDir[d].cases /\ place.receipt = dyadDir[d].receipt
    BY <1>3, <2>2 DEF DirType
  <2>4. OwnDir(runner[p], dyadDir[d]) => OwnDir(to, place)
    <3>1. SUFFICES ASSUME OwnDir(runner[p], dyadDir[d]) PROVE OwnDir(to, place)
      OBVIOUS
    <3>2. dyadDir[d] = NoDyad /\ runner[p].slot = 1
      BY <1>1, <3>1 DEF OwnDir
    <3>3. place.receipt = 0 /\ place.cases = {} /\ place.blocks \in {0, runner[p].id}
      BY <2>3, <3>2, NoDyadIs
    <3> HIDE DEF to, place, new
    <3>4. {[slot |-> s, id |-> to.id] : s \in 1..(to.slot - 1)} = {}
      BY <2>1, <3>2
    <3>5. to.slot \in 1..(Cases + 1)
      BY <2>1, <3>2, DyadsAssumption
    <3> QED BY <2>1, <3>3, <3>4, <3>5 DEF OwnDir
  <2> HIDE DEF to, place, new, d
  <2> QED BY <1>1, <1>2, <1>4, <2>1, <2>3, <2>4, OwnStepKeeps DEF d
<1>5. ASSUME NEW state \in {"invalid", "failed"}, Journals(p, state), dyadDir' = dyadDir PROVE DyadsInv'
  <2>1. PICK t \in RunnerType :
              /\ runner' = [runner EXCEPT ![p] = t] /\ t.step = "read" /\ t.next = "off"
              /\ t.entry = Entry(runner[p].dyad, state) /\ t.entry.state = state
              /\ t.dyad = runner[p].dyad /\ t.id = runner[p].id
    BY <1>1, <1>2, <1>5, JournalsIs
  <2>2. dyadDir' = [dyadDir EXCEPT ![d] = dyadDir[d]]
    BY <1>2, <1>5
  <2>3. OwnDir(runner[p], dyadDir[d]) => OwnDir(t, dyadDir[d])
    BY <2>1 DEF OwnDir
  <2> HIDE DEF d
  <2> QED BY <1>1, <1>2, <1>3, <2>1, <2>2, <2>3, OwnStepKeeps DEF d
<1> QED BY <1>1, <1>4, <1>5

LEMMA RunCaseKeeps ==
    ASSUME DyadsInv, NEW p \in Runners, RunCase(p)
    PROVE  DyadsInv'
<1> DEFINE to == [runner[p] EXCEPT !.slot = runner[p].slot + 1]
           d == runner[p].dyad
           place == [dyadDir[d] EXCEPT !.cases = dyadDir[d].cases \cup {Case(p)}]
<1>1. /\ runner[p].step = "case" /\ runner[p].slot <= Cases
      /\ UNCHANGED <<dyads, raced, watch, attempts, crossed, forgotten>>
      /\ \/ runner' = [runner EXCEPT ![p] = to] /\ dyadDir' = [dyadDir EXCEPT ![d] = place]
         \/ \E state \in {"invalid", "failed"} : Journals(p, state) /\ dyadDir' = dyadDir
  BY DEF RunCase, bounds, dyadHistories
<1>2. /\ runner[p] \in RunnerType /\ RunnerFits(p) /\ dyadDir \in [DyadIds -> DirType]
      /\ d \in DyadIds /\ ~Entering(p) /\ runner \in [Runners -> RunnerType]
  BY <1>1, FactsOf DEF RunnerFits, Entering, Writing, DyadsInv, DyadsTypes
<1>3. dyadDir[d] \in DirType
  BY <1>2
<1>4. CASE runner' = [runner EXCEPT ![p] = to] /\ dyadDir' = [dyadDir EXCEPT ![d] = place]
  <2>1. /\ to \in RunnerType /\ to.step = "case" /\ to.dyad = d /\ to.slot = runner[p].slot + 1
        /\ to.id = runner[p].id /\ runner[p].slot \in Nat /\ runner[p].id \in Nat
    <3>1. runner[p].slot \in Nat /\ runner[p].id \in Nat /\ runner[p].slot + 1 \in Nat
      BY <1>2 DEF RunnerType
    <3>2. to \in RunnerType /\ to.step = runner[p].step /\ to.dyad = d /\ to.slot = runner[p].slot + 1 /\ to.id = runner[p].id
      BY <1>2, <3>1 DEF RunnerType
    <3> QED BY <1>1, <3>1, <3>2
  <2>2. Case(p) \in [slot : Nat, id : Nat] /\ Case(p) = [slot |-> runner[p].slot, id |-> runner[p].id]
    BY <2>1 DEF Case
  <2>3. place \in DirType /\ place.blocks = dyadDir[d].blocks /\ place.receipt = dyadDir[d].receipt
        /\ place.cases = dyadDir[d].cases \cup {Case(p)}
    BY <1>3, <2>2 DEF DirType
  <2>4. OwnDir(runner[p], dyadDir[d]) => OwnDir(to, place)
    <3>1. SUFFICES ASSUME OwnDir(runner[p], dyadDir[d]) PROVE OwnDir(to, place)
      OBVIOUS
    <3>2. /\ dyadDir[d].receipt = 0 /\ dyadDir[d].blocks \in {0, runner[p].id}
          /\ dyadDir[d].cases = {[slot |-> s, id |-> runner[p].id] : s \in 1..(runner[p].slot - 1)}
          /\ runner[p].slot \in 1..(Cases + 1)
      BY <1>1, <3>1 DEF OwnDir
    <3> DEFINE n == runner[p].slot
    <3> HIDE DEF to, place, d, n
    <3>3. n \in Nat /\ n >= 1 /\ n <= Cases /\ Cases \in Nat
      BY <1>1, <2>1, <3>2, DyadsAssumption DEF n
    <3>4. 1..n = (1..(n - 1)) \cup {n} /\ to.slot - 1 = n /\ to.slot \in 1..(Cases + 1)
      BY <2>1, <3>3 DEF n
    <3>5. place.cases = {[slot |-> s, id |-> to.id] : s \in 1..(to.slot - 1)}
      BY <2>1, <2>2, <2>3, <3>2, <3>4 DEF n
    <3> QED BY <2>1, <2>3, <3>2, <3>4, <3>5 DEF OwnDir
  <2> HIDE DEF to, place, d
  <2> QED BY <1>1, <1>2, <1>4, <2>1, <2>3, <2>4, OwnStepKeeps DEF d
<1>5. ASSUME NEW state \in {"invalid", "failed"}, Journals(p, state), dyadDir' = dyadDir PROVE DyadsInv'
  <2>1. PICK t \in RunnerType :
              /\ runner' = [runner EXCEPT ![p] = t] /\ t.step = "read" /\ t.next = "off"
              /\ t.entry = Entry(runner[p].dyad, state) /\ t.entry.state = state
              /\ t.dyad = runner[p].dyad /\ t.id = runner[p].id
    BY <1>1, <1>2, <1>5, JournalsIs
  <2>2. dyadDir' = [dyadDir EXCEPT ![d] = dyadDir[d]]
    BY <1>2, <1>5
  <2>3. OwnDir(runner[p], dyadDir[d]) => OwnDir(t, dyadDir[d])
    BY <2>1 DEF OwnDir
  <2> HIDE DEF d
  <2> QED BY <1>1, <1>2, <1>3, <2>1, <2>2, <2>3, OwnStepKeeps DEF d
<1> QED BY <1>1, <1>4, <1>5

LEMMA WriteReceiptKeeps ==
    ASSUME DyadsInv, NEW p \in Runners, WriteReceipt(p)
    PROVE  DyadsInv'
<1> DEFINE d == runner[p].dyad
           place == [dyadDir[d] EXCEPT !.receipt = runner[p].id]
<1>1. /\ runner[p].step = "case" /\ runner[p].slot > Cases
      /\ UNCHANGED <<dyads, raced, watch, attempts, crossed, forgotten>>
      /\ \/ dyadDir' = [dyadDir EXCEPT ![d] = place] /\ Journals(p, "valid")
         \/ dyadDir' = dyadDir /\ Journals(p, "failed")
  BY DEF WriteReceipt, bounds, dyadHistories
<1>2. /\ runner[p] \in RunnerType /\ RunnerFits(p) /\ dyadDir \in [DyadIds -> DirType]
      /\ d \in DyadIds /\ ~Entering(p) /\ runner \in [Runners -> RunnerType]
  BY <1>1, FactsOf DEF RunnerFits, Entering, Writing, DyadsInv, DyadsTypes
<1>3. dyadDir[d] \in DirType /\ runner[p].id \in Nat /\ runner[p].id > 0 /\ runner[p].slot \in Nat
  BY <1>1, <1>2 DEF RunnerFits, RunnerType
<1>4. CASE dyadDir' = [dyadDir EXCEPT ![d] = place] /\ Journals(p, "valid")
  <2>1. PICK t \in RunnerType :
              /\ runner' = [runner EXCEPT ![p] = t] /\ t.step = "read" /\ t.next = "off"
              /\ t.entry = Entry(runner[p].dyad, "valid") /\ t.entry.state = "valid"
              /\ t.dyad = runner[p].dyad /\ t.id = runner[p].id
    BY <1>1, <1>2, <1>4, JournalsIs
  <2>2. place \in DirType /\ place.receipt = runner[p].id /\ place.blocks = dyadDir[d].blocks /\ place.cases = dyadDir[d].cases
    BY <1>3 DEF DirType
  <2>3. OwnDir(runner[p], dyadDir[d]) => OwnDir(t, place)
    <3>1. SUFFICES ASSUME OwnDir(runner[p], dyadDir[d]) PROVE OwnDir(t, place)
      OBVIOUS
    <3>2. /\ dyadDir[d].receipt = 0 /\ dyadDir[d].blocks \in {0, runner[p].id}
          /\ dyadDir[d].cases = {[slot |-> s, id |-> runner[p].id] : s \in 1..(runner[p].slot - 1)}
          /\ runner[p].slot \in 1..(Cases + 1)
      BY <1>1, <3>1 DEF OwnDir
    <3>3. runner[p].slot - 1 = Cases
      BY <1>1, <1>3, <3>2, DyadsAssumption
    <3>4. WholeBy(t.id, place)
      BY <1>3, <2>1, <2>2, <3>2, <3>3 DEF WholeBy
    <3> QED BY <2>1, <3>4 DEF OwnDir
  <2> HIDE DEF place, d
  <2> QED BY <1>1, <1>2, <1>4, <2>1, <2>2, <2>3, OwnStepKeeps DEF d
<1>5. CASE Journals(p, "failed") /\ dyadDir' = dyadDir
  <2>1. PICK t \in RunnerType :
              /\ runner' = [runner EXCEPT ![p] = t] /\ t.step = "read" /\ t.next = "off"
              /\ t.entry = Entry(runner[p].dyad, "failed") /\ t.entry.state = "failed"
              /\ t.dyad = runner[p].dyad /\ t.id = runner[p].id
    BY <1>1, <1>2, <1>5, JournalsIs
  <2>2. dyadDir' = [dyadDir EXCEPT ![d] = dyadDir[d]]
    BY <1>2, <1>5
  <2>3. OwnDir(runner[p], dyadDir[d]) => OwnDir(t, dyadDir[d])
    BY <2>1 DEF OwnDir
  <2> HIDE DEF d
  <2> QED BY <1>1, <1>2, <1>3, <2>1, <2>2, <2>3, OwnStepKeeps DEF d
<1> QED BY <1>1, <1>4, <1>5

---------------------------------------------------------------------------

\* A runner that ends, whatever it was at.
LEMMA EndsKeeps ==
    ASSUME DyadsInv, NEW p \in Runners, Ends(p), UNCHANGED <<dyadDir, watch, attempts, crossed>>
    PROVE  DyadsInv'
<1>1. /\ runner' = [runner EXCEPT ![p] = Off]
      /\ UNCHANGED <<dyads, forgotten, raced>> \/ CutShort(p)
  BY DEF Ends
<1>2. RunnerFits(p) /\ raced \in BOOLEAN
  BY FactsOf
<1>3. Quiet
  BY <1>1, <1>2, QuietStep
<1>4. /\ runner' \in [Runners -> RunnerType] /\ runner'[p] = Off
      /\ \A q \in Runners : q # p => runner'[q] = runner[q]
  BY <1>1, OffIs, RunnerTo DEF DyadsInv
<1>5. RunnerFits(p)' /\ GateFits(p)' /\ AttemptIsJournaled(p)' /\ DirIsOwn(p)'
  BY <1>2, <1>4, OffFits
<1> QED BY <1>3, <1>4, <1>5, OffIs, QuietMove DEF DyadsInv, DyadsTypes

LEMMA CrashKeeps ==
    ASSUME DyadsInv, NEW p \in Runners, Crash(p)
    PROVE  DyadsInv'
BY EndsKeeps DEF Crash

LEMMA TerminateKeeps ==
    ASSUME DyadsInv, NEW p \in Runners, Terminate(p)
    PROVE  DyadsInv'
BY EndsKeeps DEF Terminate, bounds

\* Only the watchdog moves.
LEMMA WatchMoves ==
    ASSUME DyadsInv, NEW p \in Runners, NEW to \in WatchType, watch' = [watch EXCEPT ![p] = to],
           UNCHANGED <<dyads, runner, dyadDir, attempts, crossed, forgotten, raced>>,
           \/ to = Unwatched
           \/ to.dyad = watch[p].dyad /\ to.step # "none" /\ watch[p].step # "none"
    PROVE  DyadsInv'
<1>1. /\ RunnerFits(p) /\ watch[p] \in WatchType /\ raced \in BOOLEAN
      /\ ~raced => GateFits(p) /\ AttemptIsJournaled(p) /\ DirIsOwn(p)
  BY FactsOf
<1>2. /\ watch' \in [Runners -> WatchType] /\ watch'[p] = to
      /\ \A q \in Runners : q # p => watch'[q] = watch[q]
  BY WatchTo DEF DyadsInv
<1>3. Quiet
  BY <1>1, QuietStep
<1>4. RunnerFits(p)'
  BY <1>1, <1>2, UnwatchedIs DEF RunnerFits, Entering, Leaving, Writing
<1>5. ~raced' => GateFits(p)' /\ AttemptIsJournaled(p)' /\ DirIsOwn(p)'
  <2> SUFFICES ASSUME ~raced' PROVE GateFits(p)' /\ AttemptIsJournaled(p)' /\ DirIsOwn(p)'
    OBVIOUS
  <2>1. GateFits(p)'
    BY <1>1 DEF GateFits, Entering, Writing, UsedIn, StatesIn
  <2>2. AttemptIsJournaled(p)'
    BY <1>1 DEF AttemptIsJournaled, Entering, Writing, StatesOf
  <2>3. DirIsOwn(p)'
    BY <1>1 DEF DirIsOwn, OwnDir, WholeBy
  <2> QED BY <2>1, <2>2, <2>3
<1>6. to.dyad \in {watch[p].dyad, "none"}
  BY UnwatchedIs
<1> QED BY <1>1, <1>2, <1>3, <1>4, <1>5, <1>6, QuietMove DEF DyadsInv, DyadsTypes

LEMMA BreachKeeps ==
    ASSUME DyadsInv, NEW p \in Runners, Breach(p)
    PROVE  DyadsInv'
<1> DEFINE to == [watch[p] EXCEPT !.step = "breach"]
<1>1. /\ watch[p].step = "sampling" /\ watch' = [watch EXCEPT ![p] = to]
      /\ UNCHANGED <<dyads, runner, dyadDir, attempts, crossed, forgotten, raced>>
  BY DEF Breach, dyadHistories
<1>2. to \in WatchType /\ to.step = "breach" /\ to.dyad = watch[p].dyad
  BY FactsOf DEF WatchType
<1> HIDE DEF to
<1> QED BY <1>1, <1>2, WatchMoves

LEMMA ChildEndsKeeps ==
    ASSUME DyadsInv, NEW p \in Runners, ChildEnds(p)
    PROVE  DyadsInv'
<1> DEFINE to == [watch[p] EXCEPT !.step = "write", !.seen = dyads]
<1>1. /\ watch[p].step = "breach" /\ watch' = [watch EXCEPT ![p] = to]
      /\ UNCHANGED <<dyads, runner, dyadDir, attempts, crossed, forgotten, raced>>
  BY DEF ChildEnds, bounds, dyadHistories
<1>2. to \in WatchType /\ to.step = "write" /\ to.dyad = watch[p].dyad
  BY FactsOf DEF WatchType
<1> HIDE DEF to
<1> QED BY <1>1, <1>2, WatchMoves

LEMMA StopWatchingKeeps ==
    ASSUME DyadsInv, NEW p \in Runners, StopWatching(p)
    PROVE  DyadsInv'
<1>1. /\ watch' = [watch EXCEPT ![p] = Unwatched]
      /\ UNCHANGED <<dyads, runner, dyadDir, attempts, crossed, forgotten, raced>>
  BY DEF StopWatching, bounds, dyadHistories
<1> QED BY <1>1, UnwatchedIs, WatchMoves

LEMMA DyadsStays ==
    ASSUME DyadsInv, UNCHANGED <<dyads, runner, dyadDir, watch, attempts, crossed, forgotten, raced>>
    PROVE  DyadsInv'
<1>1. DyadsTypes' /\ RunnersFit' /\ OneAt'
  BY DEF DyadsInv, DyadsTypes, RunnersFit, RunnerFits, Entering, Leaving, Writing, OneAt, At
<1>2. VerdictIsFinal' /\ BudgetKept'
  BY DEF DyadsInv, VerdictIsFinal, BudgetKept, StatesOf
<1>3. ASSUME ~raced, NEW p \in Runners PROVE GateFits(p)' /\ AttemptIsJournaled(p)' /\ DirIsOwn(p)'
  <2>1. GateFits(p) /\ AttemptIsJournaled(p) /\ DirIsOwn(p)
    BY <1>3 DEF DyadsInv, Unraced
  <2> QED BY <2>1 DEF GateFits, Entering, Writing, UsedIn, StatesIn, AttemptIsJournaled, StatesOf,
                      DirIsOwn, OwnDir, WholeBy
<1>4. ASSUME ~raced, NEW d \in DyadIds PROVE DyadFits(d)'
  BY <1>4 DEF DyadsInv, Unraced, DyadFits, StatesOf, WholeBy
<1> QED BY <1>1, <1>2, <1>3, <1>4 DEF DyadsInv, Unraced

---------------------------------------------------------------------------

\* What a line at the end of the journal says of the dyads.
LEMMA LineSays ==
    ASSUME dyads \in Seq(JournalEntries), NEW d \in DyadIds, NEW state \in Verdicts \cup Attempted,
           dyads' = Append(dyads, Entry(d, state))
    PROVE  /\ StatesOf(d)' = StatesOf(d) \cup {state}
           /\ \A b : b # d => StatesOf(b)' = StatesOf(b)
<1>1. Entry(d, state) \in JournalEntries /\ Entry(d, state).dyad = d /\ Entry(d, state).state = state
  BY EntryIs
<1>2. StatesIn(dyads', d) = StatesIn(dyads, d) \cup {state}
  BY <1>1, StatesInAppend
<1>3. ASSUME NEW b, b # d PROVE StatesIn(dyads', b) = StatesIn(dyads, b)
  BY <1>1, <1>3, StatesInAppend
<1> QED BY <1>2, <1>3 DEF StatesOf, StatesIn

\* The last line of an attempt, by its runner or by the watchdog.
LEMMA LastWordKeeps ==
    ASSUME DyadsInv, NEW p \in Runners, NEW d \in DyadIds, At(p, d), runner[p].dyad \in {d, "none"},
           NEW state \in Verdicts \cup {"failed"}, NEW seen \in Seq(JournalEntries),
           dyads' = Written(seen, Entry(d, state)), raced' = (raced \/ seen # dyads),
           \/ runner' = [runner EXCEPT ![p] = Off] /\ watch' = watch
           \/ runner' = runner /\ watch' = [watch EXCEPT ![p] = Unwatched] /\ state = "aborted",
           UNCHANGED <<dyadDir, attempts, crossed, forgotten>>,
           state = "valid" /\ ~raced /\ d \notin crossed \cup forgotten =>
                WholeBy(dyadDir[d].receipt, dyadDir[d])
    PROVE  DyadsInv'
<1>1. /\ watch[p] \in WatchType /\ RunnerFits(p) /\ raced \in BOOLEAN /\ dyads \in Seq(JournalEntries)
  BY FactsOf
<1>2. Entry(d, state) \in JournalEntries /\ Entry(d, state).state = state /\ Entry(d, state).dyad = d
  BY EntryIs DEF Attempted
<1>3. /\ dyads' \in Seq(JournalEntries) /\ raced' \in BOOLEAN
      /\ ~raced' => ~raced /\ (dyads' = dyads \/ dyads' = Append(dyads, Entry(d, state)))
  BY <1>1, <1>2, WrittenIs
<1>4. /\ runner' \in [Runners -> RunnerType] /\ runner'[p] \in {runner[p], Off}
      /\ \A q \in Runners : q # p => runner'[q] = runner[q]
      /\ state # "aborted" => runner'[p] = Off
  <2>1. CASE runner' = runner /\ state = "aborted"
    BY <2>1 DEF DyadsInv, DyadsTypes
  <2>2. CASE runner' = [runner EXCEPT ![p] = Off]
    BY <2>2, OffIs, RunnerTo DEF DyadsInv
  <2> QED BY <2>1, <2>2
<1>5. /\ watch' \in [Runners -> WatchType] /\ watch'[p] \in {watch[p], Unwatched}
      /\ \A q \in Runners : q # p => watch'[q] = watch[q]
  <2>1. CASE watch' = watch
    BY <2>1 DEF DyadsInv, DyadsTypes
  <2>2. CASE watch' = [watch EXCEPT ![p] = Unwatched]
    BY <2>2, UnwatchedIs, WatchTo DEF DyadsInv
  <2> QED BY <2>1, <2>2
<1>6. DyadsTypes'
  BY <1>3, <1>4, <1>5 DEF DyadsInv, DyadsTypes
<1>7. ASSUME ~raced'
      PROVE  /\ ~raced
             /\ StatesOf(d)' = StatesOf(d) \/ StatesOf(d)' = StatesOf(d) \cup {state}
             /\ \A b : b # d => StatesOf(b)' = StatesOf(b)
             /\ VerdictIsFinal'
  <2>1. CASE dyads' = dyads
    BY <1>3, <1>7, <2>1 DEF StatesOf, DyadsInv, VerdictIsFinal
  <2>2. CASE dyads' = Append(dyads, Entry(d, state))
    <3>1. ~raced
      BY <1>3, <1>7
    <3>2. state \in Verdicts \cup Attempted
      BY DEF Attempted
    <3>3. state \notin {"attempted", "resumed"}
      BY DEF Verdicts
    <3>4. VerdictIsFinal'
      BY <1>1, <1>2, <2>2, <3>1, <3>3, FinalStays DEF DyadsInv
    <3> QED BY <1>1, <2>2, <3>1, <3>2, <3>4, LineSays
  <2> QED BY <1>3, <1>7, <2>1, <2>2
<1>8. VerdictIsFinal'
  BY <1>7 DEF VerdictIsFinal
<1>9. BudgetKept'
  <2>1. SUFFICES ASSUME ~raced' PROVE Cardinality({b \in Budgeted : "attempted" \in StatesOf(b)'}) <= Budget
    BY DEF BudgetKept
  <2>2. state # "attempted"
    BY DEF Verdicts
  <2>3. \A b \in Budgeted : "attempted" \in StatesOf(b)' <=> "attempted" \in StatesOf(b)
    BY <1>7, <2>1, <2>2
  <2>4. {b \in Budgeted : "attempted" \in StatesOf(b)'} = {b \in Budgeted : "attempted" \in StatesOf(b)}
    BY <2>3
  <2> QED BY <1>7, <2>1, <2>4 DEF DyadsInv, BudgetKept
<1>10. OneAt'
  <2>1. \A q \in Runners : /\ watch'[q].dyad \in {watch[q].dyad, "none"}
                          /\ runner'[q].dyad \in {runner[q].dyad, "none"}
    BY <1>4, <1>5, OffIs, UnwatchedIs
  <2> QED BY <2>1, DyadsAssumption DEF DyadsInv, OneAt, At
<1>11. RunnerFits(p)' /\ (~raced' => GateFits(p)' /\ AttemptIsJournaled(p)' /\ DirIsOwn(p)')
  <2>1. CASE runner'[p] = Off
    BY <1>1, <1>5, <2>1, OffFits
  <2>2. CASE runner'[p] = runner[p]
    <3>1. RunnerFits(p)'
      BY <1>1, <1>5, <2>2, UnwatchedIs DEF RunnerFits, Entering, Leaving, Writing
    <3>2. ASSUME ~raced' PROVE GateFits(p)' /\ AttemptIsJournaled(p)' /\ DirIsOwn(p)'
      <4>1. GateFits(p) /\ AttemptIsJournaled(p) /\ DirIsOwn(p)
        BY <1>7, <3>2 DEF DyadsInv, Unraced
      <4>2. GateFits(p)'
        BY <2>2, <4>1 DEF GateFits, Entering, Writing, UsedIn, StatesIn
      <4>3. AttemptIsJournaled(p)'
        <5>1. \A b : StatesOf(b) \subseteq StatesOf(b)'
          BY <1>7, <3>2
        <5>2. SUFFICES ASSUME runner[p].step # "off", ~Entering(p), runner[p].dyad \notin forgotten
                       PROVE  StatesOf(runner[p].dyad)' \cap Attempted # {}
          BY <2>2 DEF AttemptIsJournaled, Entering, Writing, StatesOf
        <5> QED BY <2>2, <4>1, <5>1, <5>2 DEF AttemptIsJournaled
      <4>4. DirIsOwn(p)'
        BY <2>2, <4>1 DEF DirIsOwn, OwnDir, WholeBy
      <4> QED BY <4>2, <4>3, <4>4
    <3> QED BY <3>1, <3>2
  <2> QED BY <1>4, <2>1, <2>2
<1>12. ASSUME NEW q \in Runners
       PROVE  RunnerFits(q)' /\ (~raced' => GateFits(q)' /\ AttemptIsJournaled(q)' /\ DirIsOwn(q)')
  <2>1. CASE q = p
    BY <1>11, <2>1
  <2>2. CASE q # p
    <3>1. ~raced' => ~raced /\ \A b \in DyadIds \ forgotten' : StatesOf(b) \subseteq StatesOf(b)'
      BY <1>7
    <3> QED BY <1>4, <1>5, <2>2, <3>1, OtherRunnersStay
  <2> QED BY <2>1, <2>2
<1>13. ASSUME ~raced', NEW b \in DyadIds PROVE DyadFits(b)'
  <2>1. ~raced /\ DyadFits(b)
    BY <1>7, <1>13 DEF DyadsInv, Unraced
  <2>2. \A q \in Runners : runner'[q].dyad = b => runner[q].dyad = b /\ (q # p \/ state = "aborted")
    BY <1>4, OffIs, DyadsAssumption
  <2>3. d \notin crossed => \A q \in Runners : runner[q].dyad = d => q = p
    BY DEF DyadsInv, OneAt, At
  <2>4. StatesOf(b) \subseteq StatesOf(b)' /\ (b # d => StatesOf(b)' = StatesOf(b))
        /\ StatesOf(b)' \subseteq StatesOf(b) \cup {state}
    BY <1>7, <1>13
  <2>5. b \notin forgotten /\ StatesOf(b)' \cap Attempted = {} => dyadDir'[b] = NoDyad
    BY <2>1, <2>4 DEF DyadFits
  <2>6. b \notin crossed \cup forgotten /\ StatesOf(b)' \cap {"valid", "invalid"} # {} =>
            \A q \in Runners : runner'[q].dyad # b
    <3>1. CASE StatesOf(b) \cap {"valid", "invalid"} # {}
      BY <2>1, <2>2, <3>1 DEF DyadFits
    <3>2. CASE StatesOf(b) \cap {"valid", "invalid"} = {} /\ StatesOf(b)' \cap {"valid", "invalid"} # {}
      <4>1. b = d /\ state \in {"valid", "invalid"}
        BY <2>4, <3>2
      <4> QED BY <2>2, <2>3, <4>1
    <3> QED BY <3>1, <3>2
  <2>7. b \notin crossed \cup forgotten /\ "valid" \in StatesOf(b)' =>
            WholeBy(dyadDir'[b].receipt, dyadDir'[b])
    <3>1. SUFFICES ASSUME b \notin crossed \cup forgotten, "valid" \in StatesOf(b)'
                   PROVE  WholeBy(dyadDir[b].receipt, dyadDir[b])
      OBVIOUS
    <3>2. CASE "valid" \in StatesOf(b)
      BY <2>1, <3>1, <3>2 DEF DyadFits
    <3>3. CASE "valid" \notin StatesOf(b)
      BY <2>1, <2>4, <3>1, <3>3
    <3> QED BY <3>2, <3>3
  <2> QED BY <2>5, <2>6, <2>7 DEF DyadFits, WholeBy
<1> QED BY <1>6, <1>8, <1>9, <1>10, <1>12, <1>13 DEF DyadsInv, RunnersFit, Unraced

LEMMA JournalAbortKeeps ==
    ASSUME DyadsInv, NEW p \in Runners, JournalAbort(p)
    PROVE  DyadsInv'
<1>1. /\ watch[p].step = "write" /\ watch' = [watch EXCEPT ![p] = Unwatched]
      /\ UNCHANGED <<runner, dyadDir, attempts, crossed, forgotten>>
      /\ \/ /\ dyads' = Written(watch[p].seen, Entry(watch[p].dyad, "aborted"))
            /\ raced' = (raced \/ watch[p].seen # dyads)
         \/ UNCHANGED <<dyads, raced>>
  BY DEF JournalAbort, bounds
<1>2. watch[p] \in WatchType /\ RunnerFits(p)
  BY FactsOf
<1>3. CASE UNCHANGED <<dyads, raced>>
  BY <1>1, <1>3, UnwatchedIs, WatchMoves
<1>4. CASE /\ dyads' = Written(watch[p].seen, Entry(watch[p].dyad, "aborted"))
           /\ raced' = (raced \/ watch[p].seen # dyads)
  <2>1. watch[p].dyad \in DyadIds /\ watch[p].seen \in Seq(JournalEntries) /\ At(p, watch[p].dyad)
    BY <1>1, <1>2 DEF RunnerFits, WatchType, At
  <2>2. runner[p].dyad \in {watch[p].dyad, "none"}
    BY <1>2, <2>1, OffIs, DyadsAssumption DEF RunnerFits
  <2>3. "aborted" \in Verdicts \cup {"failed"} /\ "aborted" # "valid"
    BY DEF Verdicts
  <2> QED BY <1>1, <1>4, <2>1, <2>2, <2>3, LastWordKeeps
<1> QED BY <1>1, <1>3, <1>4

---------------------------------------------------------------------------

LEMMA LeavingKeeps ==
    ASSUME DyadsInv, NEW p \in Runners, WriteJournal(p), runner[p].next = "off"
    PROVE  DyadsInv'
<1>1. /\ runner[p].step = "write" /\ dyads' = Written(runner[p].seen, runner[p].entry)
      /\ raced' = (raced \/ runner[p].seen # dyads) /\ runner' = [runner EXCEPT ![p] = Off]
      /\ UNCHANGED <<dyadDir, watch, attempts, crossed, forgotten>>
  BY DEF WriteJournal, bounds
<1>2. /\ runner[p] \in RunnerType /\ RunnerFits(p)
      /\ ~raced => DirIsOwn(p)
  BY FactsOf
<1>3. runner[p].dyad \in DyadIds /\ At(p, runner[p].dyad) /\ runner[p].seen \in Seq(JournalEntries)
  BY <1>1, <1>2 DEF RunnerFits, RunnerType, At
<1>4. PICK state \in {"valid", "invalid", "failed"} : runner[p].entry = Entry(runner[p].dyad, state)
  BY <1>1, <1>2 DEF RunnerFits, Leaving, Writing
<1>5. state \in Verdicts \cup {"failed"} /\ runner[p].entry.state = state
  BY <1>4, <1>3, EntryIs DEF Verdicts, Attempted
<1>6. state = "valid" /\ ~raced /\ runner[p].dyad \notin crossed \cup forgotten =>
            WholeBy(dyadDir[runner[p].dyad].receipt, dyadDir[runner[p].dyad])
  BY <1>1, <1>2, <1>5 DEF DirIsOwn, OwnDir, WholeBy
<1> QED BY <1>1, <1>3, <1>4, <1>5, <1>6, LastWordKeeps

\* An attempt enters the journal that its gate saw: there is budget for it.
LEMMA BudgetStays ==
    ASSUME dyads \in Seq(JournalEntries), BudgetKept, ~raced, NEW d \in DyadIds, NEW state \in {"attempted", "resumed"},
           dyads' = Append(dyads, Entry(d, state)),
           d \in Budgeted /\ state = "attempted" => Cardinality(UsedIn(dyads)) < Budget
    PROVE  BudgetKept'
<1> DEFINE A == {b \in Budgeted : "attempted" \in StatesOf(b)}
           AA == {b \in Budgeted : "attempted" \in StatesOf(b)'}
           U == UsedIn(dyads)
<1>1. state \in Verdicts \cup Attempted
  BY DEF Attempted
<1>2. /\ StatesOf(d)' = StatesOf(d) \cup {state}
      /\ \A b : b # d => StatesOf(b)' = StatesOf(b)
  BY <1>1, LineSays
<1>3. IsFiniteSet(A) /\ IsFiniteSet(U) /\ A \subseteq U
  <2>1. A \subseteq Budgeted /\ U \subseteq Budgeted
    BY DEF UsedIn
  <2>2. A \subseteq U
    BY StatesOfIs DEF UsedIn, Attempted
  <2> QED BY <2>1, <2>2, DyadsAssumption, FS_Subset
<1>4. CASE state = "attempted" /\ d \in Budgeted
  <2>1. AA = A \cup {d}
    BY <1>2, <1>4
  <2> HIDE DEF A, AA, U
  <2>2. Cardinality(A) <= Cardinality(U) /\ Cardinality(A) \in Nat /\ Cardinality(U) \in Nat
    BY <1>3, FS_Subset, FS_CardinalityType
  <2>3. Cardinality(AA) = (IF d \in A THEN Cardinality(A) ELSE Cardinality(A) + 1)
    BY <1>3, <2>1, FS_AddElement
  <2>4. Cardinality(U) < Budget /\ Budget \in Nat
    BY <1>4, DyadsAssumption DEF U
  <2>5. Cardinality(AA) <= Budget
    BY <2>2, <2>3, <2>4
  <2> QED BY <2>5 DEF AA, BudgetKept
<1>5. CASE ~(state = "attempted" /\ d \in Budgeted)
  <2>1. \A b \in Budgeted : "attempted" \in StatesOf(b)' <=> "attempted" \in StatesOf(b)
    BY <1>2, <1>5
  <2>2. AA = A
    BY <2>1
  <2> QED BY <2>2 DEF BudgetKept
<1> QED BY <1>4, <1>5

LEMMA EnteringKeeps ==
    ASSUME DyadsInv, NEW p \in Runners, WriteJournal(p), runner[p].next = "prepare"
    PROVE  DyadsInv'
<1> DEFINE to == [runner[p] EXCEPT !.step = "prepare", !.seen = <<>>]
<1>d. PICK d : d = runner[p].dyad
  OBVIOUS
<1>s. PICK state : state = IF runner[p].resume THEN "resumed" ELSE "attempted"
  OBVIOUS
<1>1. /\ runner[p].step = "write" /\ dyads' = Written(runner[p].seen, runner[p].entry)
      /\ raced' = (raced \/ runner[p].seen # dyads) /\ runner' = [runner EXCEPT ![p] = to]
      /\ UNCHANGED <<dyadDir, watch, attempts, crossed, forgotten>>
  BY DEF WriteJournal, bounds
<1>2. /\ runner[p] \in RunnerType /\ watch[p] \in WatchType /\ RunnerFits(p)
      /\ raced \in BOOLEAN /\ dyads \in Seq(JournalEntries)
      /\ ~raced => GateFits(p) /\ AttemptIsJournaled(p) /\ DirIsOwn(p)
  BY FactsOf
<1>3. Entering(p)
  BY <1>1 DEF Entering, Writing
<1>4. d \in DyadIds /\ runner[p].seen \in Seq(JournalEntries) /\ runner[p].entry = Entry(d, state)
  BY <1>d, <1>s, <1>1, <1>2, <1>3 DEF RunnerFits, RunnerType
<1>5. state \in {"attempted", "resumed"} /\ state \in Attempted /\ state \notin Verdicts
  BY <1>s DEF Attempted, Verdicts
<1>6. Entry(d, state) \in JournalEntries /\ Entry(d, state).state = state /\ Entry(d, state).dyad = d
  BY <1>4, <1>5, EntryIs
<1>7. /\ to \in RunnerType /\ to.step = "prepare" /\ to.seen = <<>> /\ to.dyad = d /\ to.id = runner[p].id
      /\ to.resume = runner[p].resume /\ to.slot = runner[p].slot
  <2>1. <<>> \in Seq(JournalEntries)
    OBVIOUS
  <2> QED BY <1>d, <1>2, <2>1 DEF RunnerType
<1> HIDE DEF to
<1>8. /\ runner' \in [Runners -> RunnerType] /\ runner'[p] = to
      /\ \A q \in Runners : q # p => runner'[q] = runner[q]
  BY <1>1, <1>7, RunnerTo DEF DyadsInv
<1>9. dyads' \in Seq(JournalEntries) /\ raced' \in BOOLEAN
  BY <1>1, <1>2, <1>4, <1>6, WrittenIs
<1>10. ASSUME ~raced'
       PROVE  /\ ~raced /\ GateFits(p) /\ DirIsOwn(p) /\ runner[p].seen = dyads
              /\ dyads' = Append(dyads, Entry(d, state))
              /\ StatesOf(d) \cap Verdicts = {}
              /\ StatesOf(d)' = StatesOf(d) \cup {state}
              /\ \A b : b # d => StatesOf(b)' = StatesOf(b)
  <2>1. ~raced /\ runner[p].seen = dyads
    BY <1>1, <1>10
  <2>2. GateFits(p) /\ DirIsOwn(p)
    BY <1>2, <2>1
  <2>3. TornEntry \notin Range(dyads) /\ StatesIn(dyads, d) \cap Verdicts = {}
    BY <1>d, <1>3, <2>1, <2>2 DEF GateFits
  <2>4. dyads' = Append(dyads, Entry(d, state))
    <3>1. dyads' = Written(dyads, Entry(d, state))
      BY <1>1, <1>4, <2>1
    <3> QED BY <1>2, <1>6, <2>3, <3>1, WrittenIs
  <2>5. StatesOf(d) \cap Verdicts = {}
    BY <2>3, StatesOfIs
  <2>6. state \in Verdicts \cup Attempted
    BY <1>5
  <2> QED BY <1>2, <1>4, <2>1, <2>2, <2>4, <2>5, <2>6, LineSays
<1>11. DyadsTypes'
  BY <1>1, <1>8, <1>9 DEF DyadsInv, DyadsTypes
<1>12. RunnerFits(p)'
  BY <1>d, <1>1, <1>2, <1>7, <1>8 DEF RunnerFits, Entering, Leaving, Writing
<1>13. ASSUME ~raced' PROVE GateFits(p)' /\ AttemptIsJournaled(p)' /\ DirIsOwn(p)'
  <2>1. GateFits(p)'
    BY <1>7, <1>8 DEF GateFits, Entering, Writing
  <2>2. AttemptIsJournaled(p)'
    <3>1. runner'[p].dyad = d
      BY <1>7, <1>8
    <3>2. state \in StatesOf(d)' \cap Attempted
      BY <1>5, <1>10, <1>13
    <3>3. StatesOf(runner[p].dyad)' = StatesOf(d)'
      BY <3>1 DEF StatesOf
    <3> QED BY <3>2, <3>3 DEF AttemptIsJournaled
  <2>3. DirIsOwn(p)'
    <3>1. DirIsOwn(p)
      BY <1>10, <1>13
    <3>2. runner[p].dyad \notin crossed \cup forgotten => OwnDir(to, dyadDir[d])
      BY <1>d, <1>1, <1>3, <1>7, <3>1 DEF DirIsOwn, OwnDir, Entering
    <3> QED BY <1>d, <1>1, <1>7, <1>8, <3>2 DEF DirIsOwn, OwnDir, WholeBy
  <2> QED BY <2>1, <2>2, <2>3
<1>14. ASSUME NEW q \in Runners
       PROVE  RunnerFits(q)' /\ (~raced' => GateFits(q)' /\ AttemptIsJournaled(q)' /\ DirIsOwn(q)')
  <2>1. CASE q = p
    BY <1>12, <1>13, <2>1
  <2>2. CASE q # p
    <3>1. ~raced' => ~raced /\ \A b \in DyadIds \ forgotten' : StatesOf(b) \subseteq StatesOf(b)'
      BY <1>10
    <3> QED BY <1>1, <1>8, <2>2, <3>1, OtherRunnersStay
  <2> QED BY <2>1, <2>2
<1>15. OneAt'
  <2>1. \A q \in Runners : runner'[q].dyad = runner[q].dyad
    BY <1>d, <1>7, <1>8
  <2> QED BY <1>1, <2>1 DEF DyadsInv, OneAt, At
<1>16. ASSUME ~raced', NEW b \in DyadIds PROVE DyadFits(b)'
  <2>1. DyadFits(b) /\ \A q \in Runners : runner'[q].dyad = runner[q].dyad
    BY <1>d, <1>7, <1>8, <1>10, <1>16 DEF DyadsInv, Unraced
  <2>2. CASE b = d
    <3>1. StatesOf(b)' \cap Attempted # {} /\ StatesOf(b)' \cap {"valid", "invalid"} = {}
      BY <1>5, <1>10, <1>16, <2>2 DEF Verdicts
    <3> QED BY <3>1 DEF DyadFits
  <2>3. CASE b # d
    <3>1. StatesOf(b)' = StatesOf(b)
      BY <1>10, <1>16, <2>3
    <3> QED BY <1>1, <2>1, <3>1 DEF DyadFits, WholeBy
  <2> QED BY <2>2, <2>3
<1>17. VerdictIsFinal'
  <2>1. SUFFICES ASSUME ~raced' PROVE VerdictIsFinal'
    BY DEF VerdictIsFinal
  <2>2. /\ ~raced /\ dyads' = Append(dyads, Entry(d, state)) /\ StatesOf(Entry(d, state).dyad) \cap Verdicts = {}
    BY <1>6, <1>10, <2>1
  <2> QED BY <1>1, <1>2, <1>6, <2>2, FinalStays DEF DyadsInv
<1>18. BudgetKept'
  <2>1. SUFFICES ASSUME ~raced' PROVE BudgetKept'
    BY DEF BudgetKept
  <2>2. d \in Budgeted /\ state = "attempted" => Cardinality(UsedIn(dyads)) < Budget
    BY <1>d, <1>s, <1>3, <1>10, <2>1 DEF GateFits
  <2> QED BY <1>2, <1>4, <1>5, <1>10, <2>1, <2>2, BudgetStays DEF DyadsInv
<1> QED BY <1>11, <1>14, <1>15, <1>16, <1>17, <1>18 DEF DyadsInv, RunnersFit, Unraced

---------------------------------------------------------------------------

LEMMA GateKeeps ==
    ASSUME DyadsInv, NEW p \in Runners, NEW d \in DyadIds, Gate(p, d)
    PROVE  DyadsInv'
<1> DEFINE to(protocol, resume) ==
              [Off EXCEPT !.step = "read", !.dyad = d, !.id = attempts + 1, !.protocol = protocol,
                          !.resume = resume, !.seen = dyads, !.slot = 1,
                          !.entry = Entry(d, IF resume THEN "resumed" ELSE "attempted"), !.next = "prepare"]
           wto == [watch[p] EXCEPT !.step = "sampling", !.dyad = d]
<1>1. /\ runner[p].step = "off" /\ watch[p] = Unwatched
      /\ attempts' = attempts + 1
      /\ crossed' = IF \E q \in Runners \ {p} : At(q, d) THEN crossed \cup {d} ELSE crossed
      /\ watch' = [watch EXCEPT ![p] = wto]
      /\ UNCHANGED <<dyads, dyadDir, forgotten, raced>>
  BY DEF Gate
<1>2. PICK protocol \in 1..2, resume \in BOOLEAN :
         /\ CanRead /\ PriorsAllow(d, resume)
         /\ IF d \in Budgeted THEN resume \/ DevAttemptsUsed < Budget ELSE d \in admitted
         /\ runner' = [runner EXCEPT ![p] = to(protocol, resume)]
  BY ZenonT(60) DEF Gate
<1>3. /\ watch[p] \in WatchType /\ raced \in BOOLEAN /\ dyads \in Seq(JournalEntries) /\ attempts \in Nat
  BY FactsOf
<1>4. PICK t \in RunnerType :
         /\ t = to(protocol, resume) /\ t.step = "read" /\ t.dyad = d /\ t.id = attempts + 1 /\ t.resume = resume
         /\ t.seen = dyads /\ t.slot = 1 /\ t.next = "prepare"
         /\ t.entry = Entry(d, IF resume THEN "resumed" ELSE "attempted")
  <2>1. Entry(d, IF resume THEN "resumed" ELSE "attempted") \in JournalEntries
    BY EntryIs DEF Attempted
  <2>2. /\ Off \in RunnerType /\ attempts + 1 \in Nat /\ protocol \in 0..2 /\ d \in DyadIds \cup {"none"}
    BY <1>3, OffIs
  <2>3. to(protocol, resume) \in RunnerType
    BY <1>3, <2>1, <2>2 DEF RunnerType
  <2>4. /\ to(protocol, resume).step = "read" /\ to(protocol, resume).dyad = d
        /\ to(protocol, resume).id = attempts + 1 /\ to(protocol, resume).resume = resume
        /\ to(protocol, resume).seen = dyads /\ to(protocol, resume).slot = 1
        /\ to(protocol, resume).next = "prepare"
        /\ to(protocol, resume).entry = Entry(d, IF resume THEN "resumed" ELSE "attempted")
    BY DEF Off
  <2> HIDE DEF to
  <2> QED BY <2>3, <2>4
<1>5. runner' = [runner EXCEPT ![p] = t]
  BY <1>2, <1>4
<1> HIDE DEF to
<1>6. /\ runner' \in [Runners -> RunnerType] /\ runner'[p] = t
      /\ \A q \in Runners : q # p => runner'[q] = runner[q]
  BY <1>5, RunnerTo DEF DyadsInv
<1>7. wto \in WatchType /\ wto.step = "sampling" /\ wto.dyad = d
  BY <1>3 DEF WatchType
<1> HIDE DEF wto
<1>8. /\ watch' \in [Runners -> WatchType] /\ watch'[p] = wto
      /\ \A q \in Runners : q # p => watch'[q] = watch[q]
  BY <1>1, <1>7, WatchTo DEF DyadsInv
<1>9. DyadsTypes'
  BY <1>1, <1>3, <1>6, <1>8 DEF DyadsInv, DyadsTypes
<1>10. RunnerFits(p)'
  <2>1. t.id > 0
    BY <1>3, <1>4
  <2> QED BY <1>4, <1>6, <1>7, <1>8, <2>1 DEF RunnerFits, Entering, Leaving, Writing
<1>11. StatesOf(d) \cap Verdicts = {} /\ (resume <=> StatesOf(d) \cap Attempted # {})
  BY <1>2 DEF PriorsAllow
<1>12. GateFits(p)'
  <2>1. TornEntry \notin Range(dyads)
    BY <1>2 DEF CanRead
  <2>2. d \in Budgeted /\ ~resume => Cardinality(UsedIn(dyads)) < Budget
    <3>1. DevAttemptsUsed = Cardinality(UsedIn(dyads))
      BY DEF DevAttemptsUsed, UsedIn, StatesOf, StatesIn
    <3> QED BY <1>2, <3>1
  <2>3. StatesIn(dyads, d) \cap Verdicts = {} /\ (StatesIn(dyads, d) \cap Attempted # {} <=> resume)
    BY <1>11, StatesOfIs
  <2>4. /\ runner'[p].seen = dyads /\ runner'[p].dyad = d /\ runner'[p].resume = resume
    BY <1>4, <1>6
  <2> QED BY <2>1, <2>2, <2>3, <2>4 DEF GateFits, UsedIn, StatesIn
<1>13. AttemptIsJournaled(p)'
  BY <1>4, <1>6 DEF AttemptIsJournaled, Entering, Writing
<1>14. ASSUME ~raced' PROVE DirIsOwn(p)'
  <2>1. ~resume /\ d \notin forgotten => dyadDir[d] = NoDyad
    BY <1>1, <1>11, <1>14 DEF DyadsInv, Unraced, DyadFits
  <2>2. d \notin forgotten => OwnDir(t, dyadDir[d])
    BY <1>4, <2>1 DEF OwnDir
  <2>3. runner'[p] = t /\ t.dyad = d /\ dyadDir' = dyadDir /\ forgotten' = forgotten
    BY <1>1, <1>4, <1>6
  <2> QED BY <2>2, <2>3 DEF DirIsOwn, OwnDir, WholeBy
<1>15. ASSUME NEW q \in Runners
       PROVE  RunnerFits(q)' /\ (~raced' => GateFits(q)' /\ AttemptIsJournaled(q)' /\ DirIsOwn(q)')
  <2>1. CASE q = p
    BY <1>10, <1>12, <1>13, <1>14, <2>1
  <2>2. CASE q # p
    <3>1. ~raced' => ~raced /\ \A b \in DyadIds \ forgotten' : StatesOf(b) \subseteq StatesOf(b)'
      BY <1>1 DEF StatesOf
    <3>2. crossed \subseteq crossed' /\ forgotten \subseteq forgotten' /\ \A b \in DyadIds : b # runner[p].dyad => dyadDir'[b] = dyadDir[b]
      BY <1>1
    <3> QED BY <1>6, <1>8, <2>2, <3>1, <3>2, OtherRunnersStay
  <2> QED BY <2>1, <2>2
<1>16. OneAt'
  <2>1. SUFFICES ASSUME NEW q \in Runners, NEW r \in Runners, NEW b \in DyadIds \ crossed',
                        At(q, b)', At(r, b)'
                 PROVE  q = r
    BY DEF OneAt
  <2>2. crossed \subseteq crossed' /\ (d \notin crossed' => \A o \in Runners : o # p => ~At(o, d))
    BY <1>1
  <2>3. \A o \in Runners : /\ o # p => (At(o, b)' <=> At(o, b))
                           /\ o = p => (At(o, b)' <=> b = d)
    BY <1>4, <1>6, <1>7, <1>8 DEF At
  <2>4. CASE q # p /\ r # p
    BY <2>1, <2>2, <2>3, <2>4 DEF DyadsInv, OneAt
  <2>5. CASE q = p \/ r = p
    BY <2>1, <2>2, <2>3, <2>5
  <2> QED BY <2>4, <2>5
<1>17. ASSUME ~raced', NEW b \in DyadIds PROVE DyadFits(b)'
  <2>1. /\ DyadFits(b) /\ StatesOf(b)' = StatesOf(b) /\ crossed \subseteq crossed' /\ dyadDir' = dyadDir
        /\ forgotten' = forgotten
    BY <1>1, <1>17 DEF DyadsInv, Unraced, StatesOf
  <2>2. b \notin crossed' \cup forgotten /\ StatesOf(b)' \cap {"valid", "invalid"} # {} =>
            \A q \in Runners : runner'[q].dyad # b
    <3>1. SUFFICES ASSUME b \notin crossed \cup forgotten, StatesOf(b) \cap {"valid", "invalid"} # {},
                          NEW q \in Runners
                   PROVE  runner'[q].dyad # b
      BY <2>1
    <3>2. b # d
      BY <1>11, <3>1 DEF Verdicts
    <3>3. CASE q = p
      BY <1>4, <1>6, <3>2, <3>3
    <3>4. CASE q # p
      BY <1>6, <2>1, <3>1, <3>4 DEF DyadFits
    <3> QED BY <3>3, <3>4
  <2> QED BY <2>1, <2>2 DEF DyadFits, WholeBy
<1>18. VerdictIsFinal' /\ BudgetKept'
  BY <1>1 DEF DyadsInv, VerdictIsFinal, BudgetKept, StatesOf
<1> QED BY <1>9, <1>15, <1>16, <1>17, <1>18 DEF DyadsInv, RunnersFit, Unraced

LEMMA DyadsInitHolds == DyadsInit => DyadsInv
<1> SUFFICES ASSUME DyadsInit PROVE DyadsInv
  OBVIOUS
<1>1. /\ dyads = <<>> /\ crossed = {} /\ forgotten = {} /\ raced = FALSE /\ attempts = 0
      /\ runner = [p \in Runners |-> Off] /\ watch = [p \in Runners |-> Unwatched]
      /\ dyadDir = [d \in DyadIds |-> NoDyad]
  BY DEF DyadsInit
<1>2. <<>> \in Seq(JournalEntries) /\ DOMAIN dyads = {}
  BY <1>1
<1>3. DyadsTypes
  BY <1>1, <1>2, OffIs, UnwatchedIs, NoDyadIs DEF DyadsTypes
<1>4. ASSUME NEW p \in Runners PROVE runner[p] = Off /\ watch[p] = Unwatched
  BY <1>1
<1>5. RunnersFit /\ \A p \in Runners : GateFits(p) /\ AttemptIsJournaled(p) /\ DirIsOwn(p)
  <2> SUFFICES ASSUME NEW p \in Runners
               PROVE  RunnerFits(p) /\ GateFits(p) /\ AttemptIsJournaled(p) /\ DirIsOwn(p)
    BY DEF RunnersFit
  <2>1. /\ runner[p] = Off /\ watch[p] = Unwatched /\ runner[p].step = "off" /\ watch[p].step = "none"
    BY <1>4, OffIs, UnwatchedIs
  <2>2. ~Writing(p)
    BY <2>1 DEF Writing
  <2> QED BY <2>1, <2>2 DEF RunnerFits, GateFits, AttemptIsJournaled, DirIsOwn, Entering, Leaving
<1>6. OneAt
  BY <1>4, OffIs, UnwatchedIs, DyadsAssumption DEF OneAt, At
<1>7. \A d : StatesOf(d) = {}
  BY <1>2 DEF StatesOf
<1>8. \A d \in DyadIds : DyadFits(d)
  BY <1>1, <1>7 DEF DyadFits
<1>9. VerdictIsFinal
  BY <1>2 DEF VerdictIsFinal
<1>10. BudgetKept
  <2>1. {d \in Budgeted : "attempted" \in StatesOf(d)} = {}
    BY <1>7
  <2>2. Cardinality({}) = 0
    BY FS_EmptySet
  <2>3. Budget \in Nat
    BY DyadsAssumption
  <2>4. Cardinality({d \in Budgeted : "attempted" \in StatesOf(d)}) <= Budget
    BY <2>1, <2>2, <2>3
  <2> QED BY <2>4 DEF BudgetKept
<1> QED BY <1>3, <1>5, <1>6, <1>8, <1>9, <1>10 DEF DyadsInv, Unraced

LEMMA DyadsNextKeeps == DyadsInv /\ [DyadsNext]_dyadVars => DyadsInv'
<1> SUFFICES ASSUME DyadsInv, [DyadsNext]_dyadVars PROVE DyadsInv'
  OBVIOUS
<1>1. ASSUME NEW p \in Runners, Run(p) PROVE DyadsInv'
  <2>1. ASSUME WriteJournal(p) PROVE DyadsInv'
    <3>1. runner[p].next \in {"off", "prepare"}
      BY FactsOf DEF RunnerType
    <3> QED BY <2>1, <3>1, LeavingKeeps, EnteringKeeps
  <2> QED BY <1>1, <2>1, GateKeeps, ReadJournalKeeps, PrepareKeeps, BuildBlocksKeeps, RunCaseKeeps,
             WriteReceiptKeeps, CrashKeeps DEF Run
<1>2. ASSUME NEW p \in Runners, Watchdog(p) PROVE DyadsInv'
  BY <1>2, BreachKeeps, ChildEndsKeeps, TerminateKeeps, JournalAbortKeeps, StopWatchingKeeps DEF Watchdog
<1>3. ASSUME NEW d \in DyadIds, Admit(d) PROVE DyadsInv'
  BY <1>3, DyadsStays DEF Admit, bounds, dyadHistories
<1>4. ASSUME UNCHANGED dyadVars PROVE DyadsInv'
  BY <1>4, DyadsStays DEF dyadVars, bounds, dyadHistories
<1> QED BY <1>1, <1>2, <1>3, <1>4 DEF DyadsNext

\* What the journal of the ALA dyads promises: a verdict is final, the budget of
\* attempts is kept, a valid dyad is whole, also where a worker outlives its abort and
\* where a crash cuts the journal (ala/ala-runner.ts runAlaDyad, alaDevAttemptsUsed;
\* scripts/ala-watchdog.sh).
THEOREM DyadsKeepTheirWord == DyadsSpec => []DyadsSafe
<1>1. DyadsSpec => []DyadsInv
  BY DyadsInitHolds, DyadsNextKeeps, PTL DEF DyadsSpec
<1>2. DyadsInv => DyadsSafe
  BY DyadsInvImplies
<1> QED BY <1>1, <1>2, PTL
===============================================================================
