---------------------------- MODULE BundleProofs ----------------------------
(* Proofs about Bundle: a bundle the verifier accepts is a prefix of what    *)
(* the run committed, for every number of turns, of mishaps, of operators'   *)
(* calls and of damages to its files (AcceptedBundlesAreSound). The argument *)
(* is that no damage forges: whatever is still whole in a file is what the   *)
(* store holds under its number (Genuine).                                   *)
EXTENDS Bundle, TLAPS, WellFoundedInduction

---------------------------------------------------------------------------
(* Sequences of any elements *)

IsSequence(q) == q \in Seq(ToSet(q))

LEMMA SequenceShape ==
    ASSUME NEW q, IsSequence(q)
    PROVE  /\ Len(q) \in Nat /\ DOMAIN q = 1..Len(q)
           /\ q \in [1..Len(q) -> ToSet(q)]
           /\ \A e : e \in ToSet(q) <=> \E i \in 1..Len(q) : q[i] = e
<1>1. q \in Seq(ToSet(q))
  BY DEF IsSequence
<1>2. Len(q) \in Nat /\ DOMAIN q = 1..Len(q) /\ q \in [1..Len(q) -> ToSet(q)]
  BY <1>1
<1> QED BY <1>2 DEF ToSet

LEMMA SequenceOf ==
    ASSUME NEW S, NEW q \in Seq(S)
    PROVE  IsSequence(q) /\ ToSet(q) \subseteq S
<1>1. Len(q) \in Nat /\ DOMAIN q = 1..Len(q) /\ \A i \in 1..Len(q) : q[i] \in S
  OBVIOUS
<1>2. \A i \in 1..Len(q) : q[i] \in ToSet(q)
  BY <1>1 DEF ToSet
<1>3. q = [i \in 1..Len(q) |-> q[i]]
  OBVIOUS
<1>4. q \in [1..Len(q) -> ToSet(q)]
  BY <1>2, <1>3
<1>5. q \in Seq(ToSet(q))
  BY <1>1, <1>4
<1> QED BY <1>1, <1>5 DEF IsSequence, ToSet

LEMMA AppendSequence ==
    ASSUME NEW q, IsSequence(q), NEW e
    PROVE  /\ IsSequence(Append(q, e))
           /\ Len(Append(q, e)) = Len(q) + 1
           /\ \A i \in 1..Len(q) : Append(q, e)[i] = q[i]
           /\ Append(q, e)[Len(q) + 1] = e
<1> DEFINE S == ToSet(q) \cup {e}
<1>1. q \in Seq(ToSet(q)) /\ Len(q) \in Nat
  BY SequenceShape DEF IsSequence
<1>2. q \in Seq(S)
  BY <1>1
<1>3. e \in S
  OBVIOUS
<1> HIDE DEF S
<1>4. /\ Append(q, e) \in Seq(S)
      /\ Len(Append(q, e)) = Len(q) + 1
      /\ \A i \in 1..Len(q) : Append(q, e)[i] = q[i]
      /\ Append(q, e)[Len(q) + 1] = e
  BY <1>2, <1>3
<1> QED BY <1>4, SequenceOf

LEMMA SubSequence ==
    ASSUME NEW q, IsSequence(q), NEW m \in Int, NEW n \in Int, 1 <= m, n <= Len(q)
    PROVE  IsSequence(SubSeq(q, m, n)) /\ ToSet(SubSeq(q, m, n)) \subseteq ToSet(q)
<1>1. q \in Seq(ToSet(q)) /\ Len(q) \in Nat
  BY SequenceShape DEF IsSequence
<1>2. SubSeq(q, m, n) \in Seq(ToSet(q))
  BY <1>1
<1> QED BY <1>2, SequenceOf

LEMMA Concatenation ==
    ASSUME NEW S, NEW p, NEW q, IsSequence(p), IsSequence(q),
           ToSet(p) \subseteq S, ToSet(q) \subseteq S
    PROVE  IsSequence(p \o q) /\ ToSet(p \o q) \subseteq S
<1>1. p \in Seq(S) /\ q \in Seq(S)
  BY DEF IsSequence
<1>2. p \o q \in Seq(S)
  BY <1>1
<1> QED BY <1>2, SequenceOf

LEMMA RemovedSequence ==
    ASSUME NEW q, IsSequence(q), NEW i \in DOMAIN q
    PROVE  IsSequence(RemoveAt(q, i)) /\ ToSet(RemoveAt(q, i)) \subseteq ToSet(q)
<1>1. Len(q) \in Nat /\ i \in 1..Len(q)
  BY SequenceShape
<1>2. IsSequence(SubSeq(q, 1, i - 1)) /\ ToSet(SubSeq(q, 1, i - 1)) \subseteq ToSet(q)
  BY <1>1, SubSequence
<1>3. IsSequence(SubSeq(q, i + 1, Len(q))) /\ ToSet(SubSeq(q, i + 1, Len(q))) \subseteq ToSet(q)
  BY <1>1, SubSequence
<1> QED BY <1>2, <1>3, Concatenation DEF RemoveAt

LEMMA RepeatedSequence ==
    ASSUME NEW q, IsSequence(q), NEW i \in DOMAIN q
    PROVE  IsSequence(InsertAt(q, i, q[i])) /\ ToSet(InsertAt(q, i, q[i])) \subseteq ToSet(q)
<1>1. Len(q) \in Nat /\ i \in 1..Len(q) /\ q[i] \in ToSet(q)
  BY SequenceShape
<1>2. IsSequence(SubSeq(q, 1, i - 1)) /\ ToSet(SubSeq(q, 1, i - 1)) \subseteq ToSet(q)
  BY <1>1, SubSequence
<1>3. IsSequence(SubSeq(q, i, Len(q))) /\ ToSet(SubSeq(q, i, Len(q))) \subseteq ToSet(q)
  BY <1>1, SubSequence
<1>4. <<q[i]>> \in Seq(ToSet(q))
  BY <1>1
<1>5. IsSequence(<<q[i]>>) /\ ToSet(<<q[i]>>) \subseteq ToSet(q)
  BY <1>4, SequenceOf
<1>6. /\ IsSequence(SubSeq(q, 1, i - 1) \o <<q[i]>>)
      /\ ToSet(SubSeq(q, 1, i - 1) \o <<q[i]>>) \subseteq ToSet(q)
  BY <1>2, <1>5, Concatenation
<1> QED BY <1>3, <1>6, Concatenation DEF InsertAt

LEMMA ChangedSequence ==
    ASSUME NEW q, IsSequence(q), NEW i \in DOMAIN q, NEW e
    PROVE  /\ IsSequence([q EXCEPT ![i] = e])
           /\ ToSet([q EXCEPT ![i] = e]) \subseteq ToSet(q) \cup {e}
<1>1. q \in Seq(ToSet(q) \cup {e})
  BY DEF IsSequence
<1>2. [q EXCEPT ![i] = e] \in Seq(ToSet(q) \cup {e})
  BY <1>1
<1> QED BY <1>2, SequenceOf

LEMMA NoSequence ==
    IsSequence(<<>>) /\ ToSet(<<>>) = {} /\ Len(<<>>) = 0
<1>1. <<>> \in Seq({1})
  OBVIOUS
<1>2. IsSequence(<<>>)
  BY <1>1, SequenceOf
<1>3. Len(<<>>) = 0
  OBVIOUS
<1> QED BY <1>2, <1>3, SequenceShape

LEMMA MinOfTwo ==
    ASSUME NEW m \in Nat, NEW n \in Nat
    PROVE  Min({m, n}) \in Nat /\ Min({m, n}) <= m /\ Min({m, n}) <= n
<1>1. \E x \in {m, n} : \A y \in {m, n} : x <= y
  <2>1. CASE m <= n
    BY <2>1
  <2>2. CASE ~(m <= n)
    BY <2>2
  <2> QED BY <2>1, <2>2
<1>2. Min({m, n}) \in {m, n} /\ \A y \in {m, n} : Min({m, n}) <= y
  BY <1>1 DEF Min
<1> QED BY <1>2

---------------------------------------------------------------------------
(* The inductive invariant *)

Cuts == [number : Nat, whole : BOOLEAN, sizes : [Streams -> Nat]]

Receipts == [number : Nat, status : {"confirmed", "failed"}, deep : BOOLEAN, whole : BOOLEAN]

IsEvent(e) == {"seq", "whole"} \subseteq DOMAIN e

\* A log is numbered without gaps in each of its streams.
IsLog(l) ==
    /\ DOMAIN l = Streams
    /\ \A s \in Streams :
          /\ IsSequence(l[s]) /\ ChainHolds(l[s])
          /\ \A i \in DOMAIN l[s] : IsEvent(l[s][i])

\* What the store holds: the order of its own rows (BundleTypeOK).
StoreInv ==
    /\ IsLog(log)
    /\ cuts \in Seq(Cuts)
    /\ \A c \in DOMAIN cuts :
          /\ cuts[c].number = c - 1
          /\ \A s \in Streams :
                /\ cuts[c].sizes[s] <= Len(log[s])
                /\ c > 1 => cuts[c - 1].sizes[s] <= cuts[c].sizes[s]
    /\ receipts \subseteq Receipts
    /\ \A r \in receipts : r.number + 1 \in DOMAIN cuts
    /\ IsSequence(records)
    /\ \A i \in DOMAIN records : records[i].checkpoint \in 0..Len(cuts)

\* From the final checkpoint on, and those of its places that have a bundle.
SealPlaces ==
    {"anchor", "record", "blocked-record", "export", "blocked-export", "verify", "verdict",
     "blocked", "last-export", "abort-anchor", "sealed", "aborted"}

Exporting == {"export", "blocked-export", "last-export"}

Exported == {"verify", "verdict", "blocked", "sealed", "aborted"}

\* The driver of the run and the note of an operator name checkpoints that exist.
CallsInv ==
    /\ {"at", "phase", "turn", "training", "evaluation", "repair", "paused", "final",
        "aborted", "anchored", "exit"} \subseteq DOMAIN run
    /\ run.final \in 0..Len(cuts)
    /\ run.at \in SealPlaces => run.final # 0
    /\ {"at", "checkpoint"} \subseteq DOMAIN note
    /\ note.checkpoint \in 0..Len(cuts)

Fields ==
    {"manifest", "lost", "lines", "prompts", "proofs", "stray", "generation", "parent",
     "terminal", "state", "unread", "reads", "cuts", "receipts", "records", "attachments", "raced"}

\* Where an export is while it reads, and where it has read the checkpoints and the receipts.
Reading == {"streams", "checkpoints", "receipts", "attachments", "record"}
WithCuts == {"receipts", "attachments", "record"}
WithReceipts == {"attachments", "record"}

\* What is whole in a file is what the store holds under its number.
GenuineLine(e, s) ==
    /\ IsEvent(e)
    /\ e.whole => e.seq \in DOMAIN log[s] /\ e = log[s][e.seq]

GenuineLines(b) ==
    /\ DOMAIN b.lines = Streams
    /\ \A s \in Streams :
          IsSequence(b.lines[s]) /\ \A e \in ToSet(b.lines[s]) : GenuineLine(e, s)

GenuineCut(c) ==
    /\ c \in Cuts
    /\ c.whole => c.number + 1 \in DOMAIN cuts /\ c = cuts[c.number + 1]

GenuineCuts(b) == IsSequence(b.cuts) /\ \A c \in ToSet(b.cuts) : GenuineCut(c)

GenuineReceipts(b) ==
    /\ b.receipts \subseteq Receipts
    /\ \A r \in b.receipts : r.whole => r \in receipts

Genuine(b) ==
    Fields \subseteq DOMAIN b /\ GenuineLines(b) /\ GenuineCuts(b) /\ GenuineReceipts(b)

FilesInv ==
    /\ DOMAIN exports = {"run", "copy"} /\ DOMAIN bundles = {"run", "copy"}
    /\ \A by \in {"run", "copy"} :
          /\ {"at", "draft"} \subseteq DOMAIN exports[by]
          /\ exports[by].at \in Reading =>
                Fields \subseteq DOMAIN exports[by].draft /\ GenuineLines(exports[by].draft)
          /\ exports[by].at \in WithCuts => GenuineCuts(exports[by].draft)
          /\ exports[by].at \in WithReceipts => GenuineReceipts(exports[by].draft)
          /\ bundles[by] # <<>> => Genuine(bundles[by][1])
    /\ run.at \in Exported => bundles["run"] # <<>>
    /\ run.at \in Exporting /\ exports["run"].at = "none" => bundles["run"] # <<>>

BundleInv == StoreInv /\ CallsInv /\ FilesInv

---------------------------------------------------------------------------
(* What the invariant says of an accepted bundle *)

\* A chain that holds, of lines that are genuine, is the beginning of the stream.
LEMMA GenuinePrefix ==
    ASSUME StoreInv, NEW b, GenuineLines(b), NEW s \in Streams, ChainHolds(b.lines[s])
    PROVE  /\ Len(b.lines[s]) \in Nat /\ Len(log[s]) \in Nat
           /\ Len(b.lines[s]) <= Len(log[s])
           /\ \A i \in 1..Len(b.lines[s]) : b.lines[s][i] = log[s][i]
<1>1. IsSequence(b.lines[s]) /\ \A e \in ToSet(b.lines[s]) : GenuineLine(e, s)
  BY DEF GenuineLines
<1>2. IsSequence(log[s])
  BY DEF StoreInv, IsLog
<1>3. /\ Len(b.lines[s]) \in Nat /\ DOMAIN b.lines[s] = 1..Len(b.lines[s])
      /\ Len(log[s]) \in Nat /\ DOMAIN log[s] = 1..Len(log[s])
  BY <1>1, <1>2, SequenceShape
<1>4. ASSUME NEW i \in 1..Len(b.lines[s])
      PROVE  i \in 1..Len(log[s]) /\ b.lines[s][i] = log[s][i]
  <2>1. b.lines[s][i].whole /\ b.lines[s][i].seq = i
    BY <1>3 DEF ChainHolds
  <2>2. b.lines[s][i] \in ToSet(b.lines[s])
    BY <1>1, SequenceShape
  <2>3. GenuineLine(b.lines[s][i], s)
    BY <1>1, <2>2
  <2> QED BY <1>3, <2>1, <2>3 DEF GenuineLine
<1>5. Len(b.lines[s]) <= Len(log[s])
  <2>1. CASE Len(b.lines[s]) = 0
    BY <1>3, <2>1
  <2>2. CASE Len(b.lines[s]) # 0
    <3>1. Len(b.lines[s]) \in 1..Len(b.lines[s])
      BY <1>3, <2>2
    <3>2. Len(b.lines[s]) \in 1..Len(log[s])
      BY <3>1, <1>4
    <3> QED BY <3>2
  <2> QED BY <2>1, <2>2
<1> QED BY <1>3, <1>4, <1>5

\* Checkpoints that hold, and are genuine, are the first ones of the run.
LEMMA GenuineChain ==
    ASSUME StoreInv, NEW b, GenuineCuts(b), CheckpointsHold(b)
    PROVE  /\ Len(b.cuts) \in Nat /\ Len(b.cuts) >= 1 /\ DOMAIN b.cuts = 1..Len(b.cuts)
           /\ Len(cuts) \in Nat /\ DOMAIN cuts = 1..Len(cuts) /\ Len(b.cuts) <= Len(cuts)
           /\ \A c \in 1..Len(b.cuts) : b.cuts[c] = cuts[c] /\ b.cuts[c].number = c - 1
<1>1. /\ IsSequence(b.cuts) /\ \A c \in ToSet(b.cuts) : GenuineCut(c)
      /\ Len(cuts) \in Nat /\ DOMAIN cuts = 1..Len(cuts)
  BY DEF GenuineCuts, StoreInv
<1>2. Len(b.cuts) \in Nat /\ DOMAIN b.cuts = 1..Len(b.cuts) /\ b.cuts \in Seq(ToSet(b.cuts))
  BY <1>1, SequenceShape DEF IsSequence
<1>3. Len(b.cuts) >= 1
  <2>1. b.cuts # <<>>
    BY DEF CheckpointsHold
  <2> QED BY <1>2, <2>1
<1>4. ASSUME NEW c \in 1..Len(b.cuts)
      PROVE  c \in 1..Len(cuts) /\ b.cuts[c] = cuts[c] /\ b.cuts[c].number = c - 1
  <2>1. b.cuts[c].number = c - 1 /\ b.cuts[c].whole
    BY <1>2 DEF CheckpointsHold
  <2>2. GenuineCut(b.cuts[c])
    BY <1>1, SequenceShape
  <2> QED BY <1>1, <1>2, <2>1, <2>2 DEF GenuineCut, Cuts
<1>5. Len(b.cuts) \in 1..Len(b.cuts)
  BY <1>2, <1>3
<1>6. Len(b.cuts) \in 1..Len(cuts)
  BY <1>4, <1>5
<1> QED BY <1>1, <1>2, <1>3, <1>4, <1>6

\* A set of numbers that has a bound has a greatest one.
LEMMA MaxOfSome ==
    ASSUME NEW n \in Nat, NEW S \in SUBSET (0..n), S # {}
    PROVE  Max(S) \in S
<1> DEFINE T == {n - i : i \in S}
           R == OpToRel(<, Nat)
<1>0. \A i \in S : n - i \in Nat
  OBVIOUS
<1>1. T \subseteq Nat /\ T # {}
  BY <1>0
<1>2. IsWellFoundedOn(R, Nat)
  BY NatLessThanWellFounded
<1>3. \A x, y \in Nat : x < y => <<x, y>> \in R
  BY DEF OpToRel
<1> HIDE DEF R
<1>4. PICK x \in T : \A y \in T : ~ (<<y, x>> \in R)
  BY <1>1, <1>2, WFMin
<1>5. PICK i \in S : x = n - i
  OBVIOUS
<1>6. ASSUME NEW k \in S PROVE i >= k
  <2>1. n - k \in T /\ n - k \in Nat /\ x \in Nat
    BY <1>1
  <2>2. ~(n - k < x)
    BY <1>3, <1>4, <2>1
  <2> QED BY <1>5, <2>2
<1> QED BY <1>6 DEF Max

\* What is anchored in an accepted bundle is a checkpoint of it, with a receipt
\* the store holds; the strict verifier asks for the last one.
LEMMA AnchoredGenuinely ==
    ASSUME StoreInv, NEW b, Genuine(b), CheckpointsHold(b), AnchorsHold(b, TRUE)
    PROVE  /\ AnchoredThrough(b) = Len(b.cuts)
           /\ \E r \in receipts : r.number + 1 = Len(b.cuts) /\ r.status = "confirmed"
<1>1. /\ Len(b.cuts) \in Nat /\ Len(b.cuts) >= 1 /\ DOMAIN b.cuts = 1..Len(b.cuts)
      /\ \A c \in 1..Len(b.cuts) : b.cuts[c].number = c - 1
  BY GenuineChain DEF Genuine
<1>2. FinalCheckpoint(b) = Len(b.cuts)
  <2>1. b.cuts # <<>>
    BY DEF CheckpointsHold
  <2>2. Len(b.cuts) \in 1..Len(b.cuts)
    BY <1>1
  <2>3. Last(b.cuts).number = Len(b.cuts) - 1
    BY <1>1, <2>2 DEF Last
  <2> QED BY <1>1, <2>1, <2>3 DEF FinalCheckpoint
<1>3. AnchoredThrough(b) = Len(b.cuts)
  BY <1>2 DEF AnchorsHold
<1>4. Anchored(b) \in SUBSET (0..Len(b.cuts))
  <2> SUFFICES ASSUME NEW r \in b.receipts, ReceiptHolds(b, r)
               PROVE  r.number + 1 \in 0..Len(b.cuts)
    BY DEF Anchored
  <2>1. PICK c \in 1..Len(b.cuts) : b.cuts[c].number = r.number
    BY <1>1 DEF ReceiptHolds
  <2>2. r.number = c - 1
    BY <1>1, <2>1
  <2> QED BY <1>1, <2>2
<1>5. Len(b.cuts) \in {0} \cup Anchored(b)
  <2>1. {0} \cup Anchored(b) \in SUBSET (0..Len(b.cuts)) /\ {0} \cup Anchored(b) # {}
    BY <1>1, <1>4
  <2>2. Max({0} \cup Anchored(b)) \in {0} \cup Anchored(b)
    BY <1>1, <2>1, MaxOfSome
  <2> QED BY <1>3, <2>2 DEF AnchoredThrough
<1>6. PICK r \in b.receipts : ReceiptHolds(b, r) /\ r.status = "confirmed" /\ r.number + 1 = Len(b.cuts)
  BY <1>1, <1>5 DEF Anchored
<1>7. r \in receipts
  BY <1>6 DEF Genuine, GenuineReceipts, ReceiptHolds
<1> QED BY <1>3, <1>6, <1>7

LEMMA AcceptedBundle ==
    ASSUME BundleInv PROVE AcceptedIsCommitted
<1> SUFFICES ASSUME bundles["run"] # <<>>, Passes(bundles["run"][1], TRUE)
             PROVE  \E c \in DOMAIN cuts :
                        /\ \E r \in receipts : r.number + 1 = c /\ r.status = "confirmed"
                        /\ Prefix(bundles["run"][1], c)
  BY DEF AcceptedIsCommitted
<1>1. PICK b : b = bundles["run"][1]
  OBVIOUS
<1>2. Passes(b, TRUE) /\ Genuine(b) /\ StoreInv
  BY <1>1 DEF BundleInv, FilesInv
<1>3. /\ CheckpointsHold(b) /\ AnchorsHold(b, TRUE) /\ UnanchoredTail(b) = {}
      /\ \A s \in Streams : ChainHolds(b.lines[s])
  BY <1>2 DEF Passes, StreamsHold
<1>4. PICK n : n = Len(b.cuts)
  OBVIOUS
<1>5. /\ n \in Nat /\ n >= 1 /\ DOMAIN b.cuts = 1..n
      /\ Len(cuts) \in Nat /\ DOMAIN cuts = 1..Len(cuts) /\ n <= Len(cuts)
      /\ \A c \in 1..n : b.cuts[c] = cuts[c] /\ b.cuts[c].number = c - 1
  BY <1>2, <1>3, <1>4, GenuineChain DEF Genuine
<1>6. /\ AnchoredThrough(b) = n
      /\ \E r \in receipts : r.number + 1 = n /\ r.status = "confirmed"
  BY <1>2, <1>3, <1>4, AnchoredGenuinely
<1>7. \A s \in Streams : CommittedSize(b, s) = cuts[n].sizes[s]
  <2>1. n \in Known(b)
    BY <1>5 DEF Known
  <2>2. \A c \in DOMAIN b.cuts : b.cuts[c].number + 1 = n => c = n
    BY <1>5
  <2>3. n \in DOMAIN b.cuts /\ b.cuts[n].number + 1 = n /\ b.cuts[n] = cuts[n]
    BY <1>5
  <2>4. (CHOOSE c \in DOMAIN b.cuts : b.cuts[c].number + 1 = n) = n
    BY <2>2, <2>3
  <2> QED BY <1>6, <2>1, <2>3, <2>4 DEF CommittedSize
<1>8. ASSUME NEW s \in Streams
      PROVE  b.lines[s] = SubSeq(log[s], 1, cuts[n].sizes[s])
  <2>1. /\ Len(b.lines[s]) \in Nat /\ Len(log[s]) \in Nat /\ Len(b.lines[s]) <= Len(log[s])
        /\ \A i \in 1..Len(b.lines[s]) : b.lines[s][i] = log[s][i]
    BY <1>2, <1>3, GenuinePrefix DEF Genuine
  <2>2. cuts[n].sizes[s] \in Nat
    <3>1. cuts \in Seq(Cuts) /\ n \in DOMAIN cuts
      BY <1>2, <1>5 DEF StoreInv
    <3>2. cuts[n] \in Cuts
      BY <3>1
    <3> QED BY <3>2 DEF Cuts
  <2>3. cuts[n].sizes[s] <= Len(b.lines[s])
    BY <1>3, <1>5 DEF CheckpointsHold, TreeHolds
  <2>4. ~(Len(b.lines[s]) > cuts[n].sizes[s])
    BY <1>3, <1>7 DEF UnanchoredTail
  <2>5. Len(b.lines[s]) = cuts[n].sizes[s]
    BY <2>1, <2>2, <2>3, <2>4
  <2>6. IsSequence(b.lines[s]) /\ IsSequence(log[s])
    BY <1>2 DEF Genuine, GenuineLines, StoreInv, IsLog
  <2>7. b.lines[s] = [i \in 1..Len(b.lines[s]) |-> b.lines[s][i]]
    BY <2>6, SequenceShape
  <2>8. SubSeq(log[s], 1, Len(b.lines[s])) = [i \in 1..Len(b.lines[s]) |-> log[s][i]]
    <3>1. log[s] \in Seq(ToSet(log[s]))
      BY <2>6 DEF IsSequence
    <3> QED BY <2>1, <3>1
  <2> QED BY <2>1, <2>5, <2>7, <2>8
<1> QED BY <1>1, <1>5, <1>6, <1>8 DEF Prefix

LEMMA AllowedBundle ==
    ASSUME BundleInv PROVE AllowedIsPrefix
<1> SUFFICES ASSUME NEW by \in {"run", "copy"}, bundles[by] # <<>>, Passes(bundles[by][1], FALSE)
             PROVE  IsPrefixOfRun(bundles[by][1])
  BY DEF AllowedIsPrefix
<1>1. PICK b : b = bundles[by][1]
  OBVIOUS
<1>2. Passes(b, FALSE) /\ Genuine(b) /\ StoreInv
  BY <1>1 DEF BundleInv, FilesInv
<1>3. CheckpointsHold(b) /\ \A s \in Streams : ChainHolds(b.lines[s])
  BY <1>2 DEF Passes, StreamsHold
<1>5. /\ Len(b.cuts) \in Nat /\ Len(b.cuts) >= 1 /\ DOMAIN b.cuts = 1..Len(b.cuts)
      /\ \A c \in 1..Len(b.cuts) : b.cuts[c] = cuts[c]
  BY <1>2, <1>3, GenuineChain DEF Genuine
<1>8. ASSUME NEW s \in Streams
      PROVE  IsPrefix(b.lines[s], log[s]) /\ Len(b.lines[s]) >= Last(b.cuts).sizes[s]
  <2>1. /\ Len(b.lines[s]) \in Nat /\ Len(log[s]) \in Nat /\ Len(b.lines[s]) <= Len(log[s])
        /\ \A i \in 1..Len(b.lines[s]) : b.lines[s][i] = log[s][i]
    BY <1>2, <1>3, GenuinePrefix DEF Genuine
  <2>2. Len(b.cuts) \in DOMAIN b.cuts /\ Last(b.cuts) = b.cuts[Len(b.cuts)]
    BY <1>5 DEF Last
  <2>3. Last(b.cuts).sizes[s] <= Len(b.lines[s])
    BY <1>3, <2>2 DEF CheckpointsHold, TreeHolds
  <2>4. Last(b.cuts).sizes[s] \in Nat
    <3>1. b.cuts[Len(b.cuts)] \in ToSet(b.cuts)
      BY <2>2 DEF ToSet
    <3>2. Last(b.cuts) \in Cuts
      BY <1>2, <2>2, <3>1 DEF Genuine, GenuineCuts, GenuineCut
    <3> QED BY <3>2 DEF Cuts
  <2>6. IsSequence(b.lines[s]) /\ IsSequence(log[s])
    BY <1>2 DEF Genuine, GenuineLines, StoreInv, IsLog
  <2>7. SubSeq(b.lines[s], 1, Len(b.lines[s])) = SubSeq(log[s], 1, Len(b.lines[s]))
    <3>1. log[s] \in Seq(ToSet(log[s])) /\ b.lines[s] \in Seq(ToSet(b.lines[s]))
      BY <2>6 DEF IsSequence
    <3>2. SubSeq(log[s], 1, Len(b.lines[s])) = [i \in 1..Len(b.lines[s]) |-> log[s][i]]
      BY <2>1, <3>1
    <3>3. SubSeq(b.lines[s], 1, Len(b.lines[s])) = [i \in 1..Len(b.lines[s]) |-> b.lines[s][i]]
      BY <2>1, <3>1
    <3> QED BY <2>1, <3>2, <3>3
  <2> QED BY <2>1, <2>3, <2>4, <2>7 DEF IsPrefix
<1>9. \A c \in DOMAIN b.cuts : c \in DOMAIN cuts
  BY <1>2, <1>3, GenuineChain DEF Genuine
<1>10. b.cuts # <<>>
  BY <1>3 DEF CheckpointsHold
<1> QED BY <1>1, <1>5, <1>8, <1>9, <1>10 DEF IsPrefixOfRun

LEMMA StoreIsOrdered ==
    ASSUME BundleInv PROVE BundleTypeOK
BY DEF BundleInv, StoreInv, IsLog, BundleTypeOK

LEMMA AcceptanceFollows ==
    ASSUME BundleInv PROVE AcceptanceIsSound
BY AcceptedBundle, AllowedBundle, StoreIsOrdered DEF AcceptanceIsSound

---------------------------------------------------------------------------
(* The store grows *)

\* One log continues another.
Extends(l, k) ==
    /\ IsLog(k)
    /\ \A s \in Streams :
          /\ Len(l[s]) <= Len(k[s])
          /\ \A i \in 1..Len(l[s]) : k[s][i] = l[s][i]

LEMMA LogShape ==
    ASSUME NEW l, IsLog(l), NEW s \in Streams
    PROVE  /\ IsSequence(l[s]) /\ Len(l[s]) \in Nat /\ DOMAIN l[s] = 1..Len(l[s])
           /\ \A i \in 1..Len(l[s]) : l[s][i].whole /\ l[s][i].seq = i /\ IsEvent(l[s][i])
<1>1. IsSequence(l[s])
  BY DEF IsLog
<1>2. Len(l[s]) \in Nat /\ DOMAIN l[s] = 1..Len(l[s])
  BY <1>1, SequenceShape
<1> QED BY <1>1, <1>2 DEF IsLog, ChainHolds

LEMMA ExtendsItself ==
    ASSUME NEW l, IsLog(l) PROVE Extends(l, l)
BY LogShape DEF Extends

LEMMA ExtendsOn ==
    ASSUME NEW l, NEW k, NEW m, IsLog(l), Extends(l, k), Extends(k, m)
    PROVE  Extends(l, m)
<1> SUFFICES ASSUME NEW s \in Streams
             PROVE  /\ Len(l[s]) <= Len(m[s])
                    /\ \A i \in 1..Len(l[s]) : m[s][i] = l[s][i]
  BY DEF Extends
<1>1. /\ Len(l[s]) <= Len(k[s]) /\ \A i \in 1..Len(l[s]) : k[s][i] = l[s][i]
      /\ Len(k[s]) <= Len(m[s]) /\ \A i \in 1..Len(k[s]) : m[s][i] = k[s][i]
  BY DEF Extends
<1>2. Len(l[s]) \in Nat /\ Len(k[s]) \in Nat /\ Len(m[s]) \in Nat
  BY LogShape DEF Extends
<1>3. \A i \in 1..Len(l[s]) : i \in 1..Len(k[s])
  BY <1>1, <1>2
<1> QED BY <1>1, <1>2, <1>3

LEMMA PutExtends ==
    ASSUME NEW l, IsLog(l), NEW s \in Streams, NEW e, IsEvent(e), e.whole
    PROVE  /\ IsLog(Put(l, s, e)) /\ Extends(l, Put(l, s, e))
           /\ Len(Put(l, s, e)[s]) = Len(l[s]) + 1
<1>1. PICK x : x = [e EXCEPT !.seq = Len(l[s]) + 1]
  OBVIOUS
<1>2. IsEvent(x) /\ x.whole /\ x.seq = Len(l[s]) + 1
  BY <1>1 DEF IsEvent
<1>3. PICK k : k = Put(l, s, e)
  OBVIOUS
<1>4. /\ DOMAIN k = Streams
      /\ k[s] = Append(l[s], x)
      /\ \A o \in Streams \ {s} : k[o] = l[o]
  BY <1>1, <1>3 DEF Put, IsLog
<1>5. /\ IsSequence(l[s]) /\ Len(l[s]) \in Nat /\ DOMAIN l[s] = 1..Len(l[s])
      /\ \A i \in 1..Len(l[s]) : l[s][i].whole /\ l[s][i].seq = i /\ IsEvent(l[s][i])
  BY LogShape
<1>6. /\ IsSequence(k[s]) /\ Len(k[s]) = Len(l[s]) + 1
      /\ \A i \in 1..Len(l[s]) : k[s][i] = l[s][i]
      /\ k[s][Len(l[s]) + 1] = x
  BY <1>4, <1>5, AppendSequence
<1>7. DOMAIN k[s] = 1..Len(l[s]) + 1
  BY <1>6, SequenceShape
<1>8. \A i \in 1..Len(l[s]) + 1 : k[s][i].whole /\ k[s][i].seq = i /\ IsEvent(k[s][i])
  <2> TAKE i \in 1..Len(l[s]) + 1
  <2>1. CASE i \in 1..Len(l[s])
    BY <1>5, <1>6, <2>1
  <2>2. CASE i = Len(l[s]) + 1
    BY <1>2, <1>6, <2>2
  <2> QED BY <1>5, <2>1, <2>2
<1>9. IsLog(k)
  <2> SUFFICES ASSUME NEW o \in Streams
               PROVE  /\ IsSequence(k[o]) /\ ChainHolds(k[o])
                      /\ \A i \in DOMAIN k[o] : IsEvent(k[o][i])
    BY <1>4 DEF IsLog
  <2>1. CASE o = s
    BY <1>6, <1>7, <1>8, <2>1 DEF ChainHolds
  <2>2. CASE o # s
    BY <1>4, <2>2 DEF IsLog
  <2> QED BY <2>1, <2>2
<1>10. ASSUME NEW o \in Streams
       PROVE  Len(l[o]) <= Len(k[o]) /\ \A i \in 1..Len(l[o]) : k[o][i] = l[o][i]
  <2>1. CASE o = s
    BY <1>5, <1>6, <2>1
  <2>2. CASE o # s
    <3>1. k[o] = l[o] /\ Len(l[o]) \in Nat
      BY <1>4, <2>2, LogShape
    <3> QED BY <3>1
  <2> QED BY <2>1, <2>2
<1> QED BY <1>3, <1>6, <1>9, <1>10 DEF Extends

LEMMA EventIsEvent ==
    ASSUME NEW kind, NEW number, NEW ref
    PROVE  IsEvent(Event(kind, number, ref)) /\ Event(kind, number, ref).whole
BY DEF Event, IsEvent

LEMMA PutEvent ==
    ASSUME NEW l, IsLog(l), NEW s \in Streams, NEW kind, NEW number, NEW ref
    PROVE  /\ IsLog(Put(l, s, Event(kind, number, ref)))
           /\ Extends(l, Put(l, s, Event(kind, number, ref)))
BY PutExtends, EventIsEvent

LEMMA PutBothExtends ==
    ASSUME NEW l, IsLog(l), NEW kind
    PROVE  IsLog(PutBoth(l, kind)) /\ Extends(l, PutBoth(l, kind))
<1>1. "baby-a-ledger" \in Streams /\ "baby-b-ledger" \in Streams
  BY DEF Streams, Ledgers
<1>2. PICK k : k = Put(l, "baby-a-ledger", Event(kind, 0, 0))
  OBVIOUS
<1>3. IsLog(k) /\ Extends(l, k)
  BY <1>1, <1>2, PutEvent
<1>4. PICK m : m = Put(k, "baby-b-ledger", Event(kind, 0, 0))
  OBVIOUS
<1>5. IsLog(m) /\ Extends(k, m)
  BY <1>1, <1>3, <1>4, PutEvent
<1>6. Extends(l, m)
  BY <1>3, <1>5, ExtendsOn
<1> QED BY <1>2, <1>4, <1>5, <1>6 DEF PutBoth

LEMMA AuditExtends ==
    ASSUME IsLog(log), NEW kind
    PROVE  IsLog(Audit(kind)) /\ Extends(log, Audit(kind))
BY PutEvent DEF Audit, Streams

\* A step of the store: every table only grows, and what is written names what
\* is there.
StoreMove ==
    /\ Extends(log, log')
    /\ \/ cuts' = cuts
       \/ cuts' = Append(cuts, CutOf(log'))
    /\ \/ receipts' = receipts
       \/ \E r \in Receipts : r.number + 1 \in DOMAIN cuts /\ receipts' = receipts \cup {r}
    /\ \/ records' = records
       \/ \E v : records' = Append(records, v) /\ v.checkpoint \in 0..Len(cuts)

Grown ==
    /\ \A s \in Streams : \A i \in DOMAIN log[s] :
          i \in DOMAIN log'[s] /\ log'[s][i] = log[s][i]
    /\ \A c \in DOMAIN cuts : c \in DOMAIN cuts' /\ cuts'[c] = cuts[c]
    /\ receipts \subseteq receipts'
    /\ Len(cuts) \in Nat /\ Len(cuts') \in Nat /\ Len(cuts) <= Len(cuts')

LEMMA StoreStep ==
    ASSUME StoreInv, StoreMove
    PROVE  StoreInv' /\ Grown
<1>1. IsLog(log) /\ IsLog(log')
  BY DEF StoreInv, StoreMove, Extends
<1>2. ASSUME NEW s \in Streams
      PROVE  /\ Len(log[s]) \in Nat /\ Len(log'[s]) \in Nat /\ Len(log[s]) <= Len(log'[s])
             /\ \A i \in DOMAIN log[s] : i \in DOMAIN log'[s] /\ log'[s][i] = log[s][i]
  <2>1. /\ Len(log[s]) \in Nat /\ DOMAIN log[s] = 1..Len(log[s])
        /\ Len(log'[s]) \in Nat /\ DOMAIN log'[s] = 1..Len(log'[s])
    BY <1>1, LogShape
  <2>2. Len(log[s]) <= Len(log'[s]) /\ \A i \in 1..Len(log[s]) : log'[s][i] = log[s][i]
    BY DEF StoreMove, Extends
  <2> QED BY <2>1, <2>2
<1>0. cuts \in Seq(Cuts) /\ Len(cuts) \in Nat /\ DOMAIN cuts = 1..Len(cuts)
  BY DEF StoreInv
<1>3. \A c \in 1..Len(cuts) :
          /\ cuts[c].number = c - 1
          /\ \A s \in Streams :
                /\ cuts[c].sizes[s] <= Len(log[s])
                /\ c > 1 => cuts[c - 1].sizes[s] <= cuts[c].sizes[s]
  BY <1>0 DEF StoreInv
<1>4. \A c \in 1..Len(cuts) : \A s \in Streams : cuts[c].sizes[s] \in Nat
  <2> TAKE c \in 1..Len(cuts)
  <2>1. cuts[c] \in Cuts
    BY <1>0
  <2> QED BY <2>1 DEF Cuts
<1>5. PICK x : x = CutOf(log')
  OBVIOUS
<1>6. /\ x \in Cuts /\ x.number = Len(cuts)
      /\ \A s \in Streams : x.sizes[s] = Len(log'[s])
  BY <1>0, <1>2, <1>5 DEF CutOf, Cuts
<1>7. PICK n, m : n = Len(cuts) /\ m = Len(cuts')
  OBVIOUS
<1>70. cuts' \in Seq(Cuts)
  <2>1. CASE cuts' = cuts
    BY <1>0, <2>1
  <2>2. CASE cuts' = Append(cuts, x)
    BY <1>0, <1>6, <2>2
  <2> QED BY <1>5, <2>1, <2>2 DEF StoreMove
<1>71. m \in Nat /\ n \in Nat /\ DOMAIN cuts' = 1..m /\ DOMAIN cuts = 1..n
  BY <1>0, <1>7, <1>70
<1>72. /\ \/ m = n
          \/ m = n + 1 /\ cuts'[n + 1] = x
       /\ \A c \in 1..n : cuts'[c] = cuts[c]
  <2>1. CASE cuts' = cuts
    BY <1>7, <2>1
  <2>2. CASE cuts' = Append(cuts, x)
    <3>1. IsSequence(cuts)
      BY <1>0, SequenceOf
    <3> QED BY <1>7, <2>2, <3>1, AppendSequence
  <2> QED BY <1>5, <2>1, <2>2 DEF StoreMove
<1>8. ASSUME NEW c \in DOMAIN cuts'
      PROVE  /\ cuts'[c].number = c - 1
             /\ \A s \in Streams :
                   /\ cuts'[c].sizes[s] <= Len(log'[s])
                   /\ c > 1 => cuts'[c - 1].sizes[s] <= cuts'[c].sizes[s]
  <2>1. CASE c \in 1..n
    <3>1. cuts'[c] = cuts[c] /\ (c > 1 => c - 1 \in 1..n)
      BY <1>71, <1>72, <2>1
    <3>2. cuts'[c].number = c - 1
      BY <1>3, <1>7, <2>1, <3>1
    <3>3. ASSUME NEW s \in Streams
          PROVE  /\ cuts'[c].sizes[s] <= Len(log'[s])
                 /\ c > 1 => cuts'[c - 1].sizes[s] <= cuts'[c].sizes[s]
      <4>1. /\ cuts[c].sizes[s] <= Len(log[s])
            /\ c > 1 => cuts[c - 1].sizes[s] <= cuts[c].sizes[s]
        BY <1>3, <1>7, <2>1
      <4>2. cuts[c].sizes[s] \in Nat
        BY <1>4, <1>7, <2>1
      <4>3. c > 1 => cuts'[c - 1] = cuts[c - 1]
        BY <1>72, <3>1
      <4>4. cuts'[c].sizes[s] <= Len(log'[s])
        BY <1>2, <3>1, <4>1, <4>2
      <4> QED BY <3>1, <4>1, <4>3, <4>4
    <3> QED BY <3>2, <3>3
  <2>2. CASE c = n + 1 /\ m = n + 1
    <3>1. cuts'[c] = x
      BY <1>71, <1>72, <2>2
    <3>2. cuts'[c].number = c - 1
      BY <1>6, <1>7, <1>71, <2>2, <3>1
    <3>3. ASSUME NEW s \in Streams
          PROVE  /\ cuts'[c].sizes[s] <= Len(log'[s])
                 /\ c > 1 => cuts'[c - 1].sizes[s] <= cuts'[c].sizes[s]
      <4>1. cuts'[c].sizes[s] = Len(log'[s]) /\ Len(log'[s]) \in Nat
        BY <1>2, <1>6, <3>1
      <4>2. ASSUME c > 1 PROVE cuts'[c - 1].sizes[s] <= Len(log'[s])
        <5>1. c - 1 \in 1..n /\ cuts'[c - 1] = cuts[c - 1]
          BY <1>71, <1>72, <2>2, <4>2
        <5>2. cuts[c - 1].sizes[s] <= Len(log[s])
          BY <1>3, <1>7, <5>1
        <5>3. cuts[c - 1].sizes[s] \in Nat
          BY <1>4, <1>7, <5>1
        <5> QED BY <1>2, <5>1, <5>2, <5>3
      <4> QED BY <4>1, <4>2
    <3> QED BY <3>2, <3>3
  <2>3. c \in 1..n \/ (c = n + 1 /\ m = n + 1)
    BY <1>71, <1>72
  <2> QED BY <2>1, <2>2, <2>3
<1>9. \A r \in receipts : r \in Receipts /\ r.number + 1 \in DOMAIN cuts
  BY DEF StoreInv
<1>10. /\ receipts \subseteq receipts'
       /\ \A r \in receipts' : r \in Receipts /\ r.number + 1 \in DOMAIN cuts'
  <2>1. \A c \in DOMAIN cuts : c \in DOMAIN cuts'
    BY <1>71, <1>72
  <2>2. CASE receipts' = receipts
    BY <1>9, <2>1, <2>2
  <2>3. CASE \E r \in Receipts : r.number + 1 \in DOMAIN cuts /\ receipts' = receipts \cup {r}
    BY <1>9, <2>1, <2>3
  <2> QED BY <2>2, <2>3 DEF StoreMove
<1>11. /\ IsSequence(records')
       /\ \A i \in DOMAIN records' : records'[i].checkpoint \in 0..m
  <2>1. /\ IsSequence(records) /\ \A i \in DOMAIN records : records[i].checkpoint \in 0..n
    BY <1>7 DEF StoreInv
  <2>2. CASE records' = records
    BY <1>71, <1>72, <2>1, <2>2
  <2>3. CASE \E v : records' = Append(records, v) /\ v.checkpoint \in 0..n
    <3>1. PICK v : records' = Append(records, v) /\ v.checkpoint \in 0..n
      BY <2>3
    <3>2. /\ IsSequence(records') /\ Len(records') = Len(records) + 1
          /\ \A i \in 1..Len(records) : records'[i] = records[i]
          /\ records'[Len(records) + 1] = v
      BY <2>1, <3>1, AppendSequence
    <3>3. /\ Len(records) \in Nat /\ DOMAIN records = 1..Len(records)
          /\ DOMAIN records' = 1..Len(records')
      BY <2>1, <3>2, SequenceShape
    <3>4. ASSUME NEW i \in DOMAIN records'
          PROVE  records'[i].checkpoint \in 0..n
      <4>1. CASE i \in 1..Len(records)
        BY <2>1, <3>2, <3>3, <4>1
      <4>2. CASE i = Len(records) + 1
        BY <3>1, <3>2, <4>2
      <4> QED BY <3>2, <3>3, <4>1, <4>2
    <3> QED BY <1>71, <1>72, <3>2, <3>4
  <2> QED BY <1>7, <2>2, <2>3 DEF StoreMove
<1>12. StoreInv'
  BY <1>1, <1>7, <1>70, <1>8, <1>10, <1>11 DEF StoreInv
<1> QED BY <1>2, <1>7, <1>71, <1>72, <1>10, <1>12 DEF Grown

LEMMA LineGrows ==
    ASSUME Grown, NEW s \in Streams, NEW e, GenuineLine(e, s)
    PROVE  GenuineLine(e, s)'
BY DEF Grown, GenuineLine

LEMMA LinesGrow ==
    ASSUME Grown, NEW b, GenuineLines(b)
    PROVE  GenuineLines(b)'
<1>1. \A s \in Streams : \A e \in ToSet(b.lines[s]) : GenuineLine(e, s)'
  BY LineGrows DEF GenuineLines
<1> QED BY <1>1 DEF GenuineLines

LEMMA CutsGrow ==
    ASSUME Grown, NEW b, GenuineCuts(b)
    PROVE  GenuineCuts(b)'
BY DEF Grown, GenuineCuts, GenuineCut

LEMMA FileGrows ==
    ASSUME Grown, NEW b, Genuine(b)
    PROVE  Genuine(b)'
<1>1. GenuineLines(b)' /\ GenuineCuts(b)'
  BY LinesGrow, CutsGrow DEF Genuine
<1>2. GenuineReceipts(b)'
  BY DEF Grown, Genuine, GenuineReceipts
<1> QED BY <1>1, <1>2 DEF Genuine

---------------------------------------------------------------------------
(* No damage forges *)

LEMMA OtherFields ==
    ASSUME NEW b, Genuine(b), NEW d, DOMAIN d = DOMAIN b,
           d.lines = b.lines, d.cuts = b.cuts, d.receipts = b.receipts
    PROVE  Genuine(d)
BY DEF Genuine, GenuineLines, GenuineCuts, GenuineReceipts

LEMMA LinesReplaced ==
    ASSUME NEW b, Genuine(b), NEW s \in Streams, NEW lines, IsSequence(lines),
           \A e \in ToSet(lines) : GenuineLine(e, s)
    PROVE  Genuine(WithLines(b, s, lines))
<1>1. PICK d : d = WithLines(b, s, lines)
  OBVIOUS
<1>2. /\ Fields \subseteq DOMAIN b /\ DOMAIN b.lines = Streams
      /\ \A o \in Streams :
            IsSequence(b.lines[o]) /\ \A e \in ToSet(b.lines[o]) : GenuineLine(e, o)
  BY DEF Genuine, GenuineLines
<1>3. /\ DOMAIN d = DOMAIN b /\ d.lines = [b.lines EXCEPT ![s] = lines]
      /\ d.cuts = b.cuts /\ d.receipts = b.receipts
  BY <1>1, <1>2 DEF WithLines, Fields
<1>4. /\ DOMAIN d.lines = Streams /\ d.lines[s] = lines
      /\ \A o \in Streams \ {s} : d.lines[o] = b.lines[o]
  BY <1>2, <1>3
<1>5. GenuineLines(d)
  <2> SUFFICES ASSUME NEW o \in Streams
               PROVE  IsSequence(d.lines[o]) /\ \A e \in ToSet(d.lines[o]) : GenuineLine(e, o)
    BY <1>4 DEF GenuineLines
  <2>1. CASE o = s
    BY <1>4, <2>1
  <2>2. CASE o # s
    BY <1>2, <1>4, <2>2
  <2> QED BY <2>1, <2>2
<1>6. GenuineCuts(d) /\ GenuineReceipts(d)
  BY <1>3 DEF Genuine, GenuineCuts, GenuineReceipts
<1> QED BY <1>1, <1>2, <1>3, <1>5, <1>6 DEF Genuine

LEMMA FewerLines ==
    ASSUME NEW b, Genuine(b), NEW s \in Streams, NEW lines, IsSequence(lines),
           ToSet(lines) \subseteq ToSet(b.lines[s])
    PROVE  Genuine(WithLines(b, s, lines))
BY LinesReplaced DEF Genuine, GenuineLines

LEMMA StreamDamage ==
    ASSUME NEW b, Genuine(b), NEW d \in DamagedStreams(b)
    PROVE  Genuine(d)
<1>1. PICK s \in Streams :
        \/ \E i \in DOMAIN b.lines[s] : d = WithLines(b, s, RemoveAt(b.lines[s], i))
        \/ \E i \in DOMAIN b.lines[s] : d = WithLines(b, s, InsertAt(b.lines[s], i, b.lines[s][i]))
        \/ \E i \in DOMAIN b.lines[s] : d = [b EXCEPT !.lines[s][i].whole = FALSE]
        \/ \E n \in 0..(Len(b.lines[s]) - 1) : d = WithLines(b, s, SubSeq(b.lines[s], 1, n))
        \/ d = [WithLines(b, s, <<>>) EXCEPT !.lost = @ \cup {s}]
  BY DEF DamagedStreams
<1>2. PICK q : q = b.lines[s]
  OBVIOUS
<1>3. IsSequence(q) /\ \A e \in ToSet(q) : GenuineLine(e, s)
  BY <1>2 DEF Genuine, GenuineLines
<1>4. Len(q) \in Nat /\ DOMAIN q = 1..Len(q) /\ \A i \in 1..Len(q) : q[i] \in ToSet(q)
  BY <1>3, SequenceShape
<1>5. CASE \E i \in DOMAIN q : d = WithLines(b, s, RemoveAt(q, i))
  BY <1>2, <1>3, <1>5, RemovedSequence, FewerLines
<1>6. CASE \E i \in DOMAIN q : d = WithLines(b, s, InsertAt(q, i, q[i]))
  BY <1>2, <1>3, <1>6, RepeatedSequence, FewerLines
<1>7. CASE \E i \in DOMAIN q : d = [b EXCEPT !.lines[s][i].whole = FALSE]
  <2>1. PICK i \in DOMAIN q : d = [b EXCEPT !.lines[s][i].whole = FALSE]
    BY <1>7
  <2>2. PICK e : e = [q[i] EXCEPT !.whole = FALSE]
    OBVIOUS
  <2>3. IsEvent(q[i])
    BY <1>3, <1>4 DEF GenuineLine
  <2>4. IsEvent(e) /\ e.whole = FALSE
    BY <2>2, <2>3 DEF IsEvent
  <2>5. GenuineLine(e, s)
    BY <2>4 DEF GenuineLine
  <2>6. IsSequence([q EXCEPT ![i] = e]) /\ ToSet([q EXCEPT ![i] = e]) \subseteq ToSet(q) \cup {e}
    BY <1>3, ChangedSequence
  <2>7. d = WithLines(b, s, [q EXCEPT ![i] = e])
    BY <1>2, <2>1, <2>2 DEF WithLines
  <2>8. \A x \in ToSet([q EXCEPT ![i] = e]) : GenuineLine(x, s)
    BY <1>3, <2>5, <2>6
  <2> QED BY <2>6, <2>7, <2>8, LinesReplaced
<1>8. CASE \E n \in 0..(Len(q) - 1) : d = WithLines(b, s, SubSeq(q, 1, n))
  <2>1. PICK n \in 0..(Len(q) - 1) : d = WithLines(b, s, SubSeq(q, 1, n))
    BY <1>8
  <2>2. n \in Int /\ n <= Len(q)
    BY <1>4
  <2>3. IsSequence(SubSeq(q, 1, n)) /\ ToSet(SubSeq(q, 1, n)) \subseteq ToSet(q)
    BY <1>3, <2>2, SubSequence
  <2> QED BY <1>2, <2>1, <2>3, FewerLines
<1>9. CASE d = [WithLines(b, s, <<>>) EXCEPT !.lost = @ \cup {s}]
  <2>1. PICK c : c = WithLines(b, s, <<>>)
    OBVIOUS
  <2>2. Genuine(c)
    BY <2>1, NoSequence, FewerLines
  <2>3. DOMAIN d = DOMAIN c /\ d.lines = c.lines /\ d.cuts = c.cuts /\ d.receipts = c.receipts
    BY <1>9, <2>1
  <2> QED BY <2>2, <2>3, OtherFields
<1> QED BY <1>1, <1>2, <1>5, <1>6, <1>7, <1>8, <1>9

LEMMA CutsReplaced ==
    ASSUME NEW b, Genuine(b), NEW d, DOMAIN d = DOMAIN b,
           d.lines = b.lines, d.receipts = b.receipts, IsSequence(d.cuts),
           \A c \in ToSet(d.cuts) : GenuineCut(c)
    PROVE  Genuine(d)
BY DEF Genuine, GenuineLines, GenuineCuts, GenuineReceipts

LEMMA WitnessDamage ==
    ASSUME NEW b, Genuine(b), NEW d \in DamagedWitness(b)
    PROVE  Genuine(d)
<1>1. /\ IsSequence(b.cuts) /\ \A c \in ToSet(b.cuts) : GenuineCut(c)
      /\ b.receipts \subseteq Receipts /\ \A r \in b.receipts : r.whole => r \in receipts
      /\ Fields \subseteq DOMAIN b
  BY DEF Genuine, GenuineCuts, GenuineReceipts
<1>2. \A c \in DOMAIN b.cuts : b.cuts[c] \in ToSet(b.cuts)
  BY DEF ToSet
<1>3. CASE \E c \in DOMAIN b.cuts : d = [b EXCEPT !.cuts = RemoveAt(@, c)]
  <2>1. PICK c \in DOMAIN b.cuts : d = [b EXCEPT !.cuts = RemoveAt(b.cuts, c)]
    BY <1>3
  <2>2. /\ DOMAIN d = DOMAIN b /\ d.lines = b.lines /\ d.receipts = b.receipts
        /\ d.cuts = RemoveAt(b.cuts, c)
    BY <1>1, <2>1 DEF Fields
  <2>3. IsSequence(d.cuts) /\ ToSet(d.cuts) \subseteq ToSet(b.cuts)
    BY <1>1, <2>2, RemovedSequence
  <2> QED BY <1>1, <2>2, <2>3, CutsReplaced
<1>4. CASE \E c \in DOMAIN b.cuts : d = [b EXCEPT !.cuts[c].whole = FALSE]
  <2>1. PICK c \in DOMAIN b.cuts : d = [b EXCEPT !.cuts[c].whole = FALSE]
    BY <1>4
  <2>2. PICK e : e = [b.cuts[c] EXCEPT !.whole = FALSE]
    OBVIOUS
  <2>3. b.cuts[c] \in Cuts
    BY <1>1, <1>2 DEF GenuineCut
  <2>4. GenuineCut(e)
    BY <2>2, <2>3 DEF GenuineCut, Cuts
  <2>5. /\ DOMAIN d = DOMAIN b /\ d.lines = b.lines /\ d.receipts = b.receipts
        /\ d.cuts = [b.cuts EXCEPT ![c] = e]
    BY <1>1, <2>1, <2>2 DEF Fields
  <2>6. IsSequence(d.cuts) /\ ToSet(d.cuts) \subseteq ToSet(b.cuts) \cup {e}
    BY <1>1, <2>5, ChangedSequence
  <2> QED BY <1>1, <2>4, <2>5, <2>6, CutsReplaced
<1>5. ASSUME NEW S, d = [b EXCEPT !.receipts = S], S \subseteq Receipts,
             \A r \in S : r.whole => r \in receipts
      PROVE  Genuine(d)
  <2>1. /\ DOMAIN d = DOMAIN b /\ d.lines = b.lines /\ d.cuts = b.cuts /\ d.receipts = S
    BY <1>1, <1>5 DEF Fields
  <2> QED BY <1>5, <2>1 DEF Genuine, GenuineLines, GenuineCuts, GenuineReceipts
<1>6. CASE \E r \in b.receipts : d = [b EXCEPT !.receipts = @ \ {r}]
  <2>1. PICK r \in b.receipts : d = [b EXCEPT !.receipts = b.receipts \ {r}]
    BY <1>6
  <2> QED BY <1>1, <1>5, <2>1
<1>7. CASE \E r \in b.receipts : d = [b EXCEPT !.receipts = (@ \ {r}) \cup {[r EXCEPT !.whole = FALSE]}]
  <2>1. PICK r \in b.receipts :
            d = [b EXCEPT !.receipts = (b.receipts \ {r}) \cup {[r EXCEPT !.whole = FALSE]}]
    BY <1>7
  <2>2. PICK e : e = [r EXCEPT !.whole = FALSE]
    OBVIOUS
  <2>3. e \in Receipts /\ e.whole = FALSE
    BY <1>1, <2>2 DEF Receipts
  <2>4. d = [b EXCEPT !.receipts = (b.receipts \ {r}) \cup {e}]
    BY <2>1, <2>2
  <2>5. /\ (b.receipts \ {r}) \cup {e} \subseteq Receipts
        /\ \A x \in (b.receipts \ {r}) \cup {e} : x.whole => x \in receipts
    BY <1>1, <2>3
  <2> QED BY <1>5, <2>4, <2>5
<1> QED BY <1>3, <1>4, <1>6, <1>7 DEF DamagedWitness

LEMMA RestDamage ==
    ASSUME NEW b, Genuine(b), NEW d \in DamagedRest(b)
    PROVE  Genuine(d)
<1>1. {"lines", "cuts", "receipts"} \subseteq DOMAIN b
  BY DEF Genuine, Fields
<1>2. /\ DOMAIN d = DOMAIN b
      /\ d.lines = b.lines /\ d.cuts = b.cuts /\ d.receipts = b.receipts
  <2>1. CASE \E m \in {"redated", "altered", "lost"} : d = [b EXCEPT !.manifest = m]
    BY <1>1, <2>1
  <2>2. CASE d \in {[b EXCEPT !.prompts = "altered"], [b EXCEPT !.parent = "lost"], [b EXCEPT !.stray = TRUE]}
    BY <1>1, <2>2
  <2>3. CASE d \in {[b EXCEPT !.proofs = [whole |-> TRUE, cuts |-> 0]], [b EXCEPT !.proofs.whole = FALSE]}
    BY <1>1, <2>3
  <2>4. CASE \E n \in 0..(Len(b.records) - 1) : d = [b EXCEPT !.records = SubSeq(@, 1, n)]
    BY <1>1, <2>4
  <2>5. CASE \E a \in b.attachments :
                d = [b EXCEPT !.attachments = (@ \ {a}) \cup {[a EXCEPT !.whole = FALSE]}]
    BY <1>1, <2>5
  <2> QED BY <2>1, <2>2, <2>3, <2>4, <2>5 DEF DamagedRest
<1> QED BY <1>2, OtherFields

LEMMA RollBack ==
    ASSUME NEW b, Genuine(b), NEW d \in RolledBack(b)
    PROVE  Genuine(d)
<1>1. /\ IsSequence(b.cuts) /\ \A c \in ToSet(b.cuts) : GenuineCut(c)
      /\ b.receipts \subseteq Receipts /\ \A r \in b.receipts : r.whole => r \in receipts
      /\ Fields \subseteq DOMAIN b
      /\ DOMAIN b.lines = Streams
      /\ \A s \in Streams :
            IsSequence(b.lines[s]) /\ \A e \in ToSet(b.lines[s]) : GenuineLine(e, s)
  BY DEF Genuine, GenuineCuts, GenuineReceipts, GenuineLines
<1>2. PICK c \in DOMAIN b.cuts :
        d = [b EXCEPT !.cuts = SubSeq(@, 1, c),
                      !.lines = [s \in Streams |-> SubSeq(@[s], 1, Min({Len(@[s]), b.cuts[c].sizes[s]}))],
                      !.receipts = {r \in @ : r.number < c},
                      !.records = SelectSeq(@, LAMBDA v : v.checkpoint <= c)]
  BY DEF RolledBack
<1>3. PICK lines : lines = [s \in Streams |-> SubSeq(b.lines[s], 1, Min({Len(b.lines[s]), b.cuts[c].sizes[s]}))]
  OBVIOUS
<1>4. /\ DOMAIN d = DOMAIN b
      /\ d.cuts = SubSeq(b.cuts, 1, c) /\ d.lines = lines
      /\ d.receipts = {r \in b.receipts : r.number < c}
  BY <1>1, <1>2, <1>3 DEF Fields
<1>5. Len(b.cuts) \in Nat /\ c \in 1..Len(b.cuts) /\ b.cuts[c] \in ToSet(b.cuts)
  BY <1>1, SequenceShape
<1>6. b.cuts[c].sizes \in [Streams -> Nat]
  BY <1>1, <1>5 DEF GenuineCut, Cuts
<1>7. IsSequence(d.cuts) /\ ToSet(d.cuts) \subseteq ToSet(b.cuts)
  <2>1. c \in Int /\ c <= Len(b.cuts)
    BY <1>5
  <2> QED BY <1>1, <1>4, <2>1, SubSequence
<1>8. GenuineCuts(d)
  BY <1>1, <1>7 DEF GenuineCuts
<1>9. GenuineReceipts(d)
  BY <1>1, <1>4 DEF GenuineReceipts
<1>10. GenuineLines(d)
  <2> SUFFICES ASSUME NEW s \in Streams
               PROVE  IsSequence(lines[s]) /\ \A e \in ToSet(lines[s]) : GenuineLine(e, s)
    BY <1>3, <1>4 DEF GenuineLines
  <2>1. PICK n : n = Min({Len(b.lines[s]), b.cuts[c].sizes[s]})
    OBVIOUS
  <2>2. Len(b.lines[s]) \in Nat /\ b.cuts[c].sizes[s] \in Nat
    BY <1>1, <1>6, SequenceShape
  <2>3. n \in Int /\ n <= Len(b.lines[s])
    <3>1. /\ Min({Len(b.lines[s]), b.cuts[c].sizes[s]}) \in Nat
          /\ Min({Len(b.lines[s]), b.cuts[c].sizes[s]}) <= Len(b.lines[s])
      BY ONLY <2>2, MinOfTwo
    <3>2. n \in Nat /\ n <= Len(b.lines[s])
      BY ONLY <2>1, <3>1
    <3> QED BY ONLY <3>2
  <2>4. lines[s] = SubSeq(b.lines[s], 1, n)
    BY <1>3, <2>1
  <2>5. IsSequence(lines[s]) /\ ToSet(lines[s]) \subseteq ToSet(b.lines[s])
    BY <1>1, <2>3, <2>4, SubSequence
  <2> QED BY <1>1, <2>5
<1> QED BY <1>1, <1>4, <1>8, <1>9, <1>10 DEF Genuine

LEMMA DamagedStillGenuine ==
    ASSUME NEW b, Genuine(b),
           NEW d \in DamagedStreams(b) \cup DamagedWitness(b) \cup DamagedRest(b) \cup RolledBack(b)
    PROVE  Genuine(d)
BY StreamDamage, WitnessDamage, RestDamage, RollBack

---------------------------------------------------------------------------
(* Every step *)

IsBlank(d) == Fields \subseteq DOMAIN d /\ d.lines = [s \in Streams |-> <<>>]

\* The files are left alone, or an export begins, while the store moves on and
\* the driver is at a place that asks nothing new of them.
FilesKept ==
    /\ bundles' = bundles
    /\ \/ exports' = exports
       \/ \E by \in {"run", "copy"} : \E d :
             IsBlank(d) /\ exports' = [exports EXCEPT ![by] = [at |-> "streams", draft |-> d]]
       \/ exports' = [exports EXCEPT !["copy"] = [at |-> "none", draft |-> <<>>]]
    /\ run'.at \in Exported \cup Exporting =>
          \/ run'.at = run.at
          \/ run.at \in Exported
          \/ run'.at \in Exporting /\ exports'["run"].at # "none"

\* An entry of an export, and a bundle, that stay as they are stay genuine.
ExportFits(x) ==
    /\ {"at", "draft"} \subseteq DOMAIN x
    /\ x.at \in Reading => Fields \subseteq DOMAIN x.draft /\ GenuineLines(x.draft)
    /\ x.at \in WithCuts => GenuineCuts(x.draft)
    /\ x.at \in WithReceipts => GenuineReceipts(x.draft)

LEMMA ExportGrows ==
    ASSUME Grown, NEW x, ExportFits(x) PROVE ExportFits(x)'
<1>1. GenuineReceipts(x.draft) => GenuineReceipts(x.draft)'
  BY DEF Grown, GenuineReceipts
<1> QED BY <1>1, LinesGrow, CutsGrow DEF ExportFits

LEMMA BlankFits ==
    ASSUME NEW d, IsBlank(d) PROVE ExportFits([at |-> "streams", draft |-> d])
<1>1. GenuineLines(d)
  BY NoSequence DEF IsBlank, GenuineLines, ToSet
<1> QED BY <1>1 DEF IsBlank, ExportFits, WithCuts, WithReceipts

LEMMA FilesShape ==
    ASSUME FilesInv
    PROVE  /\ DOMAIN exports = {"run", "copy"} /\ DOMAIN bundles = {"run", "copy"}
           /\ \A by \in {"run", "copy"} :
                 ExportFits(exports[by]) /\ (bundles[by] # <<>> => Genuine(bundles[by][1]))
           /\ run.at \in Exported => bundles["run"] # <<>>
           /\ run.at \in Exporting /\ exports["run"].at = "none" => bundles["run"] # <<>>
BY DEF FilesInv, ExportFits

LEMMA FilesFrom ==
    ASSUME DOMAIN exports' = {"run", "copy"}, DOMAIN bundles' = {"run", "copy"},
           \A by \in {"run", "copy"} : \E x : x = exports'[by] /\ ExportFits(x)',
           \A by \in {"run", "copy"} :
                bundles'[by] = <<>> \/ \E d : d = bundles'[by][1] /\ Genuine(d)',
           run'.at \in Exported => bundles'["run"] # <<>>,
           run'.at \in Exporting /\ exports'["run"].at = "none" => bundles'["run"] # <<>>
    PROVE  FilesInv'
<1>1. ASSUME NEW by \in {"run", "copy"}
      PROVE  /\ {"at", "draft"} \subseteq DOMAIN exports'[by]
             /\ exports'[by].at \in Reading =>
                   Fields \subseteq DOMAIN exports'[by].draft /\ GenuineLines(exports[by].draft)'
             /\ exports'[by].at \in WithCuts => GenuineCuts(exports[by].draft)'
             /\ exports'[by].at \in WithReceipts => GenuineReceipts(exports[by].draft)'
  <2>1. PICK x : x = exports'[by] /\ ExportFits(x)'
    OBVIOUS
  <2>2. /\ {"at", "draft"} \subseteq DOMAIN x
        /\ x.at \in Reading => Fields \subseteq DOMAIN x.draft /\ GenuineLines(x.draft)'
        /\ x.at \in WithCuts => GenuineCuts(x.draft)'
        /\ x.at \in WithReceipts => GenuineReceipts(x.draft)'
    BY <2>1 DEF ExportFits
  <2>3. GenuineLines(x.draft)' => GenuineLines(exports[by].draft)'
    BY <2>1 DEF GenuineLines, GenuineLine
  <2>4. GenuineCuts(x.draft)' => GenuineCuts(exports[by].draft)'
    BY <2>1 DEF GenuineCuts, GenuineCut
  <2>5. GenuineReceipts(x.draft)' => GenuineReceipts(exports[by].draft)'
    BY <2>1 DEF GenuineReceipts
  <2> QED BY <2>1, <2>2, <2>3, <2>4, <2>5
<1>2. ASSUME NEW by \in {"run", "copy"}, bundles'[by] # <<>>
      PROVE  Genuine(bundles[by][1])'
  <2>1. PICK d : d = bundles'[by][1] /\ Genuine(d)'
    BY <1>2
  <2> QED BY <2>1 DEF Genuine, GenuineLines, GenuineLine, GenuineCuts, GenuineCut, GenuineReceipts
<1> QED BY <1>1, <1>2 DEF FilesInv

LEMMA FilesKeptStep ==
    ASSUME FilesInv, Grown, FilesKept
    PROVE  FilesInv'
<1> DEFINE By == {"run", "copy"}
<1>1. /\ DOMAIN exports = By /\ DOMAIN bundles = By
      /\ \A by \in By : ExportFits(exports[by]) /\ (bundles[by] # <<>> => Genuine(bundles[by][1]))
      /\ run.at \in Exported => bundles["run"] # <<>>
      /\ run.at \in Exporting /\ exports["run"].at = "none" => bundles["run"] # <<>>
  BY FilesShape
<1>2. /\ DOMAIN exports' = By
      /\ \A by \in By :
          \/ exports'[by] = exports[by]
          \/ \E d : IsBlank(d) /\ exports'[by] = [at |-> "streams", draft |-> d]
          \/ exports'[by] = [at |-> "none", draft |-> <<>>] /\ by = "copy"
  BY <1>1 DEF FilesKept
<1>3. ASSUME NEW by \in By
      PROVE  \E x : x = exports'[by] /\ ExportFits(x)'
  <2>1. CASE exports'[by] = exports[by]
    <3>1. PICK x : x = exports[by]
      OBVIOUS
    <3>2. ExportFits(x)'
      BY <1>1, <3>1, ExportGrows
    <3> QED BY <2>1, <3>1, <3>2
  <2>2. CASE \E d : IsBlank(d) /\ exports'[by] = [at |-> "streams", draft |-> d]
    <3>1. PICK d : IsBlank(d) /\ exports'[by] = [at |-> "streams", draft |-> d]
      BY <2>2
    <3>2. PICK x : x = [at |-> "streams", draft |-> d]
      OBVIOUS
    <3>3. ExportFits(x)'
      BY <3>1, <3>2, BlankFits, ExportGrows
    <3> QED BY <3>1, <3>2, <3>3
  <2>3. CASE exports'[by] = [at |-> "none", draft |-> <<>>]
    <3>1. PICK x : x = [at |-> "none", draft |-> <<>>]
      OBVIOUS
    <3>2. ExportFits(x)'
      BY <3>1 DEF ExportFits, Reading, WithCuts, WithReceipts
    <3> QED BY <2>3, <3>1, <3>2
  <2> QED BY <1>2, <2>1, <2>2, <2>3
<1>4. bundles' = bundles
  BY DEF FilesKept
<1>5. ASSUME NEW by \in By
      PROVE  bundles'[by] = <<>> \/ \E d : d = bundles'[by][1] /\ Genuine(d)'
  <2>1. CASE bundles[by] = <<>>
    BY <1>4, <2>1
  <2>2. CASE bundles[by] # <<>>
    <3>1. PICK d : d = bundles[by][1]
      OBVIOUS
    <3>2. Genuine(d)'
      BY <1>1, <2>2, <3>1, FileGrows
    <3> QED BY <1>4, <3>1, <3>2
  <2> QED BY <2>1, <2>2
<1>6. exports'["run"].at = "none" => exports["run"].at = "none"
  BY <1>2
<1>7. /\ run'.at \in Exported => bundles'["run"] # <<>>
      /\ run'.at \in Exporting /\ exports'["run"].at = "none" => bundles'["run"] # <<>>
  <2>1. CASE run'.at \in Exported \cup Exporting
    BY <1>1, <1>4, <1>6, <2>1 DEF FilesKept, Exported, Exporting
  <2> QED BY <2>1
<1> QED BY <1>1, <1>2, <1>3, <1>4, <1>5, <1>7, FilesFrom

\* A bundle is written: a whole export, or a file of the run's own.
LEMMA FilesWrittenStep ==
    ASSUME FilesInv, Grown, NEW by \in {"run", "copy"}, NEW d, Genuine(d)',
           bundles' = [bundles EXCEPT ![by] = <<d>>],
           \/ exports' = exports
           \/ exports' = [exports EXCEPT ![by] = [at |-> "none", draft |-> <<>>]],
           by = "run" \/ run'.at = run.at
    PROVE  FilesInv'
<1> DEFINE By == {"run", "copy"}
<1>1. /\ DOMAIN exports = By /\ DOMAIN bundles = By
      /\ \A x \in By : ExportFits(exports[x]) /\ (bundles[x] # <<>> => Genuine(bundles[x][1]))
      /\ run.at \in Exported => bundles["run"] # <<>>
      /\ run.at \in Exporting /\ exports["run"].at = "none" => bundles["run"] # <<>>
  BY FilesShape
<1>2. /\ DOMAIN exports' = By /\ DOMAIN bundles' = By
      /\ bundles'[by] = <<d>> /\ \A x \in By \ {by} : bundles'[x] = bundles[x] /\ exports'[x] = exports[x]
      /\ exports'[by] \in {exports[by], [at |-> "none", draft |-> <<>>]}
  BY <1>1
<1>3. <<d>> # <<>> /\ <<d>>[1] = d
  OBVIOUS
<1>4. ASSUME NEW o \in By
      PROVE  \E x : x = exports'[o] /\ ExportFits(x)'
  <2>1. CASE exports'[o] = exports[o]
    <3>1. PICK x : x = exports[o]
      OBVIOUS
    <3>2. ExportFits(x)'
      BY <1>1, <3>1, ExportGrows
    <3> QED BY <2>1, <3>1, <3>2
  <2>2. CASE exports'[o] = [at |-> "none", draft |-> <<>>]
    <3>1. PICK x : x = exports'[o]
      OBVIOUS
    <3>2. ExportFits(x)'
      BY <2>2, <3>1 DEF ExportFits, Reading, WithCuts, WithReceipts
    <3> QED BY <3>1, <3>2
  <2> QED BY <1>2, <2>1, <2>2
<1>5. ASSUME NEW o \in By
      PROVE  bundles'[o] = <<>> \/ \E x : x = bundles'[o][1] /\ Genuine(x)'
  <2>1. CASE o = by
    BY <1>2, <1>3, <2>1
  <2>2. CASE o # by /\ bundles[o] # <<>>
    <3>1. PICK x : x = bundles[o][1]
      OBVIOUS
    <3>2. Genuine(x)'
      BY <1>1, <2>2, <3>1, FileGrows
    <3> QED BY <1>2, <2>2, <3>1, <3>2
  <2>3. CASE o # by /\ bundles[o] = <<>>
    BY <1>2, <2>3
  <2> QED BY <2>1, <2>2, <2>3
<1>6. /\ run'.at \in Exported => bundles'["run"] # <<>>
      /\ run'.at \in Exporting /\ exports'["run"].at = "none" => bundles'["run"] # <<>>
  <2>1. CASE by = "run"
    BY <1>2, <1>3, <2>1
  <2>2. CASE by # "run" /\ run'.at = run.at
    BY <1>1, <1>2, <2>2
  <2> QED BY <2>1, <2>2
<1> QED BY <1>2, <1>4, <1>5, <1>6, FilesFrom

\* A step of an export: what it has read is what the store holds.
LEMMA FilesReadStep ==
    ASSUME FilesInv, Grown, NEW by \in {"run", "copy"}, NEW x, ExportFits(x)', x.at # "none",
           bundles' = bundles, exports' = [exports EXCEPT ![by] = x], run' = run
    PROVE  FilesInv'
<1> DEFINE By == {"run", "copy"}
<1>1. /\ DOMAIN exports = By /\ DOMAIN bundles = By
      /\ \A o \in By : ExportFits(exports[o]) /\ (bundles[o] # <<>> => Genuine(bundles[o][1]))
      /\ run.at \in Exported => bundles["run"] # <<>>
      /\ run.at \in Exporting /\ exports["run"].at = "none" => bundles["run"] # <<>>
  BY FilesShape
<1>2. /\ DOMAIN exports' = By
      /\ exports'[by] = x /\ \A o \in By \ {by} : exports'[o] = exports[o]
  BY <1>1
<1>3. ASSUME NEW o \in By
      PROVE  \E y : y = exports'[o] /\ ExportFits(y)'
  <2>1. CASE o = by
    BY <1>2, <2>1
  <2>2. CASE o # by
    <3>1. PICK y : y = exports[o]
      OBVIOUS
    <3>2. ExportFits(y)'
      BY <1>1, <3>1, ExportGrows
    <3> QED BY <1>2, <2>2, <3>1, <3>2
  <2> QED BY <2>1, <2>2
<1>4. ASSUME NEW o \in By
      PROVE  bundles'[o] = <<>> \/ \E d : d = bundles'[o][1] /\ Genuine(d)'
  <2>1. CASE bundles[o] # <<>>
    <3>1. PICK d : d = bundles[o][1]
      OBVIOUS
    <3>2. Genuine(d)'
      BY <1>1, <2>1, <3>1, FileGrows
    <3> QED BY <3>1, <3>2
  <2> QED BY <2>1
<1>5. exports'["run"].at = "none" => exports["run"].at = "none"
  BY <1>2
<1> QED BY <1>1, <1>2, <1>3, <1>4, <1>5, FilesFrom

\* The calls move on: what they name is there.
CallsMove ==
    /\ DOMAIN run' = DOMAIN run
    /\ \/ run'.final = run.final
       \/ run'.final \in 1..Len(cuts')
    /\ run'.at \in SealPlaces => run.at \in SealPlaces \/ run'.final # 0
    /\ {"at", "checkpoint"} \subseteq DOMAIN note'
    /\ \/ note'.checkpoint = note.checkpoint
       \/ note'.checkpoint \in 0..Len(cuts')

LEMMA CallsStep ==
    ASSUME CallsInv, Grown, CallsMove PROVE CallsInv'
<1>1. /\ Len(cuts) \in Nat /\ Len(cuts') \in Nat /\ Len(cuts) <= Len(cuts')
      /\ run.final \in 0..Len(cuts) /\ note.checkpoint \in 0..Len(cuts)
      /\ run.at \in SealPlaces => run.final # 0
  BY DEF Grown, CallsInv
<1>2. run'.final \in 0..Len(cuts') /\ note'.checkpoint \in 0..Len(cuts')
  BY <1>1 DEF CallsMove
<1>3. run'.at \in SealPlaces => run'.final # 0
  <2>1. run'.final = run.final \/ run'.final # 0
    BY <1>1 DEF CallsMove
  <2> QED BY <1>1, <2>1 DEF CallsMove
<1> QED BY <1>2, <1>3 DEF CallsMove, CallsInv

Steps == StoreMove /\ CallsMove /\ FilesKept

LEMMA StepsKeep ==
    ASSUME BundleInv, Steps PROVE BundleInv'
<1>1. StoreInv' /\ Grown
  BY StoreStep DEF BundleInv, Steps
<1> QED BY <1>1, CallsStep, FilesKeptStep DEF BundleInv, Steps

\* Events are written, and nothing else that lasts.
LEMMA LogStep ==
    ASSUME BundleInv, Extends(log, log'),
           UNCHANGED <<cuts, receipts, records, run, exports, bundles>>,
           note' = note \/ \E at : note' = [note EXCEPT !.at = at]
    PROVE  Steps
<1>1. StoreMove
  BY DEF StoreMove
<1>2. {"at", "checkpoint"} \subseteq DOMAIN note
  BY DEF BundleInv, CallsInv
<1>3. {"at", "checkpoint"} \subseteq DOMAIN note' /\ note'.checkpoint = note.checkpoint
  <2>1. CASE note' = note
    BY <1>2, <2>1
  <2>2. CASE \E at : note' = [note EXCEPT !.at = at]
    BY <1>2, <2>2
  <2> QED BY <2>1, <2>2
<1>4. CallsMove
  BY <1>3 DEF CallsMove
<1>5. FilesKept
  BY DEF FilesKept
<1> QED BY <1>1, <1>4, <1>5 DEF Steps

LEMMA NothingWritten ==
    ASSUME BundleInv, UNCHANGED <<log, cuts, receipts, records, run, note, exports, bundles>>
    PROVE  Steps
<1>1. IsLog(log)
  BY DEF BundleInv, StoreInv
<1>2. Extends(log, log')
  BY <1>1, ExtendsItself
<1> QED BY <1>2, LogStep

LEMMA LedgersAreStreams ==
    ASSUME NEW n
    PROVE  LedgerOfSender(n) \in Streams /\ LedgerOfReceiver(n) \in Streams
<1>1. LedgerOfSender(n) \in {"baby-a-ledger", "baby-b-ledger"}
  BY DEF LedgerOfSender
<1>2. \E l \in Ledgers : l # LedgerOfSender(n)
  BY <1>1 DEF Ledgers
<1>3. LedgerOfReceiver(n) \in Ledgers
  BY <1>2 DEF LedgerOfReceiver
<1> QED BY <1>1, <1>3 DEF Ledgers, Streams

LEMMA TurnLogs ==
    ASSUME BundleInv,
           \/ SenderAccepted \/ SenderRejected \/ RecordProbe \/ Interpret
           \/ InterpretationRejected \/ DeadlineExceeded \/ Attest
    PROVE  Steps
<1>1. IsLog(log)
  BY DEF BundleInv, StoreInv
<1>2. {"channel", "intervention", "turns"} \subseteq Streams
  BY DEF Streams
<1>3. \A k : IsLog(Put(log, "channel", Event("rejected", run.turn, 0)))
             /\ Extends(log, Put(log, "channel", Event("rejected", run.turn, 0)))
  BY <1>1, <1>2, PutEvent
<1>4. Extends(log, log')
  <2>1. CASE SenderAccepted
    <3>1. PICK s : s = LedgerOfSender(run.turn)
      OBVIOUS
    <3>2. PICK k : k = Put(log, s, Event("intention", run.turn, 0))
      OBVIOUS
    <3>3. IsLog(k) /\ Extends(log, k)
      BY <1>1, <3>1, <3>2, LedgersAreStreams, PutEvent
    <3>4. log' = Put(k, "channel", Event("accepted", run.turn, Len(k[s])))
      BY <2>1, <3>1, <3>2 DEF SenderAccepted, Write
    <3>5. Extends(k, log')
      BY <1>2, <3>3, <3>4, PutEvent
    <3> QED BY <1>1, <3>3, <3>5, ExtendsOn
  <2>2. CASE SenderRejected \/ InterpretationRejected \/ DeadlineExceeded
    BY <1>3, <2>2 DEF SenderRejected, InterpretationRejected, DeadlineExceeded, Write, Rejected
  <2>3. CASE RecordProbe
    <3>1. PICK applied : log' = Put(log, "intervention",
                Event(IF applied THEN "probe-applied" ELSE "probe-skipped", run.turn, 0))
      BY <2>3 DEF RecordProbe, Write
    <3> QED BY <1>1, <1>2, <3>1, PutEvent
  <2>4. CASE Interpret
    <3>1. log' = Put(log, LedgerOfReceiver(run.turn), Event("interpretation", run.turn, turn.event))
      BY <2>4 DEF Interpret, Write
    <3> QED BY <1>1, <3>1, LedgersAreStreams, PutEvent
  <2>5. CASE Attest
    <3>1. \E kind : log' = Audit(kind)
      BY <2>5 DEF Attest, Write
    <3> QED BY <1>1, <3>1, AuditExtends
  <2> QED BY <2>1, <2>2, <2>3, <2>4, <2>5
<1>5. UNCHANGED <<cuts, receipts, records, run, note, exports, bundles>>
  BY DEF SenderAccepted, SenderRejected, RecordProbe, Interpret, InterpretationRejected,
         DeadlineExceeded, Attest
<1> QED BY <1>4, <1>5, LogStep

LEMMA TurnWaits ==
    ASSUME BundleInv, BeginTurn \/ Act \/ OutcomeTold \/ AdapterFails
    PROVE  Steps
<1>1. UNCHANGED <<log, cuts, receipts, records, run, note, exports, bundles>>
  BY DEF BeginTurn, Act, OutcomeTold, AdapterFails, evidence
<1> QED BY <1>1, NothingWritten

\* The driver goes on within its turns, or to the first place of the seal.
LEMMA DriverStep ==
    ASSUME BundleInv, Extends(log, log'),
           cuts' = cuts \/ cuts' = Append(cuts, CutOf(log')),
           DOMAIN run' = DOMAIN run, run'.final = run.final,
           run'.at = run.at \/ run'.at \notin SealPlaces,
           UNCHANGED <<receipts, records, note, bundles>>,
           \/ exports' = exports
           \/ exports' = [exports EXCEPT !["copy"] = [at |-> "none", draft |-> <<>>]]
    PROVE  Steps
<1>1. StoreMove
  BY DEF StoreMove
<1>2. {"at", "checkpoint"} \subseteq DOMAIN note
  BY DEF BundleInv, CallsInv
<1>3. CallsMove
  BY <1>2 DEF CallsMove
<1>4. FilesKept
  BY DEF FilesKept, SealPlaces, Exported, Exporting
<1> QED BY <1>1, <1>3, <1>4 DEF Steps

LEMMA StageShape ==
    ASSUME NEW r, {"at", "phase"} \subseteq DOMAIN r, "final" \in DOMAIN r, NEW l, IsLog(l)
    PROVE  /\ DOMAIN StageOf(r, l).run = DOMAIN r /\ StageOf(r, l).run.final = r.final
           /\ StageOf(r, l).run.at \in {r.at, "seal"}
           /\ Extends(l, StageOf(r, l).log)
<1>1. CASE r.phase = "running" /\ r.training >= Training /\ r.repair = 0
  <2>1. PICK k : k = IF setting.interventions = "probes"
                     THEN Put(l, "intervention", Event("probe-schedule", 0, 0)) ELSE l
    OBVIOUS
  <2>2. "intervention" \in Streams
    BY DEF Streams
  <2>3. Extends(l, l) /\ IsLog(Put(l, "intervention", Event("probe-schedule", 0, 0)))
        /\ Extends(l, Put(l, "intervention", Event("probe-schedule", 0, 0)))
    BY <2>2, PutEvent, ExtendsItself
  <2>4. IsLog(k) /\ Extends(l, k)
    BY <2>1, <2>3
  <2>5. StageOf(r, l) = [run |-> [r EXCEPT !.phase = "evaluating"],
                         log |-> PutBoth(k, "policy.checkpointed"), cut |-> TRUE]
    BY <1>1, <2>1 DEF StageOf
  <2>6. Extends(k, PutBoth(k, "policy.checkpointed"))
    BY <2>4, PutBothExtends
  <2>7. Extends(l, StageOf(r, l).log)
    BY <2>4, <2>5, <2>6, ExtendsOn
  <2> QED BY <2>5, <2>7
<1>2. CASE /\ ~(r.phase = "running" /\ r.training >= Training /\ r.repair = 0)
           /\ r.phase = "evaluating" /\ r.evaluation >= Evaluation /\ r.repair = 0
  <2>1. StageOf(r, l) = [run |-> [r EXCEPT !.at = "seal"], log |-> l, cut |-> FALSE]
    BY <1>2 DEF StageOf
  <2> QED BY <2>1, ExtendsItself
<1>3. CASE /\ ~(r.phase = "running" /\ r.training >= Training /\ r.repair = 0)
           /\ ~(r.phase = "evaluating" /\ r.evaluation >= Evaluation /\ r.repair = 0)
  <2>1. StageOf(r, l) = [run |-> r, log |-> l, cut |-> FALSE]
    BY <1>3 DEF StageOf
  <2> QED BY <2>1, ExtendsItself
<1> QED BY <1>1, <1>2, <1>3

LEMMA RunShape ==
    ASSUME BundleInv
    PROVE  /\ IsLog(log) /\ Extends(log, log)
           /\ {"at", "phase"} \subseteq DOMAIN run /\ "final" \in DOMAIN run
           /\ "repair" \in DOMAIN run /\ "paused" \in DOMAIN run
           /\ DOMAIN exports = {"run", "copy"}
BY ExtendsItself DEF BundleInv, StoreInv, CallsInv, FilesInv

LEMMA TurnRecorded ==
    ASSUME BundleInv, RecordTurn \/ ScheduleRepair PROVE Steps
<1>1. /\ IsLog(log) /\ {"at", "phase"} \subseteq DOMAIN run
      /\ {"turns", "intervention"} \subseteq Streams
  BY RunShape DEF Streams
<1>2. Extends(log, log')
  <2>1. CASE RecordTurn
    <3>1. IsEvent(TurnRecord) /\ TurnRecord.whole
      BY DEF IsEvent, TurnRecord
    <3>2. log' = Put(log, "turns", TurnRecord)
      BY <2>1 DEF RecordTurn, Write
    <3> QED BY <1>1, <3>1, <3>2, PutExtends
  <2>2. CASE ScheduleRepair
    <3>1. log' = Put(log, "intervention", Event("repair-turn", run.turn, run.turn))
      BY <2>2 DEF ScheduleRepair, Write
    <3> QED BY <1>1, <3>1, PutEvent
  <2> QED BY <2>1, <2>2
<1>3. DOMAIN run' = DOMAIN run /\ run'.final = run.final /\ run'.at = run.at
  <2>1. CASE RecordTurn
    BY <1>1, <2>1 DEF RecordTurn
  <2>2. CASE ScheduleRepair
    BY <1>1, <2>2 DEF ScheduleRepair
  <2> QED BY <2>1, <2>2
<1>4. UNCHANGED <<cuts, receipts, records, note, exports, bundles>>
  BY DEF RecordTurn, ScheduleRepair
<1> QED BY <1>2, <1>3, <1>4, DriverStep

LEMMA TurnEnds ==
    ASSUME BundleInv, EndTurn PROVE Steps
<1>1. /\ IsLog(log) /\ {"at", "phase"} \subseteq DOMAIN run /\ "final" \in DOMAIN run
  BY RunShape
<1>2. UNCHANGED <<receipts, records, note, exports, bundles>>
  BY DEF EndTurn
<1>3. CASE turn.pauses
  <2>1. run' = [run EXCEPT !.paused = TRUE] /\ log' = Audit("pause") /\ cuts' = Append(cuts, CutOf(log'))
    BY <1>3 DEF EndTurn, WriteAndCut
  <2>2. DOMAIN run' = DOMAIN run /\ run'.final = run.final /\ run'.at = run.at
    BY <1>1, <2>1
  <2>3. Extends(log, log')
    BY <1>1, <2>1, AuditExtends
  <2> QED BY <1>2, <2>1, <2>2, <2>3, DriverStep
<1>4. CASE ~turn.pauses
  <2>1. PICK next : next = StageOf(run, log)
    OBVIOUS
  <2>2. run' = next.run /\ log' = next.log /\ (cuts' = cuts \/ cuts' = Append(cuts, CutOf(log')))
    BY <1>4, <2>1 DEF EndTurn, WriteAndCut, Write
  <2>3. /\ DOMAIN next.run = DOMAIN run /\ next.run.final = run.final
        /\ next.run.at \in {run.at, "seal"} /\ Extends(log, next.log)
    BY <1>1, <2>1, StageShape
  <2>4. run'.at = run.at \/ run'.at \notin SealPlaces
    BY <2>2, <2>3 DEF SealPlaces
  <2> QED BY <1>2, <2>2, <2>3, <2>4, DriverStep
<1> QED BY <1>3, <1>4

\* A resumed or a recovered run goes to its next stage at once.
LEMMA StageStep ==
    ASSUME BundleInv, NEW kind, NEW r, DOMAIN r = DOMAIN run, r.final = run.final, r.at = run.at,
           run' = StageOf(r, Audit(kind)).run, log' = StageOf(r, Audit(kind)).log,
           cuts' = Append(cuts, CutOf(log')),
           UNCHANGED <<receipts, records, note, bundles>>,
           \/ exports' = exports
           \/ exports' = [exports EXCEPT !["copy"] = [at |-> "none", draft |-> <<>>]]
    PROVE  Steps
<1>1. IsLog(log) /\ {"at", "phase"} \subseteq DOMAIN r /\ "final" \in DOMAIN r
  BY RunShape
<1>2. IsLog(Audit(kind)) /\ Extends(log, Audit(kind))
  BY <1>1, AuditExtends
<1>3. /\ DOMAIN run' = DOMAIN run /\ run'.final = run.final /\ run'.at \in {run.at, "seal"}
      /\ Extends(Audit(kind), log')
  BY <1>1, <1>2, StageShape
<1>4. Extends(log, log')
  BY <1>1, <1>2, <1>3, ExtendsOn
<1>5. run'.at = run.at \/ run'.at \notin SealPlaces
  BY <1>3 DEF SealPlaces
<1> QED BY <1>3, <1>4, <1>5, DriverStep

LEMMA RunResumes ==
    ASSUME BundleInv, Resume PROVE Steps
<1>1. {"at", "phase"} \subseteq DOMAIN run /\ "final" \in DOMAIN run
  BY RunShape
<1>2. PICK r : r = [run EXCEPT !.paused = FALSE]
  OBVIOUS
<1>3. DOMAIN r = DOMAIN run /\ r.final = run.final /\ r.at = run.at
  BY <1>1, <1>2
<1>4. /\ run' = StageOf(r, Audit("resume")).run /\ log' = StageOf(r, Audit("resume")).log
      /\ cuts' = Append(cuts, CutOf(log')) /\ UNCHANGED <<receipts, records, note, exports, bundles>>
  BY <1>2 DEF Resume, WriteAndCut
<1> QED BY <1>3, <1>4, StageStep

LEMMA RunCrashes ==
    ASSUME BundleInv, Crash PROVE Steps
<1>1. /\ {"at", "phase"} \subseteq DOMAIN run /\ "final" \in DOMAIN run
      /\ IsLog(log) /\ Extends(log, log)
  BY RunShape
<1>2. /\ UNCHANGED <<receipts, records, note, bundles>>
      /\ exports' = [exports EXCEPT !["copy"] = [at |-> "none", draft |-> <<>>]]
  BY DEF Crash
<1>3. CASE Incomplete # {}
  <2>1. run' = [run EXCEPT !.at = "incomplete"] /\ UNCHANGED <<log, cuts>>
    BY <1>3 DEF Crash
  <2>2. DOMAIN run' = DOMAIN run /\ run'.final = run.final /\ run'.at \notin SealPlaces
    BY <1>1, <2>1 DEF SealPlaces
  <2>3. Extends(log, log')
    BY <1>1, <2>1
  <2> QED BY <1>2, <2>1, <2>2, <2>3, DriverStep
<1>4. CASE ~(Incomplete # {})
  <2>1. PICK r : r = [run EXCEPT !.repair = Max({0} \cup OpenRepairs)]
    OBVIOUS
  <2>2. DOMAIN r = DOMAIN run /\ r.final = run.final /\ r.at = run.at
    BY <1>1, <2>1
  <2>3. /\ run' = StageOf(r, Audit("recovery")).run /\ log' = StageOf(r, Audit("recovery")).log
        /\ cuts' = Append(cuts, CutOf(log'))
    BY <1>4, <2>1 DEF Crash, WriteAndCut
  <2> QED BY <1>2, <2>2, <2>3, StageStep
<1> QED BY <1>3, <1>4

LEMMA OperatorsLog ==
    ASSUME BundleInv, HumanView \/ Annotate \/ AnnotateCheck PROVE Steps
<1>1. IsLog(log) /\ Extends(log, log)
  BY RunShape
<1>2. Extends(log, log')
  <2>1. CASE HumanView \/ Annotate
    <3>1. \E kind : log' = Audit(kind)
      BY <2>1 DEF HumanView, Annotate, Write
    <3> QED BY <1>1, <3>1, AuditExtends
  <2>2. CASE AnnotateCheck
    BY <1>1, <2>2 DEF AnnotateCheck, evidence
  <2> QED BY <2>1, <2>2
<1>3. UNCHANGED <<cuts, receipts, records, run, exports, bundles>>
  BY DEF HumanView, Annotate, AnnotateCheck, evidence
<1>4. note' = note \/ \E at : note' = [note EXCEPT !.at = at]
  BY DEF HumanView, Annotate, AnnotateCheck
<1> QED BY <1>2, <1>3, <1>4, LogStep

LEMMA OperatorsCut ==
    ASSUME BundleInv, AnnotateCut \/ AttachAnalysis PROVE Steps
<1>1. IsLog(log) /\ Extends(log, log) /\ cuts \in Seq(Cuts) /\ Len(cuts) \in Nat
  BY RunShape DEF BundleInv, StoreInv
<1>2. {"at", "checkpoint"} \subseteq DOMAIN note
  BY DEF BundleInv, CallsInv
<1>3. Extends(log, log') /\ cuts' = Append(cuts, CutOf(log'))
  <2>1. CASE AnnotateCut
    BY <1>1, <2>1 DEF AnnotateCut
  <2>2. CASE AttachAnalysis
    <3>1. log' = Audit("analysis-attached") /\ cuts' = Append(cuts, CutOf(log'))
      BY <2>2 DEF AttachAnalysis, WriteAndCut
    <3> QED BY <1>1, <3>1, AuditExtends
  <2> QED BY <2>1, <2>2
<1>4. UNCHANGED <<receipts, records, run, exports, bundles>>
  BY DEF AnnotateCut, AttachAnalysis
<1>5. Len(cuts') = Len(cuts) + 1
  <2>1. IsSequence(cuts)
    BY <1>1, SequenceOf
  <2> QED BY <1>3, <2>1, AppendSequence
<1>6. /\ {"at", "checkpoint"} \subseteq DOMAIN note'
      /\ \/ note'.checkpoint = note.checkpoint
         \/ note'.checkpoint \in 0..Len(cuts')
  <2>1. CASE AnnotateCut
    <3>1. note' = [at |-> "record", checkpoint |-> Len(cuts) + 1]
      BY <2>1 DEF AnnotateCut
    <3>2. {"at", "checkpoint"} \subseteq DOMAIN note' /\ note'.checkpoint = Len(cuts) + 1
      BY <3>1
    <3> QED BY <1>1, <1>5, <3>2
  <2>2. CASE AttachAnalysis
    BY <1>2, <2>2 DEF AttachAnalysis
  <2> QED BY <2>1, <2>2
<1>7. StoreMove
  BY <1>3, <1>4 DEF StoreMove
<1>8. CallsMove
  BY <1>4, <1>6 DEF CallsMove
<1>9. FilesKept
  BY <1>4 DEF FilesKept
<1> QED BY <1>7, <1>8, <1>9 DEF Steps

LEMMA OperatorsRecord ==
    ASSUME BundleInv, AnnotateRecord PROVE Steps
<1>1. IsLog(log) /\ Extends(log, log)
  BY RunShape
<1>2. {"at", "checkpoint"} \subseteq DOMAIN note /\ note.checkpoint \in 0..Len(cuts) /\ Len(cuts) \in Nat
  BY DEF BundleInv, CallsInv, StoreInv
<1>3. PICK v : v = Version("invalid", note.checkpoint, FALSE, log)
  OBVIOUS
<1>4. records' = Append(records, v) /\ UNCHANGED <<log, cuts, receipts, run, exports, bundles>>
  BY <1>3 DEF AnnotateRecord
<1>5. v.checkpoint = note.checkpoint
  BY <1>3 DEF Version
<1>6. note' = [at |-> "none", checkpoint |-> 0]
  BY DEF AnnotateRecord
<1>7. {"at", "checkpoint"} \subseteq DOMAIN note' /\ note'.checkpoint \in 0..Len(cuts')
  BY <1>2, <1>4, <1>6
<1>8. StoreMove
  BY <1>1, <1>2, <1>4, <1>5 DEF StoreMove
<1>9. CallsMove
  BY <1>4, <1>7 DEF CallsMove
<1>10. FilesKept
  BY <1>4 DEF FilesKept
<1> QED BY <1>8, <1>9, <1>10 DEF Steps

LEMMA SealShape ==
    ASSUME BundleInv
    PROVE  /\ {"at", "final", "aborted", "anchored", "exit"} \subseteq DOMAIN run
           /\ {"at", "checkpoint"} \subseteq DOMAIN note
           /\ IsLog(log) /\ Extends(log, log)
           /\ DOMAIN exports = {"run", "copy"} /\ DOMAIN bundles = {"run", "copy"}
           /\ Len(cuts) \in Nat /\ DOMAIN cuts = 1..Len(cuts) /\ run.final \in 0..Len(cuts)
           /\ run.at \in SealPlaces => run.final # 0
BY ExtendsItself DEF BundleInv, StoreInv, CallsInv, FilesInv

LEMMA SealBegins ==
    ASSUME BundleInv, SealPolicies \/ RunSealed PROVE Steps
<1>1. {"at", "final"} \subseteq DOMAIN run /\ IsLog(log)
  BY SealShape
<1>2. \E kind : log' = PutBoth(log, kind)
  BY DEF SealPolicies, RunSealed, WriteAndCut, Write
<1>3. Extends(log, log')
  BY <1>1, <1>2, PutBothExtends
<1>4. \E at \in {"run.sealed", "final"} : run' = [run EXCEPT !.at = at]
  BY DEF SealPolicies, RunSealed
<1>5. DOMAIN run' = DOMAIN run /\ run'.final = run.final /\ run'.at \notin SealPlaces
  BY <1>1, <1>4 DEF SealPlaces
<1>6. /\ UNCHANGED <<receipts, records, note, exports, bundles>>
      /\ cuts' = cuts \/ cuts' = Append(cuts, CutOf(log'))
  BY DEF SealPolicies, RunSealed, WriteAndCut, Write
<1> QED BY <1>3, <1>5, <1>6, DriverStep

\* The final checkpoint of a sealed or aborted run.
LEMMA FinalIsCut ==
    ASSUME BundleInv, FinalCut \/ Abort PROVE Steps
<1>1. /\ {"at", "final", "aborted"} \subseteq DOMAIN run /\ IsLog(log) /\ Extends(log, log)
      /\ {"at", "checkpoint"} \subseteq DOMAIN note /\ Len(cuts) \in Nat
  BY SealShape
<1>2. Extends(log, log') /\ cuts' = Append(cuts, CutOf(log'))
  <2>1. CASE FinalCut
    BY <1>1, <2>1 DEF FinalCut, WriteAndCut
  <2>2. CASE Abort
    <3>1. log' = PutBoth(Audit("abort"), "run.sealed") /\ cuts' = Append(cuts, CutOf(log'))
      BY <2>2 DEF Abort
    <3>2. IsLog(Audit("abort")) /\ Extends(log, Audit("abort"))
      BY <1>1, AuditExtends
    <3>3. Extends(Audit("abort"), log')
      BY <3>1, <3>2, PutBothExtends
    <3> QED BY <1>1, <3>1, <3>2, <3>3, ExtendsOn
  <2> QED BY <2>1, <2>2
<1>3. Len(cuts') = Len(cuts) + 1
  <2>1. IsSequence(cuts)
    BY SequenceOf DEF BundleInv, StoreInv
  <2> QED BY <1>2, <2>1, AppendSequence
<1>4. /\ DOMAIN run' = DOMAIN run /\ run'.final = Len(cuts) + 1
      /\ run'.at \in {"anchor", "abort-anchor"}
  <2>1. CASE FinalCut
    BY <1>1, <2>1 DEF FinalCut
  <2>2. CASE Abort
    BY <1>1, <2>2 DEF Abort
  <2> QED BY <2>1, <2>2
<1>5. UNCHANGED <<receipts, records, note, exports, bundles>>
  BY DEF FinalCut, Abort
<1>6. run'.final \in 1..Len(cuts') /\ run'.final # 0
  BY <1>1, <1>3, <1>4
<1>7. StoreMove
  BY <1>2, <1>5 DEF StoreMove
<1>8. CallsMove
  BY <1>1, <1>4, <1>5, <1>6 DEF CallsMove
<1>9. FilesKept
  BY <1>4, <1>5 DEF FilesKept, Exported, Exporting
<1> QED BY <1>7, <1>8, <1>9 DEF Steps

LEMMA ReceiptIsOfFinal ==
    ASSUME BundleInv, run.at \in SealPlaces, NEW status \in {"confirmed", "failed"}
    PROVE  Receipt(status) \in Receipts /\ Receipt(status).number + 1 \in DOMAIN cuts
<1>1. Len(cuts) \in Nat /\ DOMAIN cuts = 1..Len(cuts) /\ run.final \in 0..Len(cuts) /\ run.final # 0
  BY SealShape
<1>2. run.final - 1 \in Nat /\ run.final - 1 + 1 = run.final
  BY <1>1
<1> QED BY <1>1, <1>2 DEF Receipt, Receipts

LEMMA SealAnchors ==
    ASSUME BundleInv, Anchor PROVE Steps
<1>1. /\ {"at", "final", "anchored"} \subseteq DOMAIN run /\ IsLog(log) /\ Extends(log, log)
      /\ {"at", "checkpoint"} \subseteq DOMAIN note
  BY SealShape
<1>2. run.at \in SealPlaces
  BY DEF Anchor, SealPlaces
<1>3. /\ log' = log \/ log' = Audit("governance-decision")
      /\ \/ receipts' = receipts
         \/ \E status \in {"confirmed", "failed"} : receipts' = receipts \cup {Receipt(status)}
      /\ \E at \in {"record", "blocked-record"} :
            run' = [run EXCEPT !.at = at] \/ run' = [run EXCEPT !.at = at, !.anchored = TRUE]
  BY DEF Anchor, Write
<1>4. UNCHANGED <<cuts, records, note, exports, bundles>>
  BY DEF Anchor
<1>5. Extends(log, log')
  BY <1>1, <1>3, AuditExtends
<1>6. DOMAIN run' = DOMAIN run /\ run'.final = run.final /\ run'.at \in {"record", "blocked-record"}
  BY <1>1, <1>3
<1>7. \/ receipts' = receipts
      \/ \E r \in Receipts : r.number + 1 \in DOMAIN cuts /\ receipts' = receipts \cup {r}
  BY <1>2, <1>3, ReceiptIsOfFinal
<1>8. StoreMove
  BY <1>4, <1>5, <1>7 DEF StoreMove
<1>9. CallsMove
  BY <1>1, <1>2, <1>4, <1>6 DEF CallsMove
<1>10. FilesKept
  BY <1>4, <1>6 DEF FilesKept, Exported, Exporting
<1> QED BY <1>8, <1>9, <1>10 DEF Steps

LEMMA ExportBegins ==
    ASSUME BundleInv, NEW by \in {"run", "copy"}, BeginExport(by)
    PROVE  /\ \E o \in {"run", "copy"} : \E d :
                 IsBlank(d) /\ exports' = [exports EXCEPT ![o] = [at |-> "streams", draft |-> d]]
           /\ by = "run" => exports'["run"].at = "streams"
<1>1. DOMAIN exports = {"run", "copy"}
  BY DEF BundleInv, FilesInv
<1>2. IsBlank(Blank(by))
  BY DEF IsBlank, Blank, Fields
<1>3. exports' = [exports EXCEPT ![by] = [at |-> "streams", draft |-> Blank(by)]]
  BY DEF BeginExport
<1> QED BY <1>1, <1>2, <1>3

LEMMA RecordThenExport ==
    ASSUME BundleInv, PendingRecord \/ AbandonSeal \/ AbortAnchor PROVE Steps
<1>1. /\ {"at", "final", "anchored"} \subseteq DOMAIN run /\ IsLog(log) /\ Extends(log, log)
      /\ {"at", "checkpoint"} \subseteq DOMAIN note
      /\ Len(cuts) \in Nat /\ run.final \in 0..Len(cuts)
  BY SealShape
<1>2. run.at \in SealPlaces
  BY DEF PendingRecord, AbandonSeal, AbortAnchor, SealPlaces
<1>3. log' = log \/ log' = Audit("governance-decision")
  BY DEF PendingRecord, AbandonSeal, AbortAnchor, Write
<1>4. /\ UNCHANGED <<cuts, note, bundles>>
      /\ BeginExport("run")
  BY DEF PendingRecord, AbandonSeal, AbortAnchor
<1>5. \/ receipts' = receipts
      \/ \E r \in Receipts : r.number + 1 \in DOMAIN cuts /\ receipts' = receipts \cup {r}
  <2>1. CASE PendingRecord \/ AbandonSeal
    BY <2>1 DEF PendingRecord, AbandonSeal
  <2>2. CASE AbortAnchor
    <3>1. receipts' = receipts \cup {Receipt("confirmed")} \/ receipts' = receipts \cup {}
      BY <2>2 DEF AbortAnchor
    <3> QED BY <1>2, <3>1, ReceiptIsOfFinal
  <2> QED BY <2>1, <2>2
<1>6. \E disposition, anchored :
         records' = Append(records, Version(disposition, run.final, anchored, log))
  BY DEF PendingRecord, AbandonSeal, AbortAnchor
<1>7. \E v : records' = Append(records, v) /\ v.checkpoint \in 0..Len(cuts)
  <2>1. PICK disposition, anchored :
         records' = Append(records, Version(disposition, run.final, anchored, log))
    BY <1>6
  <2>2. PICK v : v = Version(disposition, run.final, anchored, log)
    OBVIOUS
  <2>3. v.checkpoint = run.final
    BY <2>2 DEF Version
  <2> QED BY <1>1, <2>1, <2>2, <2>3
<1>8. DOMAIN run' = DOMAIN run /\ run'.final = run.final /\ run'.at \in Exporting
  <2>1. CASE PendingRecord
    <3>1. run' = [run EXCEPT !.at = IF run.at = "record" THEN "export" ELSE "blocked-export"]
      BY <2>1 DEF PendingRecord
    <3> QED BY <1>1, <3>1 DEF Exporting
  <2>2. CASE AbandonSeal
    BY <1>1, <2>2 DEF AbandonSeal, Exporting
  <2>3. CASE AbortAnchor
    BY <1>1, <2>3 DEF AbortAnchor, Exporting
  <2> QED BY <2>1, <2>2, <2>3
<1>9. Extends(log, log')
  BY <1>1, <1>3, AuditExtends
<1>10. StoreMove
  BY <1>4, <1>5, <1>7, <1>9 DEF StoreMove
<1>11. CallsMove
  BY <1>1, <1>2, <1>4, <1>8 DEF CallsMove
<1>12. FilesKept
  BY <1>4, <1>8, ExportBegins DEF FilesKept
<1> QED BY <1>10, <1>11, <1>12 DEF Steps

LEMMA VerdictIsAsked ==
    ASSUME BundleInv, VerifyBundle \/ RetrySeal PROVE Steps
<1>1. /\ {"at", "final", "exit"} \subseteq DOMAIN run /\ IsLog(log) /\ Extends(log, log)
      /\ {"at", "checkpoint"} \subseteq DOMAIN note
  BY SealShape
<1>2. run.at \in SealPlaces /\ run.at \in Exported
  BY DEF VerifyBundle, RetrySeal, SealPlaces, Exported
<1>3. log' = log \/ \E kind : log' = Audit(kind)
  BY DEF VerifyBundle, RetrySeal, Write
<1>4. UNCHANGED <<cuts, receipts, records, note, exports, bundles>>
  BY DEF VerifyBundle, RetrySeal
<1>5. DOMAIN run' = DOMAIN run /\ run'.final = run.final
  BY <1>1 DEF VerifyBundle, RetrySeal
<1>6. Extends(log, log')
  BY <1>1, <1>3, AuditExtends
<1>7. StoreMove
  BY <1>4, <1>6 DEF StoreMove
<1>8. CallsMove
  BY <1>1, <1>2, <1>4, <1>5 DEF CallsMove
<1>9. FilesKept
  BY <1>2, <1>4 DEF FilesKept
<1> QED BY <1>7, <1>8, <1>9 DEF Steps

LEMMA CopyBegins ==
    ASSUME BundleInv, CopyBundle PROVE Steps
<1>1. /\ IsLog(log) /\ Extends(log, log) /\ {"at", "checkpoint"} \subseteq DOMAIN note
  BY SealShape
<1>2. UNCHANGED <<log, cuts, receipts, records, run, note, bundles>> /\ BeginExport("copy")
  BY DEF CopyBundle, evidence
<1>3. StoreMove
  BY <1>1, <1>2 DEF StoreMove
<1>4. CallsMove
  BY <1>1, <1>2 DEF CallsMove
<1>5. FilesKept
  BY <1>2, ExportBegins DEF FilesKept
<1> QED BY <1>3, <1>4, <1>5 DEF Steps

LEMMA BundleOfRun ==
    ASSUME BundleInv, \/ run.at \in Exported
                      \/ run.at \in Exporting /\ exports["run"].at = "none"
    PROVE  bundles["run"] # <<>> /\ Genuine(bundles["run"][1])
BY DEF BundleInv, FilesInv

\* The run writes a file of its own bundle.
LEMMA OwnFileWritten ==
    ASSUME BundleInv, StoreMove, CallsMove, exports' = exports,
           \/ run.at \in Exported
           \/ run.at \in Exporting /\ exports["run"].at = "none",
           \/ \E records_ : bundles' = WithRecordFile(records_)
           \/ bundles' = [bundles EXCEPT !["run"] =
                            <<[@[1] EXCEPT !.proofs = [whole |-> TRUE, cuts |-> Len(cuts)]]>>]
    PROVE  BundleInv'
<1>1. StoreInv' /\ Grown
  BY StoreStep DEF BundleInv
<1>2. CallsInv'
  BY <1>1, CallsStep DEF BundleInv
<1>3. PICK b : b = bundles["run"][1]
  OBVIOUS
<1>4. Genuine(b)
  BY <1>3, BundleOfRun
<1>5. DOMAIN bundles = {"run", "copy"} /\ {"lines", "cuts", "receipts"} \subseteq DOMAIN b
  BY <1>4 DEF BundleInv, FilesInv, Genuine, Fields
<1>6. \E d : /\ bundles' = [bundles EXCEPT !["run"] = <<d>>]
             /\ DOMAIN d = DOMAIN b /\ d.lines = b.lines /\ d.cuts = b.cuts /\ d.receipts = b.receipts
  <2>1. CASE \E records_ : bundles' = WithRecordFile(records_)
    <3>1. PICK records_ : bundles' = WithRecordFile(records_)
      BY <2>1
    <3>2. PICK d : d = [b EXCEPT !.records = records_]
      OBVIOUS
    <3>3. bundles' = [bundles EXCEPT !["run"] = <<d>>]
      BY <1>3, <3>1, <3>2 DEF WithRecordFile
    <3>4. DOMAIN d = DOMAIN b /\ d.lines = b.lines /\ d.cuts = b.cuts /\ d.receipts = b.receipts
      BY <1>5, <3>2
    <3> QED BY <3>3, <3>4
  <2>2. CASE bundles' = [bundles EXCEPT !["run"] =
                            <<[@[1] EXCEPT !.proofs = [whole |-> TRUE, cuts |-> Len(cuts)]]>>]
    <3>2. PICK d : d = [b EXCEPT !.proofs = [whole |-> TRUE, cuts |-> Len(cuts)]]
      OBVIOUS
    <3>3. bundles' = [bundles EXCEPT !["run"] = <<d>>]
      BY <1>3, <2>2, <3>2
    <3>4. DOMAIN d = DOMAIN b /\ d.lines = b.lines /\ d.cuts = b.cuts /\ d.receipts = b.receipts
      BY <1>5, <3>2
    <3> QED BY <3>3, <3>4
  <2> QED BY <2>1, <2>2
<1>7. PICK d : /\ bundles' = [bundles EXCEPT !["run"] = <<d>>]
               /\ DOMAIN d = DOMAIN b /\ d.lines = b.lines /\ d.cuts = b.cuts /\ d.receipts = b.receipts
  BY <1>6
<1>8. Genuine(d)
  BY <1>4, <1>7, OtherFields
<1>9. Genuine(d)'
  BY <1>1, <1>8, FileGrows
<1>10. FilesInv'
  BY <1>1, <1>7, <1>9, FilesWrittenStep DEF BundleInv
<1> QED BY <1>1, <1>2, <1>10 DEF BundleInv

LEMMA SealWrites ==
    ASSUME BundleInv, WriteProofs \/ Verdict \/ Blocked \/ LastExport
    PROVE  BundleInv'
<1>1. /\ {"at", "final", "aborted", "anchored", "exit"} \subseteq DOMAIN run
      /\ IsLog(log) /\ Extends(log, log) /\ {"at", "checkpoint"} \subseteq DOMAIN note
      /\ Len(cuts) \in Nat /\ run.final \in 0..Len(cuts)
  BY SealShape
<1>2. /\ run.at \in SealPlaces
      /\ \/ run.at \in Exported
         \/ run.at \in Exporting /\ exports["run"].at = "none"
  BY DEF WriteProofs, Verdict, Blocked, LastExport, SealPlaces, Exported, Exporting
<1>3. log' = log \/ log' = Audit("governance-decision")
  BY DEF WriteProofs, Verdict, Blocked, LastExport, evidence, Write
<1>4. UNCHANGED <<cuts, receipts, note, exports>>
  BY DEF WriteProofs, Verdict, Blocked, LastExport, evidence
<1>5. \/ records' = records
      \/ \E v : records' = Append(records, v) /\ v.checkpoint \in 0..Len(cuts)
  <2>1. CASE Verdict
    <3>1. PICK v : v = Version(Disposition, run.final, run.anchored, log)
      OBVIOUS
    <3>2. records' = Append(records, v)
      BY <2>1, <3>1 DEF Verdict
    <3>3. v.checkpoint = run.final
      BY <3>1 DEF Version
    <3> QED BY <1>1, <3>2, <3>3
  <2>2. CASE WriteProofs \/ Blocked \/ LastExport
    BY <2>2 DEF WriteProofs, Blocked, LastExport, evidence
  <2> QED BY <2>1, <2>2
<1>6. DOMAIN run' = DOMAIN run /\ run'.final = run.final
  <2>1. \E at : run' = [run EXCEPT !.at = at]
    BY DEF WriteProofs, Verdict, Blocked, LastExport
  <2> QED BY <1>1, <2>1
<1>7. \/ \E records_ : bundles' = WithRecordFile(records_)
      \/ bundles' = [bundles EXCEPT !["run"] =
                       <<[@[1] EXCEPT !.proofs = [whole |-> TRUE, cuts |-> Len(cuts)]]>>]
  <2>1. CASE Verdict
    <3>1. PICK v : v = Append(records, Version(Disposition, run.final, run.anchored, log))
      OBVIOUS
    <3>2. bundles' = WithRecordFile(v)
      BY <2>1, <3>1 DEF Verdict
    <3> QED BY <3>2
  <2>2. CASE Blocked \/ LastExport
    BY <2>2 DEF Blocked, LastExport
  <2>3. CASE WriteProofs
    BY <2>3 DEF WriteProofs
  <2> QED BY <2>1, <2>2, <2>3
<1>8. Extends(log, log')
  BY <1>1, <1>3, AuditExtends
<1>9. StoreMove
  BY <1>4, <1>5, <1>8 DEF StoreMove
<1>10. CallsMove
  BY <1>1, <1>2, <1>4, <1>6 DEF CallsMove
<1> QED BY <1>2, <1>4, <1>7, <1>9, <1>10, OwnFileWritten

\* What an export goes on with, whatever it has read.
LEMMA ReadingGoesOn ==
    ASSUME BundleInv, NEW by \in {"run", "copy"}, NEW x, ExportFits(x), x.at # "none",
           exports' = [exports EXCEPT ![by] = x],
           UNCHANGED <<log, cuts, receipts, records, run, note, bundles>>
    PROVE  BundleInv'
<1>1. /\ IsLog(log) /\ Extends(log, log) /\ {"at", "checkpoint"} \subseteq DOMAIN note
  BY SealShape
<1>2. StoreMove /\ CallsMove
  BY <1>1 DEF StoreMove, CallsMove
<1>3. StoreInv' /\ Grown
  BY <1>2, StoreStep DEF BundleInv
<1>4. CallsInv'
  BY <1>2, <1>3, CallsStep DEF BundleInv
<1>5. ExportFits(x)'
  BY <1>3, ExportGrows
<1>6. FilesInv'
  BY <1>3, <1>5, FilesReadStep DEF BundleInv
<1> QED BY <1>3, <1>4, <1>6 DEF BundleInv

LEMMA StreamsAreRead ==
    ASSUME BundleInv, NEW by \in {"run", "copy"}, ExportStreams(by)
    PROVE  BundleInv'
<1>1. PICK d : d = exports[by].draft
  OBVIOUS
<1>2. Fields \subseteq DOMAIN d /\ GenuineLines(d) /\ IsLog(log)
  BY <1>1, FilesShape DEF BundleInv, StoreInv, ExportFits, ExportStreams, Reading
<1>3. PICK some \in SUBSET d.unread \ {{}} :
        exports' = [exports EXCEPT ![by] =
          [at |-> IF some = d.unread THEN "checkpoints" ELSE "streams",
           draft |-> [d EXCEPT
             !.lines = [s \in Streams |-> IF s \in some THEN log[s] ELSE @[s]],
             !.unread = @ \ some, !.reads = @ + 1,
             !.state = IF some = d.unread THEN <<Len(cuts), Len(records), receipts>> ELSE <<>>,
             !.raced = (some = d.unread) /\ \E s \in Streams \ d.unread : d.lines[s] # log[s]]]]
  <2>1. PICK some \in SUBSET exports[by].draft.unread \ {{}} :
        exports' = [exports EXCEPT ![by] =
          [at |-> IF some = exports[by].draft.unread THEN "checkpoints" ELSE "streams",
           draft |-> [exports[by].draft EXCEPT
             !.lines = [s \in Streams |-> IF s \in some THEN log[s] ELSE @[s]],
             !.unread = @ \ some, !.reads = @ + 1,
             !.state = IF some = exports[by].draft.unread THEN <<Len(cuts), Len(records), receipts>> ELSE <<>>,
             !.raced = (some = exports[by].draft.unread) /\ \E s \in Streams \ exports[by].draft.unread : exports[by].draft.lines[s] # log[s]]]]
    BY Zenon DEF ExportStreams
  <2> QED BY <1>1, <2>1, Zenon
<1>4. PICK at : at = IF some = d.unread THEN "checkpoints" ELSE "streams"
  OBVIOUS
<1>5. PICK n : n = [d EXCEPT
             !.lines = [s \in Streams |-> IF s \in some THEN log[s] ELSE @[s]],
             !.unread = @ \ some, !.reads = @ + 1,
             !.state = IF some = d.unread THEN <<Len(cuts), Len(records), receipts>> ELSE <<>>,
             !.raced = (some = d.unread) /\ \E s \in Streams \ d.unread : d.lines[s] # log[s]]
  OBVIOUS
<1>6. /\ exports' = [exports EXCEPT ![by] = [at |-> at, draft |-> n]]
      /\ at \in {"streams", "checkpoints"}
      /\ DOMAIN n = DOMAIN d
      /\ n.lines = [s \in Streams |-> IF s \in some THEN log[s] ELSE d.lines[s]]
  <2>1. DOMAIN n = DOMAIN d
    BY <1>5
  <2>2. n.lines = [s \in Streams |-> IF s \in some THEN log[s] ELSE d.lines[s]]
    BY <1>2, <1>5 DEF Fields
  <2> QED BY <1>3, <1>4, <1>5, <2>1, <2>2
<1>7. ASSUME NEW s \in Streams
      PROVE  IsSequence(n.lines[s]) /\ \A e \in ToSet(n.lines[s]) : GenuineLine(e, s)
  <2>1. CASE s \notin some
    BY <1>2, <1>6, <2>1 DEF GenuineLines
  <2>2. /\ IsSequence(log[s]) /\ DOMAIN log[s] = 1..Len(log[s])
        /\ \A i \in 1..Len(log[s]) : log[s][i].seq = i /\ IsEvent(log[s][i])
    BY <1>2, LogShape
  <2>3. ASSUME NEW e \in ToSet(log[s]) PROVE GenuineLine(e, s)
    <3>1. PICK i \in 1..Len(log[s]) : log[s][i] = e
      BY <2>2, SequenceShape
    <3> QED BY <2>2, <3>1 DEF GenuineLine
  <2> QED BY <1>6, <2>1, <2>2, <2>3
<1>8. GenuineLines(n)
  BY <1>6, <1>7 DEF GenuineLines
<1>9. PICK x : x = [at |-> at, draft |-> n]
  OBVIOUS
<1>10. ExportFits(x) /\ x.at # "none"
  BY <1>2, <1>6, <1>8, <1>9 DEF ExportFits, WithCuts, WithReceipts
<1>11. UNCHANGED <<log, cuts, receipts, records, run, note, bundles>>
  BY DEF ExportStreams, evidence
<1> QED BY <1>6, <1>9, <1>10, <1>11, ReadingGoesOn

LEMMA TablesAreRead ==
    ASSUME BundleInv, NEW by \in {"run", "copy"},
           ExportCheckpoints(by) \/ ExportReceipts(by) \/ ExportAttachments(by)
    PROVE  BundleInv'
<1>1. PICK d : d = exports[by].draft
  OBVIOUS
<1>2. /\ Fields \subseteq DOMAIN d /\ GenuineLines(d)
      /\ exports[by].at \in WithCuts => GenuineCuts(d)
      /\ exports[by].at \in WithReceipts => GenuineReceipts(d)
  BY <1>1, FilesShape
     DEF BundleInv, ExportFits, ExportCheckpoints, ExportReceipts, ExportAttachments, Reads, Reading
<1>3. UNCHANGED <<log, cuts, receipts, records, run, note, bundles>>
  BY DEF ExportCheckpoints, ExportReceipts, ExportAttachments, Reads, evidence
<1>4. CASE ExportCheckpoints(by)
  <2>1. PICK n : n = [d EXCEPT !.cuts = cuts]
    OBVIOUS
  <2>2. PICK x : x = [at |-> "receipts", draft |-> n]
    OBVIOUS
  <2>3. exports' = [exports EXCEPT ![by] = x]
    BY <1>1, <1>4, <2>1, <2>2 DEF ExportCheckpoints, Reads
  <2>4. Fields \subseteq DOMAIN n /\ n.lines = d.lines /\ n.cuts = cuts
    BY <1>2, <2>1 DEF Fields
  <2>5. GenuineLines(n)
    BY <1>2, <2>4 DEF GenuineLines
  <2>6. cuts \in Seq(Cuts) /\ StoreInv
    BY DEF BundleInv, StoreInv
  <2>7. IsSequence(cuts) /\ ToSet(cuts) \subseteq Cuts
    BY <2>6, SequenceOf
  <2>8. ASSUME NEW c \in ToSet(cuts) PROVE GenuineCut(c)
    <3>1. PICK i \in 1..Len(cuts) : cuts[i] = c
      BY <2>7, SequenceShape
    <3>2. i \in DOMAIN cuts /\ c.number = i - 1
      BY <2>6, <3>1 DEF StoreInv
    <3>3. c.number + 1 = i
      BY <3>2
    <3> QED BY <2>7, <3>1, <3>2, <3>3 DEF GenuineCut
  <2>9. GenuineCuts(n)
    BY <2>4, <2>7, <2>8 DEF GenuineCuts
  <2>10. ExportFits(x) /\ x.at # "none"
    BY <2>2, <2>4, <2>5, <2>9 DEF ExportFits, WithReceipts
  <2> QED BY <1>3, <2>3, <2>10, ReadingGoesOn
<1>5. CASE ExportReceipts(by)
  <2>1. PICK n : n = [d EXCEPT !.receipts = receipts]
    OBVIOUS
  <2>2. PICK x : x = [at |-> "attachments", draft |-> n]
    OBVIOUS
  <2>3. exports' = [exports EXCEPT ![by] = x]
    BY <1>1, <1>5, <2>1, <2>2 DEF ExportReceipts, Reads
  <2>4. Fields \subseteq DOMAIN n /\ n.lines = d.lines /\ n.cuts = d.cuts /\ n.receipts = receipts
    BY <1>2, <2>1 DEF Fields
  <2>5. GenuineCuts(d)
    BY <1>2, <1>5 DEF ExportReceipts, Reads, WithCuts
  <2>6. GenuineLines(n) /\ GenuineCuts(n)
    BY <1>2, <2>4, <2>5 DEF GenuineLines, GenuineCuts
  <2>7. GenuineReceipts(n)
    BY <2>4 DEF GenuineReceipts, BundleInv, StoreInv
  <2>8. ExportFits(x) /\ x.at # "none"
    BY <2>2, <2>4, <2>6, <2>7 DEF ExportFits
  <2> QED BY <1>3, <2>3, <2>8, ReadingGoesOn
<1>6. CASE ExportAttachments(by)
  <2>1. PICK attachments : attachments = {[event |-> e, whole |-> TRUE] : e \in Attached(log)}
    OBVIOUS
  <2>2. PICK n : n = [d EXCEPT !.attachments = attachments]
    OBVIOUS
  <2>3. PICK x : x = [at |-> "record", draft |-> n]
    OBVIOUS
  <2>4. exports' = [exports EXCEPT ![by] = x]
    BY <1>1, <1>6, <2>1, <2>2, <2>3 DEF ExportAttachments, Reads
  <2>5. /\ Fields \subseteq DOMAIN n
        /\ n.lines = d.lines /\ n.cuts = d.cuts /\ n.receipts = d.receipts
    BY <1>2, <2>2 DEF Fields
  <2>6. GenuineCuts(d) /\ GenuineReceipts(d)
    BY <1>2, <1>6 DEF ExportAttachments, Reads, WithCuts, WithReceipts
  <2>7. GenuineLines(n) /\ GenuineCuts(n) /\ GenuineReceipts(n)
    BY <1>2, <2>5, <2>6 DEF GenuineLines, GenuineCuts, GenuineReceipts
  <2>8. ExportFits(x) /\ x.at # "none"
    BY <2>3, <2>5, <2>7 DEF ExportFits
  <2> QED BY <1>3, <2>4, <2>8, ReadingGoesOn
<1> QED BY <1>4, <1>5, <1>6

LEMMA ExportIsWritten ==
    ASSUME BundleInv, NEW by \in {"run", "copy"}, ExportRecord(by)
    PROVE  BundleInv'
<1>1. /\ IsLog(log) /\ Extends(log, log) /\ {"at", "checkpoint"} \subseteq DOMAIN note
  BY SealShape
<1>2. UNCHANGED <<log, cuts, receipts, records, run, note>>
  BY DEF ExportRecord, evidence
<1>3. StoreMove /\ CallsMove
  BY <1>1, <1>2 DEF StoreMove, CallsMove
<1>4. StoreInv' /\ Grown
  BY <1>3, StoreStep DEF BundleInv
<1>5. CallsInv'
  BY <1>3, <1>4, CallsStep DEF BundleInv
<1>6. PICK b : b = exports[by].draft
  OBVIOUS
<1>7. Fields \subseteq DOMAIN b /\ GenuineLines(b) /\ GenuineCuts(b) /\ GenuineReceipts(b)
  BY <1>6, FilesShape DEF BundleInv, ExportFits, ExportRecord, Reading, WithCuts, WithReceipts
<1>8. PICK raced : raced = (b.raced \/ b.state # <<Len(cuts), Len(records), receipts>>)
  OBVIOUS
<1>9. PICK d : d = [b EXCEPT !.records = records, !.raced = raced]
  OBVIOUS
<1>10. /\ bundles' = [bundles EXCEPT ![by] = <<d>>]
       /\ exports' = [exports EXCEPT ![by] = [at |-> "none", draft |-> <<>>]]
  BY <1>6, <1>7, <1>8, <1>9 DEF ExportRecord, Fields
<1>11. Fields \subseteq DOMAIN d /\ d.lines = b.lines /\ d.cuts = b.cuts /\ d.receipts = b.receipts
  BY <1>7, <1>9 DEF Fields
<1>12. Genuine(d)
  BY <1>7, <1>11 DEF Genuine, GenuineLines, GenuineCuts, GenuineReceipts
<1>13. Genuine(d)'
  BY <1>4, <1>12, FileGrows
<1>14. FilesInv'
  BY <1>2, <1>4, <1>10, <1>13, FilesWrittenStep DEF BundleInv
<1> QED BY <1>4, <1>5, <1>14 DEF BundleInv

LEMMA FilesAreDamaged ==
    ASSUME BundleInv, Damage
    PROVE  BundleInv'
<1>1. /\ IsLog(log) /\ Extends(log, log) /\ {"at", "checkpoint"} \subseteq DOMAIN note
  BY SealShape
<1>2. UNCHANGED <<log, cuts, receipts, records, run, note, exports>>
  BY DEF Damage, evidence
<1>3. StoreMove /\ CallsMove
  BY <1>1, <1>2 DEF StoreMove, CallsMove
<1>4. StoreInv' /\ Grown
  BY <1>3, StoreStep DEF BundleInv
<1>5. CallsInv'
  BY <1>3, <1>4, CallsStep DEF BundleInv
<1>6. PICK b : b = bundles["run"][1]
  OBVIOUS
<1>7. Genuine(b)
  BY <1>6 DEF BundleInv, FilesInv, Damage
<1>8. PICK d \in DamagedStreams(b) \cup DamagedWitness(b) \cup DamagedRest(b) \cup RolledBack(b) :
        bundles' = [bundles EXCEPT !["run"] = <<d>>]
  BY <1>6 DEF Damage
<1>9. Genuine(d)
  BY <1>7, DamagedStillGenuine
<1>10. Genuine(d)'
  BY <1>4, <1>9, FileGrows
<1>11. FilesInv'
  BY <1>2, <1>4, <1>8, <1>10, FilesWrittenStep DEF BundleInv
<1> QED BY <1>4, <1>5, <1>11 DEF BundleInv

---------------------------------------------------------------------------
(* The theorem *)

LEMMA BundleBegins == BundleInit => BundleInv
<1> SUFFICES ASSUME BundleInit PROVE BundleInv
  OBVIOUS
<1>1. PICK l : l = [s \in Streams |-> <<>>]
  OBVIOUS
<1>2. IsLog(l)
  BY <1>1, NoSequence DEF IsLog, ChainHolds
<1>3. "intervention" \in Streams
  BY DEF Streams
<1>4. log = Put(l, "intervention", Event("initialization", 0, 0))
  BY <1>1 DEF BundleInit
<1>5. IsLog(log) /\ Extends(l, log) /\ Len(log["intervention"]) = Len(l["intervention"]) + 1
  BY <1>2, <1>3, <1>4, PutExtends, EventIsEvent
<1>6. PICK x : x = [number |-> 0, whole |-> TRUE,
                    sizes |-> [s \in Streams |-> IF s = "intervention" THEN 1 ELSE 0]]
  OBVIOUS
<1>7. cuts = <<x>> /\ x \in Cuts /\ x.number = 0
  BY <1>6 DEF BundleInit, Cuts
<1>8. \A s \in Streams : x.sizes[s] <= Len(log[s])
  <2> TAKE s \in Streams
  <2>1. Len(log[s]) \in Nat
    BY <1>5, LogShape
  <2>2. Len(l["intervention"]) = 0
    BY <1>1, <1>3, NoSequence
  <2>3. x.sizes[s] = IF s = "intervention" THEN 1 ELSE 0
    BY <1>6
  <2>4. Len(log["intervention"]) = 1
    BY <1>5, <2>2
  <2>5. CASE s = "intervention"
    <3>1. x.sizes[s] = 1 /\ Len(log[s]) = 1
      BY <2>3, <2>4, <2>5
    <3> QED BY <3>1
  <2>6. CASE s # "intervention"
    BY <2>1, <2>3, <2>6
  <2> QED BY <2>5, <2>6
<1>9. cuts \in Seq(Cuts) /\ DOMAIN cuts = {1} /\ cuts[1] = x /\ Len(cuts) = 1
  BY <1>7
<1>10. PICK v : v = [disposition |-> "invalid", checkpoint |-> 0, anchored |-> FALSE, linked |-> {}]
  OBVIOUS
<1>11. records = <<v>> /\ v.checkpoint = 0
  BY <1>10 DEF BundleInit
<1>12. IsSequence(records) /\ DOMAIN records = {1} /\ records[1] = v
  <2>1. <<v>> \in Seq({v})
    OBVIOUS
  <2>2. IsSequence(<<v>>)
    BY <2>1, SequenceOf
  <2>3. DOMAIN <<v>> = {1} /\ <<v>>[1] = v
    OBVIOUS
  <2> QED BY <1>11, <2>2, <2>3
<1>13. StoreInv
  <2>1. receipts = {}
    BY DEF BundleInit
  <2>2. \A c \in DOMAIN cuts :
          /\ cuts[c].number = c - 1
          /\ \A s \in Streams :
                /\ cuts[c].sizes[s] <= Len(log[s])
                /\ c > 1 => cuts[c - 1].sizes[s] <= cuts[c].sizes[s]
    BY <1>7, <1>8, <1>9
  <2>3. \A i \in DOMAIN records : records[i].checkpoint \in 0..Len(cuts)
    BY <1>9, <1>11, <1>12
  <2> QED BY <1>5, <1>9, <1>12, <2>1, <2>2, <2>3 DEF StoreInv
<1>14. CallsInv
  BY <1>9 DEF BundleInit, CallsInv, SealPlaces
<1>15. FilesInv
  BY DEF BundleInit, FilesInv, Exported, Exporting, Reading, WithCuts, WithReceipts
<1> QED BY <1>13, <1>14, <1>15 DEF BundleInv

LEMMA BundleSteps == BundleInv /\ [BundleNext]_bunVars => BundleInv'
<1> SUFFICES ASSUME BundleInv, [BundleNext]_bunVars PROVE BundleInv'
  OBVIOUS
<1>1. CASE Turn
  <2>1. CASE BeginTurn \/ Act \/ OutcomeTold \/ AdapterFails
    BY <2>1, TurnWaits, StepsKeep
  <2>2. CASE \/ SenderAccepted \/ SenderRejected \/ RecordProbe \/ Interpret
             \/ InterpretationRejected \/ DeadlineExceeded \/ Attest
    BY <2>2, TurnLogs, StepsKeep
  <2>3. CASE RecordTurn \/ ScheduleRepair
    BY <2>3, TurnRecorded, StepsKeep
  <2>4. CASE EndTurn
    BY <2>4, TurnEnds, StepsKeep
  <2>5. CASE Resume
    BY <2>5, RunResumes, StepsKeep
  <2> QED BY <1>1, <2>1, <2>2, <2>3, <2>4, <2>5 DEF Turn
<1>2. CASE Crash
  BY <1>2, RunCrashes, StepsKeep
<1>3. CASE Seal
  <2>1. CASE SealPolicies \/ RunSealed
    BY <2>1, SealBegins, StepsKeep
  <2>2. CASE FinalCut \/ Abort
    BY <2>2, FinalIsCut, StepsKeep
  <2>3. CASE Anchor
    BY <2>3, SealAnchors, StepsKeep
  <2>4. CASE PendingRecord \/ AbandonSeal \/ AbortAnchor
    BY <2>4, RecordThenExport, StepsKeep
  <2>5. CASE VerifyBundle \/ RetrySeal
    BY <2>5, VerdictIsAsked, StepsKeep
  <2>6. CASE WriteProofs \/ Verdict \/ Blocked \/ LastExport
    BY <2>6, SealWrites
  <2> QED BY <1>3, <2>1, <2>2, <2>3, <2>4, <2>5, <2>6 DEF Seal
<1>4. CASE Operator
  <2>1. CASE HumanView \/ Annotate \/ AnnotateCheck
    BY <2>1, OperatorsLog, StepsKeep
  <2>2. CASE AnnotateCut \/ AttachAnalysis
    BY <2>2, OperatorsCut, StepsKeep
  <2>3. CASE AnnotateRecord
    BY <2>3, OperatorsRecord, StepsKeep
  <2>4. CASE CopyBundle
    BY <2>4, CopyBegins, StepsKeep
  <2> QED BY <1>4, <2>1, <2>2, <2>3, <2>4 DEF Operator
<1>5. CASE Damage
  BY <1>5, FilesAreDamaged
<1>6. CASE \E by \in {"run", "copy"} :
              \/ ExportStreams(by) \/ ExportCheckpoints(by) \/ ExportReceipts(by)
              \/ ExportAttachments(by) \/ ExportRecord(by)
  BY <1>6, StreamsAreRead, TablesAreRead, ExportIsWritten
<1>7. CASE UNCHANGED bunVars
  BY <1>7, NothingWritten, StepsKeep DEF bunVars, evidence
<1> QED BY <1>1, <1>2, <1>3, <1>4, <1>5, <1>6, <1>7 DEF BundleNext

\* Whatever happens to a run and to the files of its bundle, and however often:
\* a bundle the verifier accepts is a prefix of what the run committed, and with
\* its anchor exactly what an anchored checkpoint committed (verify-bundle.ts).
THEOREM AcceptedBundlesAreSound == BundleSpec => []AcceptanceIsSound
<1>1. BundleSpec => []BundleInv
  BY BundleBegins, BundleSteps, PTL DEF BundleSpec
<1> QED BY <1>1, AcceptanceFollows, PTL
====
