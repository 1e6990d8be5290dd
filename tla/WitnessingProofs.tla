-------------------------- MODULE WitnessingProofs --------------------------
(* Proofs about Checkpointing and Anchoring, for any numbers of streams,     *)
(* runs, blocks, calls, lost answers and deaths.                             *)
(*                                                                           *)
(* Checkpointing: no event is forgotten and there is one final checkpoint   *)
(* (CheckpointsAreSafe), and the service implements CutLog                   *)
(* (CheckpointsImplementCutLog).                                             *)
(*                                                                           *)
(* Anchoring: what the publishers promise of transactions, receipts and      *)
(* answers (AnchorPromisesHold). The invariant is one of the node            *)
(* (ChainConsistent, ReceiptsTrue) and, for each checkpoint, one of its      *)
(* records, its submission, its confirmation and its payments: a step of one *)
(* publisher leaves those of the others alone (OthersKeep).                  *)
EXTENDS Checkpointing, Anchoring, TLAPS, FiniteSetTheorems

---------------------------------------------------------------------------
(* Sums *)

LEMMA CellsOf ==
    ASSUME NEW f, NEW p
    PROVE  p \in Cells(f) <=>
                \E x \in DOMAIN f : \E i \in 1 .. f[x] : p = <<x, i>>
BY DEF Cells

LEMMA ColumnSize ==
    ASSUME NEW x, NEW k \in Nat
    PROVE  IsFiniteSet({x} \X (1 .. k)) /\ Cardinality({x} \X (1 .. k)) = k
<1>1. IsFiniteSet({x}) /\ Cardinality({x}) = 1
  BY FS_Singleton
<1>2. IsFiniteSet(1 .. k) /\ Cardinality(1 .. k) = k
  BY FS_Interval
<1>3. /\ IsFiniteSet({x} \X (1 .. k))
      /\ Cardinality({x} \X (1 .. k)) = Cardinality({x}) * Cardinality(1 .. k)
  BY <1>1, <1>2, FS_Product
<1> QED BY <1>1, <1>2, <1>3

\* A function with finitely many values in Nat has a sum in Nat.
LEMMA TotalType ==
    ASSUME NEW D, IsFiniteSet(D), NEW f \in [D -> Nat]
    PROVE  IsFiniteSet(Cells(f)) /\ Total(f) \in Nat
<1> DEFINE column == [x \in D |-> {x} \X (1 .. f[x])]
           Columns == {column[x] : x \in D}
<1>1. IsFiniteSet(Columns)
  <2>1. column \in [D -> Columns] /\ \A c \in Columns : \E x \in D : column[x] = c
    OBVIOUS
  <2> HIDE DEF column, Columns
  <2>2. column \in Surjection(D, Columns)
    BY <2>1 DEF Surjection
  <2> QED BY <2>2, FS_Surjection
<1>2. ASSUME NEW x \in D PROVE IsFiniteSet(column[x])
  BY ColumnSize
<1>3. Cells(f) = UNION Columns
  <2>1. DOMAIN f = D
    OBVIOUS
  <2> QED BY <2>1 DEF Cells
<1>4. IsFiniteSet(Cells(f))
  <2> HIDE DEF column, Columns
  <2>1. \A T \in Columns : IsFiniteSet(T)
    BY <1>2 DEF Columns
  <2> QED BY <1>1, <1>3, <2>1, FS_UNION
<1> QED BY <1>4, FS_CardinalityType DEF Total

LEMMA TotalMonotone ==
    ASSUME NEW D, IsFiniteSet(D), NEW f \in [D -> Nat], NEW g \in [D -> Nat],
           \A x \in D : f[x] <= g[x]
    PROVE  Total(f) <= Total(g)
<1>1. Cells(f) \subseteq Cells(g)
  BY DEF Cells
<1> QED BY <1>1, TotalType, FS_Subset DEF Total

\* The functions with the same values have the same sum.
LEMMA TotalSame ==
    ASSUME NEW f, NEW g, DOMAIN f = DOMAIN g, \A x \in DOMAIN f : f[x] = g[x]
    PROVE  Total(f) = Total(g)
BY DEF Total, Cells

\* One value grows by one.
LEMMA TotalIncrement ==
    ASSUME NEW D, IsFiniteSet(D), NEW f \in [D -> Nat], NEW g \in [D -> Nat],
           NEW x \in D, g[x] = f[x] + 1, \A y \in D \ {x} : g[y] = f[y]
    PROVE  Total(g) = Total(f) + 1
<1> DEFINE p == <<x, f[x] + 1>>
<1>1. p \notin Cells(f)
  BY CellsOf
<1>2. ASSUME NEW q PROVE q \in Cells(g) <=> q \in Cells(f) \cup {p}
  <2>1. ASSUME q \in Cells(g) PROVE q \in Cells(f) \cup {p}
    <3>1. PICK y \in D, i \in Nat : i \in 1 .. g[y] /\ q = <<y, i>>
      BY <2>1, CellsOf
    <3>2. CASE y = x
      <4>1. i \in 1 .. f[x] \/ i = f[x] + 1
        BY <3>1, <3>2
      <4> QED BY <3>1, <3>2, <4>1, CellsOf
    <3>3. CASE y /= x
      BY <3>1, <3>3, CellsOf
    <3> QED BY <3>2, <3>3
  <2>2. ASSUME q \in Cells(f) PROVE q \in Cells(g)
    <3>1. PICK y \in D, i \in Nat : i \in 1 .. f[y] /\ q = <<y, i>>
      BY <2>2, CellsOf
    <3>2. i \in 1 .. g[y]
      BY <3>1
    <3> QED BY <3>1, <3>2, CellsOf
  <2>3. p \in Cells(g)
    <3>1. f[x] + 1 \in 1 .. g[x]
      OBVIOUS
    <3> QED BY <3>1, CellsOf
  <2> QED BY <2>1, <2>2, <2>3
<1>3. Cells(g) = Cells(f) \cup {p}
  BY <1>2
<1> HIDE DEF p
<1>4. IsFiniteSet(Cells(f))
  BY TotalType
<1> QED BY <1>1, <1>3, <1>4, FS_AddElement DEF Total

\* A sequence of numbers gets one more.
LEMMA TotalPush ==
    ASSUME NEW n \in Nat, NEW f \in [1 .. n -> Nat], NEW g \in [1 .. (n + 1) -> Nat],
           \A i \in 1 .. n : g[i] = f[i]
    PROVE  Total(g) = Total(f) + g[n + 1]
<1> DEFINE Column == {n + 1} \X (1 .. g[n + 1])
<1>1. Cells(g) = Cells(f) \cup Column
  <2>1. ASSUME NEW q PROVE q \in Cells(g) <=> q \in Cells(f) \cup Column
    <3>1. ASSUME q \in Cells(g) PROVE q \in Cells(f) \cup Column
      <4>1. PICK y \in 1 .. (n + 1), i \in Nat : i \in 1 .. g[y] /\ q = <<y, i>>
        BY <3>1, CellsOf
      <4>2. CASE y = n + 1
        BY <4>1, <4>2
      <4>3. CASE y \in 1 .. n
        BY <4>1, <4>3, CellsOf
      <4> QED BY <4>2, <4>3
    <3>2. ASSUME q \in Cells(f) PROVE q \in Cells(g)
      <4>1. PICK y \in 1 .. n, i \in Nat : i \in 1 .. f[y] /\ q = <<y, i>>
        BY <3>2, CellsOf
      <4>2. y \in 1 .. (n + 1) /\ i \in 1 .. g[y]
        BY <4>1
      <4> QED BY <4>1, <4>2, CellsOf
    <3>3. ASSUME q \in Column PROVE q \in Cells(g)
      <4>1. PICK i \in 1 .. g[n + 1] : q = <<n + 1, i>>
        BY <3>3
      <4>2. n + 1 \in 1 .. (n + 1)
        OBVIOUS
      <4> QED BY <4>1, <4>2, CellsOf
    <3> QED BY <3>1, <3>2, <3>3
  <2> QED BY <2>1
<1>2. Cells(f) \cap Column = {}
  <2>1. ASSUME NEW q \in Cells(f), q \in Column PROVE FALSE
    <3>1. PICK y \in 1 .. n, i \in Nat : i \in 1 .. f[y] /\ q = <<y, i>>
      BY CellsOf
    <3> QED BY <2>1, <3>1
  <2> QED BY <2>1
<1>3. IsFiniteSet(Column) /\ Cardinality(Column) = g[n + 1]
  <2>1. g[n + 1] \in Nat
    OBVIOUS
  <2> QED BY <2>1, ColumnSize
<1>4. IsFiniteSet(Cells(f)) /\ Total(f) \in Nat
  <2>1. IsFiniteSet(1 .. n)
    BY FS_Interval
  <2> QED BY <2>1, TotalType
<1> HIDE DEF Column
<1>5. Cardinality(Cells(f) \cup Column) = Total(f) + g[n + 1] - Cardinality({})
  BY <1>2, <1>3, <1>4, FS_Union DEF Total
<1> QED BY <1>1, <1>4, <1>5, FS_EmptySet DEF Total

\* A sequence of numbers loses its first one.
LEMMA TotalPop ==
    ASSUME NEW n \in Nat, NEW f \in [1 .. (n + 1) -> Nat], NEW g \in [1 .. n -> Nat],
           \A i \in 1 .. n : g[i] = f[i + 1]
    PROVE  Total(f) = Total(g) + f[1]
<1> DEFINE Column == {1} \X (1 .. f[1])
           Rest == Cells(f) \ Column
<1>1. /\ IsFiniteSet(Cells(f)) /\ IsFiniteSet(Cells(g))
      /\ Total(f) \in Nat /\ Total(g) \in Nat
  <2>1. IsFiniteSet(1 .. n) /\ IsFiniteSet(1 .. (n + 1))
    BY FS_Interval
  <2> QED BY <2>1, TotalType
<1>2. IsFiniteSet(Column) /\ Cardinality(Column) = f[1]
  <2>1. f[1] \in Nat
    OBVIOUS
  <2> QED BY <2>1, ColumnSize
<1>3. Column \subseteq Cells(f)
  <2>1. 1 \in 1 .. (n + 1)
    OBVIOUS
  <2> QED BY <2>1, CellsOf
<1>4. IsFiniteSet(Rest) /\ Cardinality(Rest) = Total(f) - f[1]
  <2> HIDE DEF Column
  <2>1. Cells(f) \cap Column = Column
    BY <1>3
  <2>2. /\ IsFiniteSet(Rest)
        /\ Cardinality(Rest) = Cardinality(Cells(f)) - Cardinality(Cells(f) \cap Column)
    BY <1>1, FS_Difference
  <2> QED BY <1>2, <2>1, <2>2 DEF Total
<1>5. Cardinality(Cells(g)) = Cardinality(Rest)
  <2> DEFINE shift == [q \in Cells(g) |-> <<q[1] + 1, q[2]>>]
  <2>1. ASSUME NEW q \in Cells(g)
        PROVE  /\ shift[q] \in Rest
               /\ q[1] \in 1 .. n /\ q[2] \in 1 .. f[q[1] + 1]
               /\ q = <<q[1], q[2]>>
    <3>1. PICK y \in 1 .. n, i \in Nat : i \in 1 .. g[y] /\ q = <<y, i>>
      BY CellsOf
    <3>2. y + 1 \in 1 .. (n + 1) /\ i \in 1 .. f[y + 1]
      BY <3>1
    <3>3. <<y + 1, i>> \in Cells(f) /\ <<y + 1, i>> \notin Column
      <4>1. <<y + 1, i>> \in Cells(f)
        BY <3>2, CellsOf
      <4>2. y + 1 /= 1
        OBVIOUS
      <4> QED BY <4>1, <4>2
    <3>4. q[1] = y /\ q[2] = i
      BY <3>1
    <3>5. shift[q] = <<y + 1, i>>
      BY <3>4
    <3> QED BY <3>1, <3>2, <3>3, <3>4, <3>5
  <2>2. ASSUME NEW r \in Rest PROVE \E q \in Cells(g) : shift[q] = r
    <3>1. PICK y \in 1 .. (n + 1), i \in Nat : i \in 1 .. f[y] /\ r = <<y, i>>
      BY CellsOf
    <3>2. y /= 1
      BY <3>1
    <3>3. y - 1 \in 1 .. n /\ i \in 1 .. g[y - 1] /\ (y - 1) + 1 = y
      BY <3>1, <3>2
    <3>4. <<y - 1, i>> \in Cells(g)
      BY <3>3, CellsOf
    <3>5. shift[<<y - 1, i>>] = <<(y - 1) + 1, i>>
      BY <3>4
    <3> QED BY <3>1, <3>3, <3>4, <3>5
  <2>3. \A q, r \in Cells(g) : shift[q] = shift[r] => q = r
    <3>1. ASSUME NEW q \in Cells(g), NEW r \in Cells(g), shift[q] = shift[r]
          PROVE  q = r
      <4>1. q[1] + 1 = r[1] + 1 /\ q[2] = r[2]
        BY <3>1
      <4>2. q[1] = r[1]
        <5>1. q[1] \in 1 .. n /\ r[1] \in 1 .. n
          BY <2>1
        <5> QED BY <4>1, <5>1
      <4>3. q = <<q[1], q[2]>> /\ r = <<r[1], r[2]>>
        BY <2>1
      <4> QED BY <4>1, <4>2, <4>3
    <3> QED BY <3>1
  <2>4. shift \in [Cells(g) -> Rest]
    BY <2>1
  <2> HIDE DEF shift, Rest
  <2>5. shift \in Surjection(Cells(g), Rest) /\ shift \in Injection(Cells(g), Rest)
    BY <2>2, <2>3, <2>4 DEF Surjection, Injection, IsInjective
  <2> QED BY <1>1, <2>5, FS_Surjection
<1> QED BY <1>1, <1>4, <1>5 DEF Total

---------------------------------------------------------------------------
(* Types *)

LEMMA AttemptTypes ==
    /\ NoAttempt \in AttemptType
    /\ \A reason \in Reasons, n \in Nat, consumed \in Nat :
        [at |-> "reading", reason |-> reason, prev |-> n, left |-> Streams,
         cut |-> EmptyCut, consumed |-> consumed] \in AttemptType
<1>1. EmptyCut \in [Streams -> Seq(Int)]
  BY DEF EmptyCut
<1>2. NoAttempt = [at |-> "idle", reason |-> "none", prev |-> 0, left |-> {},
                   cut |-> EmptyCut, consumed |-> 0]
  BY DEF NoAttempt, EmptyCut
<1>3. NoAttempt \in AttemptType
  <2>1. /\ "idle" \in {"idle", "reading", "signing"} /\ "none" \in Reasons
        /\ 0 \in Nat /\ {} \in SUBSET Streams
    BY DEF Reasons
  <2> QED BY <1>1, <1>2, <2>1 DEF AttemptType
<1>4. ASSUME NEW reason \in Reasons, NEW n \in Nat, NEW consumed \in Nat
      PROVE  [at |-> "reading", reason |-> reason, prev |-> n, left |-> Streams,
              cut |-> EmptyCut, consumed |-> consumed] \in AttemptType
  BY <1>1 DEF AttemptType
<1> QED BY <1>3, <1>4

LEMMA SpentTypes ==
    ASSUME spent \in SpentType
    PROVE  /\ spent.events \in Nat
           /\ [spent EXCEPT !.events = @ + 1] \in SpentType
           /\ [spent EXCEPT !.checkpoints = @ + 1] \in SpentType
           /\ [spent EXCEPT !.faults = @ + 1] \in SpentType
BY DEF SpentType

LEMMA RecordTypes ==
    /\ \A a \in AttemptType :
        /\ a.at \in {"idle", "reading", "signing"} /\ a.reason \in Reasons
        /\ a.prev \in Nat /\ a.consumed \in Nat /\ a.left \in SUBSET Streams
        /\ a.cut \in [Streams -> Seq(Int)]
        /\ [a EXCEPT !.at = "signing"] \in AttemptType
        /\ [cut |-> a.cut, reason |-> a.reason] \in ManifestType
    /\ \A t \in TriggerType :
        t.reason \in IntervalReasons /\ t.reason \in Reasons /\ t.consumed \in Nat
    /\ \A reason \in IntervalReasons, n \in Nat :
        [reason |-> reason, consumed |-> n] \in TriggerType
    /\ \A m \in ManifestType :
        m.cut \in [Streams -> Seq(Int)] /\ m.reason \in Reasons
<1>1. ASSUME NEW a \in AttemptType
      PROVE  /\ a.at \in {"idle", "reading", "signing"} /\ a.reason \in Reasons
             /\ a.prev \in Nat /\ a.consumed \in Nat /\ a.left \in SUBSET Streams
             /\ a.cut \in [Streams -> Seq(Int)]
             /\ [a EXCEPT !.at = "signing"] \in AttemptType
  BY DEF AttemptType
<1>2. ASSUME NEW a \in AttemptType
      PROVE  [cut |-> a.cut, reason |-> a.reason] \in ManifestType
  BY <1>1 DEF ManifestType
<1>3. ASSUME NEW t \in TriggerType
      PROVE  t.reason \in IntervalReasons /\ t.reason \in Reasons /\ t.consumed \in Nat
  <2>1. t.reason \in IntervalReasons /\ t.consumed \in Nat
    BY DEF TriggerType
  <2>2. IntervalReasons \subseteq Reasons
    BY DEF IntervalReasons, Reasons
  <2> QED BY <2>1, <2>2
<1>4. ASSUME NEW reason \in IntervalReasons, NEW n \in Nat
      PROVE  [reason |-> reason, consumed |-> n] \in TriggerType
  BY DEF TriggerType
<1>5. ASSUME NEW m \in ManifestType
      PROVE  m.cut \in [Streams -> Seq(Int)] /\ m.reason \in Reasons
  BY DEF ManifestType
<1> QED BY <1>1, <1>2, <1>3, <1>4, <1>5

LEMMA ReadType ==
    ASSUME NEW a \in AttemptType, NEW s \in Streams, NEW es \in Seq(Int)
    PROVE  /\ [a EXCEPT !.left = @ \ {s}, !.cut = [@ EXCEPT ![s] = es]] \in AttemptType
           /\ [a EXCEPT !.left = @ \ {s}, !.cut = [@ EXCEPT ![s] = es]]
                = [at |-> a.at, reason |-> a.reason, prev |-> a.prev,
                   left |-> a.left \ {s}, cut |-> [a.cut EXCEPT ![s] = es],
                   consumed |-> a.consumed]
<1> DEFINE b == [a EXCEPT !.left = @ \ {s}, !.cut = [@ EXCEPT ![s] = es]]
<1>1. b = [at |-> a.at, reason |-> a.reason, prev |-> a.prev,
           left |-> a.left \ {s}, cut |-> [a.cut EXCEPT ![s] = es],
           consumed |-> a.consumed]
  <2>1. a = [at |-> a.at, reason |-> a.reason, prev |-> a.prev, left |-> a.left,
             cut |-> a.cut, consumed |-> a.consumed]
    BY DEF AttemptType
  <2>2. b = [a EXCEPT !.left = a.left \ {s}, !.cut = [a.cut EXCEPT ![s] = es]]
    OBVIOUS
  <2> HIDE DEF b
  <2> QED BY <2>1, <2>2
<1>2. /\ a.at \in {"idle", "reading", "signing"} /\ a.reason \in Reasons
      /\ a.prev \in Nat /\ a.consumed \in Nat /\ a.left \in SUBSET Streams
      /\ a.cut \in [Streams -> Seq(Int)]
  BY RecordTypes
<1>3. [a.cut EXCEPT ![s] = es] \in [Streams -> Seq(Int)]
  BY <1>2
<1>4. a.left \ {s} \in SUBSET Streams
  BY <1>2
<1> QED BY <1>1, <1>2, <1>3, <1>4 DEF AttemptType

\* The attempt of one caller is replaced.
LEMMA Replaced ==
    ASSUME attempt \in [CheckpointCallers -> AttemptType], NEW c \in CheckpointCallers,
           NEW a \in AttemptType, attempt' = [attempt EXCEPT ![c] = a]
    PROVE  /\ attempt' \in [CheckpointCallers -> AttemptType]
           /\ attempt'[c] = a
           /\ \A d \in CheckpointCallers : d # c => attempt'[d] = attempt[d]
OBVIOUS

LEMMA TypeInvariance ==
    CheckpointingTypeOK /\ [CheckpointingNext]_cpVars => CheckpointingTypeOK'
<1> SUFFICES ASSUME CheckpointingTypeOK, [CheckpointingNext]_cpVars
             PROVE  CheckpointingTypeOK'
  OBVIOUS
<1> USE DEF CheckpointingTypeOK
<1>0. "runtime" \in CheckpointCallers /\ "scheduler" \in CheckpointCallers
  BY DEF CheckpointCallers
<1>1. CASE UNCHANGED cpVars
  BY <1>1 DEF cpVars
<1>2. ASSUME NEW s \in Streams, AppendEvent(s) PROVE CheckpointingTypeOK'
  <2>1. Append(events[s], spent.events + 1) \in Seq(Int)
    BY SpentTypes
  <2>2. events' \in [Streams -> Seq(Int)]
    BY <1>2, <2>1 DEF AppendEvent
  <2> QED BY <1>2, <2>2, SpentTypes DEF AppendEvent
<1>3. ASSUME NEW s \in Streams, Damage(s) PROVE CheckpointingTypeOK'
  <2>1. events[s] \in Seq(Int) /\ events[s] # <<>>
    BY <1>3 DEF Damage
  <2>2. CASE events' = [events EXCEPT ![s] = Front(@)]
    <3>1. Front(events[s]) \in Seq(Int)
      BY <2>1 DEF Front
    <3> QED BY <1>3, <2>2, <3>1, SpentTypes DEF Damage
  <2>3. ASSUME NEW i \in DOMAIN events[s], events' = [events EXCEPT ![s][i] = -@]
        PROVE  CheckpointingTypeOK'
    <3>1. [events[s] EXCEPT ![i] = -@] \in Seq(Int)
      BY <2>1
    <3>2. events' = [events EXCEPT ![s] = [events[s] EXCEPT ![i] = -@]]
      BY <2>3
    <3> QED BY <1>3, <3>1, <3>2, SpentTypes DEF Damage
  <2> QED BY <1>3, <2>2, <2>3 DEF Damage
<1>4. ASSUME NEW reason \in IntervalReasons, NEW n \in Nat, Trigger(reason, n)
      PROVE  pendingCount' \in Nat /\ elapsed' \in BOOLEAN /\ chain' \in Seq(TriggerType)
  <2>1. [reason |-> reason, consumed |-> n] \in TriggerType
    BY RecordTypes
  <2>2. chain' = Append(chain, [reason |-> reason, consumed |-> n])
    BY <1>4 DEF Trigger
  <2>3. chain' \in Seq(TriggerType)
    BY <2>1, <2>2
  <2> QED BY <1>4, <2>3 DEF Trigger
<1>5. CASE RecordAcceptedEvents
  <2>1. PICK n \in Nat :
            /\ n \in 1 .. unrecorded
            /\ unrecorded' = unrecorded - n
            /\ recorded' = recorded + n
            /\ \/ Trigger("event-interval", pendingCount + n)
               \/ pendingCount' = pendingCount + n /\ UNCHANGED <<elapsed, chain>>
            /\ UNCHANGED <<events, manifests, attempt, damaged, spent>>
    BY <1>5 DEF RecordAcceptedEvents
  <2>2. "event-interval" \in IntervalReasons /\ pendingCount + n \in Nat
    BY DEF IntervalReasons
  <2>3. unrecorded' \in Nat /\ recorded' \in Nat
    BY <2>1
  <2> QED BY <1>4, <2>1, <2>2, <2>3
<1>6. CASE TimePasses
  BY <1>6 DEF TimePasses
<1>7. CASE Tick
  <2>1. "time-interval" \in IntervalReasons
    BY DEF IntervalReasons
  <2> QED BY <1>4, <1>7, <2>1 DEF Tick
<1>8. ASSUME NEW c \in CheckpointCallers, NEW reason \in Reasons, NEW n \in Nat,
             Begin(c, reason, n)
      PROVE  attempt' \in [CheckpointCallers -> AttemptType]
  <2>1. Len(manifests) \in Nat
    OBVIOUS
  <2> QED BY <1>8, <2>1, AttemptTypes DEF Begin
<1>9. CASE StartLifecycle
  <2>1. attempt' \in [CheckpointCallers -> AttemptType]
    <3>1. Begin("runtime", "intervention", 0)
      BY <1>9 DEF StartLifecycle
    <3>2. 0 \in Nat /\ "intervention" \in Reasons
      BY DEF Reasons
    <3> QED BY ONLY <1>0, <1>8, <3>1, <3>2
  <2> QED BY <1>9, <2>1, SpentTypes DEF StartLifecycle
<1>10. CASE SealEvidence \/ SealAgain
  <2>1. attempt' \in [CheckpointCallers -> AttemptType]
    <3>1. Begin("runtime", "run-sealed", 0)
      BY <1>10 DEF SealEvidence, SealAgain
    <3>2. 0 \in Nat /\ "run-sealed" \in Reasons
      BY DEF Reasons
    <3> QED BY ONLY <1>0, <1>8, <3>1, <3>2
  <2>2. CASE SealEvidence
    BY <2>1, <2>2 DEF SealEvidence
  <2>3. CASE SealAgain
    BY <2>1, <2>3, SpentTypes DEF SealAgain
  <2> QED BY <1>10, <2>2, <2>3
<1>11. CASE StartScheduled
  <2>1. Head(chain) \in TriggerType /\ Tail(chain) \in Seq(TriggerType)
    BY <1>11 DEF StartScheduled
  <2>2. attempt' \in [CheckpointCallers -> AttemptType]
    BY <1>0, <1>8, <1>11, <2>1, RecordTypes DEF StartScheduled
  <2> QED BY <1>11, <2>1, <2>2 DEF StartScheduled
<1>12. ASSUME NEW c \in CheckpointCallers, NEW s \in Streams, ReadStream(c, s)
       PROVE  CheckpointingTypeOK'
  <2> DEFINE a == [attempt[c] EXCEPT !.left = @ \ {s}, !.cut = [@ EXCEPT ![s] = events[s]]]
  <2>1. attempt' = [attempt EXCEPT ![c] = a]
    BY <1>12 DEF ReadStream
  <2>2. a \in AttemptType
    BY ReadType
  <2> HIDE DEF a
  <2> QED BY <1>12, <2>1, <2>2 DEF ReadStream
<1>13. ASSUME NEW c \in CheckpointCallers, GiveBack(c)
       PROVE  /\ attempt' \in [CheckpointCallers -> AttemptType]
              /\ pendingCount' \in Nat
              /\ elapsed' \in BOOLEAN
  <2>1. attempt[c].consumed \in Nat
    BY RecordTypes
  <2> QED BY <1>13, <2>1, AttemptTypes DEF GiveBack
<1>14. ASSUME NEW c \in CheckpointCallers, Succeed(c)
       PROVE  /\ attempt' \in [CheckpointCallers -> AttemptType]
              /\ pendingCount' \in Nat
              /\ elapsed' \in BOOLEAN
  BY <1>14, AttemptTypes DEF Succeed
<1>15. ASSUME NEW c \in CheckpointCallers, Decide(c) PROVE CheckpointingTypeOK'
  <2>1. CASE attempt' = [attempt EXCEPT ![c].at = "signing"]
             /\ UNCHANGED <<pendingCount, elapsed>>
    <3>1. attempt' = [attempt EXCEPT ![c] = [attempt[c] EXCEPT !.at = "signing"]]
      BY <2>1
    <3>2. attempt' \in [CheckpointCallers -> AttemptType]
      BY <3>1, RecordTypes
    <3> QED BY <1>15, <2>1, <3>2 DEF Decide
  <2> QED BY <1>13, <1>14, <1>15, <2>1 DEF Decide
<1>16. ASSUME NEW c \in CheckpointCallers, Insert(c) PROVE CheckpointingTypeOK'
  <2>1. [cut |-> attempt[c].cut, reason |-> attempt[c].reason] \in ManifestType
    BY RecordTypes
  <2>2. manifests' \in Seq(ManifestType)
    <3> DEFINE m == [cut |-> attempt[c].cut, reason |-> attempt[c].reason]
    <3>1. manifests' = Append(manifests, m) \/ manifests' = manifests
      BY <1>16 DEF Insert
    <3>2. m \in ManifestType
      BY <2>1
    <3> HIDE DEF m
    <3>3. manifests \in Seq(ManifestType)
      OBVIOUS
    <3>4. Append(manifests, m) \in Seq(ManifestType)
      BY ONLY <3>2, <3>3
    <3> QED BY ONLY <3>1, <3>3, <3>4
  <2>3. GiveBack(c) \/ Succeed(c)
    BY <1>16 DEF Insert
  <2>4. UNCHANGED <<events, chain, unrecorded, recorded, damaged, spent>>
    BY <1>16 DEF Insert
  <2> QED BY <1>13, <1>14, <2>2, <2>3, <2>4
<1>17. ASSUME NEW c \in CheckpointCallers, AttemptFails(c) PROVE CheckpointingTypeOK'
  BY <1>13, <1>17, SpentTypes DEF AttemptFails
<1>18. ASSUME NEW c \in CheckpointCallers, InsertUnanswered(c) PROVE CheckpointingTypeOK'
  <2> DEFINE m == [cut |-> attempt[c].cut, reason |-> attempt[c].reason]
  <2>1. m \in ManifestType /\ manifests' = Append(manifests, m)
    BY <1>18, RecordTypes DEF InsertUnanswered
  <2> HIDE DEF m
  <2>2. manifests' \in Seq(ManifestType)
    BY <2>1
  <2>3. GiveBack(c)
    BY <1>18 DEF InsertUnanswered
  <2> QED BY <1>13, <1>18, <2>2, <2>3, SpentTypes DEF InsertUnanswered
<1> HIDE DEF CheckpointingTypeOK
<1> QED
  BY <1>1, <1>2, <1>3, <1>5, <1>6, <1>7, <1>9, <1>10, <1>11, <1>12, <1>15, <1>16, <1>17, <1>18
  DEF CheckpointingNext, Host, Timer, Service

LEMMA TypeInitial == CheckpointingInit => CheckpointingTypeOK
<1>1. ASSUME CheckpointingInit PROVE CheckpointingTypeOK
  <2>1. events \in [Streams -> Seq(Int)] /\ spent \in SpentType
    BY <1>1 DEF CheckpointingInit, SpentType
  <2>2. attempt \in [CheckpointCallers -> AttemptType]
    BY <1>1, AttemptTypes DEF CheckpointingInit
  <2>3. /\ manifests \in Seq(ManifestType) /\ chain \in Seq(TriggerType)
        /\ pendingCount = 0 /\ unrecorded = 0 /\ recorded = 0
        /\ elapsed = FALSE /\ damaged = FALSE
    BY <1>1 DEF CheckpointingInit
  <2> QED BY <2>1, <2>2, <2>3 DEF CheckpointingTypeOK
<1> QED BY <1>1

---------------------------------------------------------------------------
(* The inductive invariant *)

\* An attempt starts from a manifest that is there, and what is to be signed
\* extends it on every stream.
AttemptsLinked ==
    \A c \in CheckpointCallers :
        /\ attempt[c].at = "idle" => attempt[c].consumed = 0
        /\ attempt[c].prev <= Len(manifests)
        /\ attempt[c].at = "signing" =>
            /\ attempt[c].left = {}
            /\ PrefixUnchanged(attempt[c].prev, attempt[c].cut)

\* Every manifest commits at most what the newest one commits.
CutsGrow ==
    \A i \in 0 .. Len(manifests), s \in Streams :
        Len(CutAt(i)[s]) <= Len(CutAt(Len(manifests))[s])

\* A final manifest is only asked for while there is none, and only the runtime
\* asks for it.
FinalOnce ==
    /\ attempt["scheduler"].reason # "run-sealed"
    /\ ~damaged /\ attempt["runtime"].reason = "run-sealed" => ~FinalTaken
    /\ OneFinalCheckpoint

\* What a scheduled attempt has read and has yet to read.
InSight ==
    [s \in Streams |-> IF s \in attempt["scheduler"].left
                       THEN Len(events[s])
                       ELSE Len(attempt["scheduler"].cut[s])]

\* The events that wait in no window are in the newest manifest, and in the one
\* that a scheduled attempt is about to write.
Windows ==
    /\ attempt["runtime"].consumed = 0
    /\ ~damaged =>
        /\ recorded + unrecorded <= Total(Sizes(events))
        /\ recorded <= Committed(Len(manifests)) + pendingCount + InChain
                            + attempt["scheduler"].consumed
        /\ attempt["scheduler"].at # "idle" =>
            recorded <= Total(InSight) + pendingCount + InChain

CheckpointingInv ==
    /\ CheckpointingTypeOK
    /\ AttemptsLinked /\ CutsGrow
    /\ FinalOnce
    /\ Windows

---------------------------------------------------------------------------
(* What a step does to the manifests and to an attempt *)

LEMMA CutTypes ==
    ASSUME CheckpointingTypeOK
    PROVE  /\ EmptyCut \in [Streams -> Seq(Int)]
           /\ \A n \in 0 .. Len(manifests) : CutAt(n) \in [Streams -> Seq(Int)]
<1>1. EmptyCut \in [Streams -> Seq(Int)]
  BY DEF EmptyCut
<1>2. ASSUME NEW n \in 0 .. Len(manifests) PROVE CutAt(n) \in [Streams -> Seq(Int)]
  <2>1. CASE n = 0
    BY <1>1, <2>1 DEF CutAt
  <2>2. CASE n # 0
    <3>1. manifests[n] \in ManifestType
      BY <2>2 DEF CheckpointingTypeOK
    <3> QED BY <2>2, <3>1, RecordTypes DEF CutAt
  <2> QED BY <2>1, <2>2
<1> QED BY <1>1, <1>2

LEMMA ManifestsGrow ==
    ASSUME CheckpointingTypeOK, CheckpointingTypeOK',
           manifests' = manifests \/ \E m \in ManifestType : manifests' = Append(manifests, m)
    PROVE  /\ Len(manifests') \in Nat /\ Len(manifests) <= Len(manifests')
           /\ \A i \in 1 .. Len(manifests) : manifests'[i] = manifests[i]
           /\ \A n \in 0 .. Len(manifests) : CutAt(n)' = CutAt(n)
<1>1. /\ Len(manifests') \in Nat /\ Len(manifests) <= Len(manifests')
      /\ \A i \in 1 .. Len(manifests) : manifests'[i] = manifests[i]
  <2>1. manifests \in Seq(ManifestType)
    BY DEF CheckpointingTypeOK
  <2>2. CASE manifests' = manifests
    BY <2>1, <2>2
  <2>3. ASSUME NEW m \in ManifestType, manifests' = Append(manifests, m)
        PROVE  /\ Len(manifests') \in Nat /\ Len(manifests) <= Len(manifests')
               /\ \A i \in 1 .. Len(manifests) : manifests'[i] = manifests[i]
    BY <2>1, <2>3
  <2> QED BY <2>2, <2>3
<1>2. ASSUME NEW n \in 0 .. Len(manifests) PROVE CutAt(n)' = CutAt(n)
  BY <1>1 DEF CutAt, EmptyCut
<1> QED BY <1>1, <1>2

\* One caller's attempt goes on; the other's stays as it is.
Starts(c, reason, n) ==
    /\ attempt[c].at = "idle"
    /\ Begin(c, reason, n)
    /\ c = "runtime" =>
        n = 0 /\ (~damaged /\ reason = "run-sealed" => ~FinalTaken)
    /\ c = "scheduler" => reason \in IntervalReasons
    /\ UNCHANGED <<events, manifests, damaged>>

Reads(c) ==
    \E s \in Streams :
        /\ attempt[c].at = "reading"
        /\ s \in attempt[c].left
        /\ attempt' = [attempt EXCEPT ![c] =
            [at |-> "reading", reason |-> attempt[c].reason, prev |-> attempt[c].prev,
             left |-> attempt[c].left \ {s},
             cut |-> [attempt[c].cut EXCEPT ![s] = events[s]],
             consumed |-> attempt[c].consumed]]

Signs(c) ==
    LET a == attempt[c] IN
    /\ a.at = "reading"
    /\ a.left = {}
    /\ PrefixUnchanged(a.prev, a.cut)
    /\ ~(a.prev # 0 /\ a.reason \in IntervalReasons /\ ~HasGrown(a.prev, a.cut))
    /\ attempt' = [attempt EXCEPT ![c] = [a EXCEPT !.at = "signing"]]

Ends(c) == attempt' = [attempt EXCEPT ![c] = NoAttempt]

LEMMA ReadStreamReads ==
    ASSUME CheckpointingTypeOK, NEW c \in CheckpointCallers, NEW s \in Streams,
           ReadStream(c, s)
    PROVE  Reads(c)
<1>1. attempt[c] \in AttemptType /\ events[s] \in Seq(Int)
  BY DEF CheckpointingTypeOK
<1>2. /\ attempt[c].at = "reading" /\ s \in attempt[c].left
      /\ attempt' = [attempt EXCEPT ![c] =
            [attempt[c] EXCEPT !.left = @ \ {s}, !.cut = [@ EXCEPT ![s] = events[s]]]]
  BY DEF ReadStream
<1>3. [attempt[c] EXCEPT !.left = @ \ {s}, !.cut = [@ EXCEPT ![s] = events[s]]]
        = [at |-> attempt[c].at, reason |-> attempt[c].reason, prev |-> attempt[c].prev,
           left |-> attempt[c].left \ {s},
           cut |-> [attempt[c].cut EXCEPT ![s] = events[s]],
           consumed |-> attempt[c].consumed]
  BY <1>1, ReadType
<1> QED BY <1>2, <1>3 DEF Reads

LEMMA DecideForms ==
    ASSUME CheckpointingTypeOK, NEW c \in CheckpointCallers, Decide(c)
    PROVE  /\ attempt[c].at = "reading" /\ attempt[c].left = {}
           /\ UNCHANGED <<events, manifests, chain, unrecorded, recorded,
                          damaged, spent>>
           /\ \/ GiveBack(c)
              \/ /\ Succeed(c)
                 /\ attempt[c].prev # 0
                 /\ PrefixUnchanged(attempt[c].prev, attempt[c].cut)
                 /\ ~HasGrown(attempt[c].prev, attempt[c].cut)
              \/ Signs(c) /\ UNCHANGED <<pendingCount, elapsed>>
<1>1. attempt[c] \in AttemptType
  BY DEF CheckpointingTypeOK
<1> QED BY <1>1 DEF Decide, Signs

LEMMA InsertForms ==
    ASSUME CheckpointingTypeOK, NEW c \in CheckpointCallers, Insert(c)
    PROVE  /\ attempt[c].at = "signing"
           /\ UNCHANGED <<events, chain, unrecorded, recorded, damaged, spent>>
           /\ \/ /\ attempt[c].prev = Len(manifests)
                 /\ manifests' = Append(manifests,
                        [cut |-> attempt[c].cut, reason |-> attempt[c].reason])
                 /\ Succeed(c)
              \/ GiveBack(c) /\ UNCHANGED manifests
BY DEF Insert

LEMMA AttemptSteps ==
    ASSUME CheckpointingTypeOK, [CheckpointingNext]_cpVars
    PROVE  \/ UNCHANGED attempt
           \/ \E c \in CheckpointCallers, reason \in Reasons, n \in Nat :
                Starts(c, reason, n)
           \/ \E c \in CheckpointCallers : Reads(c) \/ Signs(c) \/ Ends(c)
<1> DEFINE Goal ==
           \/ UNCHANGED attempt
           \/ \E c \in CheckpointCallers, reason \in Reasons, n \in Nat :
                Starts(c, reason, n)
           \/ \E c \in CheckpointCallers : Reads(c) \/ Signs(c) \/ Ends(c)
<1>0. "runtime" \in CheckpointCallers /\ "scheduler" \in CheckpointCallers
  BY DEF CheckpointCallers
<1>1. ASSUME UNCHANGED attempt PROVE Goal
  BY <1>1
<1>2. ASSUME StartLifecycle PROVE Goal
  <2>1. "intervention" \in Reasons /\ 0 \in Nat
    BY DEF Reasons
  <2>2. Starts("runtime", "intervention", 0)
    BY <1>2 DEF StartLifecycle, Starts
  <2> QED BY <1>0, <2>1, <2>2
<1>3. ASSUME SealEvidence \/ SealAgain PROVE Goal
  <2>1. "run-sealed" \in Reasons /\ 0 \in Nat
    BY DEF Reasons
  <2>2. Starts("runtime", "run-sealed", 0)
    BY <1>3 DEF SealEvidence, SealAgain, Starts
  <2> QED BY <1>0, <2>1, <2>2
<1>4. ASSUME StartScheduled PROVE Goal
  <2>1. Head(chain) \in TriggerType
    BY <1>4 DEF StartScheduled, CheckpointingTypeOK
  <2>2. Head(chain).reason \in Reasons /\ Head(chain).consumed \in Nat
    BY <2>1, RecordTypes
  <2>3. Head(chain).reason \in IntervalReasons
    BY <2>1, RecordTypes
  <2>4. Starts("scheduler", Head(chain).reason, Head(chain).consumed)
    BY <1>4, <2>3 DEF StartScheduled, Starts
  <2> QED BY <1>0, <2>2, <2>4
<1>5. ASSUME NEW c \in CheckpointCallers, NEW s \in Streams, ReadStream(c, s) PROVE Goal
  BY <1>5, ReadStreamReads
<1>6. ASSUME NEW c \in CheckpointCallers, Decide(c) PROVE Goal
  BY <1>6, DecideForms DEF GiveBack, Succeed, Ends
<1>7. ASSUME NEW c \in CheckpointCallers, Insert(c) PROVE Goal
  BY <1>7, InsertForms DEF GiveBack, Succeed, Ends
<1>8. ASSUME NEW c \in CheckpointCallers, AttemptFails(c) PROVE Goal
  BY <1>8 DEF AttemptFails, GiveBack, Ends
<1>11. ASSUME NEW c \in CheckpointCallers, InsertUnanswered(c) PROVE Goal
  BY <1>11 DEF InsertUnanswered, GiveBack, Ends
<1>9. \/ UNCHANGED attempt
      \/ StartLifecycle \/ SealEvidence \/ SealAgain \/ StartScheduled
      \/ \E c \in CheckpointCallers :
            \/ \E s \in Streams : ReadStream(c, s)
            \/ Decide(c) \/ Insert(c) \/ InsertUnanswered(c) \/ AttemptFails(c)
  BY DEF CheckpointingNext, Host, Timer, Service, cpVars, AppendEvent, Damage,
         RecordAcceptedEvents, TimePasses, Tick
<1> HIDE DEF Goal
<1>10. Goal
  <2>1. ASSUME NEW c \in CheckpointCallers,
               \/ \E s \in Streams : ReadStream(c, s)
               \/ Decide(c) \/ Insert(c) \/ InsertUnanswered(c) \/ AttemptFails(c)
        PROVE  Goal
    BY ONLY <1>5, <1>6, <1>7, <1>8, <1>11, <2>1
  <2> QED BY ONLY <1>1, <1>2, <1>3, <1>4, <1>9, <2>1
<1> QED BY <1>10 DEF Goal

LEMMA ManifestSteps ==
    ASSUME CheckpointingTypeOK, [CheckpointingNext]_cpVars
    PROVE  \/ UNCHANGED manifests
           \/ \E c \in CheckpointCallers :
                /\ attempt[c].at = "signing" /\ attempt[c].prev = Len(manifests)
                /\ [cut |-> attempt[c].cut, reason |-> attempt[c].reason] \in ManifestType
                /\ manifests' = Append(manifests,
                        [cut |-> attempt[c].cut, reason |-> attempt[c].reason])
                /\ Ends(c)
                /\ UNCHANGED <<events, damaged>>
<1>1. ASSUME NEW c \in CheckpointCallers, Insert(c) \/ InsertUnanswered(c)
      PROVE  \/ UNCHANGED manifests
             \/ /\ attempt[c].at = "signing" /\ attempt[c].prev = Len(manifests)
                /\ [cut |-> attempt[c].cut, reason |-> attempt[c].reason] \in ManifestType
                /\ manifests' = Append(manifests,
                        [cut |-> attempt[c].cut, reason |-> attempt[c].reason])
                /\ Ends(c)
                /\ UNCHANGED <<events, damaged>>
  <2>1. attempt[c] \in AttemptType
    BY DEF CheckpointingTypeOK
  <2>2. [cut |-> attempt[c].cut, reason |-> attempt[c].reason] \in ManifestType
    BY <2>1, RecordTypes
  <2>3. CASE Insert(c)
    BY <2>2, <2>3, InsertForms DEF Succeed, Ends
  <2>4. CASE InsertUnanswered(c)
    BY <2>2, <2>4 DEF InsertUnanswered, GiveBack, Ends
  <2> QED BY <1>1, <2>3, <2>4
<1>2. \/ UNCHANGED manifests
      \/ \E c \in CheckpointCallers : Insert(c) \/ InsertUnanswered(c)
  BY DEF CheckpointingNext, Host, Timer, Service, cpVars, AppendEvent, Damage,
         RecordAcceptedEvents, TimePasses, Tick, StartLifecycle, SealEvidence, SealAgain,
         StartScheduled, ReadStream, Decide, AttemptFails
<1> QED BY <1>1, <1>2

---------------------------------------------------------------------------
(* Attempts are linked, and cuts grow *)

\* What a fresh attempt holds.
LEMMA Begun ==
    ASSUME CheckpointingTypeOK, NEW c \in CheckpointCallers, NEW reason \in Reasons,
           NEW n \in Nat, Begin(c, reason, n)
    PROVE  /\ attempt'[c].at = "reading" /\ attempt'[c].reason = reason
           /\ attempt'[c].prev = Len(manifests) /\ attempt'[c].left = Streams
           /\ attempt'[c].cut = EmptyCut /\ attempt'[c].consumed = n
           /\ \A d \in CheckpointCallers : d # c => attempt'[d] = attempt[d]
BY DEF Begin, CheckpointingTypeOK

LEMMA HasRead ==
    ASSUME CheckpointingTypeOK, NEW c \in CheckpointCallers, Reads(c)
    PROVE  /\ attempt'[c].at = "reading" /\ attempt[c].at = "reading"
           /\ attempt'[c].reason = attempt[c].reason
           /\ attempt'[c].prev = attempt[c].prev
           /\ attempt'[c].consumed = attempt[c].consumed
           /\ \E s \in attempt[c].left :
                /\ attempt'[c].left = attempt[c].left \ {s}
                /\ attempt'[c].cut = [attempt[c].cut EXCEPT ![s] = events[s]]
           /\ \A d \in CheckpointCallers : d # c => attempt'[d] = attempt[d]
<1>1. PICK s \in Streams :
        /\ attempt[c].at = "reading"
        /\ s \in attempt[c].left
        /\ attempt' = [attempt EXCEPT ![c] =
            [at |-> "reading", reason |-> attempt[c].reason, prev |-> attempt[c].prev,
             left |-> attempt[c].left \ {s},
             cut |-> [attempt[c].cut EXCEPT ![s] = events[s]],
             consumed |-> attempt[c].consumed]]
  BY DEF Reads
<1>2. /\ attempt'[c] =
            [at |-> "reading", reason |-> attempt[c].reason, prev |-> attempt[c].prev,
             left |-> attempt[c].left \ {s},
             cut |-> [attempt[c].cut EXCEPT ![s] = events[s]],
             consumed |-> attempt[c].consumed]
      /\ \A d \in CheckpointCallers : d # c => attempt'[d] = attempt[d]
  BY <1>1 DEF CheckpointingTypeOK
<1>3. /\ attempt'[c].at = "reading" /\ attempt'[c].reason = attempt[c].reason
      /\ attempt'[c].prev = attempt[c].prev
      /\ attempt'[c].consumed = attempt[c].consumed
      /\ attempt'[c].left = attempt[c].left \ {s}
      /\ attempt'[c].cut = [attempt[c].cut EXCEPT ![s] = events[s]]
  BY <1>2
<1> QED BY <1>1, <1>2, <1>3

LEMMA HasSigned ==
    ASSUME CheckpointingTypeOK, NEW c \in CheckpointCallers, Signs(c)
    PROVE  /\ attempt'[c].at = "signing" /\ attempt[c].at = "reading"
           /\ attempt'[c].reason = attempt[c].reason
           /\ attempt'[c].prev = attempt[c].prev
           /\ attempt'[c].consumed = attempt[c].consumed
           /\ attempt'[c].left = {} /\ attempt[c].left = {}
           /\ attempt'[c].cut = attempt[c].cut
           /\ PrefixUnchanged(attempt[c].prev, attempt[c].cut)
           /\ \A d \in CheckpointCallers : d # c => attempt'[d] = attempt[d]
<1>1. attempt[c] \in AttemptType
  BY DEF CheckpointingTypeOK
<1>2. /\ [attempt[c] EXCEPT !.at = "signing"].at = "signing"
      /\ [attempt[c] EXCEPT !.at = "signing"].reason = attempt[c].reason
      /\ [attempt[c] EXCEPT !.at = "signing"].prev = attempt[c].prev
      /\ [attempt[c] EXCEPT !.at = "signing"].consumed = attempt[c].consumed
      /\ [attempt[c] EXCEPT !.at = "signing"].left = attempt[c].left
      /\ [attempt[c] EXCEPT !.at = "signing"].cut = attempt[c].cut
  BY <1>1 DEF AttemptType
<1> HIDE DEF AttemptType
<1>3. /\ attempt'[c] = [attempt[c] EXCEPT !.at = "signing"]
      /\ \A d \in CheckpointCallers : d # c => attempt'[d] = attempt[d]
  BY DEF Signs, CheckpointingTypeOK
<1> QED BY <1>2, <1>3 DEF Signs

LEMMA HasEnded ==
    ASSUME CheckpointingTypeOK, NEW c \in CheckpointCallers, Ends(c)
    PROVE  /\ attempt'[c].at = "idle" /\ attempt'[c].reason = "none"
           /\ attempt'[c].prev = 0 /\ attempt'[c].left = {}
           /\ attempt'[c].consumed = 0
           /\ \A d \in CheckpointCallers : d # c => attempt'[d] = attempt[d]
BY DEF Ends, NoAttempt, CheckpointingTypeOK

LEMMA AttemptsLinkedStep ==
    ASSUME CheckpointingTypeOK, AttemptsLinked, [CheckpointingNext]_cpVars
    PROVE  AttemptsLinked'
<1>1. CheckpointingTypeOK'
  BY TypeInvariance
<1>2. manifests' = manifests \/ \E m \in ManifestType : manifests' = Append(manifests, m)
  BY ManifestSteps
<1>3. /\ Len(manifests') \in Nat /\ Len(manifests) \in Nat
      /\ Len(manifests) <= Len(manifests')
      /\ \A n \in 0 .. Len(manifests) : CutAt(n)' = CutAt(n)
  BY <1>1, <1>2, ManifestsGrow DEF CheckpointingTypeOK
<1>4. ASSUME NEW c \in CheckpointCallers, attempt[c].prev \in 0 .. Len(manifests),
             attempt'[c].prev = attempt[c].prev, attempt'[c].cut = attempt[c].cut,
             PrefixUnchanged(attempt[c].prev, attempt[c].cut)
      PROVE  PrefixUnchanged(attempt[c].prev, attempt[c].cut)'
  BY <1>3, <1>4 DEF PrefixUnchanged
<1>5. ASSUME NEW c \in CheckpointCallers, attempt'[c] = attempt[c]
      PROVE  /\ attempt'[c].at = "idle" => attempt'[c].consumed = 0
             /\ attempt'[c].prev <= Len(manifests')
             /\ attempt'[c].at = "signing" =>
                /\ attempt'[c].left = {}
                /\ PrefixUnchanged(attempt[c].prev, attempt[c].cut)'
  <2>1. attempt[c].prev \in 0 .. Len(manifests)
    <3>1. attempt[c].prev \in Nat
      BY RecordTypes DEF CheckpointingTypeOK
    <3> QED BY <1>3, <3>1 DEF AttemptsLinked
  <2>2. attempt'[c].prev <= Len(manifests')
    BY <1>3, <1>5, <2>1
  <2> QED BY <1>4, <1>5, <2>1, <2>2 DEF AttemptsLinked
<1> DEFINE OthersStay(c) == \A d \in CheckpointCallers : d # c => attempt'[d] = attempt[d]
           Linked(c) ==
             /\ attempt'[c].at = "idle" => attempt'[c].consumed = 0
             /\ attempt'[c].prev <= Len(manifests')
             /\ attempt'[c].at = "signing" =>
                /\ attempt'[c].left = {}
                /\ PrefixUnchanged(attempt[c].prev, attempt[c].cut)'
<1>6. ASSUME NEW c \in CheckpointCallers, OthersStay(c), Linked(c)
      PROVE  AttemptsLinked'
  BY <1>5, <1>6 DEF AttemptsLinked
<1>7. CASE UNCHANGED attempt
  BY <1>5, <1>7 DEF AttemptsLinked
<1>8. ASSUME NEW c \in CheckpointCallers, NEW reason \in Reasons, NEW n \in Nat,
             Starts(c, reason, n)
      PROVE  AttemptsLinked'
  <2>1. OthersStay(c) /\ Linked(c)
    BY <1>3, <1>8, Begun DEF Starts
  <2> QED BY <1>6, <2>1
<1>9. ASSUME NEW c \in CheckpointCallers, Reads(c) PROVE AttemptsLinked'
  <2>1. OthersStay(c) /\ Linked(c)
    <3>1. attempt[c].prev \in Nat /\ attempt[c].prev <= Len(manifests)
      BY RecordTypes DEF CheckpointingTypeOK, AttemptsLinked
    <3> QED BY <1>3, <1>9, <3>1, HasRead
  <2> QED BY <1>6, <2>1
<1>10. ASSUME NEW c \in CheckpointCallers, Signs(c) PROVE AttemptsLinked'
  <2>1. attempt[c].prev \in Nat /\ attempt[c].prev <= Len(manifests)
    BY RecordTypes DEF CheckpointingTypeOK, AttemptsLinked
  <2>2. OthersStay(c) /\ attempt'[c].at = "signing" /\ attempt'[c].left = {}
        /\ attempt'[c].prev <= Len(manifests')
    BY <1>3, <1>10, <2>1, HasSigned
  <2>3. PrefixUnchanged(attempt[c].prev, attempt[c].cut)'
    BY <1>3, <1>4, <1>10, <2>1, HasSigned
  <2> QED BY <1>6, <2>2, <2>3
<1>11. ASSUME NEW c \in CheckpointCallers, Ends(c) PROVE AttemptsLinked'
  <2>1. OthersStay(c) /\ Linked(c)
    BY <1>3, <1>11, HasEnded
  <2> QED BY <1>6, <2>1
<1> QED BY <1>7, <1>8, <1>9, <1>10, <1>11, AttemptSteps

LEMMA CutsGrowStep ==
    ASSUME CheckpointingTypeOK, AttemptsLinked, CutsGrow, [CheckpointingNext]_cpVars
    PROVE  CutsGrow'
<1>1. CheckpointingTypeOK'
  BY TypeInvariance
<1>2. manifests' = manifests \/ \E m \in ManifestType : manifests' = Append(manifests, m)
  BY ManifestSteps
<1>3. /\ Len(manifests') \in Nat /\ Len(manifests) \in Nat
      /\ Len(manifests) <= Len(manifests')
      /\ \A n \in 0 .. Len(manifests) : CutAt(n)' = CutAt(n)
  BY <1>1, <1>2, ManifestsGrow DEF CheckpointingTypeOK
<1>4. CASE UNCHANGED manifests
  BY <1>3, <1>4 DEF CutsGrow
<1>5. ASSUME NEW c \in CheckpointCallers, attempt[c].at = "signing",
             attempt[c].prev = Len(manifests),
             [cut |-> attempt[c].cut, reason |-> attempt[c].reason] \in ManifestType,
             manifests' = Append(manifests,
                        [cut |-> attempt[c].cut, reason |-> attempt[c].reason])
      PROVE  CutsGrow'
  <2>1. Len(manifests') = Len(manifests) + 1
        /\ manifests'[Len(manifests) + 1]
                = [cut |-> attempt[c].cut, reason |-> attempt[c].reason]
    BY <1>5 DEF CheckpointingTypeOK
  <2>2. CutAt(Len(manifests))' = attempt[c].cut
    <3>1. Len(manifests') # 0 /\ manifests'[Len(manifests')].cut = attempt[c].cut
      BY <1>3, <2>1
    <3> QED BY <3>1 DEF CutAt
  <2>3. \A s \in Streams : /\ Len(CutAt(Len(manifests))[s]) <= Len(attempt[c].cut[s])
                           /\ Len(attempt[c].cut[s]) \in Nat
    <3>1. attempt[c].cut \in [Streams -> Seq(Int)]
      BY RecordTypes DEF CheckpointingTypeOK
    <3>2. CutAt(Len(manifests)) \in [Streams -> Seq(Int)]
      BY <1>3, CutTypes
    <3>3. PrefixUnchanged(Len(manifests), attempt[c].cut)
      BY <1>5 DEF AttemptsLinked
    <3> QED BY <3>1, <3>2, <3>3 DEF PrefixUnchanged, IsPrefix
  <2>4. ASSUME NEW i \in 0 .. Len(manifests'), NEW s \in Streams
        PROVE  Len(CutAt(i)'[s]) <= Len(attempt[c].cut[s])
    <3>1. CASE i = Len(manifests')
      <4>1. CutAt(i)' = attempt[c].cut
        BY <2>2, <3>1
      <4> QED BY <2>3, <4>1
    <3>2. CASE i \in 0 .. Len(manifests)
      <4>1. Len(CutAt(i)[s]) <= Len(CutAt(Len(manifests))[s])
        BY <3>2 DEF CutsGrow
      <4>2. Len(CutAt(i)[s]) \in Nat /\ Len(CutAt(Len(manifests))[s]) \in Nat
        <5>1. CutAt(i) \in [Streams -> Seq(Int)] /\ CutAt(Len(manifests)) \in [Streams -> Seq(Int)]
          BY <1>3, <3>2, CutTypes
        <5> QED BY <5>1
      <4> QED BY <1>3, <2>3, <3>2, <4>1, <4>2
    <3> QED BY <1>3, <2>1, <3>1, <3>2
  <2> QED BY <2>1, <2>2, <2>4 DEF CutsGrow
<1> QED BY <1>4, <1>5, ManifestSteps

---------------------------------------------------------------------------
(* The final checkpoint *)

LEMMA DamageStays ==
    ASSUME [CheckpointingNext]_cpVars, damaged
    PROVE  damaged'
BY DEF CheckpointingNext, Host, Timer, Service, cpVars, AppendEvent, Damage,
       RecordAcceptedEvents, TimePasses, Tick, StartLifecycle, SealEvidence, SealAgain,
       StartScheduled, ReadStream, Decide, Insert, InsertUnanswered, AttemptFails

LEMMA FinalOnceStep ==
    ASSUME CheckpointingTypeOK, FinalOnce, [CheckpointingNext]_cpVars
    PROVE  FinalOnce'
<1>0. "runtime" \in CheckpointCallers /\ "scheduler" \in CheckpointCallers
      /\ \A c \in CheckpointCallers : c = "runtime" \/ c = "scheduler"
  BY DEF CheckpointCallers
<1> DEFINE r == attempt["runtime"]
           a == attempt["scheduler"]
<1>1. CASE UNCHANGED manifests
  <2>1. OneFinalCheckpoint' /\ FinalTaken' = FinalTaken
    BY <1>1, DamageStays DEF FinalOnce, OneFinalCheckpoint, FinalTaken
  <2>2. \/ UNCHANGED attempt
        \/ \E c \in CheckpointCallers, reason \in Reasons, n \in Nat :
             Starts(c, reason, n)
        \/ \E c \in CheckpointCallers : Reads(c) \/ Signs(c) \/ Ends(c)
    BY AttemptSteps
  <2>3. ASSUME r'.reason \in {r.reason, "none"}, a'.reason \in {a.reason, "none"}
        PROVE  FinalOnce'
    BY <2>1, <2>3, DamageStays DEF FinalOnce
  <2>4. ASSUME NEW c \in CheckpointCallers, NEW reason \in Reasons, NEW n \in Nat,
               Starts(c, reason, n)
        PROVE  FinalOnce'
    <3>1. CASE c = "runtime"
      <4>1. /\ r'.reason = reason /\ a' = a
            /\ ~damaged /\ reason = "run-sealed" => ~FinalTaken
        BY <1>0, <2>4, <3>1, Begun DEF Starts
      <4> QED BY <2>1, <4>1, DamageStays DEF FinalOnce
    <3>2. CASE c = "scheduler"
      <4>1. a'.reason = reason /\ r' = r /\ reason # "run-sealed"
        BY <1>0, <2>4, <3>2, Begun DEF Starts, IntervalReasons
      <4> QED BY <2>1, <4>1, DamageStays DEF FinalOnce
    <3> QED BY <1>0, <3>1, <3>2
  <2>5. ASSUME NEW c \in CheckpointCallers, Reads(c) \/ Signs(c) \/ Ends(c)
        PROVE  FinalOnce'
    <3>1. /\ attempt'[c].reason \in {attempt[c].reason, "none"}
          /\ \A d \in CheckpointCallers : d # c => attempt'[d] = attempt[d]
      BY <2>5, HasRead, HasSigned, HasEnded
    <3> QED BY <1>0, <2>3, <3>1
  <2>6. ASSUME UNCHANGED attempt PROVE FinalOnce'
    BY <2>3, <2>6
  <2> QED BY <2>2, <2>4, <2>5, <2>6
<1>2. ASSUME NEW c \in CheckpointCallers,
             manifests' = Append(manifests,
                        [cut |-> attempt[c].cut, reason |-> attempt[c].reason]),
             Ends(c), UNCHANGED damaged
      PROVE  FinalOnce'
  <2>1. /\ attempt'[c].reason = "none"
        /\ \A d \in CheckpointCallers : d # c => attempt'[d] = attempt[d]
    BY <1>2, HasEnded
  <2>2. /\ Len(manifests) \in Nat
        /\ DOMAIN manifests = 1 .. Len(manifests)
        /\ DOMAIN manifests' = 1 .. (Len(manifests) + 1)
        /\ \A j \in 1 .. Len(manifests) : manifests'[j] = manifests[j]
        /\ manifests'[Len(manifests) + 1].reason = attempt[c].reason
    BY <1>2 DEF CheckpointingTypeOK
  <2>3. CASE c = "scheduler"
    <3>1. attempt[c].reason # "run-sealed"
      BY <2>3 DEF FinalOnce
    <3>2. /\ \A j \in DOMAIN manifests' : manifests'[j].reason = "run-sealed" =>
                j \in DOMAIN manifests /\ manifests[j].reason = "run-sealed"
      BY <2>2, <3>1
    <3>3. (FinalTaken' => FinalTaken) /\ OneFinalCheckpoint'
      BY <1>2, <3>2 DEF FinalTaken, OneFinalCheckpoint, FinalOnce
    <3>4. a'.reason = "none" /\ r' = r
      BY <1>0, <2>1, <2>3
    <3> QED BY <1>2, <3>3, <3>4 DEF FinalOnce
  <2>4. CASE c = "runtime"
    <3>1. r'.reason = "none" /\ a' = a
      BY <1>0, <2>1, <2>4
    <3>2. OneFinalCheckpoint'
      <4>1. SUFFICES ASSUME ~damaged,
                            NEW i \in DOMAIN manifests', NEW j \in DOMAIN manifests',
                            manifests'[i].reason = "run-sealed",
                            manifests'[j].reason = "run-sealed"
                     PROVE  i = j
        BY <1>2 DEF OneFinalCheckpoint
      <4>2. CASE r.reason = "run-sealed"
        <5>1. \A k \in DOMAIN manifests : manifests[k].reason # "run-sealed"
          BY <4>1, <4>2 DEF FinalOnce, FinalTaken
        <5> QED BY <2>2, <4>1, <5>1
      <4>3. CASE r.reason # "run-sealed"
        <5>1. i \in DOMAIN manifests /\ j \in DOMAIN manifests
          BY <2>2, <2>4, <4>1, <4>3
        <5> QED BY <2>2, <4>1, <5>1 DEF FinalOnce, OneFinalCheckpoint
      <4> QED BY <4>2, <4>3
    <3> QED BY <3>1, <3>2 DEF FinalOnce
  <2> QED BY <1>0, <2>3, <2>4
<1> QED BY <1>1, <1>2, ManifestSteps

---------------------------------------------------------------------------
(* The windows *)

LEMMA SumTypes ==
    ASSUME CheckpointingTypeOK
    PROVE  /\ \A cut \in [Streams -> Seq(Int)] :
                Sizes(cut) \in [Streams -> Nat] /\ Total(Sizes(cut)) \in Nat
           /\ Total(Sizes(events)) \in Nat
           /\ \A n \in 0 .. Len(manifests) : Committed(n) \in Nat
           /\ Len(manifests) \in Nat /\ Committed(Len(manifests)) \in Nat
           /\ InSight \in [Streams -> Nat] /\ Total(InSight) \in Nat
           /\ InChain \in Nat
<1>1. ASSUME NEW cut \in [Streams -> Seq(Int)]
      PROVE  Sizes(cut) \in [Streams -> Nat] /\ Total(Sizes(cut)) \in Nat
  <2>1. Sizes(cut) \in [Streams -> Nat]
    BY DEF Sizes
  <2> QED BY <2>1, StreamsAssumption, TotalType
<1>2. Total(Sizes(events)) \in Nat
  BY <1>1 DEF CheckpointingTypeOK
<1>3. /\ \A n \in 0 .. Len(manifests) : Committed(n) \in Nat
      /\ Len(manifests) \in Nat /\ Committed(Len(manifests)) \in Nat
  <2>1. Len(manifests) \in Nat
    BY DEF CheckpointingTypeOK
  <2>2. \A n \in 0 .. Len(manifests) : Committed(n) \in Nat
    BY <1>1, CutTypes DEF Committed
  <2> QED BY <2>1, <2>2
<1>4. InSight \in [Streams -> Nat]
  <2>1. attempt["scheduler"].cut \in [Streams -> Seq(Int)]
    BY RecordTypes DEF CheckpointingTypeOK, CheckpointCallers
  <2>2. events \in [Streams -> Seq(Int)]
    BY DEF CheckpointingTypeOK
  <2>3. \A s \in Streams : /\ Len(attempt["scheduler"].cut[s]) \in Nat
                           /\ Len(events[s]) \in Nat
    BY <2>1, <2>2
  <2> QED BY <2>3 DEF InSight
<1>5. InChain \in Nat
  <2>1. Len(chain) \in Nat /\ DOMAIN chain = 1 .. Len(chain)
        /\ \A i \in 1 .. Len(chain) : chain[i] \in TriggerType
    BY DEF CheckpointingTypeOK
  <2>2. [i \in DOMAIN chain |-> chain[i].consumed] \in [1 .. Len(chain) -> Nat]
    BY <2>1, RecordTypes
  <2>3. IsFiniteSet(1 .. Len(chain))
    BY <2>1, FS_Interval
  <2> QED BY <2>2, <2>3, TotalType DEF InChain
<1> QED BY <1>1, <1>2, <1>3, <1>4, <1>5, StreamsAssumption, TotalType

SumsTyped ==
    /\ Total(Sizes(events)) \in Nat /\ Committed(Len(manifests)) \in Nat
    /\ InSight \in [Streams -> Nat] /\ Total(InSight) \in Nat
    /\ InChain \in Nat

LEMMA SumTypesNext == CheckpointingTypeOK' => SumsTyped'
<1>1. CheckpointingTypeOK => SumsTyped
  BY SumTypes DEF SumsTyped
<1> QED BY <1>1, PTL

LEMMA SumsStay ==
    /\ UNCHANGED chain => InChain' = InChain
    /\ UNCHANGED manifests =>
        Committed(Len(manifests))' = Committed(Len(manifests))
    /\ UNCHANGED events /\ attempt'["scheduler"] = attempt["scheduler"] =>
        InSight' = InSight
BY DEF InChain, Committed, CutAt, EmptyCut, InSight

LEMMA ChainPush ==
    ASSUME CheckpointingTypeOK, NEW t \in TriggerType, chain' = Append(chain, t)
    PROVE  InChain' = InChain + t.consumed
<1> DEFINE f == [i \in DOMAIN chain |-> chain[i].consumed]
           g == [i \in DOMAIN chain' |-> chain'[i].consumed]
<1>1. /\ Len(chain) \in Nat
      /\ DOMAIN chain = 1 .. Len(chain) /\ DOMAIN chain' = 1 .. (Len(chain) + 1)
      /\ \A i \in 1 .. Len(chain) : chain[i] \in TriggerType /\ chain'[i] = chain[i]
      /\ chain'[Len(chain) + 1] = t
  BY DEF CheckpointingTypeOK
<1>2. f \in [1 .. Len(chain) -> Nat]
  BY <1>1, RecordTypes
<1>3. \A i \in 1 .. (Len(chain) + 1) : chain'[i] \in TriggerType
  BY <1>1
<1>4. g \in [1 .. (Len(chain) + 1) -> Nat]
  BY <1>1, <1>3, RecordTypes
<1>5. /\ \A i \in 1 .. Len(chain) : g[i] = f[i]
      /\ g[Len(chain) + 1] = t.consumed
  BY <1>1
<1>6. InChain = Total(f) /\ InChain' = Total(g)
  BY DEF InChain
<1> HIDE DEF f, g
<1> QED BY <1>1, <1>2, <1>4, <1>5, <1>6, TotalPush

LEMMA ChainPop ==
    ASSUME CheckpointingTypeOK, chain # <<>>, chain' = Tail(chain)
    PROVE  InChain = InChain' + Head(chain).consumed
<1> DEFINE n == Len(chain) - 1
           f == [i \in DOMAIN chain |-> chain[i].consumed]
           g == [i \in DOMAIN chain' |-> chain'[i].consumed]
<1>1. /\ n \in Nat /\ Len(chain) = n + 1
      /\ DOMAIN chain = 1 .. (n + 1) /\ DOMAIN chain' = 1 .. n
      /\ \A i \in 1 .. (n + 1) : chain[i] \in TriggerType
      /\ \A i \in 1 .. n : chain'[i] = chain[i + 1]
      /\ Head(chain) = chain[1]
  BY DEF CheckpointingTypeOK
<1> HIDE DEF n
<1>2. f \in [1 .. (n + 1) -> Nat]
  BY <1>1, RecordTypes
<1>3. \A i \in 1 .. n : chain'[i] \in TriggerType
  BY <1>1
<1>4. g \in [1 .. n -> Nat]
  BY <1>1, <1>3, RecordTypes
<1>5. /\ \A i \in 1 .. n : g[i] = f[i + 1]
      /\ f[1] = Head(chain).consumed
  BY <1>1
<1>6. InChain = Total(f) /\ InChain' = Total(g)
  BY DEF InChain
<1> HIDE DEF f, g
<1> QED BY <1>1, <1>2, <1>4, <1>5, <1>6, TotalPop

\* A manifest is appended: it commits what its attempt has read.
LEMMA Committing ==
    ASSUME CheckpointingTypeOK, AttemptsLinked, NEW c \in CheckpointCallers,
           attempt[c].at = "signing", attempt[c].prev = Len(manifests),
           manifests' = Append(manifests,
                        [cut |-> attempt[c].cut, reason |-> attempt[c].reason])
    PROVE  /\ Committed(Len(manifests))' = Total(Sizes(attempt[c].cut))
           /\ Committed(Len(manifests)) <= Committed(Len(manifests))'
<1>1. /\ Len(manifests) \in Nat /\ Len(manifests') = Len(manifests) + 1
      /\ manifests'[Len(manifests) + 1]
                = [cut |-> attempt[c].cut, reason |-> attempt[c].reason]
  BY DEF CheckpointingTypeOK
<1>2. CutAt(Len(manifests))' = attempt[c].cut
  BY <1>1 DEF CutAt
<1>3. Committed(Len(manifests))' = Total(Sizes(attempt[c].cut))
  BY <1>2 DEF Committed
<1>4. /\ attempt[c].cut \in [Streams -> Seq(Int)]
      /\ CutAt(Len(manifests)) \in [Streams -> Seq(Int)]
  <2>1. attempt[c] \in AttemptType
    BY DEF CheckpointingTypeOK
  <2>2. Len(manifests) \in 0 .. Len(manifests)
    BY <1>1
  <2> QED BY <2>1, <2>2, RecordTypes, CutTypes
<1>5. /\ Sizes(attempt[c].cut) \in [Streams -> Nat]
      /\ Sizes(CutAt(Len(manifests))) \in [Streams -> Nat]
  BY <1>4, SumTypes
<1>6. PrefixUnchanged(Len(manifests), attempt[c].cut)
  BY DEF AttemptsLinked
<1>7. \A s \in Streams :
        Sizes(CutAt(Len(manifests)))[s] <= Sizes(attempt[c].cut)[s]
  BY <1>6 DEF PrefixUnchanged, IsPrefix, Sizes
<1>8. Committed(Len(manifests)) <= Total(Sizes(attempt[c].cut))
  BY <1>5, <1>7, StreamsAssumption, TotalMonotone DEF Committed
<1> QED BY <1>3, <1>8

\* Manifests commit more and more, and what a manifest commits is what its
\* attempt had read.
LEMMA CommittedGrows ==
    ASSUME CheckpointingTypeOK, CutsGrow, NEW n \in 0 .. Len(manifests)
    PROVE  Committed(n) <= Committed(Len(manifests))
<1>1. /\ Len(manifests) \in 0 .. Len(manifests)
      /\ CutAt(n) \in [Streams -> Seq(Int)]
      /\ CutAt(Len(manifests)) \in [Streams -> Seq(Int)]
  <2>1. Len(manifests) \in Nat
    BY DEF CheckpointingTypeOK
  <2> QED BY <2>1, CutTypes
<1>2. /\ Sizes(CutAt(n)) \in [Streams -> Nat]
      /\ Sizes(CutAt(Len(manifests))) \in [Streams -> Nat]
  BY <1>1, SumTypes
<1>3. \A s \in Streams : Sizes(CutAt(n))[s] <= Sizes(CutAt(Len(manifests)))[s]
  BY DEF CutsGrow, Sizes
<1> QED BY <1>2, <1>3, StreamsAssumption, TotalMonotone DEF Committed

LEMMA AllRead ==
    ASSUME CheckpointingTypeOK, attempt["scheduler"].left = {}
    PROVE  InSight = Sizes(attempt["scheduler"].cut)
BY DEF InSight, Sizes

\* An event is appended, or a stream is read, while a scheduled attempt runs.
LEMMA SightStep ==
    ASSUME CheckpointingTypeOK, CheckpointingTypeOK'
    PROVE  /\ \A s \in Streams : AppendEvent(s) =>
                /\ Total(Sizes(events))' = Total(Sizes(events)) + 1
                /\ Total(InSight) <= Total(InSight)'
           /\ Reads("scheduler") /\ UNCHANGED events => InSight' = InSight
<1> DEFINE a == attempt["scheduler"]
<1>1. /\ events \in [Streams -> Seq(Int)] /\ events' \in [Streams -> Seq(Int)]
      /\ a \in AttemptType /\ a.cut \in [Streams -> Seq(Int)]
      /\ a.left \in SUBSET Streams
  BY RecordTypes DEF CheckpointingTypeOK, CheckpointCallers
<1>2. ASSUME NEW s \in Streams, AppendEvent(s)
      PROVE  /\ Total(Sizes(events))' = Total(Sizes(events)) + 1
             /\ Total(InSight) <= Total(InSight)'
  <2>1. /\ events' = [events EXCEPT ![s] = Append(events[s], spent.events + 1)]
        /\ attempt' = attempt /\ spent.events + 1 \in Int
    BY <1>2, SpentTypes DEF AppendEvent, CheckpointingTypeOK
  <2>2. /\ Len(events'[s]) = Len(events[s]) + 1
        /\ \A x \in Streams \ {s} : events'[x] = events[x]
        /\ \A x \in Streams : Len(events[x]) \in Nat
    BY <1>1, <2>1
  <2>3. Total(Sizes(events)) + 1 = Total(Sizes(events'))
    <3>1. Sizes(events) \in [Streams -> Nat] /\ Sizes(events') \in [Streams -> Nat]
      BY <1>1, SumTypes
    <3>2. /\ Sizes(events')[s] = Sizes(events)[s] + 1
          /\ \A x \in Streams \ {s} : Sizes(events')[x] = Sizes(events)[x]
      BY <2>2 DEF Sizes
    <3> QED BY <3>1, <3>2, StreamsAssumption, TotalIncrement
  <2>4. Total(InSight) <= Total(InSight)'
    <3>1. InSight \in [Streams -> Nat] /\ InSight' \in [Streams -> Nat]
      BY SumTypes, SumTypesNext DEF SumsTyped
    <3>2. ASSUME NEW x \in Streams
          PROVE  Len(events[x]) <= Len(events'[x]) /\ Len(a.cut[x]) \in Nat
      <4>1. a.cut[x] \in Seq(Int)
        BY <1>1
      <4>2. CASE x = s
        BY <2>2, <4>1, <4>2
      <4>3. CASE x # s
        BY <2>2, <4>1, <4>3
      <4> QED BY <4>2, <4>3
    <3>3. \A x \in Streams : InSight[x] <= InSight'[x]
      BY <2>1, <3>2 DEF InSight
    <3> QED BY <3>1, <3>3, StreamsAssumption, TotalMonotone
  <2> QED BY <2>3, <2>4
<1>3. ASSUME Reads("scheduler"), UNCHANGED events PROVE InSight' = InSight
  <2>1. PICK s \in a.left : /\ a'.left = a.left \ {s}
                            /\ a'.cut = [a.cut EXCEPT ![s] = events[s]]
    BY <1>3, HasRead DEF CheckpointCallers
  <2>2. ASSUME NEW x \in Streams
        PROVE  (IF x \in a'.left THEN Len(events'[x]) ELSE Len(a'.cut[x]))
                = (IF x \in a.left THEN Len(events[x]) ELSE Len(a.cut[x]))
    BY <1>1, <1>3, <2>1
  <2> QED BY <2>2 DEF InSight
<1> QED BY <1>2, <1>3

LEMMA WindowsStep ==
    ASSUME CheckpointingTypeOK, AttemptsLinked, CutsGrow, Windows,
           [CheckpointingNext]_cpVars
    PROVE  Windows'
<1>0. "runtime" \in CheckpointCallers /\ "scheduler" \in CheckpointCallers
      /\ \A c \in CheckpointCallers : c = "runtime" \/ c = "scheduler"
  BY DEF CheckpointCallers
<1> DEFINE a == attempt["scheduler"]
           r == attempt["runtime"]
           S == Total(Sizes(events))
           C == Committed(Len(manifests))
           V == Total(InSight)
           H == InChain
<1>1. CheckpointingTypeOK'
  BY TypeInvariance
<1>2. /\ S \in Nat /\ C \in Nat /\ V \in Nat /\ H \in Nat
      /\ S' \in Nat /\ C' \in Nat /\ V' \in Nat /\ H' \in Nat
  BY <1>1, SumTypes, SumTypesNext DEF SumsTyped
<1>3. /\ pendingCount \in Nat /\ unrecorded \in Nat /\ recorded \in Nat
      /\ a \in AttemptType /\ a.consumed \in Nat
      /\ pendingCount' \in Nat /\ unrecorded' \in Nat /\ recorded' \in Nat
      /\ a' \in AttemptType /\ a'.consumed \in Nat
  BY <1>0, <1>1, RecordTypes DEF CheckpointingTypeOK
<1>4. /\ r.consumed = 0
      /\ a.at = "idle" => a.consumed = 0
      /\ ~damaged =>
        /\ recorded + unrecorded <= S
        /\ recorded <= C + pendingCount + H + a.consumed
        /\ a.at # "idle" => recorded <= V + pendingCount + H
  BY <1>0 DEF Windows, AttemptsLinked
<1>5. SUFFICES
        /\ r'.consumed = 0
        /\ ~damaged' =>
            /\ recorded' + unrecorded' <= S'
            /\ recorded' <= C' + pendingCount' + H' + a'.consumed
            /\ a'.at # "idle" => recorded' <= V' + pendingCount' + H'
  BY DEF Windows
<1> DEFINE Goal ==
        /\ r'.consumed = 0
        /\ ~damaged' =>
            /\ recorded' + unrecorded' <= S'
            /\ recorded' <= C' + pendingCount' + H' + a'.consumed
            /\ a'.at # "idle" => recorded' <= V' + pendingCount' + H'
<1>6. /\ UNCHANGED chain => H' = H
      /\ UNCHANGED manifests => C' = C
      /\ UNCHANGED events => S' = S
      /\ UNCHANGED events /\ a' = a => V' = V
  BY SumsStay
<1> HIDE DEF S, C, V, H
<1>7. ASSUME UNCHANGED <<events, manifests, attempt, chain, pendingCount, recorded,
                        unrecorded, damaged>>
      PROVE  Goal
  BY <1>4, <1>6, <1>7
<1>8. ASSUME NEW s \in Streams, AppendEvent(s) PROVE Goal
  <2>1. S' = S + 1 /\ V <= V'
    BY <1>1, <1>8, SightStep DEF S, V
  <2>2. /\ UNCHANGED <<manifests, attempt, chain, pendingCount, recorded, damaged>>
        /\ unrecorded' = unrecorded + 1
    BY <1>8 DEF AppendEvent
  <2>3. /\ C' = C /\ H' = H /\ a' = a /\ r' = r /\ pendingCount' = pendingCount
        /\ recorded' = recorded /\ damaged' = damaged
    BY <1>6, <2>2
  <2>4. ASSUME ~damaged, a.at # "idle" PROVE recorded' <= V' + pendingCount' + H'
    <3>1. recorded <= V + pendingCount + H
      BY <1>4, <2>4
    <3>2. ASSUME NEW v \in Nat, NEW w \in Nat, NEW p \in Nat, NEW h \in Nat,
                 v <= w, recorded <= v + p + h
          PROVE  recorded <= w + p + h
      BY <1>3, <3>2
    <3>3. recorded <= V' + pendingCount + H
      BY ONLY <1>2, <1>3, <2>1, <3>1, <3>2
    <3> QED BY <2>3, <3>3
  <2>5. ASSUME ~damaged
        PROVE  recorded' + unrecorded' <= S'
    BY <1>2, <1>3, <1>4, <2>1, <2>2, <2>3, <2>5
  <2>6. ASSUME ~damaged
        PROVE  recorded' <= C' + pendingCount' + H' + a'.consumed
    BY <1>2, <1>3, <1>4, <2>3, <2>6
  <2> QED BY <1>4, <2>3, <2>4, <2>5, <2>6
<1>9. ASSUME NEW s \in Streams, Damage(s) PROVE Goal
  BY <1>4, <1>9 DEF Damage
<1>10. ASSUME NEW reason \in IntervalReasons, NEW n \in Nat,
              chain' = Append(chain, [reason |-> reason, consumed |-> n])
       PROVE  H' = H + n
  <2>1. [reason |-> reason, consumed |-> n] \in TriggerType
    BY RecordTypes
  <2> QED BY <1>10, <2>1, ChainPush DEF H
<1>11. ASSUME RecordAcceptedEvents PROVE Goal
  <2>1. PICK n \in Nat :
            /\ n \in 1 .. unrecorded
            /\ unrecorded' = unrecorded - n
            /\ recorded' = recorded + n
            /\ \/ Trigger("event-interval", pendingCount + n)
               \/ pendingCount' = pendingCount + n /\ UNCHANGED <<elapsed, chain>>
            /\ UNCHANGED <<events, manifests, attempt, damaged, spent>>
    BY <1>3, <1>11 DEF RecordAcceptedEvents
  <2>2. pendingCount' + H' = pendingCount + n + H
    <3>1. CASE Trigger("event-interval", pendingCount + n)
      <4>1. "event-interval" \in IntervalReasons /\ pendingCount + n \in Nat
        BY <1>3 DEF IntervalReasons
      <4>2. H' = H + (pendingCount + n) /\ pendingCount' = 0
        BY <1>10, <3>1, <4>1 DEF Trigger
      <4> QED BY <1>2, <1>3, <4>2
    <3>2. CASE pendingCount' = pendingCount + n /\ UNCHANGED <<elapsed, chain>>
      BY <1>2, <1>3, <1>6, <3>2
    <3> QED BY <2>1, <3>1, <3>2
  <2>3. /\ C' = C /\ S' = S /\ V' = V /\ a' = a /\ r' = r
        /\ recorded' = recorded + n /\ unrecorded' = unrecorded - n
        /\ damaged' = damaged
    BY <1>6, <2>1
  <2>4. ASSUME ~damaged, a.at # "idle" PROVE recorded' <= V' + pendingCount' + H'
    <3>1. recorded <= V + pendingCount + H
      BY <1>4, <2>4
    <3>2. recorded' = recorded + n /\ V' = V
      BY <2>3
    <3>3. recorded + n <= V + (pendingCount + n + H)
      BY <1>2, <1>3, <3>1
    <3>4. ASSUME NEW v \in Nat, NEW p \in Nat, NEW h \in Nat, NEW x \in Nat,
                 p + h = x, recorded + n <= v + x
          PROVE  recorded + n <= v + p + h
      BY <1>3, <3>4
    <3>5. V \in Nat /\ pendingCount' \in Nat /\ H' \in Nat /\ pendingCount + n + H \in Nat
      BY <1>2, <1>3
    <3>6. recorded + n <= V + pendingCount' + H'
      BY ONLY <2>2, <3>3, <3>4, <3>5
    <3> QED BY <3>2, <3>6
  <2>5. ASSUME ~damaged
        PROVE  recorded' + unrecorded' <= S'
    BY <1>2, <1>3, <1>4, <2>1, <2>3, <2>5
  <2>6. ASSUME ~damaged
        PROVE  recorded' <= C' + pendingCount' + H' + a'.consumed
    BY <1>2, <1>3, <1>4, <2>2, <2>3, <2>6
  <2> QED BY <1>4, <2>3, <2>4, <2>5, <2>6
<1>12. ASSUME TimePasses PROVE Goal
  BY <1>7, <1>12 DEF TimePasses
<1>13. ASSUME Tick PROVE Goal
  <2>1. "time-interval" \in IntervalReasons
    BY DEF IntervalReasons
  <2>2. H' = H + pendingCount /\ pendingCount' = 0
    BY <1>3, <1>10, <1>13, <2>1 DEF Tick, Trigger
  <2>3. UNCHANGED <<events, manifests, attempt, unrecorded, recorded, damaged>>
    BY <1>13 DEF Tick
  <2> QED BY <1>2, <1>3, <1>4, <1>6, <2>2, <2>3
<1>14. ASSUME NEW reason \in Reasons, Begin("runtime", reason, 0),
              UNCHANGED <<events, manifests, chain, pendingCount, recorded,
                          unrecorded, damaged>>
       PROVE  Goal
  <2>1. r'.consumed = 0 /\ a' = a
    BY <1>0, <1>14, Begun
  <2> QED BY <1>4, <1>6, <1>14, <2>1
<1>15. ASSUME StartLifecycle PROVE Goal
  <2>1. "intervention" \in Reasons
    BY DEF Reasons
  <2> QED BY <1>14, <1>15, <2>1 DEF StartLifecycle
<1>16. ASSUME SealEvidence \/ SealAgain PROVE Goal
  <2>1. "run-sealed" \in Reasons
    BY DEF Reasons
  <2> QED BY <1>14, <1>16, <2>1 DEF SealEvidence, SealAgain
<1>17. ASSUME StartScheduled PROVE Goal
  <2> DEFINE t == Head(chain)
  <2>1. t \in TriggerType /\ a.at = "idle" /\ chain # <<>> /\ chain' = Tail(chain)
    BY <1>17 DEF StartScheduled, CheckpointingTypeOK
  <2>2. H = H' + t.consumed
    BY <2>1, ChainPop DEF H
  <2> HIDE DEF t
  <2>3. t.reason \in Reasons /\ t.consumed \in Nat
    BY <2>1, RecordTypes
  <2>4. Begin("scheduler", t.reason, t.consumed)
    BY <1>17 DEF StartScheduled, t
  <2>5. a'.left = Streams /\ a'.consumed = t.consumed /\ r' = r
    BY <1>0, <2>3, <2>4, Begun
  <2>6. UNCHANGED <<events, manifests, pendingCount, unrecorded, recorded, damaged>>
    BY <1>17 DEF StartScheduled
  <2>7. V' = S
    <3>1. InSight' = Sizes(events)
      BY <2>5, <2>6 DEF InSight, Sizes
    <3> QED BY <3>1 DEF V, S
  <2>8. /\ C' = C /\ S' = S /\ pendingCount' = pendingCount
        /\ recorded' = recorded /\ unrecorded' = unrecorded /\ damaged' = damaged
    BY <1>6, <2>6
  <2>9. ASSUME ~damaged
        PROVE  /\ recorded' + unrecorded' <= S'
               /\ recorded' <= C' + pendingCount' + H' + a'.consumed
               /\ recorded' <= V' + pendingCount' + H'
    <3>1. /\ recorded + unrecorded <= S /\ a.consumed = 0
          /\ recorded <= C + pendingCount + H + a.consumed
      BY <1>4, <2>1, <2>9
    <3>2. recorded' + unrecorded' <= S'
      BY <2>8, <3>1
    <3>3. recorded' <= C' + pendingCount' + H' + a'.consumed
      BY <1>2, <1>3, <2>2, <2>3, <2>5, <2>8, <3>1
    <3>4. recorded' <= V' + pendingCount' + H'
      <4>1. recorded <= V'
        BY <1>2, <1>3, <2>7, <3>1
      <4>2. ASSUME NEW v \in Nat, NEW p \in Nat, NEW h \in Nat, recorded <= v
            PROVE  recorded <= v + p + h
        BY <1>3, <4>2
      <4>3. recorded <= V' + pendingCount + H'
        BY ONLY <1>2, <1>3, <4>1, <4>2
      <4> QED BY <2>8, <4>3
    <3> QED BY <3>2, <3>3, <3>4
  <2> QED BY <1>4, <2>5, <2>8, <2>9
<1>18. ASSUME NEW c \in CheckpointCallers, NEW s \in Streams, ReadStream(c, s)
       PROVE  Goal
  <2>1. Reads(c) /\ UNCHANGED <<events, manifests, pendingCount, chain, unrecorded,
                                recorded, damaged>>
    BY <1>18, ReadStreamReads DEF ReadStream
  <2>2. CASE c = "runtime"
    <3>1. r'.consumed = r.consumed /\ a' = a
      BY <1>0, <2>1, <2>2, HasRead
    <3> QED BY <1>4, <1>6, <2>1, <3>1
  <2>3. CASE c = "scheduler"
    <3>1. V' = V
      BY <1>1, <2>1, <2>3, SightStep DEF V
    <3>2. a'.consumed = a.consumed /\ a.at = "reading" /\ r' = r
      BY <1>0, <2>1, <2>3, HasRead
    <3> QED BY <1>4, <1>6, <2>1, <3>1, <3>2
  <2> QED BY <1>0, <2>2, <2>3
<1>19. ASSUME NEW c \in CheckpointCallers, GiveBack(c),
              UNCHANGED <<events, manifests, chain, unrecorded, recorded, damaged>>
       PROVE  Goal
  <2>1. Ends(c) /\ pendingCount' = pendingCount + attempt[c].consumed
    BY <1>19 DEF GiveBack, Ends
  <2>2. CASE c = "runtime"
    <3>1. r'.consumed = 0 /\ a' = a /\ pendingCount' = pendingCount
      BY <1>0, <1>3, <1>4, <2>1, <2>2, HasEnded
    <3> QED BY <1>4, <1>6, <1>19, <3>1
  <2>3. CASE c = "scheduler"
    <3>1. a'.consumed = 0 /\ a'.at = "idle" /\ r' = r
      BY <1>0, <2>1, <2>3, HasEnded
    <3> QED BY <1>2, <1>3, <1>4, <1>6, <1>19, <2>1, <2>3, <3>1
  <2> QED BY <1>0, <2>2, <2>3
<1>20. ASSUME NEW c \in CheckpointCallers, Decide(c) PROVE Goal
  <2>1. /\ attempt[c].at = "reading" /\ attempt[c].left = {}
        /\ UNCHANGED <<events, manifests, chain, unrecorded, recorded,
                          damaged, spent>>
    BY <1>20, DecideForms
  <2>2. CASE GiveBack(c)
    BY <1>19, <2>1, <2>2
  <2>3. ASSUME Signs(c), UNCHANGED <<pendingCount, elapsed>> PROVE Goal
    <3>1. CASE c = "runtime"
      <4>1. r'.consumed = r.consumed /\ a' = a
        BY <1>0, <2>3, <3>1, HasSigned
      <4> QED BY <1>4, <1>6, <2>1, <2>3, <4>1
    <3>2. CASE c = "scheduler"
      <4>1. /\ a'.consumed = a.consumed /\ a.at = "reading" /\ r' = r
            /\ a'.left = a.left /\ a'.cut = a.cut
        BY <1>0, <2>3, <3>2, HasSigned, SMTT(30)
      <4>2. V' = V
        <5>1. InSight' = InSight
          BY <2>1, <4>1 DEF InSight
        <5> QED BY <5>1 DEF V
      <4> QED BY <1>4, <1>6, <2>1, <2>3, <4>1, <4>2
    <3> QED BY <1>0, <3>1, <3>2
  <2>4. ASSUME Succeed(c), attempt[c].prev # 0,
               ~HasGrown(attempt[c].prev, attempt[c].cut)
        PROVE  Goal
    <3>1. Ends(c) /\ UNCHANGED pendingCount
      BY <2>4 DEF Succeed, Ends
    <3>2. CASE c = "runtime"
      <4>1. r'.consumed = 0 /\ a' = a
        BY <1>0, <3>1, <3>2, HasEnded
      <4> QED BY <1>4, <1>6, <2>1, <3>1, <4>1
    <3>3. CASE c = "scheduler"
      <4>1. a'.consumed = 0 /\ a'.at = "idle" /\ r' = r
        BY <1>0, <3>1, <3>3, HasEnded
      <4>2. a.prev \in 0 .. Len(manifests)
        <5>1. a.prev \in Nat /\ a.prev <= Len(manifests)
          BY <1>0, <1>3, RecordTypes DEF AttemptsLinked
        <5>2. Len(manifests) \in Nat
          BY SumTypes
        <5> QED BY <5>1, <5>2
      <4>3. V = Committed(a.prev)
        <5>1. InSight = Sizes(a.cut)
          BY <2>1, <3>3, AllRead
        <5>2. Sizes(a.cut) = Sizes(CutAt(a.prev))
          BY <2>4, <3>3 DEF HasGrown, Sizes
        <5> QED BY <5>1, <5>2 DEF V, Committed
      <4>4. Committed(a.prev) <= C
        BY <4>2, CommittedGrows DEF C
      <4> QED BY <1>2, <1>3, <1>4, <1>6, <2>1, <3>1, <3>3, <4>1, <4>3, <4>4
    <3> QED BY <1>0, <3>2, <3>3
  <2> QED BY <1>20, <2>2, <2>3, <2>4, DecideForms
<1>21. ASSUME NEW c \in CheckpointCallers, Insert(c) PROVE Goal
  <2>1. /\ attempt[c].at = "signing"
        /\ UNCHANGED <<events, chain, unrecorded, recorded, damaged, spent>>
    BY <1>21, InsertForms
  <2>2. CASE GiveBack(c) /\ UNCHANGED manifests
    BY <1>19, <2>1, <2>2
  <2>3. ASSUME attempt[c].prev = Len(manifests),
               manifests' = Append(manifests,
                        [cut |-> attempt[c].cut, reason |-> attempt[c].reason]),
               Succeed(c)
        PROVE  Goal
    <3>1. Ends(c) /\ UNCHANGED pendingCount
      BY <2>3 DEF Succeed, Ends
    <3>2. C' = Total(Sizes(attempt[c].cut)) /\ C <= C'
      BY <2>1, <2>3, Committing DEF C
    <3>3. CASE c = "runtime"
      <4>1. r'.consumed = 0 /\ a' = a
        BY <1>0, <3>1, <3>3, HasEnded
      <4> QED BY <1>2, <1>3, <1>4, <1>6, <2>1, <3>1, <3>2, <4>1
    <3>4. CASE c = "scheduler"
      <4>1. a'.consumed = 0 /\ a'.at = "idle" /\ r' = r
        BY <1>0, <3>1, <3>4, HasEnded
      <4>2. C' = V
        <5>1. InSight = Sizes(a.cut)
          BY <2>1, <3>4, AllRead DEF AttemptsLinked
        <5> QED BY <3>2, <3>4, <5>1 DEF V
      <4> QED BY <1>2, <1>3, <1>4, <1>6, <2>1, <3>1, <3>4, <4>1, <4>2
    <3> QED BY <1>0, <3>3, <3>4
  <2> QED BY <1>21, <2>2, <2>3, InsertForms
<1>22. ASSUME NEW c \in CheckpointCallers, AttemptFails(c) PROVE Goal
  BY <1>19, <1>22 DEF AttemptFails
<1>25. ASSUME NEW c \in CheckpointCallers, InsertUnanswered(c) PROVE Goal
  <2>1. /\ attempt[c].at = "signing" /\ attempt[c].prev = Len(manifests)
        /\ manifests' = Append(manifests,
                        [cut |-> attempt[c].cut, reason |-> attempt[c].reason])
        /\ Ends(c) /\ pendingCount' = pendingCount + attempt[c].consumed
        /\ UNCHANGED <<events, chain, unrecorded, recorded, damaged>>
    BY <1>25 DEF InsertUnanswered, GiveBack, Ends
  <2>2. C <= C'
    BY <2>1, Committing DEF C
  <2>3. CASE c = "runtime"
    <3>1. r'.consumed = 0 /\ a' = a /\ pendingCount' = pendingCount
      BY <1>0, <1>3, <1>4, <2>1, <2>3, HasEnded
    <3>2. H' = H /\ S' = S /\ V' = V
      BY <1>6, <2>1, <3>1
    <3>3. ASSUME ~damaged PROVE recorded <= C' + pendingCount + H + a.consumed
      BY <1>2, <1>3, <1>4, <2>2, <3>3
    <3> QED BY <1>4, <2>1, <3>1, <3>2, <3>3
  <2>4. CASE c = "scheduler"
    <3>1. a'.consumed = 0 /\ a'.at = "idle" /\ r' = r
      BY <1>0, <2>1, <2>4, HasEnded
    <3>2. ASSUME ~damaged PROVE recorded <= C' + pendingCount' + H' + a'.consumed
      <4>1. recorded <= C + pendingCount + H + a.consumed
        BY <1>4, <3>2
      <4>2. H' = H /\ pendingCount' = pendingCount + a.consumed
        BY <1>6, <2>1, <2>4
      <4> QED BY <1>2, <1>3, <2>2, <3>1, <4>1, <4>2
    <3> QED BY <1>4, <1>6, <2>1, <3>1, <3>2
  <2> QED BY <1>0, <2>3, <2>4
<1> HIDE DEF Goal
<1>23. ASSUME UNCHANGED cpVars PROVE Goal
  BY <1>7, <1>23 DEF cpVars
<1>24. Goal
  BY <1>8, <1>9, <1>11, <1>12, <1>13, <1>15, <1>16, <1>17, <1>18, <1>20, <1>21, <1>22,
     <1>23, <1>25
  DEF CheckpointingNext, Host, Timer, Service
<1> QED BY <1>24 DEF Goal

---------------------------------------------------------------------------
(* Theorems *)

LEMMA CheckpointingInvInitial == CheckpointingInit => CheckpointingInv
<1> SUFFICES ASSUME CheckpointingInit PROVE CheckpointingInv
  OBVIOUS
<1>1. CheckpointingTypeOK
  BY TypeInitial
<1>2. /\ manifests = <<>> /\ Len(manifests) = 0 /\ DOMAIN manifests = {}
      /\ \A c \in CheckpointCallers :
            /\ attempt[c].at = "idle" /\ attempt[c].reason = "none"
            /\ attempt[c].prev = 0 /\ attempt[c].consumed = 0
      /\ recorded = 0 /\ unrecorded = 0
  BY DEF CheckpointingInit, NoAttempt
<1>3. "runtime" \in CheckpointCallers /\ "scheduler" \in CheckpointCallers
  BY DEF CheckpointCallers
<1>4. AttemptsLinked
  BY <1>2 DEF AttemptsLinked
<1>5. CutsGrow
  <2>1. CutAt(0) \in [Streams -> Seq(Int)]
    BY <1>1, <1>2, CutTypes
  <2>2. \A s \in Streams : Len(CutAt(0)[s]) <= Len(CutAt(0)[s])
    BY <2>1
  <2> QED BY <1>2, <2>2 DEF CutsGrow
<1>7. FinalOnce
  BY <1>2, <1>3 DEF FinalOnce, OneFinalCheckpoint
<1>8. Windows
  BY <1>1, <1>2, <1>3, SumTypes DEF Windows, CheckpointingTypeOK
<1> QED BY <1>1, <1>4, <1>5, <1>7, <1>8 DEF CheckpointingInv

LEMMA CheckpointingInvariance ==
    CheckpointingInv /\ [CheckpointingNext]_cpVars => CheckpointingInv'
BY TypeInvariance, AttemptsLinkedStep, CutsGrowStep, FinalOnceStep, WindowsStep
DEF CheckpointingInv

\* However the attempts of the runtime and of the scheduler interleave and fail,
\* and however often the seal is entered again: no event falls between two
\* windows, and no run gets a second final manifest while its store keeps entries.
THEOREM CheckpointsAreSafe == CheckpointingSpec => []CheckpointingSafe
<1>1. CheckpointingInv => CheckpointingSafe
  BY DEF CheckpointingInv, CheckpointingSafe, Windows, NoEventForgotten, FinalOnce
<1> QED
  BY <1>1, CheckpointingInvInitial, CheckpointingInvariance, PTL DEF CheckpointingSpec

\* The manifests implement the log of cuts: every new one extends the one
\* before, also when stored entries are replaced or lost between two of them.
THEOREM CheckpointsImplementCutLog == CheckpointingSpec => CutsSpec
<1> DEFINE cuts == [i \in DOMAIN manifests |-> manifests[i].cut]
<1>1. CheckpointingInit => Promised!Init
  BY DEF CheckpointingInit, Promised!Init
<1>2. CheckpointingInv /\ [CheckpointingNext]_cpVars
        => [Promised!NextRead]_cuts
  <2> SUFFICES ASSUME CheckpointingInv, [CheckpointingNext]_cpVars
               PROVE  [Promised!NextRead]_cuts
    OBVIOUS
  <2>1. CheckpointingTypeOK /\ AttemptsLinked
    BY DEF CheckpointingInv
  <2>2. CASE UNCHANGED manifests
    BY <2>2
  <2>3. ASSUME NEW c \in CheckpointCallers, attempt[c].at = "signing",
               attempt[c].prev = Len(manifests),
               [cut |-> attempt[c].cut, reason |-> attempt[c].reason] \in ManifestType,
               manifests' = Append(manifests,
                        [cut |-> attempt[c].cut, reason |-> attempt[c].reason])
        PROVE  Promised!NextRead
    <3> DEFINE n == Len(manifests)
    <3>1. /\ manifests \in Seq(ManifestType) /\ n \in Nat
          /\ Len(manifests') = n + 1
          /\ DOMAIN manifests = 1 .. n /\ DOMAIN manifests' = 1 .. (n + 1)
          /\ \A i \in 1 .. n : manifests'[i] = manifests[i]
          /\ manifests'[n + 1].cut = attempt[c].cut
      BY <2>1, <2>3 DEF CheckpointingTypeOK
    <3>2. /\ cuts \in Seq([Streams -> Seq(Int)]) /\ Len(cuts) = n
          /\ \A i \in 1 .. n : cuts[i] = manifests[i].cut
      <4>1. \A i \in 1 .. n : manifests[i].cut \in [Streams -> Seq(Int)]
        BY <3>1, RecordTypes
      <4> QED BY <3>1, <4>1
    <3>3. cuts' = Append(cuts, attempt[c].cut)
      <4>1. cuts' = [i \in 1 .. (n + 1) |-> IF i \in 1 .. n THEN cuts[i] ELSE attempt[c].cut]
        BY <3>1, <3>2
      <4> QED BY <3>1, <3>2, <4>1
    <3>4. attempt[c].cut \in [Streams -> Seq(Int)]
      BY <2>1, RecordTypes DEF CheckpointingTypeOK
    <3>5. Len(cuts') = n + 1 /\ cuts'[n + 1] = attempt[c].cut
      BY <3>2, <3>3, <3>4
    <3>6. cuts # <<>> => Promised!Extends(attempt[c].cut, cuts[n])
      <4>1. SUFFICES ASSUME cuts # <<>> PROVE Promised!Extends(attempt[c].cut, cuts[n])
        OBVIOUS
      <4>2. n # 0 /\ cuts[n] = manifests[n].cut
        BY <3>1, <3>2, <4>1
      <4>3. PrefixUnchanged(n, attempt[c].cut) /\ CutAt(n) = cuts[n]
        BY <2>1, <2>3, <4>2 DEF AttemptsLinked, CutAt
      <4>4. CutAt(n) \in [Streams -> Seq(Int)]
        BY <2>1, <3>1, CutTypes
      <4>5. ASSUME NEW s \in Streams
            PROVE  /\ Len(cuts[n][s]) <= Len(attempt[c].cut[s])
                   /\ \A i \in 1 .. Len(cuts[n][s]) :
                        attempt[c].cut[s][i] = cuts[n][s][i]
        <5> DEFINE t == cuts[n][s]
                   u == attempt[c].cut[s]
        <5>1. t \in Seq(Int) /\ u \in Seq(Int) /\ IsPrefix(t, u)
          BY <3>4, <4>3, <4>4 DEF PrefixUnchanged
        <5> HIDE DEF t, u
        <5>2. Len(t) <= Len(u) /\ SubSeq(t, 1, Len(t)) = SubSeq(u, 1, Len(t))
          BY <5>1 DEF IsPrefix
        <5>3. \A i \in 1 .. Len(t) : /\ SubSeq(t, 1, Len(t))[i] = t[i]
                                     /\ SubSeq(u, 1, Len(t))[i] = u[i]
          BY <5>1, <5>2
        <5>4. \A i \in 1 .. Len(t) : u[i] = t[i]
          BY <5>2, <5>3
        <5> QED BY <5>2, <5>4 DEF t, u
      <4> QED BY <4>5 DEF Promised!Extends
    <3> HIDE DEF cuts
    <3> QED BY <3>2, <3>3, <3>5, <3>6 DEF Promised!NextRead, Promised!Take, cuts
  <2> QED BY <2>1, <2>2, <2>3, ManifestSteps
<1> QED
  BY <1>1, <1>2, CheckpointingInvInitial, CheckpointingInvariance, PTL
  DEF CheckpointingSpec, CutsSpec, Promised!SpecRead

---------------------------------------------------------------------------
(* The inductive invariant *)

\* No transaction is mined twice, and none waits that is mined.
ChainConsistent ==
    /\ mempool \cap Mined = {}
    /\ \A i, j \in DOMAIN blocks :
        blocks[i].tx = blocks[j].tx /\ blocks[i].tx # NoTx => i = j

Paid(c) == {tx \in Known : tx.of = c}

\* What a submit returned is on the chain, and is recorded in the file or in a
\* row; the file has at most one entry.
RecordsOf(c) ==
    /\ told[c] \subseteq Paid(c)
    /\ pendingFile[c] \subseteq told[c]
    /\ \A tx, ty \in pendingFile[c] : tx = ty
    /\ told[c] \subseteq Kept(c)
    /\ reservations[c] # NoTx => reservations[c] \in pendingFile[c]
    /\ \A r \in Stored(c) : r.tx \in told[c]

\* A submission under way broadcasts the bytes that are pinned.
SubmissionOf(c) ==
    /\ pinned[c] # NoTx => pinned[c].of = c
    /\ sending[c].at \in {"broadcast", "exists", "sent"} =>
        pinned[c] # NoTx /\ sending[c].tx = pinned[c]
    /\ sending[c].at \in {"sign", "broadcast", "exists", "sent"} => pendingFile[c] = {}
    /\ sending[c].at = "sent" => sending[c].tx \in Known
    /\ sending[c].at = "stored" => \E r \in Stored(c) : r.tx = sending[c].tx
    /\ runtime[c].at = "submitted" => runtime[c].tx \in told[c]

\* The decision of a confirmation: it failed, or it is deep enough.
Settled(i) == blocks[i].status = "reverted" \/ Len(blocks) - i + 1 >= RequiredDepth

\* A confirmation under way knows the block that it decided upon.
ConfirmationOf(c) ==
    LET tx == confirming[c].tx IN
    /\ confirming[c].at # "idle" => tx \in told[c]
    /\ confirming[c].at \in {"head", "decided"} =>
        tx \in Mined /\ confirming[c].seen = BlockOf(tx)
    /\ confirming[c].at = "decided" => Settled(BlockOf(tx))
    /\ confirming[c].at = "stored" => \E r \in Stored(c) : r.tx = tx

\* The publisher may sign and send new bytes without losing sight of any others.
MayPayAgain(c) ==
    /\ pinned[c] \notin Known
    /\ \/ sending[c].at \in {"sign", "broadcast", "exists"}
       \/ sending[c].at = "unstored" /\ reservations[c] = NoTx /\ pendingFile[c] = {}
       \/ Stored(c) = {} /\ pendingFile[c] = {}

PaymentsOf(c) ==
    /\ Cardinality(Paid(c)) <= 1 + orphaned[c]
    /\ MayPayAgain(c) => Cardinality(Paid(c)) <= orphaned[c]

CheckpointInv(c) == RecordsOf(c) /\ SubmissionOf(c) /\ ConfirmationOf(c) /\ PaymentsOf(c)

AnchoringInv ==
    /\ AnchoringTypeOK
    /\ ChainConsistent /\ ReceiptsTrue
    /\ \A c \in Checkpoints : CheckpointInv(c)

---------------------------------------------------------------------------
(* Types *)

SendPhases == {"idle", "lookup", "stored", "unstored", "sign", "broadcast", "exists", "sent"}
ConfirmPhases == {"idle", "poll", "head", "again", "decided", "stored"}
CallerPhases == {"idle", "submit", "submitted", "confirm"}

LEMMA Sendings ==
    ASSUME NEW a \in SendType
    PROVE  a.at \in SendPhases /\ a.left \in Nat /\ a.tx \in Transactions \cup {NoTx}
BY DEF SendType, SendPhases

LEMMA Confirmings ==
    ASSUME NEW a \in ConfirmType
    PROVE  /\ a.at \in ConfirmPhases /\ a.left \in Nat /\ a.seen \in Nat
           /\ a.tx \in Transactions \cup {NoTx}
BY DEF ConfirmType, ConfirmPhases

LEMMA Callers ==
    ASSUME NEW a \in CallerType
    PROVE  a.at \in CallerPhases /\ a.left \in Nat /\ a.tx \in Transactions \cup {NoTx}
BY DEF CallerType, CallerPhases

LEMMA NoTxIsNone == NoTx \notin Transactions
BY DEF NoTx, Transactions

\* The node's transactions are transactions, and finitely many.
LEMMA KnownTypes ==
    ASSUME mempool \subseteq Transactions, blocks \in Seq(BlockType)
    PROVE  /\ Mined \subseteq Transactions /\ Known \subseteq Transactions
           /\ NoTx \notin Known
<1>1. \A i \in DOMAIN blocks : blocks[i].tx \in Transactions \cup {NoTx}
  <2>1. \A b \in BlockType : b.tx \in Transactions \cup {NoTx}
    BY DEF BlockType
  <2>2. \A i \in DOMAIN blocks : blocks[i] \in BlockType
    OBVIOUS
  <2> QED BY <2>1, <2>2
<1>2. Mined \subseteq Transactions
  BY <1>1 DEF Mined
<1> QED BY <1>2, NoTxIsNone DEF Known

LEMMA KnownFinite ==
    ASSUME IsFiniteSet(mempool), blocks \in Seq(BlockType)
    PROVE  /\ IsFiniteSet(Known)
           /\ \A c : IsFiniteSet(Paid(c))
<1>1. Len(blocks) \in Nat /\ DOMAIN blocks = 1..Len(blocks)
  OBVIOUS
<1>2. IsFiniteSet(1..Len(blocks))
  BY <1>1, FS_Interval
<1> DEFINE Txs == {blocks[i].tx : i \in DOMAIN blocks}
           f == [i \in DOMAIN blocks |-> blocks[i].tx]
<1>3. f \in Surjection(DOMAIN blocks, Txs)
  BY DEF Surjection
<1>4. IsFiniteSet(Txs)
  BY <1>1, <1>2, <1>3, FS_Surjection
<1>5. IsFiniteSet(Mined)
  BY <1>4, FS_Subset DEF Mined
<1>6. IsFiniteSet(Known)
  BY <1>5, FS_Union DEF Known
<1>7. ASSUME NEW c PROVE IsFiniteSet(Paid(c))
  <2>1. Paid(c) \in SUBSET Known
    BY DEF Paid
  <2> QED BY <1>6, <2>1, FS_Subset
<1> QED BY <1>6, <1>7

---------------------------------------------------------------------------
(* The chain grows *)

\* What is on the chain or in the pool stays there, at its place.
NodeGrows ==
    /\ Known \subseteq Known'
    /\ Mined \subseteq Mined'
    /\ Len(blocks) <= Len(blocks')
    /\ \A tx \in Mined :
        BlockOf(tx)' = BlockOf(tx) /\ blocks'[BlockOf(tx)] = blocks[BlockOf(tx)]

LEMMA BlockAt ==
    ASSUME ChainConsistent, NEW i \in DOMAIN blocks, blocks[i].tx # NoTx
    PROVE  BlockOf(blocks[i].tx) = i
BY DEF ChainConsistent, BlockOf

LEMMA BlockFound ==
    ASSUME NEW tx \in Mined
    PROVE  BlockOf(tx) \in DOMAIN blocks /\ blocks[BlockOf(tx)].tx = tx
BY DEF Mined, BlockOf

LEMMA NodeStays ==
    ASSUME UNCHANGED node, blocks \in Seq(BlockType)
    PROVE  /\ NodeGrows /\ Known' = Known /\ Mined' = Mined
           /\ \A i : Settled(i)' = Settled(i)
           /\ ChainConsistent => ChainConsistent'
<1>1. mempool' = mempool /\ blocks' = blocks
  BY DEF node
<1>2. Known' = Known /\ Mined' = Mined
  BY <1>1 DEF Known, Mined
<1>3. \A tx : BlockOf(tx)' = BlockOf(tx)
  BY <1>1 DEF BlockOf
<1>4. ChainConsistent => ChainConsistent'
  BY <1>1, <1>2 DEF ChainConsistent
<1>5. \A i : Settled(i)' = Settled(i)
  BY <1>1 DEF Settled
<1> QED BY <1>1, <1>2, <1>3, <1>4, <1>5 DEF NodeGrows

LEMMA MineGrows ==
    ASSUME mempool \subseteq Transactions, IsFiniteSet(mempool),
           blocks \in Seq(BlockType), ChainConsistent, Mine
    PROVE  /\ mempool' \subseteq Transactions /\ IsFiniteSet(mempool')
           /\ blocks' \in Seq(BlockType)
           /\ ChainConsistent' /\ NodeGrows /\ Known' = Known
<1>1. PICK tx \in mempool \cup {NoTx}, status \in {"success", "reverted"} :
        /\ blocks' = Append(blocks, [tx |-> tx, status |-> status])
        /\ tx # NoTx => mempool' = mempool \ {tx}
        /\ tx = NoTx => mempool' = mempool
  BY NoTxIsNone DEF Mine
<1> DEFINE n == Len(blocks) + 1
           block == [tx |-> tx, status |-> status]
<1>2. block \in BlockType
  BY DEF BlockType
<1>3. /\ blocks' \in Seq(BlockType) /\ Len(blocks) \in Nat
      /\ Len(blocks') = n /\ DOMAIN blocks' = 1..n /\ DOMAIN blocks = 1..Len(blocks)
      /\ blocks'[n] = block
      /\ \A i \in 1..Len(blocks) : blocks'[i] = blocks[i]
  BY <1>1, <1>2
<1>4. mempool' \subseteq Transactions /\ IsFiniteSet(mempool')
  <2>1. mempool' \in SUBSET mempool
    BY <1>1
  <2> QED BY <2>1, FS_Subset
<1>5. blocks'[n].tx = tx
  BY <1>3
<1>6. Mined' = Mined \cup ({tx} \ {NoTx})
  <2>1. DOMAIN blocks' = DOMAIN blocks \cup {n}
    BY <1>3
  <2>2. {blocks'[i].tx : i \in DOMAIN blocks'} = {blocks[i].tx : i \in DOMAIN blocks} \cup {tx}
    BY <1>3, <1>5, <2>1
  <2> QED BY <2>2 DEF Mined
<1>7. mempool' \cap Mined' = {}
  BY <1>1, <1>4, <1>6, NoTxIsNone DEF ChainConsistent
<1>8. Known' = Known
  BY <1>1, <1>6 DEF Known
<1>9. ASSUME NEW i \in DOMAIN blocks', NEW j \in DOMAIN blocks',
             blocks'[i].tx = blocks'[j].tx, blocks'[i].tx # NoTx
      PROVE  i = j
  <2>1. tx # NoTx => \A k \in 1..Len(blocks) : blocks[k].tx # tx
    BY <1>1, <1>3 DEF ChainConsistent, Mined
  <2>2. CASE i = n \/ j = n
    BY <1>3, <1>5, <1>9, <2>1, <2>2
  <2>3. CASE i # n /\ j # n
    BY <1>3, <1>9, <2>3 DEF ChainConsistent
  <2> QED BY <2>2, <2>3
<1>10. ChainConsistent'
  BY <1>7, <1>9 DEF ChainConsistent
<1>11. ASSUME NEW t \in Mined
       PROVE  BlockOf(t)' = BlockOf(t) /\ blocks'[BlockOf(t)] = blocks[BlockOf(t)]
  <2>1. BlockOf(t) \in 1..Len(blocks) /\ blocks[BlockOf(t)].tx = t /\ t # NoTx
    BY <1>3, BlockFound DEF Mined
  <2>2. blocks'[BlockOf(t)] = blocks[BlockOf(t)] /\ BlockOf(t) \in DOMAIN blocks'
    BY <1>3, <2>1
  <2>3. \A i \in DOMAIN blocks' : blocks'[i].tx = t => i = BlockOf(t)
    BY <1>9, <2>1, <2>2
  <2>4. (CHOOSE i \in DOMAIN blocks' : blocks'[i].tx = t) = BlockOf(t)
    BY <2>1, <2>2, <2>3
  <2> QED BY <2>2, <2>4 DEF BlockOf
<1>12. NodeGrows
  BY <1>3, <1>6, <1>8, <1>11 DEF NodeGrows
<1> QED BY <1>3, <1>4, <1>8, <1>10, <1>12

LEMMA BroadcastGrows ==
    ASSUME mempool \subseteq Transactions, IsFiniteSet(mempool),
           blocks \in Seq(BlockType), ChainConsistent,
           NEW tx \in Transactions,
           mempool' = IF Takes(tx) THEN mempool \cup {tx} ELSE mempool,
           blocks' = blocks
    PROVE  /\ mempool' \subseteq Transactions /\ IsFiniteSet(mempool')
           /\ ChainConsistent' /\ NodeGrows /\ Mined' = Mined
           /\ Takes(tx) => tx \notin Known /\ Known' = Known \cup {tx}
           /\ ~Takes(tx) => Known' = Known
           /\ \A i : Settled(i)' = Settled(i)
<1>1. mempool' \subseteq Transactions /\ IsFiniteSet(mempool')
  BY FS_AddElement
<1>2. Mined' = Mined
  BY DEF Mined
<1>3. Takes(tx) => tx \notin Known /\ Known' = Known \cup {tx}
  BY <1>2 DEF Takes, Known
<1>4. ~Takes(tx) => Known' = Known
  BY <1>2 DEF Known
<1>5. ChainConsistent'
  BY <1>2, <1>3, <1>4 DEF ChainConsistent, Known
<1>6. NodeGrows
  <2>1. \A t : BlockOf(t)' = BlockOf(t)
    BY DEF BlockOf
  <2> QED BY <1>2, <1>3, <1>4, <2>1 DEF NodeGrows
<1>7. \A i : Settled(i)' = Settled(i)
  BY DEF Settled
<1> QED BY <1>1, <1>2, <1>3, <1>4, <1>5, <1>6, <1>7

\* A decision stands while the chain grows.
LEMMA SettledStays ==
    ASSUME NodeGrows, blocks \in Seq(BlockType), blocks' \in Seq(BlockType),
           NEW tx \in Mined, Settled(BlockOf(tx))
    PROVE  Settled(BlockOf(tx))'
<1>1. BlockOf(tx)' = BlockOf(tx) /\ blocks'[BlockOf(tx)] = blocks[BlockOf(tx)]
  BY DEF NodeGrows
<1>2. BlockOf(tx) \in Nat /\ Len(blocks) \in Nat /\ Len(blocks') \in Nat
      /\ Len(blocks) <= Len(blocks') /\ RequiredDepth \in Nat
  BY BlockFound, AttemptsAssumption DEF NodeGrows
<1>3. CASE blocks[BlockOf(tx)].status = "reverted"
  BY <1>1, <1>3 DEF Settled
<1>4. CASE Len(blocks) - BlockOf(tx) + 1 >= RequiredDepth
  <2>1. Len(blocks') - BlockOf(tx) + 1 >= RequiredDepth
    BY <1>2, <1>4
  <2> QED BY <1>1, <2>1 DEF Settled
<1> QED BY <1>3, <1>4 DEF Settled

LEMMA StatusStays ==
    ASSUME NodeGrows, NEW tx \in Mined
    PROVE  Status(tx)' = Status(tx)
BY DEF NodeGrows, Status

---------------------------------------------------------------------------
(* A step of one publisher leaves the others alone *)

\* Nothing of checkpoint c is touched.
Untouched(c) ==
    /\ pendingFile'[c] = pendingFile[c] /\ reservations'[c] = reservations[c]
    /\ pinned'[c] = pinned[c] /\ sending'[c] = sending[c]
    /\ confirming'[c] = confirming[c] /\ runtime'[c] = runtime[c]
    /\ told'[c] = told[c] /\ orphaned'[c] = orphaned[c]
    /\ Stored(c)' = Stored(c) /\ Paid(c)' = Paid(c)

LEMMA OthersKeep ==
    ASSUME AnchoringTypeOK, blocks' \in Seq(BlockType), NodeGrows,
           NEW c \in Checkpoints, CheckpointInv(c), Untouched(c)
    PROVE  CheckpointInv(c)'
<1>1. RecordsOf(c)'
  <2>1. \A tx \in Paid(c) : tx \in Kept(c) => tx \in Kept(c)'
    BY DEF Paid, Kept, Stored, Untouched
  <2> QED BY <2>1 DEF RecordsOf, Untouched, CheckpointInv
<1>2. SubmissionOf(c)'
  BY DEF SubmissionOf, Untouched, CheckpointInv, NodeGrows
<1>3. ConfirmationOf(c)'
  <2>1. PICK tx : tx = confirming[c].tx
    OBVIOUS
  <2>2. /\ confirming'[c] = confirming[c] /\ told'[c] = told[c]
        /\ Stored(c)' = Stored(c) /\ tx = confirming'[c].tx
    BY <2>1 DEF Untouched
  <2>3. confirming[c].at \in {"head", "decided"} =>
            tx \in Mined /\ tx \in Mined' /\ confirming[c].seen = BlockOf(tx)'
    BY <2>1 DEF CheckpointInv, ConfirmationOf, NodeGrows
  <2>4. confirming[c].at = "decided" => Settled(BlockOf(tx))'
    <3>1. confirming[c].at = "decided" => Settled(BlockOf(tx))
      BY <2>1 DEF CheckpointInv, ConfirmationOf
    <3> QED BY <2>3, <3>1, SettledStays DEF AnchoringTypeOK
  <2> QED BY <2>1, <2>2, <2>3, <2>4 DEF CheckpointInv, ConfirmationOf
<1>4. PaymentsOf(c)'
  <2>1. MayPayAgain(c)' => MayPayAgain(c)
    BY DEF Untouched, NodeGrows, MayPayAgain
  <2> QED BY <2>1 DEF Untouched, PaymentsOf, CheckpointInv
<1> QED BY <1>1, <1>2, <1>3, <1>4 DEF CheckpointInv

LEMMA ReceiptsKeep ==
    ASSUME ReceiptsTrue, NodeGrows, receipts' = receipts,
           blocks \in Seq(BlockType), blocks' \in Seq(BlockType)
    PROVE  ReceiptsTrue'
<1> SUFFICES ASSUME NEW r \in receipts
             PROVE  /\ r.tx \in Mined'
                    /\ r.status = Status(r.tx)'
                    /\ r.status = "confirmed" =>
                            Len(blocks') - BlockOf(r.tx)' + 1 >= RequiredDepth
                    /\ \A q \in receipts : q.tx = r.tx => q = r
  BY DEF ReceiptsTrue
<1>1. r.tx \in Mined /\ r.status = Status(r.tx)
  BY DEF ReceiptsTrue
<1>2. r.tx \in Mined' /\ r.status = Status(r.tx)'
  BY <1>1, StatusStays DEF NodeGrows
<1>3. ASSUME r.status = "confirmed"
      PROVE  Len(blocks') - BlockOf(r.tx)' + 1 >= RequiredDepth
  <2>1. Len(blocks) - BlockOf(r.tx) + 1 >= RequiredDepth
    BY <1>3 DEF ReceiptsTrue
  <2>2. BlockOf(r.tx) \in Nat /\ Len(blocks) \in Nat /\ Len(blocks') \in Nat
        /\ RequiredDepth \in Nat /\ Len(blocks) <= Len(blocks')
        /\ BlockOf(r.tx)' = BlockOf(r.tx)
    BY <1>1, BlockFound, AttemptsAssumption DEF NodeGrows
  <2> QED BY <2>1, <2>2
<1>4. \A q \in receipts : q.tx = r.tx => q = r
  BY DEF ReceiptsTrue
<1> QED BY <1>2, <1>3, <1>4

---------------------------------------------------------------------------
(* Steps that leave the node alone *)

\* What a step of checkpoint c leaves of the others.
OthersUntouched(c) ==
    \A d \in Checkpoints \ {c} :
        /\ pendingFile'[d] = pendingFile[d] /\ reservations'[d] = reservations[d]
        /\ pinned'[d] = pinned[d] /\ sending'[d] = sending[d]
        /\ confirming'[d] = confirming[d] /\ runtime'[d] = runtime[d]
        /\ told'[d] = told[d] /\ orphaned'[d] = orphaned[d]

\* Everything but the row of a new receipt follows from the invariant of the
\* checkpoint that moved.
LEMMA PublisherStep ==
    ASSUME AnchoringInv, NEW c \in Checkpoints, AnchoringTypeOK',
           UNCHANGED <<node, receipts>>, OthersUntouched(c), CheckpointInv(c)'
    PROVE  AnchoringInv'
<1>1. /\ NodeGrows /\ Known' = Known /\ ChainConsistent'
      /\ blocks \in Seq(BlockType) /\ blocks' \in Seq(BlockType)
  BY NodeStays DEF AnchoringInv, AnchoringTypeOK
<1>2. ReceiptsTrue'
  BY <1>1, ReceiptsKeep DEF AnchoringInv
<1>3. ASSUME NEW d \in Checkpoints, d # c PROVE CheckpointInv(d)'
  <2>1. Stored(d)' = Stored(d) /\ Paid(d)' = Paid(d)
    BY <1>1 DEF Stored, Paid
  <2>2. Untouched(d)
    BY <1>3, <2>1 DEF Untouched, OthersUntouched
  <2> QED BY <1>1, <2>2, OthersKeep DEF AnchoringInv
<1> QED BY <1>1, <1>2, <1>3 DEF AnchoringInv

LEMMA StillNode ==
    ASSUME AnchoringInv, UNCHANGED <<node, receipts>>
    PROVE  /\ Known' = Known /\ Mined' = Mined
           /\ \A d : Paid(d)' = Paid(d) /\ Stored(d)' = Stored(d)
           /\ \A tx : BlockOf(tx)' = BlockOf(tx)
           /\ \A i : Settled(i)' = Settled(i)
<1>1. Known' = Known /\ Mined' = Mined /\ \A i : Settled(i)' = Settled(i)
  BY NodeStays DEF AnchoringInv, AnchoringTypeOK
<1>2. \A tx : BlockOf(tx)' = BlockOf(tx)
  BY DEF node, BlockOf
<1>3. \A d : Paid(d)' = Paid(d) /\ Stored(d)' = Stored(d)
  BY <1>1 DEF Paid, Stored
<1> QED BY <1>1, <1>2, <1>3

LEMMA RecordsStay ==
    ASSUME AnchoringInv, UNCHANGED <<node, receipts>>, NEW c \in Checkpoints,
           told'[c] = told[c], pendingFile'[c] = pendingFile[c],
           reservations'[c] = reservations[c]
    PROVE  RecordsOf(c)'
<1>1. Kept(c)' = Kept(c)
  BY DEF Kept
<1>2. RecordsOf(c)
  BY DEF AnchoringInv, CheckpointInv
<1> QED BY <1>1, <1>2, StillNode DEF RecordsOf

LEMMA ConfirmationStays ==
    ASSUME AnchoringInv, UNCHANGED <<node, receipts>>, NEW c \in Checkpoints,
           told[c] \subseteq told'[c], confirming'[c] = confirming[c]
    PROVE  ConfirmationOf(c)'
<1>1. ConfirmationOf(c)
  BY DEF AnchoringInv, CheckpointInv
<1>2. PICK tx : tx = confirming[c].tx
  OBVIOUS
<1>3. tx = confirming'[c].tx
  BY <1>2
<1> QED BY <1>1, <1>2, <1>3, StillNode DEF ConfirmationOf

LEMMA ConfirmationEnds ==
    ASSUME NEW c \in Checkpoints, confirming'[c].at = "idle"
    PROVE  ConfirmationOf(c)'
BY DEF ConfirmationOf

LEMMA SubmissionStays ==
    ASSUME AnchoringInv, UNCHANGED <<node, receipts>>, NEW c \in Checkpoints,
           told[c] \subseteq told'[c], pendingFile'[c] \subseteq pendingFile[c],
           pinned'[c] = pinned[c], sending'[c] = sending[c],
           runtime'[c].at = "submitted" => runtime[c].at = "submitted" /\ runtime'[c].tx = runtime[c].tx
    PROVE  SubmissionOf(c)'
<1>1. SubmissionOf(c)
  BY DEF AnchoringInv, CheckpointInv
<1> QED BY <1>1, StillNode DEF SubmissionOf

LEMMA SubmissionEnds ==
    ASSUME AnchoringInv, UNCHANGED <<node, receipts>>, NEW c \in Checkpoints,
           told[c] \subseteq told'[c],
           pinned'[c] \in {pinned[c], NoTx}, sending'[c].at = "idle",
           runtime'[c].at = "submitted" => runtime[c].at = "submitted" /\ runtime'[c].tx = runtime[c].tx
    PROVE  SubmissionOf(c)'
<1>1. SubmissionOf(c)
  BY DEF AnchoringInv, CheckpointInv
<1> QED BY <1>1, StillNode DEF SubmissionOf

\* A step after which the publisher may pay again only if it might before.
LEMMA PaymentsStay ==
    ASSUME AnchoringInv, UNCHANGED <<node, receipts>>, NEW c \in Checkpoints,
           orphaned'[c] = orphaned[c], MayPayAgain(c)' => MayPayAgain(c)
    PROVE  PaymentsOf(c)'
<1>1. PaymentsOf(c)
  BY DEF AnchoringInv, CheckpointInv
<1> QED BY <1>1, StillNode DEF PaymentsOf

LEMMA SamePayments ==
    ASSUME AnchoringInv, UNCHANGED <<node, receipts>>, NEW c \in Checkpoints,
           orphaned'[c] = orphaned[c], pinned'[c] = pinned[c],
           \/ sending'[c].at = sending[c].at
           \/ sending'[c].at \notin {"sign", "broadcast", "exists", "unstored"},
           reservations'[c] = reservations[c], pendingFile'[c] = pendingFile[c]
    PROVE  PaymentsOf(c)'
<1>1. MayPayAgain(c)' => MayPayAgain(c)
  BY StillNode DEF MayPayAgain
<1> QED BY <1>1, PaymentsStay

---------------------------------------------------------------------------
(* submit *)

LEMMA SubmitKeeps ==
    ASSUME AnchoringInv, NEW c \in Checkpoints, Submit(c)
    PROVE  AnchoringInv'
<1>1. AnchoringTypeOK
  BY DEF AnchoringInv
<1>2. /\ runtime' \in [Checkpoints -> CallerType]
      /\ runtime'[c].at = "submit"
      /\ \A d \in Checkpoints \ {c} : runtime'[d] = runtime[d]
  <2>1. runtime \in [Checkpoints -> CallerType] /\ runtime[c].left > 0
        /\ runtime' = [runtime EXCEPT ![c].at = "submit", ![c].left = @ - 1]
    BY <1>1 DEF AnchoringTypeOK, Submit
  <2>2. runtime[c] \in CallerType /\ runtime[c].left - 1 \in Nat
    BY <2>1, Callers
  <2> QED BY <2>1, <2>2 DEF CallerType
<1>3. /\ sending' \in [Checkpoints -> SendType]
      /\ \/ sending'[c] = sending[c]
         \/ sending'[c].at = "lookup"
      /\ \A d \in Checkpoints \ {c} : sending'[d] = sending[d]
  <2>1. sending \in [Checkpoints -> SendType]
    BY <1>1 DEF AnchoringTypeOK
  <2>2. CASE sending' = [sending EXCEPT ![c] = [Asleep EXCEPT !.at = "lookup"]]
    BY <2>1, <2>2 DEF SendType, Asleep
  <2> QED BY <2>1, <2>2 DEF Submit
<1>4. UNCHANGED <<node, receipts, pendingFile, reservations, pinned, confirming,
                  told, lives, orphaned, losses>>
  BY DEF Submit
<1>5. AnchoringTypeOK' /\ OthersUntouched(c)
  BY <1>1, <1>2, <1>3, <1>4 DEF AnchoringTypeOK, OthersUntouched, node
<1>6. RecordsOf(c)' /\ ConfirmationOf(c)' /\ PaymentsOf(c)'
  BY <1>3, <1>4, RecordsStay, ConfirmationStays, SamePayments
<1>7. SubmissionOf(c)'
  <2>1. SubmissionOf(c)
    BY DEF AnchoringInv, CheckpointInv
  <2> QED BY <1>2, <1>3, <1>4, <2>1, StillNode DEF SubmissionOf
<1> QED BY <1>4, <1>5, <1>6, <1>7, PublisherStep DEF CheckpointInv

LEMMA LookUpKeeps ==
    ASSUME AnchoringInv, NEW c \in Checkpoints, LookUp(c)
    PROVE  AnchoringInv'
<1>1. AnchoringTypeOK
  BY DEF AnchoringInv
<1>2. UNCHANGED <<node, receipts, pendingFile, reservations, pinned, confirming,
                  runtime, told, lives, orphaned, losses>>
  BY DEF LookUp
<1>3. /\ sending' \in [Checkpoints -> SendType]
      /\ \/ /\ sending'[c].at = "stored"
            /\ \E r \in Stored(c) : sending'[c].tx = r.tx
         \/ sending'[c].at = "unstored" /\ Stored(c) = {}
      /\ \A d \in Checkpoints \ {c} : sending'[d] = sending[d]
  <2>1. CASE Stored(c) = {}
    <3>1. /\ sending \in [Checkpoints -> SendType]
          /\ sending' = [sending EXCEPT ![c].at = "unstored"]
      BY <1>1, <2>1 DEF AnchoringTypeOK, LookUp
    <3>2. /\ sending' \in [Checkpoints -> SendType] /\ sending'[c].at = "unstored"
          /\ \A d \in Checkpoints \ {c} : sending'[d] = sending[d]
      BY ONLY <3>1, c \in Checkpoints DEF SendType
    <3> QED BY <2>1, <3>2
  <2>2. CASE Stored(c) # {}
    <3>1. PICK r \in Stored(c) :
            sending' = [sending EXCEPT ![c] = [Asleep EXCEPT !.at = "stored", !.tx = r.tx]]
      BY <2>2 DEF LookUp
    <3>2. r.tx \in Transactions
      BY <1>1 DEF Stored, AnchoringTypeOK, ReceiptType
    <3> QED BY <1>1, <3>1, <3>2 DEF AnchoringTypeOK, SendType, Asleep
  <2> QED BY <2>1, <2>2
<1>4. AnchoringTypeOK' /\ OthersUntouched(c)
  BY <1>1, <1>2, <1>3 DEF AnchoringTypeOK, OthersUntouched, node
<1>5. RecordsOf(c)' /\ ConfirmationOf(c)'
  BY <1>2, RecordsStay, ConfirmationStays
<1>6. SubmissionOf(c)'
  <2>1. SubmissionOf(c)
    BY DEF AnchoringInv, CheckpointInv
  <2> QED BY <1>2, <1>3, <2>1, StillNode DEF SubmissionOf
<1>7. PaymentsOf(c)'
  <2>1. MayPayAgain(c)' => MayPayAgain(c)
    BY <1>2, <1>3, StillNode DEF MayPayAgain
  <2> QED BY <1>2, <2>1, PaymentsStay
<1> QED BY <1>2, <1>4, <1>5, <1>6, <1>7, PublisherStep DEF CheckpointInv

\* What Answer does, given a transaction that was sent.
LEMMA AnswerEffect ==
    ASSUME AnchoringTypeOK, NEW c \in Checkpoints, NEW tx \in Transactions, Answer(c, tx)
    PROVE  /\ sending' \in [Checkpoints -> SendType] /\ sending'[c].at = "idle"
           /\ runtime' \in [Checkpoints -> CallerType]
           /\ runtime'[c].at = "submitted" => runtime'[c].tx = tx \/ runtime'[c] = runtime[c]
           /\ told' \in [Checkpoints -> SUBSET Transactions]
           /\ told'[c] = told[c] \cup {tx}
           /\ \A d \in Checkpoints \ {c} :
                sending'[d] = sending[d] /\ runtime'[d] = runtime[d] /\ told'[d] = told[d]
<1>1. /\ sending' \in [Checkpoints -> SendType] /\ sending'[c].at = "idle"
      /\ \A d \in Checkpoints \ {c} : sending'[d] = sending[d]
  BY DEF AnchoringTypeOK, SendType, Answer, Asleep
<1>2. /\ runtime' \in [Checkpoints -> CallerType]
      /\ runtime'[c].at = "submitted" => runtime'[c].tx = tx \/ runtime'[c] = runtime[c]
      /\ \A d \in Checkpoints \ {c} : runtime'[d] = runtime[d]
  BY ZenonT(60) DEF AnchoringTypeOK, CallerType, Answer
<1>3. /\ told' \in [Checkpoints -> SUBSET Transactions]
      /\ told'[c] = told[c] \cup {tx}
      /\ \A d \in Checkpoints \ {c} : told'[d] = told[d]
  BY DEF AnchoringTypeOK, Answer
<1> QED BY <1>1, <1>2, <1>3

LEMMA AnswerKeeps ==
    ASSUME AnchoringInv, NEW c \in Checkpoints, NEW tx \in told[c], Answer(c, tx),
           UNCHANGED <<node, receipts, pendingFile, reservations, pinned, confirming,
                       lives, orphaned, losses>>
    PROVE  AnchoringInv'
<1>1. AnchoringTypeOK /\ tx \in Transactions
  BY DEF AnchoringInv, AnchoringTypeOK
<1>2. /\ sending' \in [Checkpoints -> SendType] /\ sending'[c].at = "idle"
      /\ runtime' \in [Checkpoints -> CallerType]
      /\ runtime'[c].at = "submitted" => runtime'[c].tx = tx \/ runtime'[c] = runtime[c]
      /\ told' \in [Checkpoints -> SUBSET Transactions]
      /\ told'[c] = told[c]
      /\ \A d \in Checkpoints \ {c} :
            sending'[d] = sending[d] /\ runtime'[d] = runtime[d] /\ told'[d] = told[d]
  <2>1. AnchoringTypeOK /\ tx \in Transactions /\ Answer(c, tx)
    BY <1>1
  <2>2. /\ sending' \in [Checkpoints -> SendType] /\ sending'[c].at = "idle"
        /\ runtime' \in [Checkpoints -> CallerType]
        /\ runtime'[c].at = "submitted" => runtime'[c].tx = tx \/ runtime'[c] = runtime[c]
        /\ told' \in [Checkpoints -> SUBSET Transactions]
        /\ told'[c] = told[c] \cup {tx}
        /\ \A d \in Checkpoints \ {c} :
              sending'[d] = sending[d] /\ runtime'[d] = runtime[d] /\ told'[d] = told[d]
    BY ONLY <2>1, AnswerEffect
  <2>3. told[c] \cup {tx} = told[c]
    OBVIOUS
  <2> QED BY ONLY <2>2, <2>3
<1>3. AnchoringTypeOK' /\ OthersUntouched(c)
  BY <1>1, <1>2 DEF AnchoringTypeOK, OthersUntouched, node
<1>4. RecordsOf(c)' /\ ConfirmationOf(c)' /\ PaymentsOf(c)'
  BY <1>2, RecordsStay, ConfirmationStays, SamePayments
<1>5. SubmissionOf(c)'
  <2>1. SubmissionOf(c)
    BY DEF AnchoringInv, CheckpointInv
  <2> QED BY <1>2, <2>1, StillNode DEF SubmissionOf
<1> QED BY <1>3, <1>4, <1>5, PublisherStep DEF CheckpointInv

LEMMA AnswerStoredKeeps ==
    ASSUME AnchoringInv, NEW c \in Checkpoints, AnswerStored(c)
    PROVE  AnchoringInv'
<1>1. sending[c].tx \in told[c]
  BY DEF AnswerStored, AnchoringInv, CheckpointInv, SubmissionOf, RecordsOf
<1> QED BY <1>1, AnswerKeeps DEF AnswerStored

LEMMA ReservedFound ==
    ASSUME AnchoringInv, NEW c \in Checkpoints
    PROVE  \/ Reserved(c) # NoTx /\ Reserved(c) \in told[c]
           \/ Reserved(c) = NoTx /\ reservations[c] = NoTx /\ pendingFile[c] = {}
<1>1. RecordsOf(c) /\ pendingFile[c] \subseteq Transactions
  BY DEF AnchoringInv, CheckpointInv, AnchoringTypeOK
<1>2. CASE reservations[c] # NoTx
  BY <1>1, <1>2 DEF Reserved, RecordsOf
<1>3. CASE reservations[c] = NoTx /\ pendingFile[c] # {}
  <2>1. PICK tx : tx = Reserved(c)
    OBVIOUS
  <2>2. tx \in pendingFile[c]
    BY <1>3, <2>1 DEF Reserved
  <2> QED BY <1>1, <2>1, <2>2, NoTxIsNone DEF RecordsOf
<1>4. CASE reservations[c] = NoTx /\ pendingFile[c] = {}
  BY <1>4 DEF Reserved
<1> QED BY <1>2, <1>3, <1>4

\* A step that changes only the submission of c.
LEMMA SendingSet ==
    ASSUME sending \in [Checkpoints -> SendType], NEW c \in Checkpoints,
           NEW at \in SendPhases, NEW left \in Nat, NEW tx \in Transactions \cup {NoTx},
           \/ sending' = [sending EXCEPT ![c].at = at] /\ tx = sending[c].tx
           \/ sending' = [sending EXCEPT ![c].at = at, ![c].tx = tx]
           \/ /\ sending' = [sending EXCEPT ![c].at = at, ![c].left = @ - 1]
              /\ sending[c].left > 1 /\ tx = sending[c].tx
           \/ /\ sending' = [sending EXCEPT ![c] = [Asleep EXCEPT !.at = at, !.left = left]]
              /\ tx = NoTx
           \/ sending' = [sending EXCEPT ![c] = Asleep] /\ at = "idle" /\ tx = NoTx
    PROVE  /\ sending' \in [Checkpoints -> SendType]
           /\ sending'[c].at = at /\ sending'[c].tx = tx
           /\ \A d \in Checkpoints \ {c} : sending'[d] = sending[d]
<1>1. CASE sending' = [sending EXCEPT ![c].at = at] /\ tx = sending[c].tx
  BY <1>1 DEF SendType, SendPhases
<1>2. CASE sending' = [sending EXCEPT ![c].at = at, ![c].tx = tx]
  BY <1>2 DEF SendType, SendPhases
<1>3. CASE /\ sending' = [sending EXCEPT ![c].at = at, ![c].left = @ - 1]
           /\ sending[c].left > 1 /\ tx = sending[c].tx
  <2>1. sending[c] \in SendType /\ sending[c].left - 1 \in Nat
    BY <1>3, Sendings
  <2> QED BY <1>3, <2>1 DEF SendType, SendPhases
<1>4. CASE /\ sending' = [sending EXCEPT ![c] = [Asleep EXCEPT !.at = at, !.left = left]]
           /\ tx = NoTx
  BY <1>4 DEF SendType, SendPhases, Asleep
<1>5. CASE sending' = [sending EXCEPT ![c] = Asleep] /\ at = "idle" /\ tx = NoTx
  BY <1>5 DEF SendType, Asleep
<1> QED BY <1>1, <1>2, <1>3, <1>4, <1>5

LEMMA AnswerReservedKeeps ==
    ASSUME AnchoringInv, NEW c \in Checkpoints, AnswerReserved(c)
    PROVE  AnchoringInv'
<1>1. CASE Reserved(c) # NoTx
  <2>1. Reserved(c) \in told[c] /\ Answer(c, Reserved(c))
    BY <1>1, ReservedFound DEF AnswerReserved
  <2> QED BY <2>1, AnswerKeeps DEF AnswerReserved
<1>2. CASE Reserved(c) = NoTx
  <2>1. AnchoringTypeOK /\ sending \in [Checkpoints -> SendType] /\ SendAttempts \in Nat
    BY AttemptsAssumption DEF AnchoringInv, AnchoringTypeOK
  <2>2. UNCHANGED <<node, receipts, pendingFile, reservations, pinned, confirming,
                    runtime, told, lives, orphaned, losses>>
    BY <1>2 DEF AnswerReserved
  <2>3. "sign" \in SendPhases
    BY DEF SendPhases
  <2>4. /\ sending' \in [Checkpoints -> SendType]
        /\ sending'[c].at = "sign"
        /\ \A d \in Checkpoints \ {c} : sending'[d] = sending[d]
    BY <1>2, <2>1, <2>3, SendingSet, ZenonT(60) DEF AnswerReserved
  <2>5. AnchoringTypeOK' /\ OthersUntouched(c)
    BY <2>1, <2>2, <2>4 DEF AnchoringTypeOK, OthersUntouched, node
  <2>6. RecordsOf(c)' /\ ConfirmationOf(c)'
    BY <2>2, RecordsStay, ConfirmationStays
  <2>7. sending[c].at = "unstored" /\ reservations[c] = NoTx /\ pendingFile[c] = {}
    BY <1>2, ReservedFound DEF AnswerReserved
  <2>8. SubmissionOf(c)'
    <3>1. SubmissionOf(c)
      BY DEF AnchoringInv, CheckpointInv
    <3> QED BY <2>2, <2>4, <2>7, <3>1, StillNode DEF SubmissionOf
  <2>9. PaymentsOf(c)'
    <3>1. MayPayAgain(c)' => MayPayAgain(c)
      BY <2>2, <2>7, StillNode DEF MayPayAgain
    <3> QED BY <2>2, <3>1, PaymentsStay
  <2> QED BY <2>2, <2>5, <2>6, <2>8, <2>9, PublisherStep DEF CheckpointInv
<1> QED BY <1>1, <1>2

LEMMA SignKeeps ==
    ASSUME AnchoringInv, NEW c \in Checkpoints, Sign(c)
    PROVE  AnchoringInv'
<1>1. AnchoringTypeOK /\ SubmissionOf(c) /\ sending \in [Checkpoints -> SendType]
  BY DEF AnchoringInv, AnchoringTypeOK, CheckpointInv
<1>2. UNCHANGED <<node, receipts, pendingFile, reservations, confirming, runtime,
                  told, lives, orphaned, losses>>
  BY DEF Sign
<1>3. PICK tx : /\ tx = IF pinned[c] # NoTx THEN pinned[c]
                         ELSE [of |-> c, nonce |-> PendingNonce, life |-> lives[c]]
                /\ pinned' = [pinned EXCEPT ![c] = tx]
                /\ sending' = [sending EXCEPT ![c].at = "broadcast", ![c].tx = tx]
  BY DEF Sign
<1>4. tx \in Transactions /\ tx.of = c /\ tx # NoTx
  <2>1. PendingNonce \in Nat
    BY <1>1, KnownFinite, FS_CardinalityType DEF PendingNonce, AnchoringTypeOK
  <2>2. lives[c] \in Nat /\ pinned[c] \in Transactions \cup {NoTx}
    BY <1>1 DEF AnchoringTypeOK
  <2>3. CASE pinned[c] = NoTx
    BY <1>3, <2>1, <2>2, <2>3, NoTxIsNone DEF Transactions
  <2>4. CASE pinned[c] # NoTx
    BY <1>1, <1>3, <2>2, <2>4 DEF SubmissionOf
  <2> QED BY <2>3, <2>4
<1>5. /\ pinned' \in [Checkpoints -> Transactions \cup {NoTx}] /\ pinned'[c] = tx
      /\ \A d \in Checkpoints \ {c} : pinned'[d] = pinned[d]
  BY <1>1, <1>3, <1>4 DEF AnchoringTypeOK
<1>6. /\ sending' \in [Checkpoints -> SendType]
      /\ sending'[c].at = "broadcast" /\ sending'[c].tx = tx
      /\ \A d \in Checkpoints \ {c} : sending'[d] = sending[d]
  <2>1. "broadcast" \in SendPhases /\ 0 \in Nat
    BY DEF SendPhases
  <2>2. sending' = [sending EXCEPT ![c].at = "broadcast", ![c].tx = tx]
    BY <1>3
  <2>3. sending \in [Checkpoints -> SendType] /\ tx \in Transactions \cup {NoTx}
    BY <1>1, <1>4
  <2> QED BY <2>1, <2>2, <2>3, SendingSet
<1>7. AnchoringTypeOK' /\ OthersUntouched(c)
  BY <1>1, <1>2, <1>5, <1>6 DEF AnchoringTypeOK, OthersUntouched, node
<1>8. RecordsOf(c)' /\ ConfirmationOf(c)'
  BY <1>2, RecordsStay, ConfirmationStays
<1>9. sending[c].at = "sign"
  BY DEF Sign
<1>10. SubmissionOf(c)'
  BY <1>1, <1>2, <1>4, <1>5, <1>6, <1>9, StillNode DEF SubmissionOf
<1>11. PaymentsOf(c)'
  <2>1. NoTx \notin Known
    BY <1>1, KnownTypes DEF AnchoringTypeOK
  <2>2. pinned'[c] \notin Known => pinned[c] \notin Known
    BY <1>3, <1>5, <2>1
  <2>3. MayPayAgain(c)' => MayPayAgain(c)
    BY <1>2, <1>9, <2>2, StillNode DEF MayPayAgain
  <2> QED BY <1>2, <2>3, PaymentsStay
<1> QED BY <1>2, <1>7, <1>8, <1>10, <1>11, PublisherStep DEF CheckpointInv

\* The next attempt of a submission, or its end.
LEMMA RetryKeeps ==
    ASSUME AnchoringInv, NEW c \in Checkpoints, Retry(c),
           sending[c].at \in {"sign", "exists"}, losses' \in Nat,
           UNCHANGED <<node, receipts, pendingFile, reservations, pinned, confirming,
                       told, lives, orphaned>>
    PROVE  AnchoringInv'
<1>1. /\ AnchoringTypeOK /\ SubmissionOf(c)
      /\ sending \in [Checkpoints -> SendType] /\ runtime \in [Checkpoints -> CallerType]
  BY DEF AnchoringInv, AnchoringTypeOK, CheckpointInv
<1>2. /\ sending' \in [Checkpoints -> SendType]
      /\ sending'[c].at \in {"sign", "idle"}
      /\ \A d \in Checkpoints \ {c} : sending'[d] = sending[d]
  <2>1. /\ "sign" \in SendPhases /\ "idle" \in SendPhases /\ 0 \in Nat
        /\ sending[c].tx \in Transactions \cup {NoTx}
    BY <1>1, Sendings DEF SendPhases
  <2>2. CASE sending[c].left > 1
    BY <1>1, <2>1, <2>2, SendingSet DEF Retry
  <2>3. CASE ~(sending[c].left > 1)
    BY <1>1, <2>1, <2>3, SendingSet DEF Retry
  <2> QED BY <2>2, <2>3
<1>3. /\ runtime' \in [Checkpoints -> CallerType]
      /\ runtime'[c].at = "submitted" => runtime'[c] = runtime[c]
      /\ \A d \in Checkpoints \ {c} : runtime'[d] = runtime[d]
  <2>1. \/ runtime' = runtime
        \/ runtime' = [runtime EXCEPT ![c].at = "idle"]
    BY DEF Retry
  <2> QED BY <1>1, <2>1 DEF CallerType
<1>4. AnchoringTypeOK' /\ OthersUntouched(c)
  BY <1>1, <1>2, <1>3 DEF AnchoringTypeOK, OthersUntouched, node
<1>5. RecordsOf(c)' /\ ConfirmationOf(c)'
  BY RecordsStay, ConfirmationStays
<1>6. SubmissionOf(c)'
  BY <1>1, <1>2, <1>3, StillNode DEF SubmissionOf
<1>7. PaymentsOf(c)'
  <2>1. MayPayAgain(c)' => MayPayAgain(c)
    BY <1>2, StillNode DEF MayPayAgain
  <2> QED BY <2>1, PaymentsStay
<1> QED BY <1>4, <1>5, <1>6, <1>7, PublisherStep DEF CheckpointInv

LEMMA SignFailsKeeps ==
    ASSUME AnchoringInv, NEW c \in Checkpoints, SignFails(c)
    PROVE  AnchoringInv'
<1>1. losses' \in Nat
  BY DEF SignFails, AnchoringInv, AnchoringTypeOK
<1> QED BY <1>1, RetryKeeps DEF SignFails

LEMMA ExistsKeeps ==
    ASSUME AnchoringInv, NEW c \in Checkpoints, Exists(c)
    PROVE  AnchoringInv'
<1>1. losses' \in Nat
  BY DEF Exists, AnchoringInv, AnchoringTypeOK
<1>2. CASE Retry(c)
  BY <1>1, <1>2, RetryKeeps DEF Exists
<1>3. CASE /\ sending[c].tx \in Known
           /\ sending' = [sending EXCEPT ![c].at = "sent"]
           /\ UNCHANGED <<runtime, losses>>
  <2>1. AnchoringTypeOK /\ SubmissionOf(c) /\ sending \in [Checkpoints -> SendType]
    BY DEF AnchoringInv, AnchoringTypeOK, CheckpointInv
  <2>2. UNCHANGED <<node, receipts, pendingFile, reservations, pinned, confirming,
                    runtime, told, lives, orphaned, losses>>
    BY <1>3 DEF Exists
  <2>3. /\ sending' \in [Checkpoints -> SendType]
        /\ sending'[c].at = "sent" /\ sending'[c].tx = sending[c].tx
        /\ \A d \in Checkpoints \ {c} : sending'[d] = sending[d]
    <3>1. "sent" \in SendPhases /\ 0 \in Nat /\ sending[c].tx \in Transactions \cup {NoTx}
      BY <2>1, Sendings DEF SendPhases
    <3> QED BY <1>3, <2>1, <3>1, SendingSet
  <2>4. AnchoringTypeOK' /\ OthersUntouched(c)
    BY <2>1, <2>2, <2>3 DEF AnchoringTypeOK, OthersUntouched, node
  <2>5. RecordsOf(c)' /\ ConfirmationOf(c)'
    BY <2>2, RecordsStay, ConfirmationStays
  <2>6. sending[c].at = "exists"
    BY DEF Exists
  <2>7. SubmissionOf(c)'
    BY <1>3, <2>1, <2>2, <2>3, <2>6, StillNode DEF SubmissionOf
  <2>8. PaymentsOf(c)'
    <3>1. pinned[c] \in Known
      BY <1>3, <2>1, <2>6 DEF SubmissionOf
    <3>2. ~MayPayAgain(c)'
      BY <2>2, <3>1, StillNode DEF MayPayAgain
    <3> QED BY <2>2, <3>2, PaymentsStay
  <2> QED BY <2>2, <2>4, <2>5, <2>7, <2>8, PublisherStep DEF CheckpointInv
<1> QED BY <1>2, <1>3 DEF Exists

LEMMA ReserveKeeps ==
    ASSUME AnchoringInv, NEW c \in Checkpoints, Reserve(c)
    PROVE  AnchoringInv'
<1> DEFINE tx == sending[c].tx
<1>1. AnchoringTypeOK /\ SubmissionOf(c) /\ RecordsOf(c) /\ sending[c].at = "sent"
  BY DEF AnchoringInv, CheckpointInv, Reserve
<1>2. tx = pinned[c] /\ tx \in Known /\ tx # NoTx /\ tx.of = c /\ pendingFile[c] = {}
  BY <1>1 DEF SubmissionOf
<1>3. tx \in Transactions /\ tx \in Paid(c)
  BY <1>1, <1>2, KnownTypes DEF AnchoringTypeOK, Paid
<1>4. Answer(c, tx)
  BY DEF Reserve
<1> HIDE DEF tx
<1>5. /\ sending' \in [Checkpoints -> SendType] /\ sending'[c].at = "idle"
      /\ runtime' \in [Checkpoints -> CallerType]
      /\ runtime'[c].at = "submitted" => runtime'[c].tx = tx \/ runtime'[c] = runtime[c]
      /\ told' \in [Checkpoints -> SUBSET Transactions]
      /\ told'[c] = told[c] \cup {tx}
      /\ \A d \in Checkpoints \ {c} :
            sending'[d] = sending[d] /\ runtime'[d] = runtime[d] /\ told'[d] = told[d]
  BY <1>1, <1>3, <1>4, AnswerEffect
<1>6. /\ reservations' = [reservations EXCEPT ![c] = tx]
      /\ pendingFile' = [pendingFile EXCEPT ![c] = @ \cup {tx}]
      /\ UNCHANGED <<node, receipts, pinned, confirming, lives, orphaned, losses>>
  BY DEF Reserve, tx
<1>7. /\ reservations' \in [Checkpoints -> Transactions \cup {NoTx}]
      /\ reservations'[c] = tx
      /\ pendingFile' \in [Checkpoints -> SUBSET Transactions]
      /\ pendingFile'[c] = {tx}
      /\ \A d \in Checkpoints \ {c} :
            reservations'[d] = reservations[d] /\ pendingFile'[d] = pendingFile[d]
  BY <1>1, <1>2, <1>3, <1>6 DEF AnchoringTypeOK
<1>8. AnchoringTypeOK' /\ OthersUntouched(c)
  BY <1>1, <1>5, <1>6, <1>7 DEF AnchoringTypeOK, OthersUntouched, node
<1>9. RecordsOf(c)'
  <2>1. Paid(c)' = Paid(c) /\ Stored(c)' = Stored(c) /\ Kept(c)' = Kept(c) \cup {tx}
    BY <1>2, <1>6, <1>7, StillNode DEF Kept
  <2> QED BY <1>1, <1>3, <1>5, <1>7, <2>1 DEF RecordsOf
<1>10. ConfirmationOf(c)'
  BY <1>5, <1>6, ConfirmationStays
<1>11. SubmissionOf(c)'
  BY <1>1, <1>5, <1>6, <1>7, StillNode DEF SubmissionOf
<1>12. PaymentsOf(c)'
  <2>1. ~MayPayAgain(c)'
    BY <1>2, <1>6, StillNode DEF MayPayAgain
  <2> QED BY <1>6, <2>1, PaymentsStay
<1> QED BY <1>6, <1>8, <1>9, <1>10, <1>11, <1>12, PublisherStep DEF CheckpointInv

LEMMA OneMore ==
    ASSUME NEW S, NEW T, NEW x, IsFiniteSet(S), T = S \cup {x}
    PROVE  Cardinality(T) \in Nat /\ Cardinality(T) <= Cardinality(S) + 1
<1>1. Cardinality(S) \in Nat
  BY FS_CardinalityType
<1>2. Cardinality(T) = IF x \in S THEN Cardinality(S) ELSE Cardinality(S) + 1
  BY FS_AddElement
<1> QED BY <1>1, <1>2

LEMMA BroadcastKeeps ==
    ASSUME AnchoringInv, NEW c \in Checkpoints, Broadcast(c)
    PROVE  AnchoringInv'
<1> DEFINE tx == sending[c].tx
<1>1. /\ AnchoringTypeOK /\ SubmissionOf(c) /\ RecordsOf(c) /\ PaymentsOf(c)
      /\ ConfirmationOf(c) /\ sending[c].at = "broadcast"
      /\ sending \in [Checkpoints -> SendType]
  BY DEF AnchoringInv, AnchoringTypeOK, CheckpointInv, Broadcast
<1>2. tx = pinned[c] /\ tx \in Transactions /\ tx # NoTx /\ tx.of = c
  BY <1>1 DEF SubmissionOf, AnchoringTypeOK
<1>3. /\ mempool' = IF Takes(tx) THEN mempool \cup {tx} ELSE mempool
      /\ blocks' = blocks
      /\ UNCHANGED <<receipts, pendingFile, reservations, pinned, confirming, runtime,
                     told, lives, orphaned>>
      /\ losses' \in Nat
      /\ \/ Takes(tx) /\ sending' = [sending EXCEPT ![c].at = "sent"]
         \/ sending' = [sending EXCEPT ![c].at = "exists"]
  BY <1>1 DEF Broadcast, AnchoringTypeOK
<1>4. /\ mempool' \subseteq Transactions /\ IsFiniteSet(mempool')
      /\ ChainConsistent' /\ NodeGrows /\ Mined' = Mined
      /\ Takes(tx) => tx \notin Known /\ Known' = Known \cup {tx}
      /\ ~Takes(tx) => Known' = Known
      /\ \A i : Settled(i)' = Settled(i)
  BY <1>1, <1>2, <1>3, BroadcastGrows DEF AnchoringInv, AnchoringTypeOK
<1>5. /\ sending' \in [Checkpoints -> SendType]
      /\ sending'[c].at \in {"sent", "exists"} /\ sending'[c].tx = tx
      /\ sending'[c].at = "sent" => Takes(tx)
      /\ \A d \in Checkpoints \ {c} : sending'[d] = sending[d]
  <2>1. /\ "sent" \in SendPhases /\ "exists" \in SendPhases /\ 0 \in Nat
        /\ tx \in Transactions \cup {NoTx}
    BY <1>2 DEF SendPhases
  <2>2. CASE Takes(tx) /\ sending' = [sending EXCEPT ![c].at = "sent"]
    <3>1. sending' = [sending EXCEPT ![c].at = "sent"]
      BY <2>2
    <3>2. /\ sending' \in [Checkpoints -> SendType]
          /\ sending'[c].at = "sent" /\ sending'[c].tx = tx
          /\ \A d \in Checkpoints \ {c} : sending'[d] = sending[d]
      BY <1>1, <2>1, <3>1, SendingSet
    <3> QED BY <2>2, <3>2
  <2>3. CASE sending' = [sending EXCEPT ![c].at = "exists"]
    <3>1. /\ sending' \in [Checkpoints -> SendType]
          /\ sending'[c].at = "exists" /\ sending'[c].tx = tx
          /\ \A d \in Checkpoints \ {c} : sending'[d] = sending[d]
      BY <1>1, <2>1, <2>3, SendingSet
    <3> QED BY <3>1
  <2> QED BY <1>3, <2>2, <2>3
<1> HIDE DEF tx
<1>6. AnchoringTypeOK'
  BY <1>1, <1>3, <1>4, <1>5 DEF AnchoringTypeOK
<1>7. blocks \in Seq(BlockType) /\ blocks' \in Seq(BlockType)
  BY <1>1, <1>3 DEF AnchoringTypeOK
<1>8. ReceiptsTrue'
  BY <1>3, <1>4, <1>7, ReceiptsKeep DEF AnchoringInv
<1>9. \A d : Stored(d)' = Stored(d) /\ Kept(d)' = Kept(d)
  BY <1>3 DEF Stored, Kept
<1>10. ASSUME NEW d \in Checkpoints, d # c PROVE CheckpointInv(d)'
  <2>1. Paid(d)' = Paid(d)
    BY <1>2, <1>4, <1>10 DEF Paid
  <2>2. Untouched(d)
    BY <1>3, <1>5, <1>9, <1>10, <2>1 DEF Untouched
  <2> QED BY <1>4, <1>7, <2>2, OthersKeep DEF AnchoringInv
<1>11. RecordsOf(c)'
  <2>1. Paid(c) \subseteq Paid(c)'
    BY <1>4 DEF Paid, NodeGrows
  <2> QED BY <1>1, <1>3, <1>9, <2>1 DEF RecordsOf
<1>12. ConfirmationOf(c)'
  <2>1. PICK t : t = confirming[c].tx /\ t = confirming'[c].tx
    BY <1>3
  <2>2. BlockOf(t)' = BlockOf(t)
    BY <1>3 DEF BlockOf
  <2> QED BY <1>1, <1>3, <1>4, <1>9, <2>1, <2>2 DEF ConfirmationOf
<1>13. SubmissionOf(c)'
  BY <1>1, <1>2, <1>3, <1>4, <1>5 DEF SubmissionOf
<1>14. PaymentsOf(c)'
  <2>1. orphaned[c] \in Nat /\ IsFiniteSet(Paid(c))
    BY <1>1, KnownFinite DEF AnchoringTypeOK
  <2>2. Cardinality(Paid(c)) \in Nat
    BY <2>1, FS_CardinalityType
  <2>3. CASE Takes(tx)
    <3>1. tx \notin Known /\ Known' = Known \cup {tx}
      BY <1>4, <2>3
    <3>2. MayPayAgain(c) /\ ~MayPayAgain(c)'
      BY <1>1, <1>2, <1>3, <3>1 DEF MayPayAgain
    <3>3. Paid(c)' = Paid(c) \cup {tx}
      BY <1>2, <3>1 DEF Paid
    <3>4. PICK S, T, x : S = Paid(c) /\ T = Paid(c)' /\ x = tx
      OBVIOUS
    <3>5. Cardinality(T) \in Nat /\ Cardinality(T) <= Cardinality(S) + 1
      BY <2>1, <3>3, <3>4, OneMore
    <3>6. Cardinality(Paid(c)) <= orphaned[c] /\ orphaned'[c] = orphaned[c]
      BY <1>1, <1>3, <3>2 DEF PaymentsOf
    <3>7. Cardinality(Paid(c)') <= 1 + orphaned'[c]
      BY <2>1, <2>2, <3>4, <3>5, <3>6
    <3> QED BY <3>2, <3>7 DEF PaymentsOf
  <2>4. CASE ~Takes(tx)
    <3>1. Known' = Known /\ Paid(c)' = Paid(c)
      BY <1>4, <2>4 DEF Paid
    <3>2. MayPayAgain(c)' => MayPayAgain(c)
      BY <1>1, <1>3, <3>1 DEF MayPayAgain
    <3> QED BY <1>1, <1>3, <3>1, <3>2 DEF PaymentsOf
  <2> QED BY <2>3, <2>4
<1>15. CheckpointInv(c)'
  BY <1>11, <1>12, <1>13, <1>14 DEF CheckpointInv
<1> QED BY <1>4, <1>6, <1>8, <1>10, <1>15 DEF AnchoringInv

LEMMA MineKeeps ==
    ASSUME AnchoringInv, Mine
    PROVE  AnchoringInv'
<1>1. AnchoringTypeOK /\ ChainConsistent
  BY DEF AnchoringInv
<1>2. UNCHANGED <<receipts, pendingFile, reservations, pinned, sending, confirming,
                  runtime, told, lives, orphaned, losses>>
  BY DEF Mine
<1>3. /\ mempool' \subseteq Transactions /\ IsFiniteSet(mempool')
      /\ blocks \in Seq(BlockType) /\ blocks' \in Seq(BlockType)
      /\ ChainConsistent' /\ NodeGrows /\ Known' = Known
  BY <1>1, MineGrows DEF AnchoringTypeOK
<1>4. AnchoringTypeOK'
  BY <1>1, <1>2, <1>3 DEF AnchoringTypeOK
<1>5. ReceiptsTrue'
  BY <1>2, <1>3, ReceiptsKeep DEF AnchoringInv
<1>6. ASSUME NEW d \in Checkpoints PROVE CheckpointInv(d)'
  <2>1. Stored(d)' = Stored(d) /\ Paid(d)' = Paid(d)
    BY <1>2, <1>3 DEF Stored, Paid
  <2>2. Untouched(d)
    BY <1>2, <2>1 DEF Untouched
  <2> QED BY <1>3, <2>2, OthersKeep DEF AnchoringInv
<1> QED BY <1>3, <1>4, <1>5, <1>6 DEF AnchoringInv

---------------------------------------------------------------------------
(* awaitConfirmation *)

\* Steps that change only the confirmation of c.
LEMMA ConfirmingAt ==
    ASSUME confirming \in [Checkpoints -> ConfirmType], NEW c \in Checkpoints,
           NEW at \in ConfirmPhases, confirming' = [confirming EXCEPT ![c].at = at]
    PROVE  /\ confirming' \in [Checkpoints -> ConfirmType]
           /\ confirming'[c].at = at /\ confirming'[c].seen = confirming[c].seen
           /\ confirming'[c].tx = confirming[c].tx
           /\ \A d \in Checkpoints \ {c} : confirming'[d] = confirming[d]
BY DEF ConfirmType, ConfirmPhases

LEMMA ConfirmingLeft ==
    ASSUME confirming \in [Checkpoints -> ConfirmType], NEW c \in Checkpoints,
           NEW at \in ConfirmPhases, confirming[c].left > 1,
           confirming' = [confirming EXCEPT ![c].at = at, ![c].left = @ - 1]
    PROVE  /\ confirming' \in [Checkpoints -> ConfirmType]
           /\ confirming'[c].at = at /\ confirming'[c].tx = confirming[c].tx
           /\ \A d \in Checkpoints \ {c} : confirming'[d] = confirming[d]
<1>1. confirming[c] \in ConfirmType /\ confirming[c].left - 1 \in Nat
  BY Confirmings
<1> QED BY <1>1 DEF ConfirmType, ConfirmPhases

LEMMA ReturnedEffect ==
    ASSUME AnchoringTypeOK, NEW c \in Checkpoints, Returned(c)
    PROVE  /\ confirming' \in [Checkpoints -> ConfirmType] /\ confirming'[c].at = "idle"
           /\ runtime' \in [Checkpoints -> CallerType]
           /\ runtime'[c].at = "submitted" => runtime'[c] = runtime[c]
           /\ \A d \in Checkpoints \ {c} :
                confirming'[d] = confirming[d] /\ runtime'[d] = runtime[d]
<1>1. /\ confirming' \in [Checkpoints -> ConfirmType] /\ confirming'[c].at = "idle"
      /\ \A d \in Checkpoints \ {c} : confirming'[d] = confirming[d]
  BY DEF AnchoringTypeOK, ConfirmType, Returned, Asleep
<1>2. /\ runtime' \in [Checkpoints -> CallerType]
      /\ runtime'[c].at = "submitted" => runtime'[c] = runtime[c]
      /\ \A d \in Checkpoints \ {c} : runtime'[d] = runtime[d]
  BY ZenonT(60) DEF AnchoringTypeOK, CallerType, Returned
<1> QED BY <1>1, <1>2

\* A confirmation that moves on, or ends, with no row of its own.
LEMMA ConfirmationKeeps ==
    ASSUME AnchoringInv, NEW c \in Checkpoints,
           UNCHANGED <<node, receipts, pendingFile, reservations, pinned, sending, told,
                       lives, orphaned>>,
           losses' \in Nat,
           confirming' \in [Checkpoints -> ConfirmType],
           runtime' \in [Checkpoints -> CallerType],
           runtime'[c].at = "submitted" => runtime'[c] = runtime[c],
           \A d \in Checkpoints \ {c} :
                confirming'[d] = confirming[d] /\ runtime'[d] = runtime[d],
           ConfirmationOf(c)'
    PROVE  AnchoringInv'
<1>1. AnchoringTypeOK
  BY DEF AnchoringInv
<1>2. AnchoringTypeOK' /\ OthersUntouched(c)
  BY <1>1 DEF AnchoringTypeOK, OthersUntouched, node
<1>3. RecordsOf(c)' /\ PaymentsOf(c)' /\ SubmissionOf(c)'
  BY RecordsStay, SamePayments, SubmissionStays
<1> QED BY <1>2, <1>3, PublisherStep DEF CheckpointInv

LEMMA ReturnedKeeps ==
    ASSUME AnchoringInv, NEW c \in Checkpoints, Returned(c), losses' \in Nat,
           UNCHANGED <<node, receipts, pendingFile, reservations, pinned, sending, told,
                       lives, orphaned>>
    PROVE  AnchoringInv'
<1>1. AnchoringTypeOK
  BY DEF AnchoringInv
<1> QED BY <1>1, ReturnedEffect, ConfirmationEnds, ConfirmationKeeps

LEMMA AwaitConfirmationKeeps ==
    ASSUME AnchoringInv, NEW c \in Checkpoints, AwaitConfirmation(c)
    PROVE  AnchoringInv'
<1>1. /\ AnchoringTypeOK /\ SubmissionOf(c) /\ ConfirmationOf(c)
      /\ confirming \in [Checkpoints -> ConfirmType]
      /\ runtime \in [Checkpoints -> CallerType]
      /\ losses \in Nat
  BY DEF AnchoringInv, AnchoringTypeOK, CheckpointInv
<1>2. /\ UNCHANGED <<node, receipts, pendingFile, reservations, pinned, sending, told,
                     lives, orphaned, losses>>
      /\ runtime' = [runtime EXCEPT ![c].at = "confirm"]
  BY DEF AwaitConfirmation
<1>3. /\ runtime' \in [Checkpoints -> CallerType]
      /\ runtime'[c].at = "confirm"
      /\ \A d \in Checkpoints \ {c} : runtime'[d] = runtime[d]
  BY <1>1, <1>2 DEF CallerType
<1>4. CASE confirming' = confirming
  <2>1. ConfirmationOf(c)'
    BY <1>2, <1>4, ConfirmationStays
  <2> QED BY <1>1, <1>2, <1>3, <1>4, <2>1, ConfirmationKeeps
<1>5. CASE confirming' = [confirming EXCEPT ![c] =
                [Asleep EXCEPT !.at = "poll", !.tx = runtime[c].tx, !.left = PollAttempts]]
  <2>1. runtime[c].tx \in told[c]
    BY <1>1 DEF SubmissionOf, AwaitConfirmation
  <2>2. PollAttempts \in Nat /\ runtime[c].tx \in Transactions
    BY <1>1, <2>1, AttemptsAssumption DEF AnchoringTypeOK
  <2>3. PICK tx : tx = runtime[c].tx
    OBVIOUS
  <2>4. /\ confirming' \in [Checkpoints -> ConfirmType]
        /\ confirming'[c].at = "poll" /\ confirming'[c].tx = tx
        /\ \A d \in Checkpoints \ {c} : confirming'[d] = confirming[d]
    BY <1>1, <1>5, <2>2, <2>3 DEF ConfirmType, Asleep
  <2>5. ConfirmationOf(c)'
    BY <1>2, <2>1, <2>3, <2>4 DEF ConfirmationOf
  <2> QED BY <1>1, <1>2, <1>3, <2>4, <2>5, ConfirmationKeeps
<1> QED BY <1>4, <1>5 DEF AwaitConfirmation

LEMMA PollKeeps ==
    ASSUME AnchoringInv, NEW c \in Checkpoints, Poll(c)
    PROVE  AnchoringInv'
<1>1. /\ AnchoringTypeOK /\ ConfirmationOf(c) /\ confirming \in [Checkpoints -> ConfirmType]
      /\ losses \in Nat /\ runtime \in [Checkpoints -> CallerType]
  BY DEF AnchoringInv, AnchoringTypeOK, CheckpointInv
<1>2. /\ UNCHANGED <<node, receipts, pendingFile, reservations, pinned, sending,
                     runtime, told, lives, orphaned, losses>>
      /\ confirming[c].at = "poll"
  BY DEF Poll
<1>3. PICK tx : tx = confirming[c].tx
  OBVIOUS
<1>4. /\ tx \in told[c]
      /\ "head" \in ConfirmPhases /\ "again" \in ConfirmPhases
      /\ confirming[c].seen \in Nat
  BY <1>1, <1>2, <1>3, Confirmings DEF ConfirmationOf, ConfirmPhases
<1>5. CASE tx \in Mined
  <2>1. PICK seen : seen = BlockOf(tx)
    OBVIOUS
  <2>2. seen \in Nat
    BY <1>1, <1>5, <2>1, BlockFound DEF AnchoringTypeOK
  <2>3. confirming' = [confirming EXCEPT ![c].at = "head", ![c].seen = seen]
    BY <1>3, <1>5, <2>1 DEF Poll
  <2>4. /\ confirming' \in [Checkpoints -> ConfirmType]
        /\ confirming'[c].at = "head" /\ confirming'[c].seen = seen
        /\ confirming'[c].tx = tx
        /\ \A d \in Checkpoints \ {c} : confirming'[d] = confirming[d]
    <3>1. confirming \in [Checkpoints -> ConfirmType]
      BY <1>1
    <3> QED BY ONLY <1>3, <2>2, <2>3, <3>1, c \in Checkpoints DEF ConfirmType
  <2>5. ConfirmationOf(c)'
    BY <1>2, <1>4, <1>5, <2>1, <2>4, StillNode DEF ConfirmationOf
  <2> QED BY <1>1, <1>2, <2>4, <2>5, ConfirmationKeeps
<1>6. CASE tx \notin Mined
  <2>1. confirming' = [confirming EXCEPT ![c].at = "again"]
    BY <1>3, <1>6 DEF Poll
  <2>2. /\ confirming' \in [Checkpoints -> ConfirmType]
        /\ confirming'[c].at = "again" /\ confirming'[c].tx = tx
        /\ \A d \in Checkpoints \ {c} : confirming'[d] = confirming[d]
    BY <1>1, <1>3, <1>4, <2>1, ConfirmingAt
  <2>3. ConfirmationOf(c)'
    BY <1>2, <1>4, <2>2 DEF ConfirmationOf
  <2> QED BY <1>1, <1>2, <2>2, <2>3, ConfirmationKeeps
<1> QED BY <1>5, <1>6

LEMMA ReadHeadKeeps ==
    ASSUME AnchoringInv, NEW c \in Checkpoints, ReadHead(c)
    PROVE  AnchoringInv'
<1>1. /\ AnchoringTypeOK /\ ConfirmationOf(c) /\ confirming \in [Checkpoints -> ConfirmType]
      /\ losses \in Nat /\ runtime \in [Checkpoints -> CallerType]
  BY DEF AnchoringInv, AnchoringTypeOK, CheckpointInv
<1>2. /\ UNCHANGED <<node, receipts, pendingFile, reservations, pinned, sending,
                     runtime, told, lives, orphaned, losses>>
      /\ confirming[c].at = "head"
  BY DEF ReadHead
<1>3. PICK tx : tx = confirming[c].tx
  OBVIOUS
<1>4. PICK seen : seen = confirming[c].seen
  OBVIOUS
<1>5. /\ tx \in told[c] /\ tx \in Mined /\ seen = BlockOf(tx)
      /\ "decided" \in ConfirmPhases /\ "again" \in ConfirmPhases
      /\ seen \in Nat
  BY <1>1, <1>2, <1>3, <1>4, Confirmings DEF ConfirmationOf, ConfirmPhases
<1>6. CASE Settled(seen)
  <2>1. confirming' = [confirming EXCEPT ![c].at = "decided"]
    BY <1>4, <1>6 DEF ReadHead, Settled
  <2>2. /\ confirming' \in [Checkpoints -> ConfirmType]
        /\ confirming'[c].at = "decided" /\ confirming'[c].seen = seen
        /\ confirming'[c].tx = tx
        /\ \A d \in Checkpoints \ {c} : confirming'[d] = confirming[d]
    BY <1>1, <1>3, <1>4, <1>5, <2>1, ConfirmingAt
  <2>3. Settled(BlockOf(tx))'
    BY <1>2, <1>5, <1>6, StillNode
  <2>4. ConfirmationOf(c)'
    BY <1>2, <1>5, <2>2, <2>3, StillNode DEF ConfirmationOf
  <2> QED BY <1>1, <1>2, <2>2, <2>4, ConfirmationKeeps
<1>7. CASE ~Settled(seen)
  <2>1. confirming' = [confirming EXCEPT ![c].at = "again"]
    BY <1>4, <1>7 DEF ReadHead, Settled
  <2>2. /\ confirming' \in [Checkpoints -> ConfirmType]
        /\ confirming'[c].at = "again" /\ confirming'[c].tx = tx
        /\ \A d \in Checkpoints \ {c} : confirming'[d] = confirming[d]
    BY <1>1, <1>3, <1>4, <1>5, <2>1, ConfirmingAt
  <2>3. ConfirmationOf(c)'
    BY <1>2, <1>5, <2>2 DEF ConfirmationOf
  <2> QED BY <1>1, <1>2, <2>2, <2>3, ConfirmationKeeps
<1> QED BY <1>6, <1>7

LEMMA PollAgainKeeps ==
    ASSUME AnchoringInv, NEW c \in Checkpoints, PollAgain(c)
    PROVE  AnchoringInv'
<1>1. /\ AnchoringTypeOK /\ ConfirmationOf(c) /\ confirming \in [Checkpoints -> ConfirmType]
      /\ losses \in Nat /\ runtime \in [Checkpoints -> CallerType]
  BY DEF AnchoringInv, AnchoringTypeOK, CheckpointInv
<1>2. /\ UNCHANGED <<node, receipts, pendingFile, reservations, pinned, sending,
                     told, lives, orphaned, losses>>
      /\ confirming[c].at = "again"
  BY DEF PollAgain
<1>3. CASE confirming[c].left > 1
  <2>1. "poll" \in ConfirmPhases /\ confirming[c].seen \in Nat
    BY <1>1, Confirmings DEF ConfirmPhases
  <2>2. confirming' = [confirming EXCEPT ![c].at = "poll", ![c].left = @ - 1]
        /\ runtime' = runtime
    BY <1>3 DEF PollAgain
  <2>3. /\ confirming' \in [Checkpoints -> ConfirmType]
        /\ confirming'[c].at = "poll" /\ confirming'[c].tx = confirming[c].tx
        /\ \A d \in Checkpoints \ {c} : confirming'[d] = confirming[d]
    BY <1>1, <1>3, <2>1, <2>2, ConfirmingLeft
  <2>4. ConfirmationOf(c)'
    BY <1>1, <1>2, <2>3 DEF ConfirmationOf
  <2> QED BY <1>1, <1>2, <2>2, <2>3, <2>4, ConfirmationKeeps
<1>4. CASE ~(confirming[c].left > 1)
  <2>1. Returned(c)
    BY <1>4 DEF PollAgain
  <2> QED BY <1>1, <1>2, <2>1, ReturnedKeeps
<1> QED BY <1>3, <1>4

LEMMA ConfirmationFailsKeeps ==
    ASSUME AnchoringInv, NEW c \in Checkpoints, ConfirmationFails(c)
    PROVE  AnchoringInv'
<1>1. losses' \in Nat
  BY DEF AnchoringInv, AnchoringTypeOK, ConfirmationFails
<1> QED BY <1>1, ReturnedKeeps DEF ConfirmationFails

LEMMA StoreReceiptKeeps ==
    ASSUME AnchoringInv, NEW c \in Checkpoints, StoreReceipt(c)
    PROVE  AnchoringInv'
<1>1. /\ AnchoringTypeOK /\ ReceiptsTrue /\ ConfirmationOf(c) /\ RecordsOf(c)
      /\ SubmissionOf(c) /\ PaymentsOf(c)
      /\ confirming \in [Checkpoints -> ConfirmType]
      /\ losses \in Nat /\ runtime \in [Checkpoints -> CallerType]
      /\ blocks \in Seq(BlockType) /\ receipts \subseteq ReceiptType
  BY DEF AnchoringInv, AnchoringTypeOK, CheckpointInv
<1>2. /\ UNCHANGED <<node, pendingFile, reservations, pinned, sending, told, lives,
                     orphaned, losses>>
      /\ confirming[c].at = "decided"
  BY DEF StoreReceipt
<1>3. PICK tx : tx = confirming[c].tx
  OBVIOUS
<1>4. CASE \E r \in receipts : r.tx = tx
  <2>1. Returned(c) /\ receipts' = receipts
    BY <1>3, <1>4 DEF StoreReceipt
  <2> QED BY <1>1, <1>2, <2>1, ReturnedKeeps
<1>5. CASE ~\E r \in receipts : r.tx = tx
  <2>1. PICK row : row = [tx |-> tx, status |-> Status(tx)]
    OBVIOUS
  <2>2. /\ receipts' = receipts \cup {row}
        /\ confirming' = [confirming EXCEPT ![c].at = "stored"]
        /\ runtime' = runtime
    BY <1>3, <1>5, <2>1 DEF StoreReceipt
  <2>3. /\ tx \in told[c] /\ tx \in Mined /\ Settled(BlockOf(tx))
        /\ tx \in Transactions /\ tx.of = c
    BY <1>1, <1>2, <1>3 DEF ConfirmationOf, RecordsOf, Paid, AnchoringTypeOK
  <2>4. /\ row \in ReceiptType /\ row.tx = tx /\ row.status = Status(tx)
        /\ row.status = "confirmed" => Len(blocks) - BlockOf(tx) + 1 >= RequiredDepth
    <3>1. Status(tx) \in {"failed", "confirmed"}
      BY DEF Status
    <3>2. Status(tx) = "confirmed" => Len(blocks) - BlockOf(tx) + 1 >= RequiredDepth
      BY <2>3 DEF Status, Settled
    <3>3. row.tx = tx /\ row.status = Status(tx)
      BY <2>1
    <3>4. row \in ReceiptType
      BY <2>1, <2>3, <3>1 DEF ReceiptType
    <3> QED BY <3>2, <3>3, <3>4
  <2>5. /\ confirming' \in [Checkpoints -> ConfirmType]
        /\ confirming'[c].at = "stored" /\ confirming'[c].tx = tx
        /\ \A d \in Checkpoints \ {c} : confirming'[d] = confirming[d]
    <3>1. "stored" \in ConfirmPhases
      BY DEF ConfirmPhases
    <3> QED BY <1>1, <1>3, <2>2, <3>1, ConfirmingAt
  <2>6. /\ NodeGrows /\ Known' = Known /\ Mined' = Mined /\ ChainConsistent'
        /\ \A d : Paid(d)' = Paid(d)
    BY <1>1, <1>2, NodeStays DEF AnchoringInv, Paid
  <2>7. AnchoringTypeOK'
    BY <1>1, <1>2, <2>2, <2>4, <2>5 DEF AnchoringTypeOK, node
  <2>8. ReceiptsTrue'
    <3>1. /\ \A t : BlockOf(t)' = BlockOf(t) /\ Status(t)' = Status(t)
          /\ blocks' = blocks
      BY <1>2 DEF BlockOf, Status, node
    <3>2. ASSUME NEW r \in receipts'
          PROVE  /\ r.tx \in Mined' /\ r.status = Status(r.tx)'
                 /\ r.status = "confirmed" =>
                        Len(blocks') - BlockOf(r.tx)' + 1 >= RequiredDepth
                 /\ \A q \in receipts' : q.tx = r.tx => q = r
      <4>1. CASE r \in receipts
        <5>1. /\ r.tx \in Mined /\ r.status = Status(r.tx)
              /\ r.status = "confirmed" => Len(blocks) - BlockOf(r.tx) + 1 >= RequiredDepth
              /\ \A q \in receipts : q.tx = r.tx => q = r
          BY <1>1, <4>1 DEF ReceiptsTrue
        <5> QED BY <1>5, <2>2, <2>4, <2>6, <3>1, <4>1, <5>1
      <4>2. CASE r = row
        BY <1>5, <2>2, <2>3, <2>4, <2>6, <3>1, <4>2
      <4> QED BY <2>2, <4>1, <4>2
    <3> QED BY <3>2 DEF ReceiptsTrue
  <2>9. ASSUME NEW d \in Checkpoints
        PROVE  Stored(d)' = Stored(d) \cup (IF d = c THEN {row} ELSE {})
    BY <2>2, <2>3, <2>4 DEF Stored
  <2>10. ASSUME NEW d \in Checkpoints, d # c PROVE CheckpointInv(d)'
    <3>1. Untouched(d)
      BY <1>2, <2>2, <2>5, <2>6, <2>9, <2>10 DEF Untouched
    <3> QED BY <1>1, <1>2, <2>6, <3>1, OthersKeep DEF AnchoringInv, node
  <2>11. RecordsOf(c)'
    <3>1. Kept(c) \subseteq Kept(c)'
      BY <1>2, <2>2 DEF Kept
    <3> QED BY <1>1, <1>2, <2>3, <2>4, <2>6, <2>9, <3>1 DEF RecordsOf
  <2>12. SubmissionOf(c)'
    BY <1>1, <1>2, <2>2, <2>6, <2>9 DEF SubmissionOf
  <2>13. ConfirmationOf(c)'
    BY <1>2, <2>3, <2>4, <2>5, <2>9 DEF ConfirmationOf
  <2>14. PaymentsOf(c)'
    <3>1. MayPayAgain(c)' => MayPayAgain(c)
      BY <1>2, <2>6, <2>9 DEF MayPayAgain
    <3> QED BY <1>1, <1>2, <2>6, <3>1 DEF PaymentsOf
  <2> QED BY <2>6, <2>7, <2>8, <2>10, <2>11, <2>12, <2>13, <2>14 DEF AnchoringInv, CheckpointInv
<1> QED BY <1>4, <1>5

\* The pending entry goes when its row is there. A submit that had found neither
\* pays again, unless it has the same bytes pinned: that is what orphaned counts.
LEMMA ReleaseKeeps ==
    ASSUME AnchoringInv, NEW c \in Checkpoints, Release(c)
    PROVE  AnchoringInv'
<1>1. /\ AnchoringTypeOK /\ ConfirmationOf(c) /\ RecordsOf(c)
      /\ SubmissionOf(c) /\ PaymentsOf(c) /\ confirming[c].at = "stored"
  BY DEF AnchoringInv, CheckpointInv, Release
<1>2. UNCHANGED <<node, receipts, pinned, sending, told, lives, losses>>
  BY DEF Release
<1>3. PICK tx : tx = confirming[c].tx
  OBVIOUS
<1>4. tx \in told[c] /\ (\E r \in Stored(c) : r.tx = tx) /\ tx \in Known
  BY <1>1, <1>3 DEF ConfirmationOf, RecordsOf, Paid
<1>5. /\ confirming' \in [Checkpoints -> ConfirmType] /\ confirming'[c].at = "idle"
      /\ runtime' \in [Checkpoints -> CallerType]
      /\ runtime'[c].at = "submitted" => runtime'[c] = runtime[c]
      /\ \A d \in Checkpoints \ {c} :
            confirming'[d] = confirming[d] /\ runtime'[d] = runtime[d]
  BY <1>1, ReturnedEffect DEF Release
<1>6. /\ reservations' \in [Checkpoints -> Transactions \cup {NoTx}]
      /\ reservations'[c] = NoTx
      /\ pendingFile' \in [Checkpoints -> SUBSET Transactions]
      /\ pendingFile'[c] = pendingFile[c] \ {tx}
      /\ \A d \in Checkpoints \ {c} :
            reservations'[d] = reservations[d] /\ pendingFile'[d] = pendingFile[d]
  BY <1>1, <1>3 DEF AnchoringTypeOK, Release
<1>7. /\ orphaned' \in [Checkpoints -> Nat]
      /\ orphaned'[c] = IF sending[c].at = "unstored" /\ pinned[c] # tx
                        THEN orphaned[c] + 1 ELSE orphaned[c]
      /\ \A d \in Checkpoints \ {c} : orphaned'[d] = orphaned[d]
  BY <1>1, <1>3 DEF AnchoringTypeOK, Release
<1>8. AnchoringTypeOK' /\ OthersUntouched(c)
  BY <1>1, <1>2, <1>5, <1>6, <1>7 DEF AnchoringTypeOK, OthersUntouched, node
<1>9. RecordsOf(c)'
  <2>1. \A t \in told[c] : t \in Kept(c)'
    BY <1>1, <1>2, <1>4, <1>6 DEF Kept, RecordsOf, Stored
  <2> QED BY <1>1, <1>2, <1>6, <2>1, StillNode DEF RecordsOf
<1>10. ConfirmationOf(c)'
  BY <1>5, ConfirmationEnds
<1>11. SubmissionOf(c)'
  <2>1. /\ told[c] \subseteq told'[c] /\ pendingFile'[c] \subseteq pendingFile[c]
        /\ pinned'[c] = pinned[c] /\ sending'[c] = sending[c]
        /\ UNCHANGED <<node, receipts>>
    BY <1>2, <1>6
  <2> QED BY <1>5, <2>1, SubmissionStays
<1>12. PaymentsOf(c)'
  <2>1. IsFiniteSet(Paid(c)) /\ orphaned[c] \in Nat
    BY <1>1, KnownFinite DEF AnchoringTypeOK
  <2>2. Cardinality(Paid(c)) \in Nat
    BY <2>1, FS_CardinalityType
  <2>3. /\ Paid(c)' = Paid(c) /\ Known' = Known /\ Stored(c)' = Stored(c)
    BY <1>2, StillNode
  <2>4. Stored(c) # {} /\ Cardinality(Paid(c)) <= 1 + orphaned[c]
    BY <1>1, <1>4 DEF PaymentsOf
  <2>5. CASE sending[c].at = "unstored" /\ pinned[c] # tx
    <3>1. orphaned'[c] = orphaned[c] + 1
      BY <1>7, <2>5
    <3>2. Cardinality(Paid(c)) <= 1 + orphaned'[c] /\ Cardinality(Paid(c)) <= orphaned'[c]
      BY <2>1, <2>2, <2>4, <3>1
    <3> QED BY <2>3, <3>2 DEF PaymentsOf
  <2>6. CASE ~(sending[c].at = "unstored" /\ pinned[c] # tx)
    <3>1. orphaned'[c] = orphaned[c]
      BY <1>7, <2>6
    <3>2. MayPayAgain(c)' => MayPayAgain(c)
      BY <1>2, <1>4, <2>3, <2>4, <2>6 DEF MayPayAgain
    <3> QED BY <1>1, <2>3, <3>1, <3>2 DEF PaymentsOf
  <2> QED BY <2>5, <2>6
<1> QED BY <1>2, <1>8, <1>9, <1>10, <1>11, <1>12, PublisherStep DEF CheckpointInv

---------------------------------------------------------------------------
(* Timeouts and restarts *)

LEMMA RuntimeTimesOutKeeps ==
    ASSUME AnchoringInv, NEW c \in Checkpoints, RuntimeTimesOut(c)
    PROVE  AnchoringInv'
<1>1. /\ AnchoringTypeOK /\ runtime \in [Checkpoints -> CallerType] /\ losses \in Nat
      /\ confirming \in [Checkpoints -> ConfirmType]
  BY DEF AnchoringInv, AnchoringTypeOK
<1>2. /\ UNCHANGED <<node, receipts, pendingFile, reservations, pinned, sending,
                     confirming, told, lives, orphaned, losses>>
      /\ runtime' = [runtime EXCEPT ![c].at = "idle", ![c].tx = NoTx]
  BY DEF RuntimeTimesOut
<1>3. /\ runtime' \in [Checkpoints -> CallerType] /\ runtime'[c].at = "idle"
      /\ \A d \in Checkpoints \ {c} : runtime'[d] = runtime[d]
  BY <1>1, <1>2 DEF CallerType
<1>4. ConfirmationOf(c)'
  BY <1>2, ConfirmationStays
<1> QED BY <1>1, <1>2, <1>3, <1>4, ConfirmationKeeps

\* Only the file, the rows and the chain survive. Bytes that the chain has and no
\* record names are lost from sight: that is the other thing orphaned counts.
LEMMA PublisherDiesKeeps ==
    ASSUME AnchoringInv, NEW c \in Checkpoints, PublisherDies(c)
    PROVE  AnchoringInv'
<1>1. /\ AnchoringTypeOK /\ RecordsOf(c) /\ SubmissionOf(c) /\ PaymentsOf(c)
      /\ sending \in [Checkpoints -> SendType]
      /\ confirming \in [Checkpoints -> ConfirmType]
      /\ runtime \in [Checkpoints -> CallerType]
  BY DEF AnchoringInv, AnchoringTypeOK, CheckpointInv
<1>2. UNCHANGED <<node, receipts, pendingFile, told, losses>>
  BY DEF PublisherDies
<1>3. /\ sending' \in [Checkpoints -> SendType] /\ sending'[c].at = "idle"
      /\ \A d \in Checkpoints \ {c} : sending'[d] = sending[d]
  BY <1>1 DEF PublisherDies, SendType, Asleep
<1>4. /\ confirming' \in [Checkpoints -> ConfirmType] /\ confirming'[c].at = "idle"
      /\ \A d \in Checkpoints \ {c} : confirming'[d] = confirming[d]
  BY <1>1 DEF PublisherDies, ConfirmType, Asleep
<1>5. /\ runtime' \in [Checkpoints -> CallerType]
      /\ runtime'[c].at = "submitted" => runtime'[c] = runtime[c]
      /\ \A d \in Checkpoints \ {c} : runtime'[d] = runtime[d]
  <2>1. \/ runtime' = runtime
        \/ runtime' = [runtime EXCEPT ![c].at = "idle"]
    BY DEF PublisherDies
  <2> QED BY <1>1, <2>1 DEF CallerType
<1>6. /\ reservations' \in [Checkpoints -> Transactions \cup {NoTx}]
      /\ reservations'[c] = NoTx
      /\ pinned' \in [Checkpoints -> Transactions \cup {NoTx}]
      /\ pinned'[c] = NoTx
      /\ lives' \in [Checkpoints -> Nat]
      /\ \A d \in Checkpoints \ {c} :
            reservations'[d] = reservations[d] /\ pinned'[d] = pinned[d]
  BY <1>1 DEF AnchoringTypeOK, PublisherDies
<1>7. /\ orphaned' \in [Checkpoints -> Nat]
      /\ orphaned'[c] = IF pinned[c] \in Known \ Kept(c)
                        THEN orphaned[c] + 1 ELSE orphaned[c]
      /\ \A d \in Checkpoints \ {c} : orphaned'[d] = orphaned[d]
  BY <1>1 DEF AnchoringTypeOK, PublisherDies
<1>8. AnchoringTypeOK' /\ OthersUntouched(c)
  BY <1>1, <1>2, <1>3, <1>4, <1>5, <1>6, <1>7 DEF AnchoringTypeOK, OthersUntouched, node
<1>9. RecordsOf(c)'
  <2>1. Kept(c)' = Kept(c)
    BY <1>2 DEF Kept
  <2> QED BY <1>1, <1>2, <1>6, <2>1, StillNode DEF RecordsOf
<1>10. ConfirmationOf(c)'
  BY <1>4, ConfirmationEnds
<1>11. SubmissionOf(c)'
  BY <1>2, <1>3, <1>5, <1>6, SubmissionEnds
<1>12. PaymentsOf(c)'
  <2>1. IsFiniteSet(Paid(c)) /\ orphaned[c] \in Nat
    BY <1>1, KnownFinite DEF AnchoringTypeOK
  <2>2. Cardinality(Paid(c)) \in Nat
    BY <2>1, FS_CardinalityType
  <2>3. /\ Paid(c)' = Paid(c) /\ Known' = Known /\ Stored(c)' = Stored(c)
    BY <1>2, StillNode
  <2>4. Cardinality(Paid(c)) <= 1 + orphaned[c]
    BY <1>1 DEF PaymentsOf
  <2>5. CASE pinned[c] \in Known \ Kept(c)
    <3>1. orphaned'[c] = orphaned[c] + 1
      BY <1>7, <2>5
    <3>2. Cardinality(Paid(c)) <= 1 + orphaned'[c] /\ Cardinality(Paid(c)) <= orphaned'[c]
      BY <2>1, <2>2, <2>4, <3>1
    <3> QED BY <2>3, <3>2 DEF PaymentsOf
  <2>6. CASE pinned[c] \notin Known \ Kept(c)
    <3>1. orphaned'[c] = orphaned[c]
      BY <1>7, <2>6
    <3>2. MayPayAgain(c)' => Stored(c) = {} /\ pendingFile[c] = {}
      BY <1>2, <1>3, <2>3 DEF MayPayAgain
    <3>3. ASSUME Stored(c) = {}, pendingFile[c] = {} PROVE pinned[c] \notin Known
      <4>1. NoTx \notin Known
        BY <1>1, KnownTypes DEF AnchoringTypeOK
      <4>2. pinned[c] \notin Kept(c) \/ pinned[c] = NoTx
        BY <1>1, <3>3 DEF Kept, Stored, SubmissionOf
      <4> QED BY <2>6, <4>1, <4>2
    <3>4. MayPayAgain(c)' => MayPayAgain(c)
      BY <3>2, <3>3 DEF MayPayAgain
    <3> QED BY <1>1, <2>3, <3>1, <3>4 DEF PaymentsOf
  <2> QED BY <2>5, <2>6
<1> QED BY <1>2, <1>8, <1>9, <1>10, <1>11, <1>12, PublisherStep DEF CheckpointInv

---------------------------------------------------------------------------
(* The theorem *)

LEMMA InitHolds == AnchoringInit => AnchoringInv
<1> SUFFICES ASSUME AnchoringInit PROVE AnchoringInv
  OBVIOUS
<1>1. Asleep \in SendType /\ Asleep \in ConfirmType /\ Asleep.at = "idle"
  BY DEF Asleep, SendType, ConfirmType
<1>2. /\ runtime \in [Checkpoints -> CallerType]
      /\ \A c \in Checkpoints : runtime[c].at = "idle"
  <2>1. \A c \in Checkpoints : MaxSubmits[c] \in Nat
    BY AnchorBoundsAssumption
  <2> QED BY <2>1 DEF AnchoringInit, CallerType
<1>3. blocks = <<>> /\ mempool = {} /\ receipts = {} /\ IsFiniteSet({})
  BY FS_EmptySet DEF AnchoringInit
<1>4. AnchoringTypeOK
  BY <1>1, <1>2, <1>3 DEF AnchoringInit, AnchoringTypeOK
<1>5. Mined = {} /\ Known = {}
  BY <1>3 DEF Mined, Known
<1>6. ChainConsistent /\ ReceiptsTrue
  BY <1>3 DEF ChainConsistent, ReceiptsTrue
<1>7. ASSUME NEW c \in Checkpoints PROVE CheckpointInv(c)
  <2>1. /\ Paid(c) = {} /\ Stored(c) = {} /\ Cardinality({}) = 0
    BY <1>3, <1>5, FS_EmptySet DEF Paid, Stored
  <2>2. /\ sending[c].at = "idle" /\ confirming[c].at = "idle" /\ runtime[c].at = "idle"
        /\ told[c] = {} /\ pendingFile[c] = {} /\ reservations[c] = NoTx
        /\ pinned[c] = NoTx /\ orphaned[c] = 0
    BY <1>1, <1>2 DEF AnchoringInit
  <2>3. RecordsOf(c)
    BY <2>1, <2>2 DEF RecordsOf
  <2>4. SubmissionOf(c)
    BY <2>2 DEF SubmissionOf
  <2>5. ConfirmationOf(c)
    BY <2>2 DEF ConfirmationOf
  <2>6. PaymentsOf(c)
    BY <2>1, <2>2 DEF PaymentsOf
  <2> QED BY <2>3, <2>4, <2>5, <2>6 DEF CheckpointInv
<1> QED BY <1>4, <1>6, <1>7 DEF AnchoringInv

LEMMA NextKeeps == AnchoringInv /\ [AnchoringNext]_anVars => AnchoringInv'
<1> SUFFICES ASSUME AnchoringInv, [AnchoringNext]_anVars PROVE AnchoringInv'
  OBVIOUS
<1>1. CASE Mine
  BY <1>1, MineKeeps
<1>2. ASSUME NEW c \in Checkpoints,
             Submit(c) \/ AwaitConfirmation(c) \/ RuntimeTimesOut(c) \/ PublisherDies(c)
      PROVE  AnchoringInv'
  BY <1>2, SubmitKeeps, AwaitConfirmationKeeps, RuntimeTimesOutKeeps, PublisherDiesKeeps
<1>3. ASSUME NEW c \in Checkpoints, SubmitStep(c)
      PROVE  AnchoringInv'
  BY <1>3, LookUpKeeps, AnswerStoredKeeps, AnswerReservedKeeps, SignKeeps, SignFailsKeeps,
     BroadcastKeeps, ExistsKeeps, ReserveKeeps DEF SubmitStep
<1>4. ASSUME NEW c \in Checkpoints, ConfirmStep(c)
      PROVE  AnchoringInv'
  BY <1>4, PollKeeps, ReadHeadKeeps, PollAgainKeeps, StoreReceiptKeeps, ReleaseKeeps,
     ConfirmationFailsKeeps DEF ConfirmStep
<1>5. CASE UNCHANGED anVars
  <2>1. UNCHANGED <<node, receipts>>
    BY <1>5 DEF anVars, node
  <2>2. AnchoringTypeOK'
    BY <1>5 DEF anVars, AnchoringInv, AnchoringTypeOK
  <2>3. ChainConsistent' /\ ReceiptsTrue'
    BY <2>1, <2>2, NodeStays, ReceiptsKeep DEF AnchoringInv, AnchoringTypeOK
  <2>4. ASSUME NEW d \in Checkpoints PROVE CheckpointInv(d)'
    <3>1. Untouched(d)
      BY <1>5, <2>1, StillNode DEF Untouched, anVars
    <3>2. NodeGrows /\ blocks' \in Seq(BlockType)
      BY <2>1, <2>2, NodeStays DEF AnchoringInv, AnchoringTypeOK
    <3> QED BY <3>1, <3>2, OthersKeep DEF AnchoringInv
  <2> QED BY <2>2, <2>3, <2>4 DEF AnchoringInv
<1> QED BY <1>1, <1>2, <1>3, <1>4, <1>5 DEF AnchoringNext

\* Rows of one checkpoint are as many as the transactions they are about.
LEMMA RowsCounted ==
    ASSUME AnchoringInv, NEW c \in Checkpoints
    PROVE  /\ Cardinality(told[c]) <= Cardinality(Paid(c))
           /\ Cardinality(Stored(c)) <= Cardinality(told[c])
           /\ Cardinality(told[c]) \in Nat /\ Cardinality(Stored(c)) \in Nat
           /\ Cardinality(Paid(c)) \in Nat
<1>1. RecordsOf(c) /\ ReceiptsTrue /\ IsFiniteSet(Paid(c))
  BY KnownFinite DEF AnchoringInv, AnchoringTypeOK, CheckpointInv
<1>2. told[c] \in SUBSET Paid(c)
  BY <1>1 DEF RecordsOf
<1>3. IsFiniteSet(told[c]) /\ Cardinality(told[c]) <= Cardinality(Paid(c))
  BY <1>1, <1>2, FS_Subset
<1> DEFINE f == [r \in Stored(c) |-> r.tx]
<1>4. f \in Injection(Stored(c), told[c])
  <2>1. \A r \in Stored(c) : r.tx \in told[c]
    BY <1>1 DEF RecordsOf
  <2>2. \A q, r \in Stored(c) : q.tx = r.tx => q = r
    BY <1>1 DEF ReceiptsTrue, Stored
  <2> QED BY <2>1, <2>2 DEF Injection, IsInjective
<1>5. IsFiniteSet(Stored(c)) /\ Cardinality(Stored(c)) <= Cardinality(told[c])
  BY <1>3, <1>4, FS_Injection
<1> QED BY <1>1, <1>3, <1>5, FS_CardinalityType

LEMMA InvIsSafe == AnchoringInv => AnchoringSafe
<1> SUFFICES ASSUME AnchoringInv PROVE AnchoringSafe
  OBVIOUS
<1>1. AnchoringTypeOK /\ ReceiptsTrue
  BY DEF AnchoringInv
<1>2. PaidOnce
  BY DEF AnchoringInv, CheckpointInv, PaymentsOf, Paid, PaidOnce
<1>3. ToldAreKnown
  BY DEF AnchoringInv, CheckpointInv, RecordsOf, Paid, ToldAreKnown
<1>4. OneAnswer
  <2>1. ASSUME NEW c \in Checkpoints
        PROVE  /\ Cardinality(told[c]) <= 1 + orphaned[c]
               /\ Cardinality(Stored(c)) <= 1 + orphaned[c]
    <3>1. orphaned[c] \in Nat /\ Cardinality(Paid(c)) <= 1 + orphaned[c]
      BY DEF AnchoringInv, AnchoringTypeOK, CheckpointInv, PaymentsOf
    <3>2. PICK p, t, s : p = Cardinality(Paid(c)) /\ t = Cardinality(told[c])
                            /\ s = Cardinality(Stored(c))
      OBVIOUS
    <3>3. p \in Nat /\ t \in Nat /\ s \in Nat /\ t <= p /\ s <= t
      BY <3>2, RowsCounted
    <3> QED BY <3>1, <3>2, <3>3
  <2> QED BY <2>1 DEF OneAnswer
<1>5. PromisesAreDurable
  BY DEF AnchoringInv, CheckpointInv, RecordsOf, Kept, PromisesAreDurable
<1> QED BY <1>1, <1>2, <1>3, <1>4, <1>5 DEF AnchoringSafe

\* In every behaviour of any number of publishers, whatever is lost, retried,
\* reverted, timed out or restarted: a checkpoint is paid for once but for the
\* occasions that orphaned counts, every answer is on the chain and recorded,
\* and every stored receipt agrees with the chain.
THEOREM AnchorPromisesHold == AnchoringSpec => []AnchoringSafe
<1>1. AnchoringSpec => []AnchoringInv
  BY InitHolds, NextKeeps, PTL DEF AnchoringSpec
<1> QED BY <1>1, InvIsSafe, PTL
=============================================================================
