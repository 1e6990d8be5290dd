--------------------------- MODULE ServicesProofs ---------------------------
(* What the services of a turn promise: the Gateway, the boundary of a       *)
(* learner, the affect channel, and the carriers of what is said.            *)
EXTENDS MCServices, TLAPS, FiniteSetTheorems, SequenceTheorems, WellFoundedInduction

---------------------------------------------------------------------------
(* The Gateway and its write-intent journal keep their promises, for any     *)
(* ceiling, batch, number of turns and of mishaps.                           *)
(*                                                                           *)
(* GatewaySafe speaks of the evidence and of the streak between two calls;   *)
(* the invariant adds what makes it last while a write is under way:         *)
(*   - where the controller is while the Gateway waits for a write, and that *)
(*     nobody goes on once its outcome is unknown (CallsFit);                *)
(*   - that only the last intent can be without a confirmation, and that the *)
(*     evidence holds it or not as the write's step says (JournalFits);      *)
(*   - the streak during a write, and that the safety trigger is the one     *)
(*     request that follows the rejection at the ceiling (StreakFits);       *)
(*   - that what the memory calls delivered is in the evidence, and that a   *)
(*     turn with an interpretation is past its receiver (DeliveriesFit);     *)
(*   - that a turn of a sealed batch delivers what the permutation says      *)
(*     (BatchFits).                                                          *)
(* Recovery is where the parts meet: no open intent means no write under     *)
(* way, no orphaned turn means no interpretation of the turn that starts     *)
(* anew, and the streak counted behind the channel size the last resume      *)
(* reviewed is the streak of the evidence (RecountedIsStreak).               *)

---------------------------------------------------------------------------
(* The inductive invariant *)

TurnNumbers == 0..MaxTurns - 1

Settings ==
    [condition : Conditions, hosting : Hostings,
     permutations : {f \in [1..BatchSize -> UNION {Deranged(n) : n \in 1..BatchSize}] :
                        \A n \in 1..BatchSize : f[n] \in Deranged(n)}]

Batches ==
    [turns : SUBSET TurnNumbers, seen : SUBSET TurnNumbers, eligible : SUBSET TurnNumbers,
     sealed : BOOLEAN, consumed : SUBSET TurnNumbers]

Memories ==
    [uncertain : BOOLEAN, quarantined : BOOLEAN, rejections : Nat,
     deliveries : SUBSET [turn : TurnNumbers, of : Nat], batch : Batches]

Calling == {"prepass", "sender", "receiver", "action", "forfeit"}

InTurn == Calling \cup {"record"}

Places == InTurn \cup {"rest", "paused", "resuming", "failed", "down"}

Controllers ==
    [at : Places, turn : 0..MaxTurns, pause : BOOLEAN, slots : [TurnNumbers -> Slots],
     quarantined : BOOLEAN]

Shapes ==
    /\ setting \in Settings
    /\ evidence \in Seq(Events)
    /\ recorded \in 0..MaxTurns /\ intents \in Nat /\ confirmed \subseteq 1..intents
    /\ gateway \in Memories
    /\ write = NoWrite \/ write \in [at : {"intended", "committed", "late", "ceiling"}, event : Events]
    /\ ctl \in Controllers

\* The process that could go on is gone, or knows that it may not.
Stopped == ctl.at = "down" \/ (ctl.at = "failed" /\ Quarantined)

\* Where a write of a kind comes from.
SentFrom(event) ==
    {place \in Calling :
        /\ event.kind \in {"accepted", "control"} => place = "sender"
        /\ event.kind = "interpreted" => place = "receiver"
        /\ event.kind = "action" => place = "action"
        /\ event.kind \in {"rejected", "trigger"} =>
            \/ place \in {"prepass", "sender"} /\ event.why = "invalid"
            \/ place = "receiver" /\ event.why = "interpretation"
            \/ place = "forfeit" /\ event.why = "timeout"
        /\ event.kind \notin {"rejected", "trigger"} => event.why = ""}

\* The place of the controller, and the write it waits for.
CallsFit ==
    /\ ctl.turn = recorded
    /\ ctl.at \in InTurn => ctl.turn < MaxTurns
    /\ write.at # "none" =>
        /\ write.event.turn \in TurnNumbers /\ write.event.turn >= recorded
        /\ write.event.kind \notin {"rejected", "trigger"} => write.event.turn = recorded
        /\ write.event.kind # "resume"
        /\ IF write.at = "late" THEN Stopped
           ELSE ~Quarantined /\ ctl.at \in SentFrom(write.event) \cup {"failed"}
    /\ ctl.at = "prepass" => ~gateway.batch.sealed /\ \A t \in gateway.batch.turns : t >= recorded

\* The intents, the confirmations and the evidence.
Unconfirmed == intents > 0 /\ intents \notin confirmed

JournalFits ==
    /\ \A id \in 1..intents : id # intents => id \in confirmed
    /\ \A id \in confirmed : \E i \in DOMAIN evidence : evidence[i].id = id
    /\ \A i \in DOMAIN evidence : evidence[i].id <= intents /\ (evidence[i].id = 0 <=> evidence[i].kind = "resume")
    /\ \A i, j \in DOMAIN evidence : evidence[i].id = evidence[j].id /\ evidence[i].id > 0 => i = j
    /\ write.at # "none" => write.event.id = intents /\ intents > 0
    /\ write.at \in {"intended", "late"} =>
        Unconfirmed /\ \A i \in DOMAIN evidence : evidence[i].id # intents
    /\ write.at \in {"committed", "ceiling"} => evidence # <<>> /\ evidence[Len(evidence)] = write.event
    /\ write.at = "committed" => Unconfirmed
    /\ write.at = "ceiling" => ~Unconfirmed /\ write.event.kind = "rejected"
    /\ write.at = "none" /\ Unconfirmed => Stopped

Streak == StreakAt(Len(evidence))

\* The evidence ends with the rejection that reaches the ceiling.
Reaching ==
    evidence # <<>> /\ evidence[Len(evidence)].kind = "rejected" /\ Streak = Ceiling

StreakFits ==
    /\ TriggerPerStreak
    /\ ~Quarantined /\ ctl.at \notin {"down", "resuming"} =>
        IF write.at = "committed" /\ write.event.kind \in {"rejected", "accepted", "control"}
        THEN Streak = IF write.event.kind = "rejected" THEN gateway.rejections + 1 ELSE 0
        ELSE Streak = gateway.rejections
    /\ ctl.at = "resuming" => Streak = 0
    /\ write.at \in {"intended", "late"} => (write.event.kind = "trigger" <=> Reaching)
    /\ write.at = "ceiling" => Reaching
    /\ write.at = "none" /\ Reaching => Stopped
    /\ Reaching => evidence[Len(evidence)].turn >= recorded
    /\ \A i \in Resumes : evidence[i].of = ChannelSize(i)

\* An event delivers an artifact in a turn.
DeliveredBy(i, id, turn) == evidence[i].id = id /\ Delivers(evidence[i]) /\ evidence[i].turn = turn

DeliveriesFit ==
    /\ \A d \in gateway.deliveries : \E i \in DOMAIN evidence : DeliveredBy(i, d.of, d.turn)
    /\ \A i \in DOMAIN evidence : evidence[i].kind = "interpreted" =>
        /\ \E j \in 1..i - 1 : DeliveredBy(j, evidence[i].of, evidence[i].turn)
        /\ \A j \in 1..i - 1 : evidence[j].kind = "interpreted" => evidence[j].turn # evidence[i].turn
        /\ evidence[i].turn <= recorded
        /\ evidence[i].turn = recorded =>
            \/ ctl.at \in {"action", "record", "forfeit", "failed", "down"}
            \/ ctl.at = "receiver" /\ write.at = "committed" /\ write.event.kind = "interpreted"
    /\ write.at \in {"intended", "late"} /\ write.event.kind = "interpreted" =>
        /\ \E i \in DOMAIN evidence : DeliveredBy(i, write.event.of, write.event.turn)
        /\ \A i \in DOMAIN evidence : evidence[i].kind = "interpreted" => evidence[i].turn # write.event.turn

\* A turn of the batch delivers what the permutation says.
InBatch(event) ==
    event.turn \in gateway.batch.eligible /\ gateway.batch.sealed /\ event.of = Source(event.turn)

BatchShape(batch) ==
    /\ batch.consumed \subseteq batch.eligible /\ batch.eligible \subseteq batch.seen
    /\ batch.seen \subseteq batch.turns
    /\ IsFiniteSet(batch.turns) /\ Cardinality(batch.turns) <= BatchSize

BatchFits ==
    LET batch == gateway.batch IN
    /\ BatchShape(batch)
    /\ \A i \in DOMAIN evidence : evidence[i].kind = "accepted" =>
        /\ evidence[i].turn <= recorded
        /\ evidence[i].turn = recorded => ctl.at \notin {"rest", "paused", "resuming"}
        /\ setting.condition = "shuffled" /\ evidence[i].turn \in batch.turns => InBatch(evidence[i])
    /\ write.at # "none" /\ write.event.kind = "accepted" /\ setting.condition = "shuffled" =>
        IF write.at = "late"
        THEN write.event.turn \in batch.turns => InBatch(write.event)
        ELSE InBatch(write.event)

GatewayInv == Shapes /\ CallsFit /\ JournalFits /\ StreakFits /\ DeliveriesFit /\ BatchFits

---------------------------------------------------------------------------
(* Constants *)

LEMMA Numbers ==
    /\ Ceiling \in Nat \ {0} /\ BatchSize \in Nat \ {0} /\ MaxTurns \in Nat
    /\ TurnNumbers \subseteq Nat /\ IsFiniteSet(TurnNumbers)
    /\ \A t \in TurnNumbers : t \in 0..MaxTurns /\ t < MaxTurns
    /\ \A t \in 0..MaxTurns : t < MaxTurns => t \in TurnNumbers
<1>1. Ceiling \in Nat \ {0} /\ BatchSize \in Nat \ {0} /\ MaxTurns \in Nat
  BY GatewayAssumption
<1>2. IsFiniteSet(TurnNumbers)
  <2>1. 0 \in Int /\ MaxTurns - 1 \in Int
    BY <1>1
  <2> QED
    BY <2>1, FS_Interval DEF TurnNumbers
<1> QED
  BY <1>1, <1>2 DEF TurnNumbers

---------------------------------------------------------------------------
(* The evidence grows *)

\* What one more event changes, and what it leaves.
LEMMA Grown ==
    ASSUME evidence \in Seq(Events), NEW e \in Events, evidence' = Append(evidence, e)
    PROVE  /\ evidence' \in Seq(Events) /\ evidence' # <<>>
           /\ Len(evidence) \in Nat /\ Len(evidence') = Len(evidence) + 1
           /\ DOMAIN evidence = 1..Len(evidence) /\ DOMAIN evidence' = 1..(Len(evidence) + 1)
           /\ evidence'[Len(evidence) + 1] = e
           /\ \A i \in DOMAIN evidence : evidence'[i] = evidence[i]
           /\ \A i \in DOMAIN evidence' : i \in DOMAIN evidence \/ i = Len(evidence) + 1
<1>1. /\ evidence' \in Seq(Events) /\ Len(evidence) \in Nat /\ Len(evidence') = Len(evidence) + 1
      /\ DOMAIN evidence = 1..Len(evidence) /\ DOMAIN evidence' = 1..(Len(evidence) + 1)
      /\ evidence'[Len(evidence) + 1] = e
      /\ \A i \in DOMAIN evidence : evidence'[i] = evidence[i]
  BY AppendProperties, LenProperties
<1>2. evidence' # <<>>
  BY <1>1
<1>3. \A i \in DOMAIN evidence' : i \in DOMAIN evidence \/ i = Len(evidence) + 1
  BY <1>1
<1> QED
  BY <1>1, <1>2, <1>3

\* Since an accepted event or a resume: what ends a streak.
Ends == {"accepted", "control", "resume"}

InStreak(i) ==
    {j \in 1..i : evidence[j].kind = "rejected" /\ \A k \in j..i : evidence[k].kind \notin Ends}

LEMMA StreakIsCount ==
    ASSUME NEW i \in Nat
    PROVE  StreakAt(i) = Cardinality(InStreak(i)) /\ IsFiniteSet(InStreak(i)) /\ StreakAt(i) \in Nat
<1>1. StreakAt(i) = Cardinality(InStreak(i))
  BY DEF StreakAt, InStreak, Ends
<1>2. IsFiniteSet(1..i)
  BY FS_Interval
<1>3. InStreak(i) \in SUBSET (1..i)
  BY DEF InStreak
<1>4. IsFiniteSet(InStreak(i))
  BY <1>2, <1>3, FS_Subset
<1> QED
  BY <1>1, <1>4, FS_CardinalityType

LEMMA StreakPrefix ==
    ASSUME evidence \in Seq(Events), NEW e \in Events, evidence' = Append(evidence, e),
           NEW n \in 0..Len(evidence)
    PROVE  StreakAt(n)' = StreakAt(n)
<1>1. \A i \in 1..n : evidence'[i] = evidence[i]
  BY Grown
<1>2. \A j \in 1..n : \A k \in j..n : k \in 1..n
  BY Grown
<1>3. {j \in 1..n : evidence'[j].kind = "rejected" /\ \A k \in j..n : evidence'[k].kind \notin {"accepted", "control", "resume"}}
        = {j \in 1..n : evidence[j].kind = "rejected" /\ \A k \in j..n : evidence[k].kind \notin {"accepted", "control", "resume"}}
  BY <1>1, <1>2
<1> QED
  BY <1>3 DEF StreakAt

LEMMA StreakStep ==
    ASSUME evidence \in Seq(Events), NEW e \in Events, evidence' = Append(evidence, e)
    PROVE  /\ Streak \in Nat /\ Streak' \in Nat
           /\ e.kind = "rejected" => Streak' = Streak + 1
           /\ e.kind \in Ends => Streak' = 0
           /\ e.kind \notin Ends /\ e.kind # "rejected" => Streak' = Streak
<1> PICK n \in Nat : n = Len(evidence)
  BY Grown
<1>1. /\ Len(evidence') = n + 1 /\ evidence'[n + 1] = e
      /\ \A i \in 1..n : evidence'[i] = evidence[i]
  BY Grown
<1>2. Streak = Cardinality(InStreak(n)) /\ IsFiniteSet(InStreak(n)) /\ Streak \in Nat
  BY StreakIsCount DEF Streak
<1>0. PICK later : later = {j \in 1..(n + 1) : evidence'[j].kind = "rejected"
                                            /\ \A k \in j..(n + 1) : evidence'[k].kind \notin Ends}
  OBVIOUS
<1>3. Streak' = Cardinality(later)
  BY <1>0, <1>1 DEF Streak, StreakAt, Ends
<1>4. \A j \in 1..n : j \in later <=> j \in InStreak(n) /\ e.kind \notin Ends
  <2> SUFFICES ASSUME NEW j \in 1..n PROVE j \in later <=> j \in InStreak(n) /\ e.kind \notin Ends
    OBVIOUS
  <2>1. \A k \in j..(n + 1) : k = n + 1 \/ (k \in j..n /\ k \in 1..n)
    OBVIOUS
  <2>2. (n + 1) \in j..(n + 1) /\ \A k \in j..n : k \in j..(n + 1) /\ k \in 1..n
    OBVIOUS
  <2> QED
    BY <1>0, <1>1, <2>1, <2>2 DEF InStreak
<1>5. n + 1 \in later <=> e.kind = "rejected"
  BY <1>0, <1>1 DEF Ends
<1>6. InStreak(n) \subseteq 1..n /\ later \subseteq 1..(n + 1)
  BY <1>0 DEF InStreak
<1>7. CASE e.kind = "rejected"
  <2>1. later = InStreak(n) \cup {n + 1} /\ n + 1 \notin InStreak(n)
    BY <1>0, <1>4, <1>5, <1>6, <1>7 DEF Ends
  <2>2. Cardinality(later) = Cardinality(InStreak(n)) + 1
    BY <1>2, <2>1, FS_AddElement
  <2> QED
    BY <1>2, <1>3, <1>7, <2>2 DEF Ends
<1>8. CASE e.kind \in Ends
  <2>1. later = {}
    BY <1>4, <1>5, <1>6, <1>8 DEF Ends
  <2>2. Cardinality(later) = 0
    BY <2>1, FS_EmptySet
  <2> QED
    BY <1>2, <1>3, <1>8, <2>2 DEF Ends
<1>9. CASE e.kind \notin Ends /\ e.kind # "rejected"
  <2>1. later = InStreak(n)
    BY <1>0, <1>4, <1>5, <1>6, <1>9
  <2> QED
    BY <1>2, <1>3, <1>9, <2>1
<1> QED
  BY <1>7, <1>8, <1>9

LEMMA StreakStays ==
    evidence' = evidence => /\ Streak' = Streak /\ (TriggerPerStreak => TriggerPerStreak')
                            /\ (Reaching' <=> Reaching)
                            /\ ((\A i \in Resumes : evidence[i].of = ChannelSize(i))
                                  => (\A i \in Resumes : evidence[i].of = ChannelSize(i))')
BY DEF Streak, StreakAt, TriggerPerStreak, Reaching, Resumes, ChannelSize, ChannelPlaces

---------------------------------------------------------------------------
(* The streak a new process counts *)

LEMMA LeastOf ==
    ASSUME NEW S, S \subseteq Nat, S # {}
    PROVE  \E x \in S : \A y \in S : x <= y
<1> DEFINE R == OpToRel(<, Nat)
<1>1. IsWellFoundedOn(R, Nat)
  BY NatLessThanWellFounded
<1>2. \A x, y \in Nat : x < y => <<x, y>> \in R
  BY DEF OpToRel
<1> HIDE DEF R
<1>3. PICK x \in S : \A y \in S : ~ (<<y, x>> \in R)
  BY <1>1, WFMin
<1>4. ASSUME NEW y \in S PROVE x <= y
  <2>1. ~ (y < x)
    BY <1>2, <1>3
  <2> QED
    BY <2>1
<1> QED
  BY <1>4

LEMMA MaxIsGreatest ==
    ASSUME NEW S, NEW n \in Nat, S \subseteq 1..n, S # {}
    PROVE  Max(S) \in S /\ \A x \in S : x <= Max(S)
<1> DEFINE T == {n - x : x \in S}
<1>1. T \subseteq Nat /\ T # {}
  <2>1. \A x \in S : n - x \in Nat
    OBVIOUS
  <2>2. \E x \in S : n - x \in T
    OBVIOUS
  <2> QED
    BY <2>1, <2>2
<1>2. PICK least \in T : \A y \in T : least <= y
  BY <1>1, LeastOf
<1>3. PICK m \in S : least = n - m
  BY <1>2
<1>4. \A x \in S : n - x \in T /\ n - m <= n - x
  BY <1>2, <1>3
<1>5. \A x \in S : m >= x
  BY <1>4
<1>6. Max(S) = CHOOSE x \in S : \A y \in S : x >= y
  BY DEF Max
<1>7. Max(S) \in S /\ \A y \in S : Max(S) >= y
  BY <1>5, <1>6
<1> QED
  BY <1>7

Upto(place) == {i \in ChannelPlaces : i <= place}

LEMMA UptoIsFinite ==
    ASSUME evidence \in Seq(Events), NEW place \in Nat
    PROVE  IsFiniteSet(Upto(place)) /\ ChannelSize(place) = Cardinality(Upto(place)) /\ ChannelSize(place) \in Nat
<1>1. ChannelSize(place) = Cardinality(Upto(place))
  BY DEF ChannelSize, Upto
<1>2. Upto(place) \in SUBSET (1..place)
  BY DEF Upto, ChannelPlaces
<1>3. IsFiniteSet(1..place)
  BY FS_Interval
<1>4. IsFiniteSet(Upto(place))
  BY <1>2, <1>3, FS_Subset
<1> QED
  BY <1>1, <1>4, FS_CardinalityType

\* The channel grows at every channel event, and nowhere else.
LEMMA ChannelGrows ==
    ASSUME evidence \in Seq(Events), NEW i \in Nat, NEW j \in Nat, i <= j
    PROVE  /\ ChannelSize(i) <= ChannelSize(j)
           /\ i < j /\ j \in ChannelPlaces => ChannelSize(i) < ChannelSize(j)
<1>1. /\ IsFiniteSet(Upto(i)) /\ ChannelSize(i) = Cardinality(Upto(i)) /\ ChannelSize(i) \in Nat
      /\ IsFiniteSet(Upto(j)) /\ ChannelSize(j) = Cardinality(Upto(j)) /\ ChannelSize(j) \in Nat
  BY UptoIsFinite
<1>2. Upto(i) \in SUBSET Upto(j)
  BY DEF Upto, ChannelPlaces
<1>3. /\ Cardinality(Upto(i)) <= Cardinality(Upto(j))
      /\ Cardinality(Upto(j)) = Cardinality(Upto(i)) => Upto(j) = Upto(i)
  BY <1>1, <1>2, FS_Subset
<1>4. i < j /\ j \in ChannelPlaces => j \in Upto(j) /\ j \notin Upto(i)
  BY DEF Upto
<1>5. ASSUME i < j, j \in ChannelPlaces PROVE ChannelSize(i) < ChannelSize(j)
  <2>1. Cardinality(Upto(i)) # Cardinality(Upto(j))
    BY <1>3, <1>4, <1>5
  <2> QED
    BY <1>1, <1>3, <2>1
<1> QED
  BY <1>1, <1>3, <1>5

\* A resume has reviewed the channel up to its place, so the streak behind what
\* is reviewed is the streak behind the last resume.
LEMMA RecountedIsStreak ==
    ASSUME evidence \in Seq(Events), \A i \in Resumes : evidence[i].of = ChannelSize(i)
    PROVE  Recounted = Streak
<1> PICK n \in Nat : n = Len(evidence)
  BY LenProperties
<1>1. DOMAIN evidence = 1..n /\ \A i \in 1..n : evidence[i] \in Events
  BY LenProperties, ElementOfSeq
<1>2. ChannelPlaces \subseteq 1..n /\ Resumes \subseteq 1..n /\ Resumes \cap ChannelPlaces = {}
  BY <1>1 DEF ChannelPlaces, Resumes, IsChannel
<1>3. \A i \in 1..n : evidence[i].kind = "rejected" => i \in ChannelPlaces
  BY <1>1 DEF ChannelPlaces, IsChannel
<1>4. \A i \in ChannelPlaces : ChannelSize(i) > Reviewed <=> \A m \in Resumes : m < i
  <2> SUFFICES ASSUME NEW i \in ChannelPlaces
               PROVE  ChannelSize(i) > Reviewed <=> \A m \in Resumes : m < i
    OBVIOUS
  <2>0. i \in Nat /\ 0 < i
    BY <1>2
  <2>1. CASE Resumes = {}
    <3>1. ChannelSize(0) < ChannelSize(i) /\ ChannelSize(0) \in Nat /\ ChannelSize(i) \in Nat
      BY <2>0, ChannelGrows, UptoIsFinite
    <3> QED
      BY <2>1, <3>1 DEF Reviewed
  <2>2. CASE Resumes # {}
    <3>1. PICK m \in Resumes : m = Max(Resumes) /\ \A r \in Resumes : r <= m
      BY <1>2, <2>2, MaxIsGreatest
    <3>2. Reviewed = ChannelSize(m) /\ m \in Nat /\ m # i
      BY <1>2, <2>2, <3>1 DEF Reviewed
    <3>3. ChannelSize(m) \in Nat /\ ChannelSize(i) \in Nat
      BY <2>0, <3>2, UptoIsFinite
    <3>4. CASE m < i
      <4>1. ChannelSize(m) < ChannelSize(i)
        BY <2>0, <3>2, <3>4, ChannelGrows
      <4>2. \A r \in Resumes : r < i
        BY <1>2, <2>0, <3>1, <3>4
      <4> QED
        BY <3>2, <3>3, <4>1, <4>2
    <3>5. CASE i < m
      <4>1. ChannelSize(i) <= ChannelSize(m)
        BY <2>0, <3>2, <3>5, ChannelGrows
      <4>2. ~ (m < i)
        BY <2>0, <3>2, <3>5
      <4> QED
        BY <3>1, <3>2, <3>3, <4>1, <4>2
    <3> QED
      BY <2>0, <3>2, <3>4, <3>5
  <2> QED
    BY <2>1, <2>2
<1> DEFINE counted == {i \in ChannelPlaces : /\ ChannelSize(i) > Reviewed
                                             /\ \A k \in ChannelPlaces : k >= i => evidence[k].kind = "rejected"}
<1>5. Recounted = Cardinality(counted)
  BY DEF Recounted, CountStreak
<1>6. Streak = Cardinality(InStreak(n))
  BY StreakIsCount DEF Streak
<1>7. ASSUME NEW i \in counted PROVE i \in InStreak(n)
  <2>1. /\ i \in ChannelPlaces /\ i \in 1..n /\ \A m \in Resumes : m < i
        /\ \A k \in ChannelPlaces : k >= i => evidence[k].kind = "rejected"
    BY <1>2, <1>4, <1>7
  <2>2. evidence[i].kind = "rejected"
    BY <2>1
  <2>3. ASSUME NEW k \in i..n PROVE evidence[k].kind \notin Ends
    <3>1. k \in 1..n /\ k >= i
      BY <2>1, <2>3
    <3>2. k \notin Resumes
      BY <2>1, <3>1
    <3>3. k \in ChannelPlaces => evidence[k].kind = "rejected"
      BY <2>1, <3>1
    <3> QED
      BY <1>1, <3>1, <3>2, <3>3 DEF Ends, Resumes, ChannelPlaces, IsChannel
  <2> QED
    BY <2>1, <2>2, <2>3 DEF InStreak
<1>8. ASSUME NEW i \in InStreak(n) PROVE i \in counted
  <2>1. i \in 1..n /\ evidence[i].kind = "rejected" /\ \A k \in i..n : evidence[k].kind \notin Ends
    BY <1>8 DEF InStreak
  <2>2. \A k \in 1..n : k >= i => k \in i..n
    BY <2>1
  <2>3. \A m \in Resumes : m < i
    BY <1>1, <1>2, <2>1, <2>2 DEF Resumes, Ends
  <2>4. \A k \in ChannelPlaces : k >= i => evidence[k].kind = "rejected"
    BY <1>1, <1>2, <2>1, <2>2 DEF ChannelPlaces, IsChannel, Ends
  <2> QED
    BY <1>3, <1>4, <2>1, <2>3, <2>4
<1>9. counted = InStreak(n)
  BY <1>7, <1>8
<1> QED
  BY <1>5, <1>6, <1>9

\* What is behind a place of the evidence changes nothing before it.
LEMMA ChannelPrefix ==
    ASSUME evidence \in Seq(Events), NEW e \in Events, evidence' = Append(evidence, e),
           \A i \in Resumes : evidence[i].of = ChannelSize(i),
           e.kind = "resume" => e.of = ChannelSize(Len(evidence))
    PROVE  (\A i \in Resumes : evidence[i].of = ChannelSize(i))'
<1> PICK n \in Nat : n = Len(evidence)
  BY Grown
<1>1. /\ DOMAIN evidence = 1..n /\ DOMAIN evidence' = 1..(n + 1) /\ evidence'[n + 1] = e
      /\ \A i \in 1..n : evidence'[i] = evidence[i]
  BY Grown
<1>2. \A i \in 1..(n + 1) : i \in 1..n \/ i = n + 1
  OBVIOUS
<1>3. \A i \in 1..n : i \in 1..(n + 1) /\ i # n + 1
  OBVIOUS
<1>4. \A i \in 1..n : (IsChannel(evidence[i]))' <=> IsChannel(evidence[i])
  BY <1>1 DEF IsChannel
<1>5. \A i \in 1..n : i \in ChannelPlaces' <=> i \in ChannelPlaces
  BY <1>1, <1>3, <1>4 DEF ChannelPlaces
<1>6. ChannelPlaces \subseteq 1..n /\ ChannelPlaces' \subseteq 1..(n + 1)
  BY <1>1 DEF ChannelPlaces
<1>7. ASSUME NEW i \in 1..n PROVE ChannelSize(i)' = ChannelSize(i)
  <2>1. \A k \in 1..(n + 1) : k <= i => k \in 1..n
    BY <1>3
  <2>2. \A k : k \in ChannelPlaces' /\ k <= i <=> k \in ChannelPlaces /\ k <= i
    BY <1>3, <1>5, <1>6, <2>1
  <2>3. {k \in ChannelPlaces' : k <= i} = {k \in ChannelPlaces : k <= i}
    BY <2>2
  <2> QED
    BY <2>3 DEF ChannelSize
<1>8. ASSUME e.kind = "resume" PROVE ChannelSize(n + 1)' = ChannelSize(n)
  <2>1. n + 1 \notin ChannelPlaces'
    BY <1>1, <1>8 DEF ChannelPlaces, IsChannel
  <2>2. ChannelPlaces' = ChannelPlaces
    BY <1>2, <1>3, <1>5, <1>6, <2>1
  <2>3. \A k \in ChannelPlaces : k <= n + 1 /\ k <= n
    BY <1>6
  <2>4. {k \in ChannelPlaces' : k <= n + 1} = {k \in ChannelPlaces : k <= n}
    BY <2>2, <2>3
  <2> QED
    BY <2>4 DEF ChannelSize
<1>9. ASSUME NEW i \in Resumes' PROVE (evidence[i].of = ChannelSize(i))'
  <2>1. i \in 1..(n + 1) /\ evidence'[i].kind = "resume"
    BY <1>1 DEF Resumes
  <2>2. CASE i \in 1..n
    <3>1. i \in Resumes
      BY <1>1, <2>1, <2>2 DEF Resumes
    <3> QED
      BY <1>1, <1>7, <2>2, <3>1
  <2>3. CASE i = n + 1
    BY <1>1, <1>8, <2>1, <2>3
  <2> QED
    BY <1>2, <2>1, <2>2, <2>3
<1> QED
  BY <1>9

---------------------------------------------------------------------------
(* The shuffled control *)

\* The permutation of a batch takes every eligible turn to an artifact of the
\* batch, no two turns to the same one, and none to its own unless it is alone.
LEMMA SourceIsDeranged ==
    ASSUME Shapes, BatchFits, NEW s \in gateway.batch.eligible, NEW t \in gateway.batch.eligible
    PROVE  /\ Source(t) \in gateway.batch.eligible
           /\ Source(t) = Source(s) => t = s
           /\ Source(t) = t => gateway.batch.eligible = {t}
<1> DEFINE eligible == gateway.batch.eligible
           n == Cardinality(eligible)
           below(x) == {e \in eligible : e <= x}
<1>1. eligible \subseteq Nat /\ IsFiniteSet(eligible) /\ n \in 1..BatchSize
  <2>1. gateway.batch \in Batches
    BY DEF Shapes, Memories
  <2>2. eligible \in SUBSET gateway.batch.turns
    BY DEF BatchFits, BatchShape
  <2>3. IsFiniteSet(gateway.batch.turns) /\ Cardinality(gateway.batch.turns) <= BatchSize
    BY DEF BatchFits, BatchShape
  <2>4. IsFiniteSet(eligible) /\ n <= Cardinality(gateway.batch.turns)
    BY <2>2, <2>3, FS_Subset
  <2>5. n \in Nat /\ n # 0 /\ Cardinality(gateway.batch.turns) \in Nat
    BY <2>3, <2>4, FS_CardinalityType, FS_EmptySet
  <2>6. eligible \subseteq Nat
    BY <2>1, Numbers DEF Batches
  <2> QED
    BY <2>3, <2>4, <2>5, <2>6, Numbers
<1> PICK size \in 1..BatchSize : size = n
  BY <1>1
<1>2. PICK p : p = setting.permutations[size]
  OBVIOUS
<1>3. /\ p \in [1..size -> 1..size] /\ \A i, j \in 1..size : p[i] = p[j] => i = j
      /\ size >= 2 => \A i \in 1..size : p[i] # i
  BY <1>2, Numbers, ZenonT(60) DEF Shapes, Settings, Deranged
<1> HIDE DEF eligible, n
<1>4. \A x \in eligible : below(x) \in SUBSET eligible /\ IsFiniteSet(below(x)) /\ Cardinality(below(x)) \in Nat
  <2> SUFFICES ASSUME NEW x \in eligible
               PROVE  below(x) \in SUBSET eligible /\ IsFiniteSet(below(x)) /\ Cardinality(below(x)) \in Nat
    OBVIOUS
  <2>1. below(x) \in SUBSET eligible
    OBVIOUS
  <2>2. IsFiniteSet(below(x))
    BY <1>1, <2>1, FS_Subset
  <2> QED
    BY <2>1, <2>2, FS_CardinalityType
<1>5. \A x \in eligible : Place(x) = Cardinality(below(x))
  BY DEF Place, eligible
<1>6. ASSUME NEW x \in eligible PROVE Place(x) \in 1..size
  <2>1. below(x) # {}
    BY <1>1
  <2>2. Cardinality(below(x)) # 0
    BY <1>4, <2>1, FS_EmptySet
  <2>3. Cardinality(below(x)) <= n
    BY <1>1, <1>4, FS_Subset DEF n
  <2> QED
    BY <1>4, <1>5, <2>2, <2>3
<1>7. ASSUME NEW x \in eligible, NEW y \in eligible, x < y PROVE Place(x) # Place(y)
  <2>0. x \in Nat /\ y \in Nat /\ \A e \in eligible : e \in Nat
    BY <1>1
  <2>1. \A e \in below(x) : e \in eligible /\ e <= y
    BY <1>7, <2>0
  <2>2. y \in below(y)
    BY <2>0
  <2>3. y \notin below(x)
    BY <1>7, <2>0
  <2>4. below(x) \in SUBSET below(y)
    BY <2>1
  <2>5. Cardinality(below(y)) # Cardinality(below(x))
    BY <1>4, <2>2, <2>3, <2>4, FS_Subset
  <2> QED
    BY <1>5, <2>5
<1>8. \A x, y \in eligible : Place(x) = Place(y) => x = y
  <2> SUFFICES ASSUME NEW x \in eligible, NEW y \in eligible, Place(x) = Place(y) PROVE x = y
    OBVIOUS
  <2>1. x \in Nat /\ y \in Nat /\ ~ (x < y) /\ ~ (y < x)
    BY <1>1, <1>7
  <2> QED
    BY <2>1
<1>9. \A k \in 1..size : \E x \in eligible : Place(x) = k
  <2> DEFINE place == [x \in eligible |-> Place(x)]
  <2>1. place \in Injection(eligible, 1..size)
    BY <1>6, <1>8 DEF Injection, IsInjective
  <2>2. IsFiniteSet(1..size) /\ Cardinality(1..size) = size
    BY FS_Interval
  <2>3. place \in Surjection(eligible, 1..size)
    <3> HIDE DEF place
    <3> QED
      BY <2>1, <2>2, FS_Injection DEF n
  <2> QED
    BY <2>3 DEF Surjection
<1>10. \A k \in 1..size : TurnAt(k) \in eligible /\ Place(TurnAt(k)) = k
  <2> SUFFICES ASSUME NEW k \in 1..size PROVE TurnAt(k) \in eligible /\ Place(TurnAt(k)) = k
    OBVIOUS
  <2>1. TurnAt(k) = CHOOSE x \in eligible : Place(x) = k
    BY DEF TurnAt, eligible
  <2> QED
    BY <1>9, <2>1
<1>11. \A x \in eligible : Source(x) = TurnAt(p[Place(x)])
  BY <1>2 DEF Source, n, eligible
<1>12. s \in eligible /\ t \in eligible
  BY DEF eligible
<1>13. Source(t) \in eligible /\ Place(Source(t)) = p[Place(t)] /\ Place(Source(s)) = p[Place(s)]
  BY <1>3, <1>6, <1>10, <1>11, <1>12
<1>14. Source(t) = Source(s) => t = s
  BY <1>3, <1>6, <1>8, <1>12, <1>13
<1>15. ASSUME Source(t) = t PROVE eligible = {t}
  <2>1. p[Place(t)] = Place(t)
    BY <1>13, <1>15
  <2>2. size = 1
    BY <1>3, <1>6, <1>12, <2>1
  <2>3. \A x \in eligible : Place(x) = 1
    BY <1>6, <2>2
  <2>4. \A x \in eligible : x = t
    BY <1>8, <1>12, <2>3
  <2> QED
    BY <1>12, <2>4
<1> QED
  BY <1>13, <1>14, <1>15 DEF eligible

---------------------------------------------------------------------------
(* What the invariant says of the properties *)

LEMMA InvIsSafe == GatewayInv => GatewaySafe
<1> SUFFICES ASSUME GatewayInv PROVE GatewaySafe
  OBVIOUS
<1> USE DEF GatewayInv
<1>1. DOMAIN evidence = 1..Len(evidence) /\ Len(evidence) \in Nat
      /\ \A i \in DOMAIN evidence : evidence[i] \in Events
  BY LenProperties, ElementOfSeq DEF Shapes
<1>2. GatewayTypeOK
  <2>1. /\ evidence \in Seq(Events)
        /\ recorded \in 0..MaxTurns /\ intents \in Nat /\ confirmed \subseteq 1..intents
        /\ gateway.rejections \in Nat /\ {gateway.uncertain, gateway.quarantined} \subseteq BOOLEAN
    BY DEF Shapes, Memories
  <2>2. ASSUME NEW d \in gateway.deliveries PROVE d.turn \in 0..MaxTurns - 1 /\ d.of \in 1..intents
    <3>1. PICK i \in DOMAIN evidence : DeliveredBy(i, d.of, d.turn)
      BY DEF DeliveriesFit
    <3>2. evidence[i].id = d.of /\ evidence[i].kind # "resume"
      BY <3>1 DEF DeliveredBy, Delivers
    <3>3. evidence[i].id <= intents /\ evidence[i].id # 0 /\ evidence[i].id \in Nat
      BY <1>1, <3>2 DEF JournalFits, Events
    <3>4. d.turn \in 0..MaxTurns - 1
      BY DEF Shapes, Memories, TurnNumbers
    <3> QED
      BY <2>1, <3>2, <3>3, <3>4
  <2>3. /\ gateway.batch.consumed \subseteq gateway.batch.eligible
        /\ gateway.batch.eligible \subseteq gateway.batch.seen
        /\ gateway.batch.seen \subseteq gateway.batch.turns
    BY DEF BatchFits, BatchShape
  <2>4. write = NoWrite \/ (/\ write.at \in {"intended", "committed", "late", "ceiling"}
                            /\ write.event \in Events)
    BY DEF Shapes
  <2>5. ctl.turn \in 0..MaxTurns /\ {ctl.pause, ctl.quarantined} \subseteq BOOLEAN
    BY DEF Shapes, Controllers
  <2>6. ctl.slots \in [0..MaxTurns - 1 -> Slots]
    BY DEF Shapes, Controllers, TurnNumbers
  <2> QED
    BY <2>1, <2>2, <2>3, <2>4, <2>5, <2>6 DEF GatewayTypeOK
<1>3. StreakIsInEvidence
  BY DEF StreakFits, StreakIsInEvidence, Streak
<1>4. TriggerPerStreak
  BY DEF StreakFits
<1>5. OneUnknownWrite
  <2>1. OpenIntents \subseteq {intents}
    BY DEF JournalFits, OpenIntents
  <2>2. ASSUME NEW id \in 1..intents
        PROVE  /\ Cardinality({i \in DOMAIN evidence : evidence[i].id = id}) <= 1
               /\ id \in confirmed => {i \in DOMAIN evidence : evidence[i].id = id} # {}
    <3> PICK copies : copies = {i \in DOMAIN evidence : evidence[i].id = id}
      OBVIOUS
    <3>1. \A i, j \in copies : i = j
      BY <2>2 DEF JournalFits, Shapes
    <3>2. copies = {} \/ \E i : copies = {i}
      BY <3>1, ZenonT(60)
    <3>3. Cardinality({}) = 0 /\ \A i : Cardinality({i}) = 1
      BY FS_EmptySet, FS_Singleton
    <3>4. Cardinality(copies) = 0 \/ Cardinality(copies) = 1
      BY <3>2, <3>3
    <3>5. id \in confirmed => copies # {}
      BY DEF JournalFits
    <3> QED
      BY <3>4, <3>5
  <2> QED
    BY <2>1, <2>2 DEF OneUnknownWrite
<1>6. InterpretsOwnDelivery
  BY DEF DeliveriesFit, InterpretsOwnDelivery, DeliveredBy
<1>7. ShufflesTheBatch
  <2> SUFFICES ASSUME setting.condition = "shuffled",
                      NEW d \in Range(evidence), d.kind = "accepted", d.turn \in gateway.batch.turns,
                      NEW other \in Range(evidence), other.kind = "accepted",
                      other.turn \in gateway.batch.turns
               PROVE  /\ d.turn # other.turn => d.of # other.of
                      /\ d.of \in gateway.batch.eligible
                      /\ d.of = d.turn => gateway.batch.eligible = {d.turn}
    BY DEF ShufflesTheBatch
  <2>1. PICK i \in DOMAIN evidence : evidence[i] = d
    BY DEF Range
  <2>2. PICK j \in DOMAIN evidence : evidence[j] = other
    BY DEF Range
  <2>3. InBatch(d) /\ InBatch(other)
    BY <2>1, <2>2 DEF BatchFits
  <2>4. /\ d.turn \in gateway.batch.eligible /\ d.of = Source(d.turn)
        /\ other.turn \in gateway.batch.eligible /\ other.of = Source(other.turn)
    BY <2>3 DEF InBatch
  <2> QED
    BY <2>4, SourceIsDeranged
<1> QED
  BY <1>2, <1>3, <1>4, <1>5, <1>6, <1>7 DEF GatewaySafe

LEMMA Starts == GatewayInit => GatewayInv
<1> SUFFICES ASSUME GatewayInit PROVE GatewayInv
  OBVIOUS
<1>0. /\ recorded = 0 /\ intents = 0 /\ confirmed = {} /\ evidence = <<>> /\ setting \in Settings
      /\ gateway = Fresh /\ write = NoWrite
      /\ ctl = [at |-> "rest", turn |-> 0, pause |-> FALSE, slots |-> NoSlots, quarantined |-> FALSE]
  BY DEF GatewayInit, Settings
<1>1. DOMAIN evidence = {} /\ Len(evidence) = 0 /\ evidence \in Seq(Events)
  BY <1>0, EmptySeq
<1>2. Fresh \in Memories
  BY DEF Memories, Fresh, NoBatch, Batches
<1>3. Shapes
  BY <1>0, <1>1, <1>2, Numbers
     DEF Shapes, NoWrite, Controllers, Places, InTurn, Calling, NoSlots, Slots, TurnNumbers
<1>4. CallsFit
  BY <1>0 DEF CallsFit, InTurn, Calling, NoWrite
<1>5. JournalFits
  BY <1>0, <1>1 DEF JournalFits, Unconfirmed, NoWrite
<1>6. StreakFits
  <2>1. Streak = 0
    <3>1. InStreak(0) = {}
      BY DEF InStreak
    <3> QED
      BY <1>1, <3>1, StreakIsCount, FS_EmptySet DEF Streak
  <2>2. TriggerPerStreak
    BY <1>1 DEF TriggerPerStreak
  <2>3. ~ Reaching /\ Resumes = {}
    BY <1>0, <1>1 DEF Reaching, Resumes
  <2> QED
    BY <1>0, <2>1, <2>2, <2>3 DEF StreakFits, Fresh, NoWrite
<1>7. DeliveriesFit
  BY <1>0, <1>1 DEF DeliveriesFit, Fresh, NoWrite
<1>8. BatchFits
  <2>1. gateway.batch = NoBatch
    BY <1>0 DEF Fresh
  <2>2. IsFiniteSet(gateway.batch.turns) /\ Cardinality(gateway.batch.turns) = 0
    BY <2>1, FS_EmptySet DEF NoBatch
  <2>3. Cardinality(gateway.batch.turns) <= BatchSize
    BY <2>2, Numbers
  <2> QED
    BY <1>0, <1>1, <2>1, <2>2, <2>3 DEF BatchFits, BatchShape, NoBatch, NoWrite
<1> QED
  BY <1>3, <1>4, <1>5, <1>6, <1>7, <1>8 DEF GatewayInv

---------------------------------------------------------------------------
(* Steps that write nothing *)

LEMMA QuietKeeps ==
    ASSUME GatewayInv, UNCHANGED <<durable, evidence, intents, write>>, write.at = "none",
           gateway' \in Memories, gateway'.uncertain = gateway.uncertain,
           gateway'.quarantined = gateway.quarantined, gateway'.rejections = gateway.rejections,
           gateway'.deliveries = gateway.deliveries,
           \/ gateway'.batch = gateway.batch
           \/ /\ BatchShape(gateway'.batch)
              /\ \A i \in DOMAIN evidence :
                    evidence[i].kind = "accepted" /\ setting.condition = "shuffled"
                        => evidence[i].turn \notin gateway'.batch.turns,
           ctl' \in Controllers, ctl'.turn = ctl.turn, ctl.turn < MaxTurns,
           ctl.at \in InTurn \cup {"rest"}, ctl'.at \in InTurn,
           ctl'.at = "prepass" =>
                ~gateway'.batch.sealed /\ \A t \in gateway'.batch.turns : t >= recorded,
           ctl.at \in {"action", "record", "forfeit"} => ctl'.at \in {"action", "record", "forfeit"}
    PROVE  GatewayInv'
<1> USE DEF GatewayInv
<1>0. /\ setting' = setting /\ recorded' = recorded /\ confirmed' = confirmed
      /\ evidence' = evidence /\ intents' = intents /\ write' = write
  BY DEF durable
<1>1. Shapes'
  BY <1>0 DEF Shapes
<1>2. Quarantined' = Quarantined
  BY DEF Quarantined
<1>3. ~ Stopped
  BY DEF Stopped, InTurn, Calling
<1>4. CallsFit'
  BY <1>0 DEF CallsFit
<1>5. JournalFits'
  BY <1>0, <1>3 DEF JournalFits, Unconfirmed
<1>6. StreakFits'
  <2>1. ~ Reaching
    BY <1>3 DEF StreakFits
  <2>2. ctl.at \notin {"down", "resuming"} /\ ctl'.at \notin {"down", "resuming"}
    BY DEF InTurn, Calling
  <2>3. Streak' = Streak /\ TriggerPerStreak' /\ ~ Reaching'
        /\ (\A i \in Resumes : evidence[i].of = ChannelSize(i))'
    BY <1>0, <2>1, StreakStays DEF StreakFits
  <2> QED
    BY <1>0, <1>2, <2>2, <2>3 DEF StreakFits
<1>7. DeliveriesFit'
  <2>1. \A i, id, turn : DeliveredBy(i, id, turn)' <=> DeliveredBy(i, id, turn)
    BY <1>0 DEF DeliveredBy, Delivers
  <2> QED
    BY <1>0, <2>1 DEF DeliveriesFit, InTurn, Calling
<1>8. BatchFits'
  <2>1. ctl'.at \notin {"rest", "paused", "resuming"}
    BY DEF InTurn, Calling
  <2>2. CASE gateway'.batch = gateway.batch
    <3>1. \A e : InBatch(e)' <=> InBatch(e)
      BY <1>0, <2>2 DEF InBatch, Source, TurnAt, Place
    <3> QED
      BY <1>0, <2>1, <2>2, <3>1 DEF BatchFits
  <2>3. CASE /\ BatchShape(gateway'.batch)
             /\ \A i \in DOMAIN evidence :
                    evidence[i].kind = "accepted" /\ setting.condition = "shuffled"
                        => evidence[i].turn \notin gateway'.batch.turns
    BY <1>0, <2>1, <2>3 DEF BatchFits, BatchShape
  <2> QED
    BY <2>2, <2>3
<1> QED
  BY <1>1, <1>4, <1>5, <1>6, <1>7, <1>8

\* A turn that waits for no write is not over.
LEMMA TurnIsOpen ==
    ASSUME GatewayInv, ctl.at \in InTurn
    PROVE  /\ ctl.turn = recorded /\ ctl.turn < MaxTurns /\ ctl.turn \in TurnNumbers
           /\ ctl \in Controllers /\ gateway \in Memories
           /\ ctl.at = "record" => write.at = "none"
<1>1. ctl \in Controllers /\ gateway \in Memories
  BY DEF GatewayInv, Shapes
<1>2. ctl.turn = recorded /\ ctl.turn < MaxTurns /\ ctl.turn \in 0..MaxTurns
  BY <1>1 DEF GatewayInv, CallsFit, Controllers
<1>3. ctl.at = "record" => write.at = "none"
  BY DEF GatewayInv, CallsFit, SentFrom, Stopped, Calling
<1> QED
  BY <1>1, <1>2, <1>3, Numbers

LEMMA EvidenceIs ==
    ASSUME GatewayInv
    PROVE  /\ DOMAIN evidence = 1..Len(evidence) /\ Len(evidence) \in Nat /\ recorded \in Nat
           /\ intents \in Nat
           /\ \A i \in DOMAIN evidence : /\ evidence[i] \in Events
                                        /\ evidence[i].turn \in Nat /\ evidence[i].id \in Nat
<1>1. /\ DOMAIN evidence = 1..Len(evidence) /\ Len(evidence) \in Nat
      /\ \A i \in DOMAIN evidence : evidence[i] \in Events
  BY LenProperties, ElementOfSeq DEF GatewayInv, Shapes
<1>2. ASSUME NEW e \in Events PROVE e.turn \in Nat /\ e.id \in Nat
  <2>1. e.turn \in 0..MaxTurns /\ e.id \in Nat
    BY DEF Events
  <2> QED
    BY <2>1
<1>3. recorded \in 0..MaxTurns /\ intents \in Nat
  BY DEF GatewayInv, Shapes
<1>4. recorded \in Nat
  BY <1>3
<1> QED
  BY <1>1, <1>2, <1>3, <1>4

LEMMA AcceptedBefore ==
    ASSUME GatewayInv, ctl.at = "rest", NEW i \in DOMAIN evidence, evidence[i].kind = "accepted"
    PROVE  evidence[i].turn < recorded
<1>1. evidence[i].turn \in Nat /\ recorded \in Nat
  BY EvidenceIs
<1>2. evidence[i].turn <= recorded /\ evidence[i].turn # recorded
  BY DEF GatewayInv, BatchFits
<1> QED
  BY <1>1, <1>2

LEMMA BeginBatchKeeps == GatewayInv /\ BeginBatch => GatewayInv'
<1> SUFFICES ASSUME GatewayInv, BeginBatch PROVE GatewayInv'
  OBVIOUS
<1> DEFINE turns == {t \in Turn..Turn + BatchSize - 1 : t < MaxTurns}
<1>1. /\ ctl.at = "rest" /\ ctl.turn < MaxTurns /\ setting.condition = "shuffled"
      /\ UNCHANGED <<durable, evidence, intents, write>>
      /\ gateway' = [gateway EXCEPT !.batch = [NoBatch EXCEPT !.turns = turns, !.sealed = FALSE]]
      /\ ctl' = [ctl EXCEPT !.at = "prepass"]
  BY DEF BeginBatch, MayStart, Turn
<1>2. /\ ctl \in Controllers /\ gateway \in Memories /\ ctl.turn = recorded /\ ctl.turn \in Nat
      /\ write.at = "none"
  BY <1>1, Numbers DEF GatewayInv, Shapes, CallsFit, SentFrom, Stopped, Calling, Controllers
<1>3. turns \in SUBSET TurnNumbers /\ \A t \in turns : t >= recorded
  BY <1>2, Numbers DEF Turn
<1>4. IsFiniteSet(turns) /\ Cardinality(turns) <= BatchSize
  <2>1. ctl.turn \in Int /\ ctl.turn + BatchSize - 1 \in Int
    BY <1>2, Numbers
  <2>2. /\ IsFiniteSet(ctl.turn..ctl.turn + BatchSize - 1)
        /\ Cardinality(ctl.turn..ctl.turn + BatchSize - 1) = BatchSize
    BY <1>2, <2>1, FS_Interval, Numbers
  <2>3. turns \in SUBSET (ctl.turn..ctl.turn + BatchSize - 1)
    BY DEF Turn
  <2> QED
    BY <2>2, <2>3, FS_Subset, ZenonT(60)
<1> HIDE DEF turns
<1>5. gateway'.batch = [turns |-> turns, seen |-> {}, eligible |-> {}, sealed |-> FALSE, consumed |-> {}]
  BY <1>1, <1>2 DEF NoBatch, Memories
<1>6. BatchShape(gateway'.batch)
  BY <1>4, <1>5 DEF BatchShape
<1>7. gateway'.batch \in Batches
  BY <1>3, <1>5 DEF Batches
<1>8. /\ gateway' \in Memories /\ gateway'.uncertain = gateway.uncertain
      /\ gateway'.quarantined = gateway.quarantined /\ gateway'.rejections = gateway.rejections
      /\ gateway'.deliveries = gateway.deliveries
  BY <1>1, <1>2, <1>7 DEF Memories
<1>9. \A i \in DOMAIN evidence : evidence[i].kind = "accepted" => evidence[i].turn \notin gateway'.batch.turns
  <2> SUFFICES ASSUME NEW i \in DOMAIN evidence, evidence[i].kind = "accepted"
               PROVE  evidence[i].turn \notin turns
    BY <1>5
  <2>1. evidence[i].turn < recorded
    BY <1>1, AcceptedBefore
  <2>2. evidence[i].turn \in Nat /\ recorded \in Nat
    BY EvidenceIs
  <2> QED
    BY <1>3, <2>1, <2>2
<1>10. ctl' \in Controllers /\ ctl'.turn = ctl.turn /\ ctl'.at = "prepass"
  BY <1>1, <1>2 DEF Controllers, Places, InTurn, Calling
<1>11. ~ gateway'.batch.sealed /\ \A t \in gateway'.batch.turns : t >= recorded
  BY <1>3, <1>5
<1>12. ctl.at \in InTurn \cup {"rest"} /\ ctl'.at \in InTurn
       /\ ctl.at \notin {"action", "record", "forfeit"}
  BY <1>1, <1>10 DEF InTurn, Calling
<1> QED
  BY <1>1, <1>2, <1>6, <1>8, <1>9, <1>10, <1>11, <1>12, QuietKeeps

LEMMA StartTurnKeeps == GatewayInv /\ StartTurn => GatewayInv'
<1> SUFFICES ASSUME GatewayInv, StartTurn PROVE GatewayInv'
  OBVIOUS
<1>1. /\ ctl.at = "rest" /\ ctl.turn < MaxTurns /\ gateway' = gateway
      /\ UNCHANGED <<durable, evidence, intents, write>> /\ ctl' = [ctl EXCEPT !.at = "sender"]
  BY DEF StartTurn, MayStart, Turn
<1>2. ctl \in Controllers /\ gateway \in Memories /\ write.at = "none"
  BY <1>1 DEF GatewayInv, Shapes, CallsFit, SentFrom, Stopped, Calling
<1>3. ctl' \in Controllers /\ ctl'.turn = ctl.turn /\ ctl'.at = "sender"
  BY <1>1, <1>2 DEF Controllers, Places, InTurn, Calling
<1> QED
  BY <1>1, <1>2, <1>3, QuietKeeps DEF InTurn, Calling

\* No event of the evidence belongs to a batch that is not sealed.
LEMMA UnsealedIsUnused ==
    ASSUME GatewayInv, ctl.at = "prepass", setting.condition = "shuffled",
           NEW i \in DOMAIN evidence, evidence[i].kind = "accepted"
    PROVE  evidence[i].turn \notin gateway.batch.turns
BY DEF GatewayInv, CallsFit, BatchFits, InBatch

LEMMA PreflightEligibleKeeps ==
    ASSUME GatewayInv, NEW t \in TurnNumbers, PreflightEligible(t)
    PROVE  GatewayInv'
<1>1. /\ ctl.at = "prepass" /\ write.at = "none"
      /\ t \in gateway.batch.turns \ gateway.batch.seen
      /\ gateway' = [gateway EXCEPT !.batch.eligible = @ \cup {t}, !.batch.seen = @ \cup {t}]
      /\ ctl' = [ctl EXCEPT !.slots[t] = "prepared"]
      /\ UNCHANGED <<durable, evidence, intents, write>>
  BY DEF PreflightEligible, NextInBatch
<1>2. ctl \in Controllers /\ gateway \in Memories /\ ctl.turn < MaxTurns
  BY <1>1, TurnIsOpen DEF InTurn, Calling
<1>3. ctl' \in Controllers /\ ctl'.turn = ctl.turn /\ ctl'.at = "prepass"
  <2>1. [ctl.slots EXCEPT ![t] = "prepared"] \in [TurnNumbers -> Slots]
    BY <1>2 DEF Controllers, Slots
  <2>2. ctl' = [ctl EXCEPT !.slots = [ctl.slots EXCEPT ![t] = "prepared"]]
    BY <1>1
  <2> QED
    BY <1>1, <1>2, <2>1, <2>2 DEF Controllers
<1> PICK batch : batch = [gateway.batch EXCEPT !.eligible = @ \cup {t}, !.seen = @ \cup {t}]
  OBVIOUS
<1>4. gateway.batch \in Batches
  BY <1>2 DEF Memories
<1>5. /\ batch \in Batches /\ batch.turns = gateway.batch.turns /\ batch.sealed = gateway.batch.sealed
      /\ batch.eligible = gateway.batch.eligible \cup {t} /\ batch.seen = gateway.batch.seen \cup {t}
      /\ batch.consumed = gateway.batch.consumed
  BY <1>4 DEF Batches
<1>6. gateway' = [gateway EXCEPT !.batch = batch]
  BY <1>1, <1>2 DEF Memories, Batches
<1>7. /\ gateway' \in Memories /\ gateway'.batch = batch /\ gateway'.uncertain = gateway.uncertain
      /\ gateway'.quarantined = gateway.quarantined /\ gateway'.rejections = gateway.rejections
      /\ gateway'.deliveries = gateway.deliveries
  BY <1>2, <1>5, <1>6 DEF Memories
<1>8. BatchShape(batch)
  BY <1>1, <1>5 DEF GatewayInv, BatchFits, BatchShape
<1>9. \A i \in DOMAIN evidence :
        evidence[i].kind = "accepted" /\ setting.condition = "shuffled" => evidence[i].turn \notin batch.turns
  BY <1>1, <1>5, UnsealedIsUnused
<1>10. ~ batch.sealed /\ \A turn \in batch.turns : turn >= recorded
  BY <1>1, <1>5 DEF GatewayInv, CallsFit
<1>11. ctl.at \in InTurn \cup {"rest"} /\ ctl'.at \in InTurn
       /\ ctl.at \notin {"action", "record", "forfeit"}
  BY <1>1, <1>3 DEF InTurn, Calling
<1> QED
  BY <1>1, <1>2, <1>3, <1>7, <1>8, <1>9, <1>10, <1>11, QuietKeeps

LEMMA SealBatchKeeps == GatewayInv /\ SealBatch => GatewayInv'
<1> SUFFICES ASSUME GatewayInv, SealBatch PROVE GatewayInv'
  OBVIOUS
<1>1. /\ ctl.at = "prepass" /\ write.at = "none"
      /\ gateway' = [gateway EXCEPT !.batch.sealed = TRUE]
      /\ ctl' = [ctl EXCEPT !.at = "sender"]
      /\ UNCHANGED <<durable, evidence, intents, write>>
  BY DEF SealBatch
<1>2. ctl \in Controllers /\ gateway \in Memories /\ ctl.turn < MaxTurns
  BY <1>1, TurnIsOpen DEF InTurn, Calling
<1>3. ctl' \in Controllers /\ ctl'.turn = ctl.turn /\ ctl'.at = "sender"
  BY <1>1, <1>2 DEF Controllers, Places, InTurn, Calling
<1> PICK batch : batch = [gateway.batch EXCEPT !.sealed = TRUE]
  OBVIOUS
<1>4. gateway.batch \in Batches
  BY <1>2 DEF Memories
<1>5. /\ batch \in Batches /\ batch.turns = gateway.batch.turns
      /\ batch.eligible = gateway.batch.eligible /\ batch.seen = gateway.batch.seen
      /\ batch.consumed = gateway.batch.consumed
  BY <1>4 DEF Batches
<1>6. gateway' = [gateway EXCEPT !.batch = batch]
  BY <1>1
<1>7. /\ gateway' \in Memories /\ gateway'.batch = batch /\ gateway'.uncertain = gateway.uncertain
      /\ gateway'.quarantined = gateway.quarantined /\ gateway'.rejections = gateway.rejections
      /\ gateway'.deliveries = gateway.deliveries
  BY <1>2, <1>5, <1>6 DEF Memories
<1>8. BatchShape(batch)
  BY <1>5 DEF GatewayInv, BatchFits, BatchShape
<1>9. \A i \in DOMAIN evidence :
        evidence[i].kind = "accepted" /\ setting.condition = "shuffled" => evidence[i].turn \notin batch.turns
  BY <1>1, <1>5, UnsealedIsUnused
<1>10. ctl.at \in InTurn \cup {"rest"} /\ ctl'.at \in InTurn
       /\ ctl.at \notin {"action", "record", "forfeit"} /\ ctl'.at # "prepass"
  BY <1>1, <1>3 DEF InTurn, Calling
<1> QED
  BY <1>1, <1>2, <1>3, <1>7, <1>8, <1>9, <1>10, QuietKeeps

\* A turn that goes to its record without a write.
LEMMA ToRecordKeeps ==
    ASSUME GatewayInv, UNCHANGED <<durable, evidence, intents, gateway, write>>, write.at = "none",
           ctl.at \in InTurn, NEW pause \in BOOLEAN, NEW slots \in [TurnNumbers -> Slots],
           ctl' = [ctl EXCEPT !.at = "record", !.pause = pause, !.slots = slots]
    PROVE  GatewayInv'
<1>1. ctl \in Controllers /\ gateway \in Memories /\ ctl.turn < MaxTurns
  BY TurnIsOpen
<1>2. ctl' \in Controllers /\ ctl'.turn = ctl.turn /\ ctl'.at = "record"
  BY <1>1 DEF Controllers, Places, InTurn, Calling
<1> QED
  BY <1>1, <1>2, QuietKeeps DEF InTurn, Calling

LEMMA ReturnSlotKeeps == GatewayInv /\ ReturnSlot => GatewayInv'
<1> SUFFICES ASSUME GatewayInv, ReturnSlot PROVE GatewayInv'
  OBVIOUS
<1> PICK pause \in BOOLEAN : pause = (ctl.slots[Turn] = "rejected and pause")
  OBVIOUS
<1>1. /\ ctl.at = "sender" /\ write.at = "none"
      /\ UNCHANGED <<durable, evidence, intents, gateway, write>>
      /\ ctl' = [ctl EXCEPT !.at = "record", !.pause = pause]
  BY DEF ReturnSlot
<1>2. ctl \in Controllers /\ ctl.slots \in [TurnNumbers -> Slots]
  BY <1>1, TurnIsOpen DEF InTurn, Calling, Controllers
<1>3. ctl' = [ctl EXCEPT !.at = "record", !.pause = pause, !.slots = ctl.slots]
  BY <1>1, <1>2 DEF Controllers
<1> QED
  BY <1>1, <1>2, <1>3, ToRecordKeeps DEF InTurn, Calling

LEMMA ForfeitsTheAction ==
    ASSUME GatewayInv, ctl.at = "action", write.at = "none",
           ctl' = [ctl EXCEPT !.at = "record"],
           UNCHANGED <<durable, evidence, intents, gateway, write>>
    PROVE  GatewayInv'
<1>1. /\ ctl \in Controllers /\ ctl.slots \in [TurnNumbers -> Slots] /\ ctl.pause \in BOOLEAN
      /\ ctl.at \in InTurn
  BY TurnIsOpen DEF InTurn, Calling, Controllers
<1>2. ctl' = [ctl EXCEPT !.at = "record", !.pause = ctl.pause, !.slots = ctl.slots]
  BY <1>1 DEF Controllers
<1> QED
  BY <1>1, <1>2, ToRecordKeeps

LEMMA SlotsForgotten == ctl \in Controllers => ForgetSlots \in [TurnNumbers -> Slots]
BY DEF ForgetSlots, Controllers, NoSlots, Slots, TurnNumbers

LEMMA AdapterFailsKeeps == GatewayInv /\ AdapterFails => GatewayInv'
<1> SUFFICES ASSUME GatewayInv, AdapterFails PROVE GatewayInv'
  OBVIOUS
<1>1. /\ ctl.at \in InTurn /\ write.at = "none"
      /\ UNCHANGED <<durable, evidence, intents, gateway, write>>
      /\ ctl' = [ctl EXCEPT !.at = "record", !.pause = TRUE, !.slots = ForgetSlots]
  BY DEF AdapterFails, Waits, InTurn, Calling
<1>2. ForgetSlots \in [TurnNumbers -> Slots]
  BY <1>1, TurnIsOpen, SlotsForgotten
<1> QED
  BY <1>1, <1>2, ToRecordKeeps

\* A record closes its turn: what the evidence holds is of earlier turns now.
LEMMA RecordTurnKeeps == GatewayInv /\ RecordTurn => GatewayInv'
<1> SUFFICES ASSUME GatewayInv, RecordTurn PROVE GatewayInv'
  OBVIOUS
<1> USE DEF GatewayInv
<1>0. /\ ctl.at = "record" /\ recorded' = recorded + 1
      /\ ctl' = [ctl EXCEPT !.at = IF ctl.pause THEN "paused" ELSE "rest",
                            !.turn = @ + 1, !.pause = FALSE]
      /\ setting' = setting /\ evidence' = evidence /\ intents' = intents
      /\ confirmed' = confirmed /\ gateway' = gateway /\ write' = write
  BY DEF RecordTurn
<1>1. /\ ctl.turn = recorded /\ ctl.turn < MaxTurns /\ ctl.turn \in TurnNumbers
      /\ ctl \in Controllers /\ write.at = "none"
  BY <1>0, TurnIsOpen DEF InTurn
<1>2. recorded + 1 \in 0..MaxTurns
  BY <1>1, Numbers DEF TurnNumbers
<1>3. /\ ctl' \in Controllers /\ ctl'.turn = recorded + 1 /\ ctl'.at \in {"rest", "paused"}
  BY <1>0, <1>1, <1>2 DEF Controllers, Places
<1>4. Shapes'
  BY <1>0, <1>2, <1>3 DEF Shapes
<1>5. ~ Stopped /\ ctl'.at \notin InTurn /\ ctl'.at # "prepass"
  BY <1>0, <1>3 DEF Stopped, InTurn, Calling
<1>6. CallsFit'
  BY <1>0, <1>1, <1>3, <1>5 DEF CallsFit
<1>7. JournalFits'
  BY <1>0, <1>1, <1>5 DEF JournalFits, Unconfirmed
<1>8. StreakFits'
  <2>1. ~ Reaching
    BY <1>1, <1>5 DEF StreakFits
  <2>2. ctl.at \notin {"down", "resuming"} /\ ctl'.at \notin {"down", "resuming"}
    BY <1>0, <1>3
  <2>3. Streak' = Streak /\ TriggerPerStreak' /\ ~ Reaching'
        /\ (\A i \in Resumes : evidence[i].of = ChannelSize(i))'
    BY <1>0, <2>1, StreakStays DEF StreakFits
  <2>4. Quarantined' = Quarantined
    BY <1>0 DEF Quarantined
  <2> QED
    BY <1>0, <1>1, <2>2, <2>3, <2>4 DEF StreakFits
<1>9. \A i \in DOMAIN evidence : evidence[i].turn <= recorded
        => evidence[i].turn <= recorded + 1 /\ evidence[i].turn # recorded + 1
  BY EvidenceIs
<1>10. DeliveriesFit'
  <2>1. \A i, id, turn : DeliveredBy(i, id, turn)' <=> DeliveredBy(i, id, turn)
    BY <1>0 DEF DeliveredBy, Delivers
  <2> QED
    BY <1>0, <1>1, <1>9, <2>1 DEF DeliveriesFit
<1>11. BatchFits'
  <2>1. \A e : InBatch(e)' <=> InBatch(e)
    BY <1>0 DEF InBatch, Source, TurnAt, Place
  <2> QED
    BY <1>0, <1>1, <1>9, <2>1 DEF BatchFits
<1> QED
  BY <1>4, <1>6, <1>7, <1>8, <1>10, <1>11

LEMMA ResetKeeps == GatewayInv /\ ResetRejectionCounter => GatewayInv'
<1> SUFFICES ASSUME GatewayInv, ResetRejectionCounter PROVE GatewayInv'
  OBVIOUS
<1> USE DEF GatewayInv
<1>0. /\ ctl.at = "resuming" /\ gateway' = [gateway EXCEPT !.rejections = 0]
      /\ ctl' = [ctl EXCEPT !.at = "rest"]
      /\ setting' = setting /\ recorded' = recorded /\ confirmed' = confirmed
      /\ evidence' = evidence /\ intents' = intents /\ write' = write
  BY DEF ResetRejectionCounter, durable
<1>1. ctl \in Controllers /\ gateway \in Memories
  BY DEF Shapes
<1>2. /\ gateway' \in Memories /\ gateway'.rejections = 0 /\ gateway'.batch = gateway.batch
      /\ gateway'.deliveries = gateway.deliveries
      /\ gateway'.uncertain = gateway.uncertain /\ gateway'.quarantined = gateway.quarantined
  BY <1>0, <1>1 DEF Memories
<1>3. ctl' \in Controllers /\ ctl'.turn = ctl.turn /\ ctl'.at = "rest"
  BY <1>0, <1>1 DEF Controllers, Places
<1>4. Shapes'
  BY <1>0, <1>2, <1>3 DEF Shapes
<1>5. ~ Stopped /\ write.at = "none"
  BY <1>0 DEF CallsFit, Stopped, SentFrom, Calling
<1>6. CallsFit'
  BY <1>0, <1>3, <1>5 DEF CallsFit, InTurn, Calling
<1>7. JournalFits'
  BY <1>0, <1>5 DEF JournalFits, Unconfirmed
<1>8. StreakFits'
  <2>1. ~ Reaching /\ Streak = 0
    BY <1>0, <1>5 DEF StreakFits
  <2>2. Streak' = 0 /\ TriggerPerStreak' /\ ~ Reaching'
        /\ (\A i \in Resumes : evidence[i].of = ChannelSize(i))'
    BY <1>0, <2>1, StreakStays DEF StreakFits
  <2> QED
    BY <1>0, <1>2, <1>3, <1>5, <2>2 DEF StreakFits
<1>9. DeliveriesFit'
  <2>1. \A i, id, turn : DeliveredBy(i, id, turn)' <=> DeliveredBy(i, id, turn)
    BY <1>0 DEF DeliveredBy, Delivers
  <2> QED
    BY <1>0, <1>2, <1>5, <2>1 DEF DeliveriesFit
<1>10. BatchFits'
  <2>1. \A e : InBatch(e)' <=> InBatch(e)
    BY <1>0, <1>2 DEF InBatch, Source, TurnAt, Place
  <2> QED
    BY <1>0, <1>2, <1>5, <2>1 DEF BatchFits
<1> QED
  BY <1>4, <1>6, <1>7, <1>8, <1>9, <1>10

---------------------------------------------------------------------------
(* Mishaps and recovery *)

\* The process is stopped, and the evidence stays as it is: what the call leaves
\* behind is a request that may still arrive, or nothing.
LEMMA StopKeeps ==
    ASSUME GatewayInv, UNCHANGED <<setting, evidence, recorded, confirmed, intents>>,
           gateway' \in Memories, ctl' \in Controllers, ctl'.turn = ctl.turn,
           ctl'.at = "down" \/ (ctl'.at = "failed" /\ Quarantined'),
           gateway'.deliveries \subseteq gateway.deliveries,
           gateway'.batch = gateway.batch \/ gateway'.batch = NoBatch,
           write' \in Abandoned
    PROVE  GatewayInv'
<1> USE DEF GatewayInv
<1>0. /\ setting' = setting /\ recorded' = recorded /\ confirmed' = confirmed
      /\ evidence' = evidence /\ intents' = intents
  OBVIOUS
<1>1. write = NoWrite \/ write \in [at : {"intended", "committed", "late", "ceiling"}, event : Events]
  BY DEF Shapes
<1>2. \/ write' = NoWrite /\ write'.at = "none"
      \/ /\ write.at \in {"intended", "late"} /\ write'.at = "late" /\ write'.event = write.event
         /\ write' \in [at : {"intended", "committed", "late", "ceiling"}, event : Events]
  BY <1>1 DEF Abandoned, NoWrite
<1>3. Shapes'
  BY <1>0, <1>2 DEF Shapes
<1>4. Stopped' /\ ctl'.at \notin InTurn /\ ctl'.at \notin {"prepass", "rest", "paused", "resuming"}
  BY DEF Stopped, InTurn, Calling
<1>5. CallsFit'
  BY <1>0, <1>2, <1>4 DEF CallsFit
<1>6. JournalFits'
  BY <1>0, <1>2, <1>4 DEF JournalFits, Unconfirmed
<1>7. StreakFits'
  <2>1. Streak' = Streak /\ TriggerPerStreak' /\ (Reaching' <=> Reaching)
        /\ (\A i \in Resumes : evidence[i].of = ChannelSize(i))'
    BY <1>0, StreakStays DEF StreakFits
  <2>2. Quarantined' \/ ctl'.at = "down"
    OBVIOUS
  <2> QED
    BY <1>0, <1>2, <1>4, <2>1, <2>2 DEF StreakFits
<1>8. DeliveriesFit'
  <2>1. \A i, id, turn : DeliveredBy(i, id, turn)' <=> DeliveredBy(i, id, turn)
    BY <1>0 DEF DeliveredBy, Delivers
  <2> QED
    BY <1>0, <1>2, <2>1 DEF DeliveriesFit
<1>9. BatchFits'
  <2>1. CASE gateway'.batch = gateway.batch
    <3>1. \A e : InBatch(e)' <=> InBatch(e)
      BY <1>0, <2>1 DEF InBatch, Source, TurnAt, Place
    <3> QED
      BY <1>0, <1>2, <1>4, <2>1, <3>1 DEF BatchFits
  <2>2. CASE gateway'.batch = NoBatch
    <3>1. IsFiniteSet(gateway'.batch.turns) /\ Cardinality(gateway'.batch.turns) = 0
      BY <2>2, FS_EmptySet DEF NoBatch
    <3>2. Cardinality(gateway'.batch.turns) <= BatchSize
      BY <3>1, Numbers
    <3> QED
      BY <1>0, <1>2, <1>4, <2>2, <3>1, <3>2 DEF BatchFits, BatchShape, NoBatch
  <2> QED
    BY <2>1, <2>2
<1> QED
  BY <1>3, <1>5, <1>6, <1>7, <1>8, <1>9

LEMMA LoseKeeps == GatewayInv /\ Lose => GatewayInv'
<1> SUFFICES ASSUME GatewayInv, Lose PROVE GatewayInv'
  OBVIOUS
<1>1. /\ UNCHANGED <<setting, evidence, recorded, confirmed, intents>> /\ write' \in Abandoned
      /\ gateway' = [gateway EXCEPT !.uncertain = TRUE, !.quarantined = TRUE]
      /\ ctl' = [ctl EXCEPT !.at = "failed", !.quarantined = TRUE]
  BY DEF Lose
<1>2. gateway \in Memories /\ ctl \in Controllers
  BY DEF GatewayInv, Shapes
<1>3. /\ gateway' \in Memories /\ gateway'.deliveries = gateway.deliveries
      /\ gateway'.batch = gateway.batch /\ Quarantined'
  BY <1>1, <1>2 DEF Memories, Quarantined
<1>4. ctl' \in Controllers /\ ctl'.at = "failed" /\ ctl'.turn = ctl.turn
  BY <1>1, <1>2 DEF Controllers, Places
<1> QED
  BY <1>1, <1>3, <1>4, StopKeeps

LEMMA CrashKeeps == GatewayInv /\ Crash => GatewayInv'
<1> SUFFICES ASSUME GatewayInv, Crash PROVE GatewayInv'
  OBVIOUS
<1>1. /\ UNCHANGED <<setting, evidence, recorded, confirmed, intents>> /\ write' \in Abandoned
      /\ gateway' = Fresh
      /\ ctl' = [ctl EXCEPT !.at = "down", !.slots = NoSlots, !.pause = FALSE]
  BY DEF Crash
<1>2. ctl \in Controllers /\ NoSlots \in [TurnNumbers -> Slots]
  BY DEF GatewayInv, Shapes, NoSlots, Slots, TurnNumbers
<1>3. gateway' \in Memories /\ gateway'.deliveries = {} /\ gateway'.batch = NoBatch
  BY <1>1 DEF Memories, Fresh, NoBatch, Batches
<1>4. ctl' \in Controllers /\ ctl'.at = "down" /\ ctl'.turn = ctl.turn
  BY <1>1, <1>2 DEF Controllers, Places
<1> QED
  BY <1>1, <1>3, <1>4, StopKeeps

LEMMA ClientTimesOutKeeps == GatewayInv /\ ClientTimesOut => GatewayInv'
<1> SUFFICES ASSUME GatewayInv, ClientTimesOut PROVE GatewayInv'
  OBVIOUS
<1> USE DEF GatewayInv
<1>0. /\ ctl.at # "down" /\ write.at # "none"
      /\ ctl' = [ctl EXCEPT !.at = "failed", !.quarantined = TRUE]
      /\ setting' = setting /\ recorded' = recorded /\ confirmed' = confirmed /\ gateway' = gateway
      /\ evidence' = evidence /\ intents' = intents /\ write' = write
  BY DEF ClientTimesOut
<1>1. ctl \in Controllers
  BY DEF Shapes
<1>2. ctl' \in Controllers /\ ctl'.at = "failed" /\ ctl'.turn = ctl.turn
  BY <1>0, <1>1 DEF Controllers, Places
<1>3. Shapes'
  BY <1>0, <1>2 DEF Shapes
<1>4. Quarantined' = Quarantined /\ (Stopped => Stopped')
  BY <1>0, <1>2 DEF Quarantined, Stopped
<1>5. ctl.at \in Calling \cup {"failed"}
  BY <1>0 DEF CallsFit, SentFrom, Stopped
<1>6. CallsFit'
  BY <1>0, <1>2, <1>4 DEF CallsFit, InTurn, Calling, SentFrom
<1>7. JournalFits'
  BY <1>0, <1>4 DEF JournalFits, Unconfirmed
<1>8. StreakFits'
  <2>1. Streak' = Streak /\ TriggerPerStreak' /\ (Reaching' <=> Reaching)
        /\ (\A i \in Resumes : evidence[i].of = ChannelSize(i))'
    BY <1>0, StreakStays DEF StreakFits
  <2> QED
    BY <1>0, <1>2, <1>4, <1>5, <2>1 DEF StreakFits, Calling
<1>9. DeliveriesFit'
  <2>1. \A i, id, turn : DeliveredBy(i, id, turn)' <=> DeliveredBy(i, id, turn)
    BY <1>0 DEF DeliveredBy, Delivers
  <2> QED
    BY <1>0, <1>2, <2>1 DEF DeliveriesFit
<1>10. BatchFits'
  <2>1. \A e : InBatch(e)' <=> InBatch(e)
    BY <1>0 DEF InBatch, Source, TurnAt, Place
  <2> QED
    BY <1>0, <1>2, <2>1 DEF BatchFits
<1> QED
  BY <1>3, <1>6, <1>7, <1>8, <1>9, <1>10

LEMMA IntentFailsKeeps == GatewayInv /\ IntentFails => GatewayInv'
<1> SUFFICES ASSUME GatewayInv, IntentFails PROVE GatewayInv'
  OBVIOUS
<1> USE DEF GatewayInv
<1>0. /\ write.at = "intended" /\ intents' = intents - 1 /\ write' = NoWrite
      /\ gateway' = [gateway EXCEPT !.quarantined = TRUE]
      /\ ctl' = [ctl EXCEPT !.at = "failed", !.quarantined = TRUE]
      /\ setting' = setting /\ recorded' = recorded /\ confirmed' = confirmed /\ evidence' = evidence
  BY DEF IntentFails
<1>1. gateway \in Memories /\ ctl \in Controllers /\ intents \in Nat /\ confirmed \subseteq 1..intents
  BY DEF Shapes
<1>2. /\ gateway' \in Memories /\ gateway'.deliveries = gateway.deliveries
      /\ gateway'.batch = gateway.batch /\ Quarantined'
  BY <1>0, <1>1 DEF Memories, Quarantined
<1>3. ctl' \in Controllers /\ ctl'.at = "failed" /\ ctl'.turn = ctl.turn
  BY <1>0, <1>1 DEF Controllers, Places
<1>4. /\ intents > 0 /\ intents \notin confirmed
      /\ \A i \in DOMAIN evidence : evidence[i].id <= intents /\ evidence[i].id # intents
  BY <1>0 DEF JournalFits, Unconfirmed
<1>5. intents' \in Nat /\ confirmed' \subseteq 1..intents'
  BY <1>0, <1>1, <1>4
<1>6. Shapes'
  BY <1>0, <1>2, <1>3, <1>5 DEF Shapes
<1>7. Stopped' /\ ctl'.at \notin InTurn /\ write'.at = "none"
  BY <1>0, <1>2, <1>3 DEF Stopped, InTurn, Calling, NoWrite
<1>8. CallsFit'
  BY <1>0, <1>3, <1>7 DEF CallsFit
<1>9. JournalFits'
  <2>1. \A id \in 1..intents' : id \in 1..intents /\ id # intents
    BY <1>0, <1>1
  <2>2. \A i \in DOMAIN evidence : evidence[i].id <= intents'
    BY <1>0, <1>1, <1>4, EvidenceIs
  <2> QED
    BY <1>0, <1>7, <2>1, <2>2 DEF JournalFits
<1>10. StreakFits'
  <2>1. Streak' = Streak /\ TriggerPerStreak' /\ (Reaching' <=> Reaching)
        /\ (\A i \in Resumes : evidence[i].of = ChannelSize(i))'
    BY <1>0, StreakStays DEF StreakFits
  <2> QED
    BY <1>0, <1>2, <1>3, <1>7, <2>1 DEF StreakFits
<1>11. DeliveriesFit'
  <2>1. \A i, id, turn : DeliveredBy(i, id, turn)' <=> DeliveredBy(i, id, turn)
    BY <1>0 DEF DeliveredBy, Delivers
  <2> QED
    BY <1>0, <1>2, <1>3, <1>7, <2>1 DEF DeliveriesFit
<1>12. BatchFits'
  <2>1. \A e : InBatch(e)' <=> InBatch(e)
    BY <1>0, <1>2 DEF InBatch, Source, TurnAt, Place
  <2> QED
    BY <1>0, <1>2, <1>3, <1>7, <2>1 DEF BatchFits
<1> QED
  BY <1>6, <1>8, <1>9, <1>10, <1>11, <1>12

\* A process recovers from a closed journal and a channel whose turns are all
\* recorded, so that nothing is under way; it counts the streak it left behind.
LEMMA RecoverKeeps == GatewayInv /\ Recover => GatewayInv'
<1> SUFFICES ASSUME GatewayInv, Recover PROVE GatewayInv'
  OBVIOUS
<1> USE DEF GatewayInv
<1>0. /\ ctl.at = "down" /\ OpenIntents = {} /\ OrphanedTurns = {}
      /\ gateway' = [Fresh EXCEPT !.rejections = Recounted]
      /\ ctl' = [ctl EXCEPT !.at = "rest", !.turn = recorded, !.quarantined = FALSE]
      /\ setting' = setting /\ recorded' = recorded /\ confirmed' = confirmed
      /\ evidence' = evidence /\ intents' = intents /\ write' = write
  BY DEF Recover, JournalOpens, durable
<1>1. Recounted = Streak /\ Streak \in Nat
  <2>1. Recounted = Streak
    BY RecountedIsStreak DEF Shapes, StreakFits
  <2>2. Len(evidence) \in Nat
    BY EvidenceIs
  <2> QED
    BY <2>1, <2>2, StreakIsCount DEF Streak
<1>2. ctl \in Controllers /\ intents \in Nat /\ ctl.turn = recorded
  BY DEF Shapes, CallsFit
<1>3. /\ gateway' \in Memories /\ gateway'.rejections = Streak /\ gateway'.deliveries = {}
      /\ gateway'.batch = NoBatch
  BY <1>0, <1>1 DEF Memories, Fresh, NoBatch, Batches
<1>4. ctl' \in Controllers /\ ctl'.turn = recorded /\ ctl'.at = "rest"
  BY <1>0, <1>2 DEF Controllers, Places
<1>5. ~ Unconfirmed
  BY <1>0, <1>2 DEF OpenIntents, Unconfirmed
<1>6. write.at = "none"
  BY <1>0, <1>5 DEF CallsFit, JournalFits, SentFrom, Calling, Shapes
<1>7. \A i \in DOMAIN evidence : evidence[i].kind \in {"accepted", "control", "rejected"}
        => ~ (evidence[i].turn >= recorded)
  BY <1>0 DEF OrphanedTurns, ChannelPlaces, IsChannel
<1>8. Shapes'
  BY <1>0, <1>3, <1>4 DEF Shapes
<1>9. CallsFit'
  BY <1>0, <1>4, <1>6 DEF CallsFit, InTurn, Calling
<1>10. JournalFits'
  BY <1>0, <1>5, <1>6 DEF JournalFits, Unconfirmed
<1>11. StreakFits'
  <2>1. ~ Reaching
    <3>1. Reaching => Len(evidence) \in DOMAIN evidence
      BY EvidenceIs DEF Reaching
    <3> QED
      BY <1>7, <3>1 DEF StreakFits, Reaching
  <2>2. Streak' = Streak /\ TriggerPerStreak' /\ ~ Reaching'
        /\ (\A i \in Resumes : evidence[i].of = ChannelSize(i))'
    BY <1>0, <2>1, StreakStays DEF StreakFits
  <2> QED
    BY <1>0, <1>3, <1>4, <1>6, <2>2 DEF StreakFits
<1>12. DeliveriesFit'
  <2>1. \A i, id, turn : DeliveredBy(i, id, turn)' <=> DeliveredBy(i, id, turn)
    BY <1>0 DEF DeliveredBy, Delivers
  <2>2. ASSUME NEW i \in DOMAIN evidence, evidence[i].kind = "interpreted"
        PROVE  evidence[i].turn # recorded
    <3>1. PICK j \in 1..i - 1 : DeliveredBy(j, evidence[i].of, evidence[i].turn)
      BY <2>2 DEF DeliveriesFit
    <3>2. j \in DOMAIN evidence
      BY EvidenceIs
    <3>3. ~ (evidence[j].turn >= recorded) /\ evidence[j].turn = evidence[i].turn
      BY <1>7, <3>1, <3>2 DEF DeliveredBy, Delivers
    <3> QED
      BY <3>3, EvidenceIs
  <2> QED
    BY <1>0, <1>3, <1>6, <2>1, <2>2 DEF DeliveriesFit
<1>13. BatchFits'
  <2>1. IsFiniteSet(gateway'.batch.turns) /\ Cardinality(gateway'.batch.turns) = 0
    BY <1>3, FS_EmptySet DEF NoBatch
  <2>2. Cardinality(gateway'.batch.turns) <= BatchSize
    BY <2>1, Numbers
  <2>3. \A i \in DOMAIN evidence : evidence[i].kind = "accepted" => evidence[i].turn # recorded
    BY <1>7, EvidenceIs
  <2> QED
    BY <1>0, <1>3, <1>6, <2>1, <2>2, <2>3 DEF BatchFits, BatchShape, NoBatch
<1> QED
  BY <1>8, <1>9, <1>10, <1>11, <1>12, <1>13

LEMMA ResumeKeeps == GatewayInv /\ Resume => GatewayInv'
<1> SUFFICES ASSUME GatewayInv, Resume PROVE GatewayInv'
  OBVIOUS
<1> USE DEF GatewayInv
<1> DEFINE e == [kind |-> "resume", turn |-> Turn, why |-> "", of |-> ChannelSize(Len(evidence)), id |-> 0]
<1>0. /\ ctl.at = "paused" /\ evidence' = Append(evidence, e)
      /\ ctl' = [ctl EXCEPT !.at = "resuming"] /\ gateway' = gateway
      /\ setting' = setting /\ recorded' = recorded /\ confirmed' = confirmed
      /\ intents' = intents /\ write' = write
  BY DEF Resume, durable
<1>1. ctl \in Controllers /\ evidence \in Seq(Events)
  BY DEF Shapes
<1>2. e \in Events
  <2>1. ChannelSize(Len(evidence)) \in Nat
    BY <1>1, UptoIsFinite, EvidenceIs
  <2> QED
    BY <1>1, <2>1 DEF Events, Controllers, Turn
<1>3. e.kind = "resume" /\ e.id = 0 /\ e.of = ChannelSize(Len(evidence))
  OBVIOUS
<1> HIDE DEF e
<1> PICK n \in Nat : n = Len(evidence)
  BY EvidenceIs
<1>4. /\ evidence' \in Seq(Events) /\ evidence' # <<>> /\ Len(evidence') = n + 1
      /\ DOMAIN evidence = 1..n /\ DOMAIN evidence' = 1..(n + 1) /\ evidence'[n + 1] = e
      /\ \A i \in DOMAIN evidence : evidence'[i] = evidence[i]
      /\ \A i \in DOMAIN evidence' : i \in DOMAIN evidence \/ i = n + 1
      /\ \A i \in DOMAIN evidence : i \in DOMAIN evidence'
  BY <1>0, <1>1, <1>2, Grown
<1>5. ctl' \in Controllers /\ ctl'.turn = ctl.turn /\ ctl'.at = "resuming"
  BY <1>0, <1>1 DEF Controllers, Places
<1>6. ~ Stopped /\ write.at = "none"
  BY <1>0 DEF CallsFit, Stopped, SentFrom, Calling
<1>7. Shapes'
  BY <1>0, <1>4, <1>5 DEF Shapes
<1>8. CallsFit'
  BY <1>0, <1>5, <1>6 DEF CallsFit, InTurn, Calling
<1>9. JournalFits'
  <2>1. ~ Unconfirmed /\ intents \in Nat
    BY <1>6 DEF JournalFits, Shapes
  <2>2. \A i \in DOMAIN evidence' : \/ (i \in DOMAIN evidence /\ evidence'[i] = evidence[i])
                                    \/ (evidence'[i].id = 0 /\ evidence'[i].kind = "resume")
    BY <1>3, <1>4
  <2>3. \A id \in confirmed : \E i \in DOMAIN evidence' : evidence'[i].id = id
    BY <1>4 DEF JournalFits
  <2>4. \A i \in DOMAIN evidence' :
            evidence'[i].id <= intents /\ (evidence'[i].id = 0 <=> evidence'[i].kind = "resume")
    BY <2>1, <2>2 DEF JournalFits
  <2>5. \A i, j \in DOMAIN evidence' : evidence'[i].id = evidence'[j].id /\ evidence'[i].id > 0 => i = j
    BY <2>2 DEF JournalFits
  <2>6. \A id \in 1..intents : id # intents => id \in confirmed
    BY DEF JournalFits
  <2> QED
    BY <1>0, <1>6, <2>1, <2>3, <2>4, <2>5, <2>6 DEF JournalFits, Unconfirmed
<1>10. StreakFits'
  <2>1. ~ Reaching /\ TriggerPerStreak
    BY <1>6 DEF StreakFits
  <2>2. Streak' = 0
    BY <1>0, <1>1, <1>2, <1>3, StreakStep DEF Ends
  <2>3. TriggerPerStreak'
    <3> SUFFICES ASSUME NEW i \in 1..n
                 PROVE  (evidence'[i].kind = "rejected" /\ StreakAt(i)' = Ceiling)
                            <=> evidence'[i + 1].kind = "trigger"
      BY <1>4 DEF TriggerPerStreak
    <3>1. evidence'[i] = evidence[i] /\ StreakAt(i)' = StreakAt(i)
      BY <1>0, <1>1, <1>2, <1>4, StreakPrefix
    <3>2. CASE i = n
      <4>1. evidence # <<>>
        BY <3>2, EvidenceIs
      <4> QED
        BY <1>3, <1>4, <2>1, <3>1, <3>2, <4>1 DEF Reaching, Streak
    <3>3. CASE i # n
      <4>1. i \in 1..n - 1 /\ evidence'[i + 1] = evidence[i + 1]
        BY <1>4, <3>3
      <4> QED
        BY <2>1, <3>1, <4>1 DEF TriggerPerStreak
    <3> QED
      BY <3>2, <3>3
  <2>4. ~ Reaching'
    BY <1>3, <1>4 DEF Reaching
  <2>5. (\A i \in Resumes : evidence[i].of = ChannelSize(i))'
    BY <1>0, <1>1, <1>2, <1>3, ChannelPrefix DEF StreakFits
  <2> QED
    BY <1>0, <1>5, <1>6, <2>2, <2>3, <2>4, <2>5 DEF StreakFits
<1>11. DeliveriesFit'
  <2>1. \A i \in DOMAIN evidence : \A id, turn : DeliveredBy(i, id, turn)' <=> DeliveredBy(i, id, turn)
    BY <1>0, <1>4 DEF DeliveredBy, Delivers
  <2>2. \A i \in DOMAIN evidence' : evidence'[i].kind = "interpreted" => i \in DOMAIN evidence
    BY <1>3, <1>4
  <2>3. \A i \in DOMAIN evidence : \A j \in 1..i - 1 : j \in DOMAIN evidence
    BY <1>4
  <2>4. \A i \in DOMAIN evidence : evidence[i].kind = "interpreted" => evidence[i].turn # recorded
    BY <1>0 DEF DeliveriesFit
  <2>5. ASSUME NEW i \in DOMAIN evidence, evidence[i].kind = "interpreted"
        PROVE  /\ \E j \in 1..i - 1 : DeliveredBy(j, evidence[i].of, evidence[i].turn)'
               /\ \A j \in 1..i - 1 : evidence'[j].kind = "interpreted" => evidence'[j].turn # evidence[i].turn
               /\ evidence[i].turn <= recorded
    BY <1>4, <2>1, <2>3, <2>5 DEF DeliveriesFit
  <2>6. \A d \in gateway.deliveries : \E i \in DOMAIN evidence' : DeliveredBy(i, d.of, d.turn)'
    BY <1>4, <2>1 DEF DeliveriesFit
  <2> QED
    BY <1>0, <1>4, <1>6, <2>2, <2>4, <2>5, <2>6 DEF DeliveriesFit
<1>12. BatchFits'
  <2>1. \A event : InBatch(event)' <=> InBatch(event)
    BY <1>0 DEF InBatch, Source, TurnAt, Place
  <2>2. \A i \in DOMAIN evidence' : evidence'[i].kind = "accepted"
            => i \in DOMAIN evidence /\ evidence'[i] = evidence[i]
    BY <1>3, <1>4
  <2>3. \A i \in DOMAIN evidence : evidence[i].kind = "accepted" => evidence[i].turn # recorded
    BY <1>0 DEF BatchFits
  <2> QED
    BY <1>0, <1>6, <2>1, <2>2, <2>3 DEF BatchFits
<1> QED
  BY <1>7, <1>8, <1>9, <1>10, <1>11, <1>12

---------------------------------------------------------------------------
(* Requests *)

\* What a request must satisfy besides its shape: an interpretation cites what
\* was delivered in the turn, and a shuffled batch delivers what it was sealed to.
Grounded(e) ==
    /\ e.kind = "interpreted" =>
        /\ \E i \in DOMAIN evidence : DeliveredBy(i, e.of, e.turn)
        /\ \A i \in DOMAIN evidence : evidence[i].kind = "interpreted" => evidence[i].turn # e.turn
    /\ e.kind = "accepted" /\ setting.condition = "shuffled" => InBatch(e)

LEMMA SendKeeps ==
    ASSUME GatewayInv, NEW e \in Events, e.id = intents + 1, e.turn \in TurnNumbers, e.turn >= recorded,
           e.kind \notin {"rejected", "trigger"} => e.turn = recorded, e.kind # "resume",
           Grounded(e), e.kind = "trigger" <=> Reaching,
           write.at \in {"none", "ceiling"}, ~ Quarantined,
           write' = [at |-> "intended", event |-> e], intents' = intents + 1,
           UNCHANGED <<durable, evidence, gateway>>,
           ctl' \in Controllers, ctl'.turn = ctl.turn, ctl.turn < MaxTurns,
           ctl'.at = ctl.at \/ ctl'.at = "forfeit", ctl'.at \in SentFrom(e) \cup {"failed"},
           ctl.at \in Calling \cup {"failed"}
    PROVE  GatewayInv'
<1> USE DEF GatewayInv
<1>0. /\ setting' = setting /\ recorded' = recorded /\ confirmed' = confirmed
      /\ evidence' = evidence /\ gateway' = gateway
      /\ write'.at = "intended" /\ write'.event = e
      /\ write' \in [at : {"intended", "committed", "late", "ceiling"}, event : Events]
  BY DEF durable
<1>1. intents \in Nat /\ confirmed \subseteq 1..intents /\ intents + 1 \in Nat
  BY DEF Shapes
<1>2. Shapes'
  BY <1>0, <1>1 DEF Shapes
<1>3. Quarantined' = Quarantined /\ ~ Stopped
  BY <1>0 DEF Quarantined, Stopped, Calling
<1>4. CallsFit'
  <2>1. SentFrom(e)' = SentFrom(e)
    BY DEF SentFrom
  <2> QED
    BY <1>0, <1>3, <2>1 DEF CallsFit
<1>5. JournalFits'
  <2>1. ~ Unconfirmed
    BY <1>3 DEF JournalFits
  <2>2. \A id \in 1..intents' : id # intents' => id \in confirmed
    BY <1>1, <2>1 DEF JournalFits, Unconfirmed
  <2>3. \A i \in DOMAIN evidence : evidence[i].id <= intents' /\ evidence[i].id # intents'
    BY <1>1, EvidenceIs DEF JournalFits
  <2>4. intents' > 0 /\ intents' \notin confirmed
    BY <1>1
  <2>5. /\ \A id \in confirmed : \E i \in DOMAIN evidence : evidence[i].id = id
        /\ \A i \in DOMAIN evidence : evidence[i].id = 0 <=> evidence[i].kind = "resume"
        /\ \A i, j \in DOMAIN evidence : evidence[i].id = evidence[j].id /\ evidence[i].id > 0 => i = j
    BY DEF JournalFits
  <2> QED
    BY <1>0, <2>2, <2>3, <2>4, <2>5 DEF JournalFits, Unconfirmed
<1>6. StreakFits'
  <2>1. Streak' = Streak /\ TriggerPerStreak' /\ (Reaching' <=> Reaching)
        /\ (\A i \in Resumes : evidence[i].of = ChannelSize(i))'
    BY <1>0, StreakStays DEF StreakFits
  <2>2. Streak = gateway.rejections
    BY DEF StreakFits, Calling
  <2> QED
    BY <1>0, <2>1, <2>2 DEF StreakFits, Calling
<1>7. DeliveriesFit'
  <2>1. \A i, id, turn : DeliveredBy(i, id, turn)' <=> DeliveredBy(i, id, turn)
    BY <1>0 DEF DeliveredBy, Delivers
  <2> QED
    BY <1>0, <2>1 DEF DeliveriesFit, Grounded
<1>8. BatchFits'
  <2>1. \A event : InBatch(event)' <=> InBatch(event)
    BY <1>0 DEF InBatch, Source, TurnAt, Place
  <2> QED
    BY <1>0, <2>1 DEF BatchFits, Grounded
<1> QED
  BY <1>2, <1>4, <1>5, <1>6, <1>7, <1>8

\* What the controller's calls write from the step they wait in.
LEMMA WriteKeeps ==
    ASSUME GatewayInv, NEW e \in Events, e.id = intents + 1, e.turn \in TurnNumbers, e.turn >= recorded,
           e.kind \notin {"rejected", "trigger"} => e.turn = recorded,
           e.kind \notin {"resume", "trigger"}, Grounded(e),
           NEW step \in Calling, step \in SentFrom(e), Write(e, step)
    PROVE  GatewayInv'
<1>1. /\ ctl.at = step /\ write.at = "none" /\ ~ Quarantined /\ intents' = intents + 1
      /\ write' = [at |-> "intended", event |-> e]
      /\ UNCHANGED <<durable, evidence, gateway, ctl>>
  BY DEF Write, Send
<1>2. ctl \in Controllers /\ ctl.turn < MaxTurns
  BY <1>1, TurnIsOpen DEF InTurn
<1>3. ~ Reaching
  BY <1>1 DEF GatewayInv, StreakFits, Stopped, Calling
<1> QED
  BY <1>1, <1>2, <1>3, SendKeeps

\* The events the Gateway numbers.
LEMMA Numbered == GatewayInv => intents + 1 \in Nat
BY EvidenceIs

LEMMA PreflightRejectedKeeps ==
    ASSUME GatewayInv, NEW t \in TurnNumbers, PreflightRejected(t)
    PROVE  GatewayInv'
<1>1. intents + 1 \in Nat /\ t \in 0..MaxTurns
  BY Numbered, Numbers
<1> PICK e : e = [kind |-> "rejected", turn |-> t, why |-> "invalid", of |-> 0, id |-> intents + 1]
  OBVIOUS
<1>2. e \in Events /\ e.kind = "rejected" /\ e.turn = t /\ e.why = "invalid" /\ e.id = intents + 1
  BY <1>1 DEF Events
<1>3. ctl.at = "prepass" /\ Write(e, "prepass") /\ t \in gateway.batch.turns
  BY DEF PreflightRejected, NextInBatch, Event
<1>4. t >= recorded
  BY <1>3 DEF GatewayInv, CallsFit
<1>5. "prepass" \in SentFrom(e) /\ "prepass" \in Calling
  BY <1>2 DEF SentFrom, Calling
<1> QED
  BY <1>2, <1>3, <1>4, <1>5, WriteKeeps DEF Grounded

LEMMA OwnWriteKeeps ==
    ASSUME GatewayInv, NEW e \in Events, e.id = intents + 1, e.turn = ctl.turn,
           e.kind \notin {"resume", "trigger"}, Grounded(e),
           NEW step \in Calling, step \in SentFrom(e), Write(e, step)
    PROVE  GatewayInv'
<1>1. ctl.at \in InTurn
  BY DEF Write, InTurn
<1>2. e.turn = recorded /\ e.turn \in TurnNumbers /\ e.turn >= recorded
  BY <1>1, TurnIsOpen, EvidenceIs
<1> QED
  BY <1>2, WriteKeeps

LEMMA SenderProposesKeeps == GatewayInv /\ SenderProposes => GatewayInv'
<1> SUFFICES ASSUME GatewayInv, SenderProposes PROVE GatewayInv'
  OBVIOUS
<1>0. ctl.at = "sender" /\ setting.condition # "shuffled"
  BY DEF SenderProposes, Write
<1>1. intents + 1 \in Nat /\ ctl.turn \in 0..MaxTurns /\ ctl.turn \in Nat
  BY <1>0, Numbered, Numbers, TurnIsOpen DEF InTurn, Calling
<1>2. CASE Write(Event("accepted", Turn, "", Turn), "sender")
  <2> PICK e : e = [kind |-> "accepted", turn |-> ctl.turn, why |-> "", of |-> ctl.turn, id |-> intents + 1]
    OBVIOUS
  <2>1. e \in Events /\ e.kind = "accepted" /\ e.turn = ctl.turn /\ e.why = "" /\ e.id = intents + 1
    BY <1>1 DEF Events
  <2>2. Write(e, "sender")
    BY <1>2 DEF Event, Turn
  <2>3. "sender" \in SentFrom(e) /\ "sender" \in Calling
    BY <2>1 DEF SentFrom, Calling
  <2> QED
    BY <1>0, <2>1, <2>2, <2>3, OwnWriteKeeps DEF Grounded
<1>3. CASE Write(Event("rejected", Turn, "invalid", 0), "sender")
  <2> PICK e : e = [kind |-> "rejected", turn |-> ctl.turn, why |-> "invalid", of |-> 0, id |-> intents + 1]
    OBVIOUS
  <2>1. e \in Events /\ e.kind = "rejected" /\ e.turn = ctl.turn /\ e.why = "invalid" /\ e.id = intents + 1
    BY <1>1 DEF Events
  <2>2. Write(e, "sender")
    BY <1>3 DEF Event, Turn
  <2>3. "sender" \in SentFrom(e) /\ "sender" \in Calling
    BY <2>1 DEF SentFrom, Calling
  <2> QED
    BY <2>1, <2>2, <2>3, OwnWriteKeeps DEF Grounded
<1> QED
  BY <1>2, <1>3 DEF SenderProposes

LEMMA SubmitControlArtifactKeeps == GatewayInv /\ SubmitControlArtifact => GatewayInv'
<1> SUFFICES ASSUME GatewayInv, SubmitControlArtifact PROVE GatewayInv'
  OBVIOUS
<1>0. ctl.at = "sender"
  BY DEF SubmitControlArtifact, Write
<1>1. intents + 1 \in Nat /\ ctl.turn \in 0..MaxTurns /\ ctl.turn \in Nat
  BY <1>0, Numbered, Numbers, TurnIsOpen DEF InTurn, Calling
<1> PICK e : e = [kind |-> "control", turn |-> ctl.turn, why |-> "", of |-> ctl.turn, id |-> intents + 1]
  OBVIOUS
<1>2. e \in Events /\ e.kind = "control" /\ e.turn = ctl.turn /\ e.why = "" /\ e.id = intents + 1
  BY <1>1 DEF Events
<1>3. Write(e, "sender")
  BY DEF SubmitControlArtifact, Event, Turn
<1>4. "sender" \in SentFrom(e) /\ "sender" \in Calling
  BY <1>2 DEF SentFrom, Calling
<1> QED
  BY <1>2, <1>3, <1>4, OwnWriteKeeps DEF Grounded

LEMMA SubmitPreparedKeeps == GatewayInv /\ SubmitPrepared => GatewayInv'
<1> SUFFICES ASSUME GatewayInv, SubmitPrepared PROVE GatewayInv'
  OBVIOUS
<1>0. /\ ctl.at = "sender" /\ gateway.batch.sealed /\ ctl.turn \in gateway.batch.eligible
  BY DEF SubmitPrepared, Turn
<1> PICK source : source = Source(ctl.turn)
  OBVIOUS
<1>1. source \in Nat
  <2>1. source \in gateway.batch.eligible
    BY <1>0, SourceIsDeranged DEF GatewayInv
  <2>2. gateway.batch.eligible \subseteq TurnNumbers
    BY DEF GatewayInv, Shapes, Memories, Batches
  <2> QED
    BY <2>1, <2>2, Numbers
<1>2. intents + 1 \in Nat /\ ctl.turn \in 0..MaxTurns
  BY <1>0, Numbered, Numbers, TurnIsOpen DEF InTurn, Calling
<1> PICK e : e = [kind |-> "accepted", turn |-> ctl.turn, why |-> "", of |-> source, id |-> intents + 1]
  OBVIOUS
<1>3. /\ e \in Events /\ e.kind = "accepted" /\ e.turn = ctl.turn /\ e.why = "" /\ e.of = source
      /\ e.id = intents + 1
  BY <1>1, <1>2 DEF Events
<1>4. Write(e, "sender")
  BY DEF SubmitPrepared, Event, Turn
<1>5. "sender" \in SentFrom(e) /\ "sender" \in Calling
  BY <1>3 DEF SentFrom, Calling
<1>6. Grounded(e)
  BY <1>0, <1>3 DEF Grounded, InBatch
<1> QED
  BY <1>3, <1>4, <1>5, <1>6, OwnWriteKeeps

\* Only what the Gateway delivered in this turn can be interpreted, and only
\* once: at the receiver's step the turn has no interpretation yet.
LEMMA SubmitInterpretationKeeps ==
    ASSUME GatewayInv, NEW cited \in Nat, SubmitInterpretation(cited)
    PROVE  GatewayInv'
<1>0. ctl.at = "receiver" /\ write.at = "none"
  BY DEF SubmitInterpretation, Write, Send
<1>1. intents + 1 \in Nat /\ ctl.turn \in 0..MaxTurns /\ ctl.turn = recorded
  BY <1>0, Numbered, Numbers, TurnIsOpen DEF InTurn, Calling
<1>2. CASE [turn |-> Turn, of |-> cited] \in gateway.deliveries
  <2> PICK e : e = [kind |-> "interpreted", turn |-> ctl.turn, why |-> "", of |-> cited, id |-> intents + 1]
    OBVIOUS
  <2>1. /\ e \in Events /\ e.kind = "interpreted" /\ e.turn = ctl.turn /\ e.why = "" /\ e.of = cited
        /\ e.id = intents + 1
    BY <1>1 DEF Events
  <2>2. Write(e, "receiver")
    BY <1>2 DEF SubmitInterpretation, Event, Turn
  <2>3. "receiver" \in SentFrom(e) /\ "receiver" \in Calling
    BY <2>1 DEF SentFrom, Calling
  <2>4. \E i \in DOMAIN evidence : DeliveredBy(i, cited, ctl.turn)
    <3> PICK d \in gateway.deliveries : d.turn = ctl.turn /\ d.of = cited
      BY <1>2 DEF Turn
    <3> QED
      BY DEF GatewayInv, DeliveriesFit
  <2>5. \A i \in DOMAIN evidence : evidence[i].kind = "interpreted" => evidence[i].turn # ctl.turn
    BY <1>0, <1>1 DEF GatewayInv, DeliveriesFit
  <2>6. Grounded(e)
    BY <2>1, <2>4, <2>5 DEF Grounded
  <2> QED
    BY <2>1, <2>2, <2>3, <2>6, OwnWriteKeeps
<1>3. CASE [turn |-> Turn, of |-> cited] \notin gateway.deliveries
  <2> PICK e : e = [kind |-> "rejected", turn |-> ctl.turn, why |-> "interpretation", of |-> 0, id |-> intents + 1]
    OBVIOUS
  <2>1. e \in Events /\ e.kind = "rejected" /\ e.turn = ctl.turn /\ e.why = "interpretation" /\ e.id = intents + 1
    BY <1>1 DEF Events
  <2>2. Write(e, "receiver")
    BY <1>3 DEF SubmitInterpretation, Event, Turn
  <2>3. "receiver" \in SentFrom(e) /\ "receiver" \in Calling
    BY <2>1 DEF SentFrom, Calling
  <2> QED
    BY <2>1, <2>2, <2>3, OwnWriteKeeps DEF Grounded
<1> QED
  BY <1>2, <1>3

LEMMA SubmitTaskActionKeeps == GatewayInv /\ SubmitTaskAction => GatewayInv'
<1> SUFFICES ASSUME GatewayInv, SubmitTaskAction PROVE GatewayInv'
  OBVIOUS
<1>1. CASE Write(Event("action", Turn, "", 0), "action")
  <2>0. ctl.at = "action"
    BY <1>1 DEF Write
  <2>1. intents + 1 \in Nat /\ ctl.turn \in 0..MaxTurns
    BY <2>0, Numbered, Numbers, TurnIsOpen DEF InTurn, Calling
  <2> PICK e : e = [kind |-> "action", turn |-> ctl.turn, why |-> "", of |-> 0, id |-> intents + 1]
    OBVIOUS
  <2>2. e \in Events /\ e.kind = "action" /\ e.turn = ctl.turn /\ e.why = "" /\ e.id = intents + 1
    BY <2>1 DEF Events
  <2>3. Write(e, "action")
    BY <1>1 DEF Event, Turn
  <2>4. "action" \in SentFrom(e) /\ "action" \in Calling
    BY <2>2 DEF SentFrom, Calling
  <2> QED
    BY <2>2, <2>3, <2>4, OwnWriteKeeps DEF Grounded
<1>2. CASE ~ Write(Event("action", Turn, "", 0), "action")
  <2>1. /\ ctl.at = "action" /\ write.at = "none"
        /\ ctl' = [ctl EXCEPT !.at = "record"]
        /\ UNCHANGED <<durable, evidence, intents, gateway, write>>
    BY <1>2 DEF SubmitTaskAction
  <2> QED
    BY <2>1, ForfeitsTheAction
<1> QED
  BY <1>1, <1>2

LEMMA RejectForTimeoutKeeps == GatewayInv /\ RejectForTimeout => GatewayInv'
<1> SUFFICES ASSUME GatewayInv, RejectForTimeout PROVE GatewayInv'
  OBVIOUS
<1>0. ctl.at \in {"prepass", "sender", "receiver", "action"} /\ write.at = "none" /\ ~ Quarantined
  BY DEF RejectForTimeout, Waits, Send
<1>1. /\ intents + 1 \in Nat /\ ctl.turn \in 0..MaxTurns /\ ctl.turn = recorded
      /\ ctl.turn \in TurnNumbers /\ ctl.turn < MaxTurns /\ ctl \in Controllers
  BY <1>0, Numbered, Numbers, TurnIsOpen DEF InTurn, Calling
<1> PICK e : e = [kind |-> "rejected", turn |-> ctl.turn, why |-> "timeout", of |-> 0, id |-> intents + 1]
  OBVIOUS
<1>2. e \in Events /\ e.kind = "rejected" /\ e.turn = ctl.turn /\ e.why = "timeout" /\ e.id = intents + 1
  BY <1>1 DEF Events
<1>3. /\ write' = [at |-> "intended", event |-> e] /\ intents' = intents + 1
      /\ UNCHANGED <<durable, evidence, gateway>>
      /\ ctl' = [ctl EXCEPT !.at = "forfeit", !.slots = ForgetSlots]
  BY DEF RejectForTimeout, Send, Event, Turn
<1>4. ForgetSlots \in [TurnNumbers -> Slots]
  BY <1>1, SlotsForgotten
<1>5. ctl' \in Controllers /\ ctl'.turn = ctl.turn /\ ctl'.at = "forfeit"
  BY <1>1, <1>3, <1>4 DEF Controllers, Places, InTurn, Calling
<1>6. "forfeit" \in SentFrom(e)
  BY <1>2 DEF SentFrom, Calling
<1>7. ~ Reaching
  BY <1>0 DEF GatewayInv, StreakFits, Stopped
<1>8. e.turn >= recorded /\ Grounded(e) /\ ctl.at \in Calling
  BY <1>0, <1>1, <1>2, EvidenceIs DEF Grounded, Calling
<1> QED
  BY <1>0, <1>1, <1>2, <1>3, <1>5, <1>6, <1>7, <1>8, SendKeeps

LEMMA SafetyTriggerKeeps == GatewayInv /\ SafetyTrigger => GatewayInv'
<1> SUFFICES ASSUME GatewayInv, SafetyTrigger PROVE GatewayInv'
  OBVIOUS
<1> PICK last : last = write.event
  OBVIOUS
<1>0. write.at = "ceiling" /\ last \in Events
  BY DEF SafetyTrigger, GatewayInv, Shapes, NoWrite
<1>1. /\ last.kind = "rejected" /\ last.turn \in TurnNumbers /\ last.turn >= recorded
      /\ ~ Quarantined /\ ctl.at \in SentFrom(last) \cup {"failed"} /\ Reaching
  BY <1>0 DEF GatewayInv, CallsFit, JournalFits, StreakFits
<1>2. /\ intents + 1 \in Nat /\ last.id \in Nat /\ last.why \in {"", "invalid", "timeout", "interpretation"}
      /\ last.turn \in 0..MaxTurns
  BY <1>0, Numbered DEF Events
<1> PICK e : e = [kind |-> "trigger", turn |-> last.turn, why |-> last.why, of |-> last.id, id |-> intents + 1]
  OBVIOUS
<1>3. e \in Events /\ e.kind = "trigger" /\ e.turn = last.turn /\ e.why = last.why /\ e.id = intents + 1
  BY <1>2 DEF Events
<1>4. /\ write' = [at |-> "intended", event |-> e] /\ intents' = intents + 1
      /\ UNCHANGED <<durable, evidence, gateway, ctl>>
  BY DEF SafetyTrigger, Event
<1>5. ctl \in Controllers /\ ctl.turn = recorded /\ ctl.turn < MaxTurns
  <2>1. ctl \in Controllers /\ ctl.turn = recorded
    BY DEF GatewayInv, Shapes, CallsFit
  <2>2. recorded \in Nat /\ last.turn \in Nat /\ last.turn < MaxTurns
    BY <1>1, Numbers, EvidenceIs
  <2>3. recorded < MaxTurns
    BY <1>1, <2>2, Numbers
  <2> QED
    BY <2>1, <2>3
<1>6. ctl.at \in SentFrom(e) \cup {"failed"} /\ ctl.at \in Calling \cup {"failed"}
  BY <1>1, <1>3 DEF SentFrom
<1>7. Grounded(e)
  BY <1>3 DEF Grounded
<1> QED
  BY <1>0, <1>1, <1>3, <1>4, <1>5, <1>6, <1>7, SendKeeps

---------------------------------------------------------------------------
(* The writer commits *)

\* The event that is added is the request that was open: the journal numbers it,
\* a trigger follows the rejection that reaches the ceiling, an interpretation
\* the delivery it cites.
LEMMA CommitKeeps == GatewayInv /\ Commit => GatewayInv'
<1> SUFFICES ASSUME GatewayInv, Commit PROVE GatewayInv'
  OBVIOUS
<1> USE DEF GatewayInv
<1> PICK e : e = write.event
  OBVIOUS
<1> PICK n \in Nat : n = Len(evidence)
  BY EvidenceIs
<1>0. /\ write.at \in {"intended", "late"} /\ evidence' = Append(evidence, e)
      /\ write' = IF write.at = "late" THEN NoWrite ELSE [write EXCEPT !.at = "committed"]
      /\ setting' = setting /\ recorded' = recorded /\ confirmed' = confirmed
      /\ intents' = intents /\ gateway' = gateway /\ ctl' = ctl
  BY DEF Commit, durable
<1>1. /\ write \in [at : {"intended", "committed", "late", "ceiling"}, event : Events]
      /\ e \in Events /\ evidence \in Seq(Events)
  BY <1>0 DEF Shapes, NoWrite
<1>2. \/ write.at = "late" /\ write' = NoWrite /\ write'.at = "none"
      \/ /\ write.at = "intended" /\ write'.at = "committed" /\ write'.event = e
         /\ write' \in [at : {"intended", "committed", "late", "ceiling"}, event : Events]
  BY <1>0, <1>1 DEF NoWrite
<1>3. /\ evidence' \in Seq(Events) /\ evidence' # <<>> /\ Len(evidence') = n + 1
      /\ DOMAIN evidence = 1..n /\ DOMAIN evidence' = 1..(n + 1) /\ evidence'[n + 1] = e
      /\ \A i \in DOMAIN evidence : evidence'[i] = evidence[i]
      /\ \A i \in DOMAIN evidence' : i \in DOMAIN evidence \/ i = n + 1
      /\ \A i \in DOMAIN evidence : i \in DOMAIN evidence'
  BY <1>0, <1>1, Grown
<1>4. /\ e.turn \in TurnNumbers /\ e.turn >= recorded /\ e.kind # "resume"
      /\ e.kind \notin {"rejected", "trigger"} => e.turn = recorded
      /\ write.at = "late" => Stopped
      /\ write.at = "intended" => ~ Quarantined /\ ctl.at \in SentFrom(e) \cup {"failed"}
  BY <1>0 DEF CallsFit
<1>5. /\ e.id = intents /\ intents > 0 /\ intents \notin confirmed
      /\ \A i \in DOMAIN evidence : evidence[i].id # intents
  BY <1>0 DEF JournalFits, Unconfirmed
<1>6. Quarantined' = Quarantined /\ Stopped' = Stopped
  BY <1>0 DEF Quarantined, Stopped
<1>7. Shapes'
  BY <1>0, <1>2, <1>3 DEF Shapes
<1>8. CallsFit'
  <2>1. SentFrom(e)' = SentFrom(e)
    BY DEF SentFrom
  <2>2. write'.at # "none" => write'.at = "committed" /\ write'.event = e /\ write.at = "intended"
    BY <1>2
  <2> QED
    BY <1>0, <1>4, <1>6, <2>1, <2>2 DEF CallsFit
<1>9. JournalFits'
  <2>1. \A i \in DOMAIN evidence' : \/ (i \in DOMAIN evidence /\ evidence'[i] = evidence[i])
                                    \/ (i = n + 1 /\ evidence'[i] = e)
    BY <1>3
  <2>2. \A id \in confirmed : \E i \in DOMAIN evidence' : evidence'[i].id = id
    BY <1>3 DEF JournalFits
  <2>3. \A i \in DOMAIN evidence' :
            evidence'[i].id <= intents /\ (evidence'[i].id = 0 <=> evidence'[i].kind = "resume")
    BY <1>4, <1>5, <2>1, EvidenceIs DEF JournalFits
  <2>4. \A i, j \in DOMAIN evidence' : evidence'[i].id = evidence'[j].id /\ evidence'[i].id > 0 => i = j
    BY <1>5, <2>1 DEF JournalFits
  <2>5. \A id \in 1..intents : id # intents => id \in confirmed
    BY DEF JournalFits
  <2>6. write'.at \notin {"intended", "late", "ceiling"} /\ (write'.at = "committed" => write'.event = e)
    BY <1>2
  <2>7. write'.at = "none" => Stopped'
    BY <1>2, <1>4, <1>6
  <2>8. evidence'[Len(evidence')] = e /\ evidence' # <<>> /\ Unconfirmed'
    BY <1>0, <1>3, <1>5 DEF Unconfirmed
  <2>9. /\ write'.at # "none" => write'.event.id = intents' /\ intents' > 0
        /\ write'.at \in {"intended", "late"} =>
            Unconfirmed' /\ \A i \in DOMAIN evidence' : evidence'[i].id # intents'
        /\ write'.at \in {"committed", "ceiling"} => evidence' # <<>> /\ evidence'[Len(evidence')] = write'.event
        /\ write'.at = "committed" => Unconfirmed'
        /\ write'.at = "ceiling" => ~Unconfirmed' /\ write'.event.kind = "rejected"
        /\ write'.at = "none" /\ Unconfirmed' => Stopped'
    BY <1>0, <1>2, <1>5, <2>6, <2>7, <2>8
  <2>10. /\ \A id \in 1..intents' : id # intents' => id \in confirmed'
         /\ \A id \in confirmed' : \E i \in DOMAIN evidence' : evidence'[i].id = id
         /\ \A i \in DOMAIN evidence' :
                evidence'[i].id <= intents' /\ (evidence'[i].id = 0 <=> evidence'[i].kind = "resume")
         /\ \A i, j \in DOMAIN evidence' : evidence'[i].id = evidence'[j].id /\ evidence'[i].id > 0 => i = j
    BY <1>0, <2>2, <2>3, <2>4, <2>5
  <2> QED
    BY <2>9, <2>10 DEF JournalFits
<1>10. TriggerPerStreak'
  <2>1. TriggerPerStreak /\ (e.kind = "trigger" <=> Reaching)
    BY <1>0 DEF StreakFits
  <2> SUFFICES ASSUME NEW i \in 1..n
               PROVE  (evidence'[i].kind = "rejected" /\ StreakAt(i)' = Ceiling)
                          <=> evidence'[i + 1].kind = "trigger"
    BY <1>3 DEF TriggerPerStreak
  <2>2. evidence'[i] = evidence[i] /\ StreakAt(i)' = StreakAt(i)
    BY <1>0, <1>1, <1>3, StreakPrefix
  <2>3. CASE i = n
    <3>1. evidence # <<>>
      BY <2>3, EvidenceIs
    <3> QED
      BY <1>3, <2>1, <2>2, <2>3, <3>1 DEF Reaching, Streak
  <2>4. CASE i # n
    <3>1. i \in 1..n - 1 /\ evidence'[i + 1] = evidence[i + 1]
      BY <1>3, <2>4
    <3> QED
      BY <2>1, <2>2, <3>1 DEF TriggerPerStreak
  <2> QED
    BY <2>3, <2>4
<1>11. StreakFits'
  <2>1. /\ Streak \in Nat /\ Streak' \in Nat
        /\ e.kind = "rejected" => Streak' = Streak + 1
        /\ e.kind \in Ends => Streak' = 0
        /\ e.kind \notin Ends /\ e.kind # "rejected" => Streak' = Streak
    BY <1>0, <1>1, StreakStep
  <2>2. CASE write.at = "late"
    <3>1. Stopped' /\ write'.at = "none"
      BY <1>2, <1>4, <1>6, <2>2
    <3>2. Reaching' => evidence'[Len(evidence')].turn >= recorded
      BY <1>3, <1>4
    <3>3. (\A i \in Resumes : evidence[i].of = ChannelSize(i))'
      BY <1>0, <1>1, <1>4, ChannelPrefix DEF StreakFits
    <3> QED
      BY <1>0, <1>10, <3>1, <3>2, <3>3 DEF StreakFits, Stopped
  <2>3. CASE write.at = "intended"
    <3>1. write'.at = "committed" /\ write'.event = e /\ ctl.at \notin {"down", "resuming"}
      BY <1>2, <1>4, <2>3 DEF SentFrom, Calling
    <3>2. Streak = gateway.rejections
      BY <1>4, <2>3, <3>1 DEF StreakFits
    <3>3. Reaching' => evidence'[Len(evidence')].turn >= recorded
      BY <1>3, <1>4
    <3>4. (\A i \in Resumes : evidence[i].of = ChannelSize(i))'
      BY <1>0, <1>1, <1>4, ChannelPrefix DEF StreakFits
    <3>5. IF e.kind \in {"rejected", "accepted", "control"}
          THEN Streak' = IF e.kind = "rejected" THEN gateway.rejections + 1 ELSE 0
          ELSE Streak' = gateway.rejections
      BY <1>4, <2>1, <3>2 DEF Ends
    <3> QED
      BY <1>0, <1>10, <3>1, <3>3, <3>4, <3>5 DEF StreakFits
  <2> QED
    BY <1>0, <2>2, <2>3
<1>12. DeliveriesFit'
  <2>1. \A i \in DOMAIN evidence : \A id, turn : DeliveredBy(i, id, turn)' <=> DeliveredBy(i, id, turn)
    BY <1>0, <1>3 DEF DeliveredBy, Delivers
  <2>2. \A i \in DOMAIN evidence : \A j \in 1..i - 1 : j \in DOMAIN evidence
    BY <1>3
  <2>3. \A d \in gateway.deliveries : \E i \in DOMAIN evidence' : DeliveredBy(i, d.of, d.turn)'
    BY <1>3, <2>1 DEF DeliveriesFit
  <2>4. ctl.at \in {"action", "record", "forfeit", "failed", "down"}
            \/ (ctl.at = "receiver" /\ write.at = "intended" /\ e.kind = "interpreted")
        => \/ ctl'.at \in {"action", "record", "forfeit", "failed", "down"}
           \/ (ctl'.at = "receiver" /\ write'.at = "committed" /\ write'.event.kind = "interpreted")
    BY <1>0, <1>2
  <2>5. ASSUME NEW i \in DOMAIN evidence, evidence[i].kind = "interpreted"
        PROVE  /\ \E j \in 1..i - 1 : DeliveredBy(j, evidence[i].of, evidence[i].turn)'
               /\ \A j \in 1..i - 1 : evidence'[j].kind = "interpreted" => evidence'[j].turn # evidence[i].turn
               /\ evidence[i].turn <= recorded
               /\ evidence[i].turn = recorded => ctl'.at \in {"action", "record", "forfeit", "failed", "down"}
    BY <1>0, <1>3, <2>1, <2>2, <2>5 DEF DeliveriesFit
  <2>6. ASSUME e.kind = "interpreted"
        PROVE  /\ \E j \in 1..n : DeliveredBy(j, e.of, e.turn)'
               /\ \A j \in 1..n : evidence'[j].kind = "interpreted" => evidence'[j].turn # e.turn
               /\ e.turn = recorded /\ e.turn <= recorded
               /\ \/ ctl'.at \in {"action", "record", "forfeit", "failed", "down"}
                  \/ (ctl'.at = "receiver" /\ write'.at = "committed" /\ write'.event.kind = "interpreted")
    <3>1. /\ \E i \in DOMAIN evidence : DeliveredBy(i, e.of, e.turn)
          /\ \A i \in DOMAIN evidence : evidence[i].kind = "interpreted" => evidence[i].turn # e.turn
      BY <1>0, <2>6 DEF DeliveriesFit
    <3>2. e.turn = recorded /\ e.turn <= recorded
      BY <1>4, <2>6, EvidenceIs
    <3>3. CASE write.at = "late"
      BY <1>0, <1>3, <1>4, <2>1, <3>1, <3>2, <3>3 DEF Stopped
    <3>4. CASE write.at = "intended"
      <4>1. ctl.at \in {"receiver", "failed"} /\ write'.at = "committed" /\ write'.event = e
        BY <1>2, <1>4, <2>6, <3>4 DEF SentFrom
      <4> QED
        BY <1>0, <1>3, <2>1, <2>6, <3>1, <3>2, <4>1
    <3> QED
      BY <1>0, <3>3, <3>4
  <2>7. ASSUME NEW i \in DOMAIN evidence', evidence'[i].kind = "interpreted"
        PROVE  /\ \E j \in 1..i - 1 : DeliveredBy(j, evidence[i].of, evidence[i].turn)'
               /\ \A j \in 1..i - 1 : evidence'[j].kind = "interpreted" => evidence'[j].turn # evidence'[i].turn
               /\ evidence'[i].turn <= recorded
               /\ evidence'[i].turn = recorded =>
                    \/ ctl'.at \in {"action", "record", "forfeit", "failed", "down"}
                    \/ (ctl'.at = "receiver" /\ write'.at = "committed" /\ write'.event.kind = "interpreted")
    <3>1. CASE i \in DOMAIN evidence
      BY <1>3, <2>5, <2>7, <3>1
    <3>2. CASE i = n + 1
      <4>1. 1..i - 1 = 1..n /\ evidence'[i] = e
        BY <1>3, <3>2
      <4> QED
        BY <2>6, <2>7, <4>1
    <3> QED
      BY <1>3, <3>1, <3>2
  <2> QED
    BY <1>0, <1>2, <2>3, <2>7 DEF DeliveriesFit
<1>13. BatchFits'
  <2>1. \A event : InBatch(event)' <=> InBatch(event)
    BY <1>0 DEF InBatch, Source, TurnAt, Place
  <2>2. ASSUME NEW i \in DOMAIN evidence', evidence'[i].kind = "accepted"
        PROVE  /\ evidence'[i].turn <= recorded
               /\ evidence'[i].turn = recorded => ctl'.at \notin {"rest", "paused", "resuming"}
               /\ setting.condition = "shuffled" /\ evidence'[i].turn \in gateway.batch.turns
                    => InBatch(evidence'[i])
    <3>1. CASE i \in DOMAIN evidence
      BY <1>0, <1>3, <2>2, <3>1 DEF BatchFits
    <3>2. CASE i = n + 1
      <4>1. evidence'[i] = e /\ e.kind = "accepted" /\ e.turn = recorded /\ e.turn <= recorded
        BY <1>3, <1>4, <2>2, <3>2, EvidenceIs
      <4>2. ctl.at \notin {"rest", "paused", "resuming"}
        BY <1>0, <1>4 DEF Stopped, SentFrom, Calling
      <4>3. setting.condition = "shuffled" /\ e.turn \in gateway.batch.turns => InBatch(e)
        BY <1>0, <4>1 DEF BatchFits
      <4> QED
        BY <1>0, <4>1, <4>2, <4>3
    <3> QED
      BY <1>3, <3>1, <3>2
  <2>3. write'.at # "none" /\ write'.event.kind = "accepted" /\ setting.condition = "shuffled"
            => write'.at # "late" /\ InBatch(write'.event)
    BY <1>2 DEF BatchFits
  <2>4. BatchShape(gateway.batch)
    BY DEF BatchFits
  <2> QED
    BY <1>0, <2>1, <2>2, <2>3, <2>4 DEF BatchFits, BatchShape
<1> QED
  BY <1>7, <1>8, <1>9, <1>11, <1>12, <1>13

---------------------------------------------------------------------------
(* Answers *)

\* Where a call returns to. A turn that had its interpretation does not fall
\* back before it.
LEMMA ReturnFits ==
    ASSUME ctl \in Controllers, NEW event, NEW pause \in BOOLEAN, event.turn \in TurnNumbers,
           event.kind \notin {"trigger", "resume"},
           event.kind \in {"accepted", "control", "rejected", "interpreted", "action"},
           ctl.at \in SentFrom(event) \cup {"failed"}, ReturnTo(event, pause)
    PROVE  /\ ctl' \in Controllers /\ ctl'.turn = ctl.turn /\ ctl'.at \in InTurn \cup {"failed"}
           /\ ctl'.at \in InTurn => ctl.at \in InTurn
           /\ ctl'.at = "prepass" => ctl.at = "prepass"
           /\ ctl.at \in {"action", "record", "forfeit", "failed"} \/ event.kind = "interpreted"
                => ctl'.at \in {"action", "record", "forfeit", "failed"}
<1>1. CASE ctl.at = "failed"
  <2>1. ctl' = ctl
    BY <1>1 DEF ReturnTo
  <2> QED
    BY <1>1, <2>1
<1>2. CASE ctl.at # "failed"
  <2>1. ctl.at \in Calling /\ ctl.at \in InTurn /\ ctl.at \in SentFrom(event)
    BY <1>2 DEF SentFrom, InTurn
  <2>2. ctl' = Returned(event, pause)
    BY <1>2, <2>1 DEF ReturnTo, Calling
  <2> DEFINE slot == IF pause THEN "rejected and pause" ELSE "rejected"
             slots == [ctl.slots EXCEPT ![event.turn] = slot]
  <2>3. CASE ctl.at = "prepass" /\ event.why = "invalid"
    <3>1. event.kind = "rejected"
      BY <2>1, <2>3 DEF SentFrom
    <3>2. ctl' = [ctl EXCEPT !.slots = slots]
      BY <2>2, <2>3, <3>1 DEF Returned
    <3>3. slots \in [TurnNumbers -> Slots]
      BY DEF Controllers, Slots
    <3> HIDE DEF slots
    <3>4. ctl' \in Controllers /\ ctl'.turn = ctl.turn /\ ctl'.at = ctl.at
      BY <3>2, <3>3 DEF Controllers
    <3> QED
      BY <2>1, <2>3, <3>1, <3>4
  <2>4. CASE ~ (ctl.at = "prepass" /\ event.why = "invalid") /\ event.kind \in {"accepted", "control"}
    <3>1. ctl.at = "sender"
      BY <2>1, <2>4 DEF SentFrom
    <3>2. event.why = ""
      BY <2>1, <2>4 DEF SentFrom
    <3>3. ctl' = [ctl EXCEPT !.at = IF Delivers(event) THEN "receiver" ELSE "action"]
      BY <2>2, <2>4, <3>2 DEF Returned
    <3>4. ctl' \in Controllers /\ ctl'.turn = ctl.turn /\ ctl'.at \in {"receiver", "action"}
      BY <3>3 DEF Controllers, Places, InTurn, Calling
    <3> QED
      BY <2>1, <2>4, <3>1, <3>4 DEF InTurn, Calling
  <2>5. CASE event.kind = "interpreted"
    <3>1. ctl.at = "receiver"
      BY <2>1, <2>5 DEF SentFrom
    <3>2. event.why = ""
      BY <2>1, <2>5 DEF SentFrom
    <3>3. ctl' = [ctl EXCEPT !.at = "action"]
      BY <2>2, <2>5, <3>1, <3>2 DEF Returned
    <3>4. ctl' \in Controllers /\ ctl'.turn = ctl.turn /\ ctl'.at = "action"
      BY <3>3 DEF Controllers, Places, InTurn, Calling
    <3> QED
      BY <2>1, <3>1, <3>4 DEF InTurn, Calling
  <2>6. CASE /\ ~ (ctl.at = "prepass" /\ event.why = "invalid")
             /\ event.kind \in {"rejected", "action"}
             /\ event.why = "interpretation" /\ setting.hosting = "remote"
    <3>1. ctl' = [ctl EXCEPT !.at = "failed", !.quarantined = TRUE]
      BY <2>2, <2>6 DEF Returned
    <3>2. ctl' \in Controllers /\ ctl'.turn = ctl.turn /\ ctl'.at = "failed"
      BY <3>1 DEF Controllers, Places, InTurn, Calling
    <3> QED
      BY <2>1, <2>6, <3>2 DEF InTurn, Calling
  <2>7. CASE /\ ~ (ctl.at = "prepass" /\ event.why = "invalid")
             /\ event.kind \in {"rejected", "action"}
             /\ ~ (event.why = "interpretation" /\ setting.hosting = "remote")
    <3>1. ctl' = [ctl EXCEPT !.at = "record", !.pause = pause]
      BY <2>2, <2>7 DEF Returned
    <3>2. ctl' \in Controllers /\ ctl'.turn = ctl.turn /\ ctl'.at = "record"
      BY <3>1 DEF Controllers, Places, InTurn, Calling
    <3> QED
      BY <2>1, <2>7, <3>2 DEF InTurn, Calling
  <2> QED
    BY <2>3, <2>4, <2>5, <2>6, <2>7
<1> QED
  BY <1>1, <1>2

\* The call is answered, and the Gateway waits for nothing.
LEMMA AnsweredKeeps ==
    ASSUME GatewayInv, write.at = "committed", NEW e, e = write.event,
           UNCHANGED <<setting, evidence, recorded, intents>>,
           confirmed' = confirmed \cup {e.id}, write' = NoWrite,
           gateway' \in Memories, gateway'.uncertain = gateway.uncertain,
           gateway'.quarantined = gateway.quarantined,
           ~ Reaching, gateway'.rejections = Streak,
           \A d \in gateway'.deliveries :
                d \in gateway.deliveries \/ (d.of = e.id /\ d.turn = e.turn /\ Delivers(e)),
           gateway'.batch.turns = gateway.batch.turns, gateway'.batch.sealed = gateway.batch.sealed,
           gateway'.batch.eligible = gateway.batch.eligible, BatchShape(gateway'.batch),
           ctl' \in Controllers, ctl'.turn = ctl.turn, ctl'.at \in InTurn \cup {"failed"},
           ctl'.at \in InTurn => ctl.at \in InTurn,
           ctl'.at = "prepass" => ctl.at = "prepass",
           ctl.at \in {"action", "record", "forfeit", "failed"} \/ e.kind = "interpreted"
                => ctl'.at \in {"action", "record", "forfeit", "failed"}
    PROVE  GatewayInv'
<1> USE DEF GatewayInv
<1>0. /\ setting' = setting /\ recorded' = recorded /\ evidence' = evidence /\ intents' = intents
      /\ write'.at = "none"
  BY DEF NoWrite
<1>1. /\ e.id = intents /\ intents > 0 /\ intents \in Nat /\ confirmed \subseteq 1..intents
      /\ evidence # <<>> /\ evidence[Len(evidence)] = e
  BY DEF JournalFits, Shapes
<1>2. confirmed' \subseteq 1..intents
  <2>1. intents \in 1..intents
    BY <1>1
  <2>2. confirmed' = confirmed \cup {intents}
    BY <1>1
  <2> QED
    BY <1>1, <2>1, <2>2
<1>3. Shapes'
  BY <1>0, <1>2 DEF Shapes
<1>4. Quarantined' = Quarantined /\ ctl.at \in Calling \cup {"failed"}
  BY DEF Quarantined, CallsFit, SentFrom
<1>5. CallsFit'
  BY <1>0 DEF CallsFit
<1>6. Len(evidence) \in DOMAIN evidence
  BY <1>1, EvidenceIs
<1>7. JournalFits'
  <2>1. ~ Unconfirmed'
    BY <1>0, <1>1 DEF Unconfirmed
  <2>2. \A id \in confirmed' : \E i \in DOMAIN evidence : evidence[i].id = id
    BY <1>1, <1>6 DEF JournalFits
  <2> QED
    BY <1>0, <2>1, <2>2 DEF JournalFits
<1>8. StreakFits'
  <2>1. Streak' = Streak /\ TriggerPerStreak' /\ ~ Reaching'
        /\ (\A i \in Resumes : evidence[i].of = ChannelSize(i))'
    BY <1>0, StreakStays DEF StreakFits
  <2> QED
    BY <1>0, <1>4, <2>1 DEF StreakFits, InTurn, Calling
<1>9. DeliveriesFit'
  <2>1. \A i, id, turn : DeliveredBy(i, id, turn)' <=> DeliveredBy(i, id, turn)
    BY <1>0 DEF DeliveredBy, Delivers
  <2>2. \A d \in gateway'.deliveries : \E i \in DOMAIN evidence : DeliveredBy(i, d.of, d.turn)
    <3> SUFFICES ASSUME NEW d \in gateway'.deliveries
                 PROVE  \E i \in DOMAIN evidence : DeliveredBy(i, d.of, d.turn)
      OBVIOUS
    <3>1. CASE d \in gateway.deliveries
      BY <3>1 DEF DeliveriesFit
    <3>2. CASE d.of = e.id /\ d.turn = e.turn /\ Delivers(e)
      <4>1. DeliveredBy(Len(evidence), d.of, d.turn)
        BY <1>1, <3>2 DEF DeliveredBy
      <4> QED
        BY <1>6, <4>1
    <3> QED
      BY <3>1, <3>2
  <2>3. \A i \in DOMAIN evidence : evidence[i].kind = "interpreted" =>
            /\ \E j \in 1..i - 1 : DeliveredBy(j, evidence[i].of, evidence[i].turn)
            /\ \A j \in 1..i - 1 : evidence[j].kind = "interpreted" => evidence[j].turn # evidence[i].turn
            /\ evidence[i].turn <= recorded
            /\ evidence[i].turn = recorded => ctl'.at \in {"action", "record", "forfeit", "failed"}
    BY <1>4 DEF DeliveriesFit, Calling
  <2> QED
    BY <1>0, <2>1, <2>2, <2>3 DEF DeliveriesFit
<1>10. BatchFits'
  <2>1. \A event : InBatch(event)' <=> InBatch(event)
    BY <1>0 DEF InBatch, Source, TurnAt, Place
  <2>2. ctl'.at \notin {"rest", "paused", "resuming"}
    BY DEF InTurn, Calling
  <2> QED
    BY <1>0, <2>1, <2>2 DEF BatchFits, BatchShape
<1> QED
  BY <1>3, <1>5, <1>7, <1>8, <1>9, <1>10

\* The rejection that reaches the ceiling: the call goes on with its trigger.
LEMMA CeilingKeeps ==
    ASSUME GatewayInv, write.at = "committed", write.event.kind = "rejected",
           gateway.rejections + 1 = Ceiling,
           UNCHANGED <<setting, evidence, recorded, intents, ctl>>,
           confirmed' = confirmed \cup {write.event.id},
           gateway' = [gateway EXCEPT !.rejections = gateway.rejections + 1],
           write' = [write EXCEPT !.at = "ceiling"]
    PROVE  GatewayInv'
<1> USE DEF GatewayInv
<1> PICK e : e = write.event
  OBVIOUS
<1>0. /\ setting' = setting /\ recorded' = recorded /\ evidence' = evidence /\ intents' = intents
      /\ ctl' = ctl
  OBVIOUS
<1>1. write \in [at : {"intended", "committed", "late", "ceiling"}, event : Events] /\ gateway \in Memories
  BY DEF Shapes, NoWrite
<1>2. /\ write'.at = "ceiling" /\ write'.event = e
      /\ write' \in [at : {"intended", "committed", "late", "ceiling"}, event : Events]
  BY <1>1
<1>3. /\ gateway' \in Memories /\ gateway'.rejections = gateway.rejections + 1
      /\ gateway'.uncertain = gateway.uncertain /\ gateway'.quarantined = gateway.quarantined
      /\ gateway'.deliveries = gateway.deliveries /\ gateway'.batch = gateway.batch
  BY <1>1 DEF Memories
<1>4. /\ e.id = intents /\ intents > 0 /\ intents \in Nat /\ confirmed \subseteq 1..intents
      /\ evidence # <<>> /\ evidence[Len(evidence)] = e /\ Len(evidence) \in DOMAIN evidence
  <2>1. /\ e.id = intents /\ intents > 0 /\ intents \in Nat /\ confirmed \subseteq 1..intents
        /\ evidence # <<>> /\ evidence[Len(evidence)] = e
    BY DEF JournalFits, Shapes
  <2> QED
    BY <2>1, EvidenceIs
<1>5. confirmed' \subseteq 1..intents
  BY <1>4
<1>6. Shapes'
  BY <1>0, <1>2, <1>3, <1>5 DEF Shapes
<1>7. Quarantined' = Quarantined /\ ~ Quarantined /\ ctl.at \in SentFrom(e) \cup {"failed"}
      /\ ctl.at \notin {"down", "resuming"}
  BY <1>3 DEF Quarantined, CallsFit, SentFrom, Calling
<1>8. CallsFit'
  <2>1. SentFrom(e)' = SentFrom(e)
    BY DEF SentFrom
  <2> QED
    BY <1>0, <1>2, <1>3, <1>7, <2>1 DEF CallsFit
<1>9. JournalFits'
  <2>1. ~ Unconfirmed'
    BY <1>0, <1>4 DEF Unconfirmed
  <2>2. \A id \in confirmed' : \E i \in DOMAIN evidence : evidence[i].id = id
    BY <1>4 DEF JournalFits
  <2> QED
    BY <1>0, <1>2, <1>4, <2>1, <2>2 DEF JournalFits
<1>10. StreakFits'
  <2>1. Streak = gateway.rejections + 1
    BY <1>7 DEF StreakFits
  <2>2. Reaching
    BY <1>4, <2>1 DEF Reaching
  <2>3. Streak' = Streak /\ TriggerPerStreak' /\ Reaching'
        /\ (\A i \in Resumes : evidence[i].of = ChannelSize(i))'
    BY <1>0, <2>2, StreakStays DEF StreakFits
  <2> QED
    BY <1>0, <1>2, <1>3, <1>7, <2>1, <2>2, <2>3 DEF StreakFits
<1>11. DeliveriesFit'
  <2>1. \A i, id, turn : DeliveredBy(i, id, turn)' <=> DeliveredBy(i, id, turn)
    BY <1>0 DEF DeliveredBy, Delivers
  <2> QED
    BY <1>0, <1>2, <1>3, <2>1 DEF DeliveriesFit
<1>12. BatchFits'
  <2>1. \A event : InBatch(event)' <=> InBatch(event)
    BY <1>0, <1>3 DEF InBatch, Source, TurnAt, Place
  <2> QED
    BY <1>0, <1>2, <1>3, <2>1 DEF BatchFits
<1> QED
  BY <1>6, <1>8, <1>9, <1>10, <1>11, <1>12

\* A rejected event of the batch is seen; nothing else of the batch changes.
LEMMA SeenFits ==
    ASSUME GatewayInv, NEW state \in Memories, state.batch = gateway.batch, NEW event, event.turn \in TurnNumbers,
           NEW next, next = Seen(state, event)
    PROVE  /\ next \in Memories /\ next.uncertain = state.uncertain
           /\ next.quarantined = state.quarantined
           /\ next.rejections = state.rejections
           /\ next.deliveries = state.deliveries
           /\ next.batch.turns = state.batch.turns
           /\ next.batch.sealed = state.batch.sealed
           /\ next.batch.eligible = state.batch.eligible
           /\ BatchShape(next.batch)
<1>1. BatchShape(state.batch) /\ state.batch \in Batches
  BY DEF GatewayInv, BatchFits, Memories
<1>2. CASE event.turn \in state.batch.turns /\ event.why = "invalid"
  <2> PICK batch : batch = [state.batch EXCEPT !.seen = @ \cup {event.turn}]
    OBVIOUS
  <2>1. /\ batch \in Batches /\ batch.turns = state.batch.turns /\ batch.sealed = state.batch.sealed
        /\ batch.eligible = state.batch.eligible /\ batch.seen = state.batch.seen \cup {event.turn}
        /\ batch.consumed = state.batch.consumed
    BY <1>1 DEF Batches
  <2>2. next = [state EXCEPT !.batch = batch]
    BY <1>2 DEF Seen
  <2>3. BatchShape(batch)
    BY <1>1, <1>2, <2>1 DEF BatchShape
  <2>4. /\ next \in Memories /\ next.batch = batch
        /\ next.uncertain = state.uncertain
        /\ next.quarantined = state.quarantined
        /\ next.rejections = state.rejections
        /\ next.deliveries = state.deliveries
    BY <2>1, <2>2 DEF Memories
  <2> QED
    BY <2>1, <2>3, <2>4
<1>3. CASE ~ (event.turn \in state.batch.turns /\ event.why = "invalid")
  <2>1. next = state
    BY <1>3 DEF Seen
  <2> QED
    BY <1>1, <2>1
<1> QED
  BY <1>2, <1>3

LEMMA AnswerKeeps == GatewayInv /\ Answer => GatewayInv'
<1> SUFFICES ASSUME GatewayInv, Answer PROVE GatewayInv'
  OBVIOUS
<1> PICK e : e = write.event
  OBVIOUS
<1> PICK rejections : rejections = gateway.rejections + 1
  OBVIOUS
<1>0. /\ write.at = "committed" /\ confirmed' = confirmed \cup {e.id}
      /\ UNCHANGED <<setting, evidence, recorded, intents>>
  BY DEF Answer
<1>1. /\ e \in Events /\ gateway \in Memories /\ ctl \in Controllers /\ gateway.rejections \in Nat
      /\ gateway.batch \in Batches
  BY <1>0 DEF GatewayInv, Shapes, NoWrite, Memories
<1>2. /\ e.turn \in TurnNumbers /\ e.kind # "resume" /\ ~ Quarantined
      /\ ctl.at \in SentFrom(e) \cup {"failed"} /\ ctl.at \notin {"down", "resuming"}
  BY <1>0 DEF GatewayInv, CallsFit, SentFrom, Calling
<1>3. evidence # <<>> /\ evidence[Len(evidence)] = e
  BY <1>0 DEF GatewayInv, JournalFits
<1>4. IF e.kind \in {"rejected", "accepted", "control"}
      THEN Streak = IF e.kind = "rejected" THEN rejections ELSE 0
      ELSE Streak = gateway.rejections
  BY <1>0, <1>2 DEF GatewayInv, StreakFits
<1>5. BatchShape(gateway.batch)
  BY DEF GatewayInv, BatchFits
<1>6. CASE e.kind = "rejected" /\ AtCeiling(rejections)
  <2>1. /\ gateway' = [gateway EXCEPT !.rejections = rejections]
        /\ write' = [write EXCEPT !.at = "ceiling"] /\ ctl' = ctl
    BY <1>6 DEF Answer
  <2> QED
    BY <1>0, <1>6, <2>1, CeilingKeeps DEF AtCeiling
<1>7. CASE e.kind = "rejected" /\ ~ AtCeiling(rejections)
  <2>1. PICK state : state = [gateway EXCEPT !.rejections = rejections]
    OBVIOUS
  <2>2. PICK pause : pause = (rejections >= Ceiling)
    OBVIOUS
  <2>3. pause \in BOOLEAN
    BY <1>1, <2>2, Numbers
  <2>4. gateway' = Seen(state, e) /\ ReturnTo(e, pause) /\ write' = NoWrite
    BY <1>7, <2>1, <2>2 DEF Answer
  <2>5. /\ state \in Memories /\ state.batch = gateway.batch /\ state.rejections = rejections
        /\ state.uncertain = gateway.uncertain /\ state.quarantined = gateway.quarantined
        /\ state.deliveries = gateway.deliveries
    BY <1>1, <2>1 DEF Memories
  <2>6. /\ gateway' \in Memories /\ gateway'.uncertain = gateway.uncertain
        /\ gateway'.quarantined = gateway.quarantined /\ gateway'.rejections = rejections
        /\ gateway'.deliveries = gateway.deliveries
        /\ gateway'.batch.turns = gateway.batch.turns /\ gateway'.batch.sealed = gateway.batch.sealed
        /\ gateway'.batch.eligible = gateway.batch.eligible /\ BatchShape(gateway'.batch)
    <3>1. /\ gateway' \in Memories /\ gateway'.uncertain = state.uncertain
          /\ gateway'.quarantined = state.quarantined /\ gateway'.rejections = state.rejections
          /\ gateway'.deliveries = state.deliveries
          /\ gateway'.batch.turns = state.batch.turns /\ gateway'.batch.sealed = state.batch.sealed
          /\ gateway'.batch.eligible = state.batch.eligible /\ BatchShape(gateway'.batch)
      BY <1>2, <2>4, <2>5, SeenFits
    <3> QED
      BY <2>5, <3>1
  <2>7. Streak = rejections /\ ~ Reaching
    BY <1>4, <1>7 DEF Reaching, AtCeiling
  <2>8. /\ ctl' \in Controllers /\ ctl'.turn = ctl.turn /\ ctl'.at \in InTurn \cup {"failed"}
        /\ ctl'.at \in InTurn => ctl.at \in InTurn
        /\ ctl'.at = "prepass" => ctl.at = "prepass"
        /\ ctl.at \in {"action", "record", "forfeit", "failed"} \/ e.kind = "interpreted"
             => ctl'.at \in {"action", "record", "forfeit", "failed"}
    BY <1>1, <1>2, <1>7, <2>3, <2>4, ReturnFits
  <2> QED
    BY <1>0, <2>4, <2>6, <2>7, <2>8, AnsweredKeeps
<1>8. CASE e.kind = "trigger"
  <2> PICK told : told = [e EXCEPT !.kind = "rejected"]
    OBVIOUS
  <2>1. gateway' = Seen(gateway, e) /\ ReturnTo(told, TRUE) /\ write' = NoWrite
    BY <1>8 DEF Answer
  <2>2. told.kind = "rejected" /\ told.turn = e.turn /\ told.why = e.why
    BY <1>1 DEF Events
  <2>3. ctl.at \in SentFrom(told) \cup {"failed"}
    BY <1>2, <1>8, <2>2 DEF SentFrom
  <2>4. /\ gateway' \in Memories /\ gateway'.uncertain = gateway.uncertain
        /\ gateway'.quarantined = gateway.quarantined /\ gateway'.rejections = gateway.rejections
        /\ gateway'.deliveries = gateway.deliveries
        /\ gateway'.batch.turns = gateway.batch.turns /\ gateway'.batch.sealed = gateway.batch.sealed
        /\ gateway'.batch.eligible = gateway.batch.eligible /\ BatchShape(gateway'.batch)
    BY <1>1, <1>2, <2>1, SeenFits
  <2>5. Streak = gateway.rejections /\ ~ Reaching
    BY <1>3, <1>4, <1>8 DEF Reaching
  <2>6. /\ ctl' \in Controllers /\ ctl'.turn = ctl.turn /\ ctl'.at \in InTurn \cup {"failed"}
        /\ ctl'.at \in InTurn => ctl.at \in InTurn
        /\ ctl'.at = "prepass" => ctl.at = "prepass"
        /\ ctl.at \in {"action", "record", "forfeit", "failed"}
             => ctl'.at \in {"action", "record", "forfeit", "failed"}
    BY <1>1, <1>2, <2>1, <2>2, <2>3, ReturnFits
  <2> QED
    BY <1>0, <1>8, <2>1, <2>4, <2>5, <2>6, AnsweredKeeps
<1>9. CASE e.kind \in {"accepted", "control", "interpreted", "action"}
  <2>1. /\ gateway' = IF e.kind \in {"accepted", "control"} THEN Accepted(e) ELSE gateway
        /\ ReturnTo(e, FALSE) /\ write' = NoWrite
    BY <1>9 DEF Answer
  <2>2. /\ ctl' \in Controllers /\ ctl'.turn = ctl.turn /\ ctl'.at \in InTurn \cup {"failed"}
        /\ ctl'.at \in InTurn => ctl.at \in InTurn
        /\ ctl'.at = "prepass" => ctl.at = "prepass"
        /\ ctl.at \in {"action", "record", "forfeit", "failed"} \/ e.kind = "interpreted"
             => ctl'.at \in {"action", "record", "forfeit", "failed"}
    BY <1>1, <1>2, <1>9, <2>1, ReturnFits
  <2>3. ~ Reaching
    BY <1>3, <1>9 DEF Reaching
  <2>4. CASE e.kind \in {"interpreted", "action"}
    <3>1. gateway' = gateway /\ Streak = gateway.rejections
      BY <1>4, <2>1, <2>4
    <3> QED
      BY <1>0, <1>1, <1>5, <2>1, <2>2, <2>3, <3>1, AnsweredKeeps
  <2>5. CASE e.kind \in {"accepted", "control"}
    <3> PICK deliveries : deliveries = IF Delivers(e) THEN gateway.deliveries \cup {[turn |-> e.turn, of |-> e.id]}
                                       ELSE gateway.deliveries
      OBVIOUS
    <3> PICK consumed : consumed = IF e.kind = "accepted" /\ setting.condition = "shuffled"
                                   THEN gateway.batch.consumed \cup {e.turn} ELSE gateway.batch.consumed
      OBVIOUS
    <3> PICK batch : batch = [gateway.batch EXCEPT !.consumed = consumed]
      OBVIOUS
    <3>1. consumed \subseteq gateway.batch.eligible
      <4>1. e.kind = "accepted" /\ setting.condition = "shuffled" => e.turn \in gateway.batch.eligible
        BY <1>0 DEF GatewayInv, BatchFits, InBatch
      <4> QED
        BY <1>5, <4>1 DEF BatchShape
    <3>2. /\ batch \in Batches /\ batch.turns = gateway.batch.turns /\ batch.sealed = gateway.batch.sealed
          /\ batch.eligible = gateway.batch.eligible /\ batch.seen = gateway.batch.seen
          /\ batch.consumed = consumed
      BY <1>1, <3>1 DEF Batches
    <3>3. BatchShape(batch)
      BY <1>5, <3>1, <3>2 DEF BatchShape
    <3>4. deliveries \subseteq [turn : TurnNumbers, of : Nat]
      <4>1. gateway.deliveries \subseteq [turn : TurnNumbers, of : Nat]
        BY <1>1 DEF Memories
      <4>2. e.id \in Nat
        BY <1>1 DEF Events
      <4> QED
        BY <1>2, <4>1, <4>2
    <3>5. gateway' = [gateway EXCEPT !.rejections = 0, !.deliveries = deliveries, !.batch = batch]
      BY <1>1, <2>1, <2>5 DEF Accepted, Memories, Batches
    <3>6. /\ gateway' \in Memories /\ gateway'.rejections = 0 /\ gateway'.deliveries = deliveries
          /\ gateway'.batch = batch /\ gateway'.uncertain = gateway.uncertain
          /\ gateway'.quarantined = gateway.quarantined
      BY <1>1, <3>2, <3>4, <3>5 DEF Memories
    <3>7. \A d \in gateway'.deliveries :
                d \in gateway.deliveries \/ (d.of = e.id /\ d.turn = e.turn /\ Delivers(e))
      BY <3>6
    <3>8. Streak = 0
      BY <1>4, <2>5
    <3> QED
      BY <1>0, <2>1, <2>2, <2>3, <3>2, <3>3, <3>6, <3>7, <3>8, AnsweredKeeps, ZenonT(60)
  <2> QED
    BY <1>9, <2>4, <2>5
<1>10. e.kind \in {"accepted", "control", "rejected", "interpreted", "action", "trigger"}
  <2>1. e.kind \in {"accepted", "control", "rejected", "interpreted", "action", "trigger", "resume"}
    BY <1>1 DEF Events
  <2> QED
    BY <1>2, <2>1
<1> QED
  BY <1>6, <1>7, <1>8, <1>9, <1>10

---------------------------------------------------------------------------
(* The Gateway keeps its promises *)

LEMMA IdleKeeps == GatewayInv /\ UNCHANGED gwVars => GatewayInv'
<1> SUFFICES ASSUME GatewayInv, UNCHANGED gwVars PROVE GatewayInv'
  OBVIOUS
<1>0. /\ setting' = setting /\ evidence' = evidence /\ recorded' = recorded /\ intents' = intents
      /\ confirmed' = confirmed /\ gateway' = gateway /\ write' = write /\ ctl' = ctl
  BY DEF gwVars
<1>1. Shapes' /\ CallsFit' /\ JournalFits'
  <2>1. Shapes'
    BY <1>0 DEF GatewayInv, Shapes
  <2>2. Quarantined' = Quarantined /\ Stopped' = Stopped /\ Unconfirmed' = Unconfirmed
    BY <1>0 DEF Quarantined, Stopped, Unconfirmed
  <2>3. \A event : SentFrom(event)' = SentFrom(event)
    BY DEF SentFrom
  <2>4. CallsFit'
    BY <1>0, <2>2, <2>3 DEF GatewayInv, CallsFit
  <2>5. JournalFits'
    BY <1>0, <2>2 DEF GatewayInv, JournalFits
  <2> QED
    BY <2>1, <2>4, <2>5
<1>2. StreakFits'
  <2>1. Streak' = Streak /\ TriggerPerStreak' /\ (Reaching' <=> Reaching)
        /\ (\A i \in Resumes : evidence[i].of = ChannelSize(i))'
    BY <1>0, StreakStays DEF GatewayInv, StreakFits
  <2> QED
    BY <1>0, <2>1 DEF GatewayInv, StreakFits, Quarantined, Stopped
<1>3. DeliveriesFit'
  <2>1. \A i, id, turn : DeliveredBy(i, id, turn)' <=> DeliveredBy(i, id, turn)
    BY <1>0 DEF DeliveredBy, Delivers
  <2> QED
    BY <1>0, <2>1 DEF GatewayInv, DeliveriesFit
<1>4. BatchFits'
  <2>1. \A event : InBatch(event)' <=> InBatch(event)
    BY <1>0 DEF InBatch, Source, TurnAt, Place
  <2> QED
    BY <1>0, <2>1 DEF GatewayInv, BatchFits
<1> QED
  BY <1>1, <1>2, <1>3, <1>4 DEF GatewayInv

LEMMA Keeps == GatewayInv /\ [GatewayNext]_gwVars => GatewayInv'
<1> SUFFICES ASSUME GatewayInv, [GatewayNext]_gwVars PROVE GatewayInv'
  OBVIOUS
<1>1. CASE Proceeds
  <2>1. CASE Commit
    BY <2>1, CommitKeeps
  <2>2. CASE Answer
    BY <2>2, AnswerKeeps
  <2>3. CASE SafetyTrigger
    BY <2>3, SafetyTriggerKeeps
  <2>4. CASE BeginBatch
    BY <2>4, BeginBatchKeeps
  <2>5. CASE StartTurn
    BY <2>5, StartTurnKeeps
  <2>6. CASE Preflight
    <3>1. PICK t \in TurnNumbers : PreflightEligible(t) \/ PreflightRejected(t)
      BY <2>6 DEF Preflight, TurnNumbers
    <3> QED
      BY <3>1, PreflightEligibleKeeps, PreflightRejectedKeeps
  <2>7. CASE SealBatch
    BY <2>7, SealBatchKeeps
  <2>8. CASE SenderProposes
    BY <2>8, SenderProposesKeeps
  <2>9. CASE SubmitControlArtifact
    BY <2>9, SubmitControlArtifactKeeps
  <2>10. CASE SubmitPrepared
    BY <2>10, SubmitPreparedKeeps
  <2>11. CASE ReturnSlot
    BY <2>11, ReturnSlotKeeps
  <2>12. CASE Interpret
    <3>1. PICK cited \in 0..intents : SubmitInterpretation(cited)
      BY <2>12 DEF Interpret
    <3>2. cited \in Nat
      BY <3>1, EvidenceIs
    <3> QED
      BY <3>1, <3>2, SubmitInterpretationKeeps
  <2>13. CASE SubmitTaskAction
    BY <2>13, SubmitTaskActionKeeps
  <2>14. CASE RecordTurn
    BY <2>14, RecordTurnKeeps
  <2> QED
    BY <1>1, <2>1, <2>2, <2>3, <2>4, <2>5, <2>6, <2>7, <2>8, <2>9, <2>10, <2>11, <2>12, <2>13, <2>14
       DEF Proceeds
<1>2. CASE RejectForTimeout
  BY <1>2, RejectForTimeoutKeeps
<1>3. CASE AdapterFails
  BY <1>3, AdapterFailsKeeps
<1>4. CASE Resume
  BY <1>4, ResumeKeeps
<1>5. CASE ResetRejectionCounter
  BY <1>5, ResetKeeps
<1>6. CASE Lose
  BY <1>6, LoseKeeps
<1>7. CASE IntentFails
  BY <1>7, IntentFailsKeeps
<1>8. CASE ClientTimesOut
  BY <1>8, ClientTimesOutKeeps
<1>9. CASE Crash
  BY <1>9, CrashKeeps
<1>10. CASE Recover
  BY <1>10, RecoverKeeps
<1>11. CASE UNCHANGED gwVars
  BY <1>11, IdleKeeps
<1> QED
  BY <1>1, <1>2, <1>3, <1>4, <1>5, <1>6, <1>7, <1>8, <1>9, <1>10, <1>11 DEF GatewayNext

\* In every run the Gateway's streak between two calls is the one its evidence
\* shows, in the process that wrote it and in every one that recovered; a streak
\* that reaches the ceiling leaves one safety trigger; at most the last write is
\* of unknown outcome; an interpretation cites the one delivery of its turn; and
\* a shuffled batch hands every turn another turn's artifact
\* (symbol-gateway.ts, write-intent-journal.ts).
THEOREM GatewayKeepsItsPromises == GatewaySpec => []GatewaySafe
<1>1. GatewayInit => GatewayInv
  BY Starts
<1>2. GatewayInv /\ [GatewayNext]_gwVars => GatewayInv'
  BY Keeps
<1>3. GatewayInv => GatewaySafe
  BY InvIsSafe
<1> QED
  BY <1>1, <1>2, <1>3, PTL DEF GatewaySpec

---------------------------------------------------------------------------
(* Proofs about Isolation: what the boundary of a learner promises of its    *)
(* calls holds for every deadline, for every number of retries, of turns and *)
(* of appends, on every link (CallsAreSafe). The argument follows the number *)
(* of a call: every call the proxy, the wire, the relay or the host knows has *)
(* a number the proxy has given, and the one with the number it waits for is *)
(* the call it made (Fits).                                                  *)

(* The inductive invariant *)

CallPlaces == {"idle", "call", "export", "held", "returned", "quarantined"}

Results == {"none", "value", "host error", "violation", "deadline", "unavailable"}

Answers == [kind : {"none", "answer", "policy", "append"}, id : Nat, of : Calls,
            ok : BOOLEAN, policy : Nat]

Proxies == [at : CallPlaces, call : Calls, next : {"act", "update"}, turn : Nat \ {0},
            attempt : 0..RetryBudget, counter : Nat, waitsFor : Nat,
            elapsed : 0..Deadline + 1, result : Results, answer : Answers,
            cached : Nat, closed : BOOLEAN]

Servings == [call : Calls, done : BOOLEAN, asked : BOOLEAN]

\* Every variable has the shape the code gives it.
CallShapes ==
    /\ boundary \in Boundaries
    /\ proxy \in Proxies
    /\ requests \in Seq(Calls) /\ answers \in Seq(Answers)
    /\ relay \in [active : Calls, closing : BOOLEAN, closed : BOOLEAN]
    /\ host \in [serving : SUBSET Servings, policy : Nat, appends : Nat, exited : BOOLEAN]
    /\ private \in Seq([stamp : Nat, of : Calls])

\* What the proxy remembers of the call it makes, and of the answer it has.
ProxyKeeps ==
    /\ proxy.turn <= IF proxy.at = "idle" THEN LastTurn + 1 ELSE LastTurn
    /\ proxy.waitsFor <= proxy.counter
    /\ Waiting => proxy.waitsFor > 0 /\ proxy.call.method # "export"
    /\ proxy.at = "call" => proxy.call.id = proxy.waitsFor
    /\ proxy.at = "export" => proxy.answer.of = proxy.call
    /\ proxy.at \in {"held", "returned"} /\ proxy.result = "value" =>
        proxy.answer.of = proxy.call /\ proxy.cached = proxy.answer.policy
    /\ proxy.at = "returned" /\ Normalized /\ ~proxy.closed => proxy.elapsed >= Deadline
    /\ proxy.cached <= host.policy

\* A number is given to one call: the one the proxy waits for is the call it
\* made, or the fetch of the policy that the answer to it names.
Fits(c) ==
    /\ c.id <= proxy.counter
    /\ c.id = proxy.waitsFor /\ proxy.at = "call" => c = proxy.call
    /\ c.id = proxy.waitsFor /\ proxy.at = "export" => c.method = "export"

\* An answer names its call; only a fetch is answered with a policy, and only a
\* host that is the proxy's peer asks it for an append.
Truthful(a) ==
    /\ a.kind \in {"answer", "policy"} => a.id = a.of.id
    /\ a.kind = "answer" /\ a.ok => a.of.method # "export"
    /\ a.kind = "policy" => a.of.method = "export"
    /\ a.kind = "append" => boundary.link = "direct"
    /\ a.policy <= host.policy

RequestsFit == \A i \in DOMAIN requests : requests[i].id > 0 /\ Fits(requests[i])

AnswersFit == \A i \in DOMAIN answers : Fits(answers[i].of) /\ Truthful(answers[i])

ServedFit ==
    \A c \in host.serving : c.call.id > 0 /\ c.call.method # "export" /\ Fits(c.call)

\* The relay has the learner serve the call that it has active, and no other.
RelayKeeps ==
    /\ Fits(relay.active)
    /\ boundary.link = "relayed" =>
        /\ \A c, d \in host.serving : c = d
        /\ ~relay.closed => \A c \in host.serving : c.call = relay.active
        /\ \A i \in DOMAIN private : private[i].stamp = private[i].of.turn

IsolationInv ==
    CallShapes /\ ProxyKeeps /\ RequestsFit /\ AnswersFit /\ ServedFit /\ RelayKeeps

---------------------------------------------------------------------------
(* What a step may do to the proxy *)

\* The proxy waits as it did, or no longer, or for a call with a new number.
ProxyFollows ==
    \/ /\ proxy'.counter = proxy.counter
       /\ proxy'.at \in {"call", "export"} =>
            proxy'.at = proxy.at /\ proxy'.waitsFor = proxy.waitsFor /\ proxy'.call = proxy.call
    \/ proxy'.counter = proxy.counter + 1 /\ proxy'.waitsFor = proxy'.counter

\* The turns of a run are counted; a call names one of them.
LEMMA TurnsCounted == CallShapes => LastTurn \in Nat
BY IsolationAssumption DEF CallShapes, LastTurn

LEMMA CallShape ==
    \A c \in Calls : c.id \in Nat /\ c.method \in {"none", "act", "update", "export"}
                     /\ c.turn \in 0..LastTurn
BY DEF Calls

LEMMA SameCalls == boundary' = boundary => LastTurn' = LastTurn /\ Calls' = Calls
BY DEF LastTurn, Calls

LEMMA NoCallShape == CallShapes => NoCall \in Calls
BY TurnsCounted DEF NoCall, Calls

LEMMA NoAnswerShape == CallShapes => NoAnswer \in Answers
BY NoCallShape DEF NoAnswer, Answers

LEMMA AnswerShape ==
    CallShapes => \A i \in DOMAIN answers : answers[i] \in Answers /\ answers[i].of \in Calls
<1> SUFFICES ASSUME CallShapes, NEW i \in DOMAIN answers PROVE answers[i] \in Answers
  BY DEF Answers
<1> QED
  BY ElementOfSeq DEF CallShapes

LEMMA SameSets ==
    boundary' = boundary => Answers' = Answers /\ Proxies' = Proxies /\ Servings' = Servings
BY SameCalls DEF Answers, Proxies, Servings

\* A call that has a number of the proxy's keeps to it.
LEMMA FitsStays ==
    ASSUME CallShapes, proxy' \in Proxies, ProxyFollows, NEW c \in Calls, Fits(c)
    PROVE  Fits(c)'
<1>1. /\ c.id \in Nat /\ proxy.counter \in Nat /\ proxy.waitsFor \in Nat
      /\ proxy'.counter \in Nat /\ proxy'.waitsFor \in Nat
  BY CallShape DEF CallShapes, Proxies
<1> QED
  BY <1>1 DEF Fits, ProxyFollows

LEMMA ProxyAlone ==
    IsolationInv /\ proxy' \in Proxies /\ ProxyFollows /\ ProxyKeeps'
        /\ UNCHANGED <<boundary, requests, answers, relay, host, private>>
    => IsolationInv'
<1> SUFFICES ASSUME IsolationInv, proxy' \in Proxies, ProxyFollows, ProxyKeeps',
                    UNCHANGED <<boundary, requests, answers, relay, host, private>>
             PROVE  IsolationInv'
  OBVIOUS
<1>1. CallShapes'
  BY SameSets, SameCalls DEF IsolationInv, CallShapes
<1>2. \A c \in Calls : Fits(c) => Fits(c)'
  BY FitsStays DEF IsolationInv
<1>3. RequestsFit'
  BY <1>2, ElementOfSeq DEF IsolationInv, CallShapes, RequestsFit
<1>4. AnswersFit'
  <2>1. \A i \in DOMAIN answers : answers[i].of \in Calls
    BY AnswerShape DEF IsolationInv
  <2>2. \A i \in DOMAIN answers : Truthful(answers[i])'
    BY DEF IsolationInv, AnswersFit, Truthful
  <2> QED
    BY <1>2, <2>1, <2>2 DEF IsolationInv, AnswersFit
<1>5. ServedFit'
  BY <1>2 DEF IsolationInv, CallShapes, ServedFit, Servings
<1>6. RelayKeeps'
  BY <1>2 DEF IsolationInv, CallShapes, RelayKeeps
<1> QED
  BY <1>1, <1>3, <1>4, <1>5, <1>6 DEF IsolationInv

---------------------------------------------------------------------------
(* The steps of the proxy *)

LEMMA TickKeeps == IsolationInv /\ Tick => IsolationInv'
<1> SUFFICES ASSUME IsolationInv, Tick PROVE IsolationInv'
  OBVIOUS
<1>1. proxy' \in Proxies
  <2>1. proxy \in Proxies /\ proxy.elapsed \in 0..Deadline + 1
    BY DEF IsolationInv, CallShapes, Proxies
  <2>2. Deadline \in Nat
    BY IsolationAssumption
  <2>3. proxy.elapsed <= Deadline
    BY <2>1, <2>2 DEF Tick
  <2>4. proxy.elapsed + 1 \in 0..Deadline + 1
    BY <2>1, <2>2, <2>3
  <2>5. proxy' = [proxy EXCEPT !.elapsed = proxy.elapsed + 1]
    BY DEF Tick
  <2> QED
    BY <2>1, <2>4, <2>5 DEF Proxies
<1>2. /\ proxy'.at = proxy.at /\ proxy'.call = proxy.call /\ proxy'.counter = proxy.counter
      /\ proxy'.waitsFor = proxy.waitsFor /\ proxy'.turn = proxy.turn
      /\ proxy'.answer = proxy.answer /\ proxy'.result = proxy.result
      /\ proxy'.cached = proxy.cached /\ proxy.at \notin {"idle", "returned"}
      /\ boundary' = boundary /\ host' = host
  BY DEF IsolationInv, CallShapes, Tick, Proxies
<1>3. ProxyKeeps'
  BY <1>2, SameCalls DEF IsolationInv, ProxyKeeps, Waiting
<1> QED
  BY <1>1, <1>2, <1>3, ProxyAlone DEF Tick, ProxyFollows

LEMMA ReleaseKeeps == IsolationInv /\ Release => IsolationInv'
<1> SUFFICES ASSUME IsolationInv, Release PROVE IsolationInv'
  OBVIOUS
<1>1. proxy' \in Proxies
  BY DEF IsolationInv, CallShapes, Release, Proxies, CallPlaces
<1>2. /\ proxy'.at = "returned" /\ proxy.at = "held" /\ proxy'.counter = proxy.counter
      /\ proxy'.waitsFor = proxy.waitsFor /\ proxy'.turn = proxy.turn
      /\ proxy'.call = proxy.call /\ proxy'.elapsed = proxy.elapsed
      /\ proxy'.answer = proxy.answer /\ proxy'.result = proxy.result
      /\ proxy'.cached = proxy.cached /\ proxy.elapsed >= Deadline
      /\ boundary' = boundary /\ host' = host
  BY DEF IsolationInv, CallShapes, Release, Proxies
<1>3. ProxyKeeps'
  BY <1>2, SameCalls DEF IsolationInv, ProxyKeeps, Waiting
<1> QED
  BY <1>1, <1>2, <1>3, ProxyAlone DEF Release, ProxyFollows

\* A call that is settled: what it waited for no longer matters.
LEMMA Settles ==
    ASSUME IsolationInv, Waiting, NEW s \in Proxies, NEW result \in Results,
           s.call = proxy.call, s.counter = proxy.counter, s.waitsFor = proxy.waitsFor,
           s.turn = proxy.turn, s.elapsed = proxy.elapsed, s.cached <= host'.policy,
           result = "value" => s.answer.of = s.call /\ s.cached = s.answer.policy,
           boundary' = boundary, proxy' = Settle(s, result)
    PROVE  proxy' \in Proxies /\ ProxyFollows /\ ProxyKeeps'
<1>1. proxy' \in Proxies
  BY SameSets DEF Settle, Proxies, CallPlaces
<1>2. /\ proxy'.at = IF Normalized THEN "held" ELSE "returned"
      /\ proxy'.result = result /\ proxy'.call = s.call /\ proxy'.counter = s.counter
      /\ proxy'.waitsFor = s.waitsFor /\ proxy'.turn = s.turn /\ proxy'.elapsed = s.elapsed
      /\ proxy'.answer = s.answer /\ proxy'.cached = s.cached
  BY DEF Settle, Proxies
<1>3. Normalized' = Normalized
  BY <1>2 DEF Normalized
<1>4. proxy.turn <= LastTurn /\ proxy.waitsFor <= proxy.counter
  BY DEF IsolationInv, ProxyKeeps, Waiting
<1>5. ProxyKeeps'
  BY <1>2, <1>3, <1>4, SameCalls DEF ProxyKeeps, Waiting
<1> QED
  BY <1>1, <1>2, <1>5 DEF ProxyFollows

LEMMA DeadlineExceededKeeps == IsolationInv /\ DeadlineExceeded => IsolationInv'
<1> SUFFICES ASSUME IsolationInv, DeadlineExceeded PROVE IsolationInv'
  OBVIOUS
<1>1. proxy \in Proxies /\ "deadline" \in Results /\ "deadline" # "value"
  BY DEF IsolationInv, CallShapes, Results
<1>2. proxy.cached <= host'.policy
  BY DEF IsolationInv, ProxyKeeps, DeadlineExceeded
<1>3. proxy' \in Proxies /\ ProxyFollows /\ ProxyKeeps'
  BY <1>1, <1>2, Settles DEF DeadlineExceeded
<1> QED
  BY <1>3, ProxyAlone DEF DeadlineExceeded

\* A connection that closes settles the call in flight, and changes nothing else.
LEMMA Closes ==
    ASSUME IsolationInv, proxy' = Closed(proxy), boundary' = boundary,
           host'.policy = host.policy
    PROVE  proxy' \in Proxies /\ ProxyFollows /\ ProxyKeeps'
<1> PICK s : s = [proxy EXCEPT !.closed = TRUE]
  OBVIOUS
<1>1. /\ s \in Proxies /\ s.call = proxy.call /\ s.counter = proxy.counter
      /\ s.waitsFor = proxy.waitsFor /\ s.turn = proxy.turn /\ s.elapsed = proxy.elapsed
      /\ s.cached = proxy.cached /\ s.at = proxy.at /\ s.answer = proxy.answer
      /\ s.result = proxy.result /\ s.closed
  BY DEF IsolationInv, CallShapes, Proxies
<1>2. s.cached <= host'.policy
  BY <1>1 DEF IsolationInv, ProxyKeeps
<1>3. CASE Waiting
  <2>1. proxy' = Settle(s, "unavailable")
    BY <1>3 DEF Closed
  <2> QED
    BY <1>1, <1>2, <1>3, <2>1, Settles DEF Results
<1>4. CASE ~Waiting
  <2>1. proxy' = s
    BY <1>4 DEF Closed
  <2>2. ProxyKeeps'
    BY <1>1, <1>2, <1>4, <2>1, SameCalls DEF IsolationInv, ProxyKeeps, Waiting
  <2> QED
    BY <1>1, <1>4, <2>1, <2>2, SameSets DEF ProxyFollows, Waiting
<1> QED
  BY <1>3, <1>4

LEMMA RuntimeTakesKeeps == IsolationInv /\ RuntimeTakes => IsolationInv'
<1> SUFFICES ASSUME IsolationInv, RuntimeTakes PROVE IsolationInv'
  OBVIOUS
<1> PICK idle : idle = [proxy EXCEPT !.at = "idle", !.result = "none", !.call = NoCall,
                                     !.answer = NoAnswer, !.elapsed = 0, !.waitsFor = 0]
  OBVIOUS
<1>1. proxy.turn <= LastTurn /\ proxy.cached <= host.policy
  BY DEF IsolationInv, ProxyKeeps, RuntimeTakes
<1>2. /\ idle \in Proxies /\ idle.at = "idle" /\ idle.result = "none" /\ idle.waitsFor = 0
      /\ idle.turn = proxy.turn /\ idle.counter = proxy.counter /\ idle.cached = proxy.cached
      /\ idle.attempt = proxy.attempt
  <2>1. NoCall \in Calls /\ NoAnswer \in Answers /\ 0 \in 0..Deadline + 1
    BY NoCallShape, NoAnswerShape, IsolationAssumption DEF IsolationInv
  <2> QED
    BY <2>1 DEF IsolationInv, CallShapes, Proxies, CallPlaces, Results
<1>3. \/ proxy' = [idle EXCEPT !.next = "update", !.attempt = 0]
      \/ proxy' = NextTurn(idle)
      \/ proxy' = [idle EXCEPT !.at = "quarantined", !.closed = TRUE]
      \/ MayRetry /\ proxy' = [idle EXCEPT !.attempt = @ + 1]
  BY DEF RuntimeTakes
<1>4. /\ proxy' \in Proxies /\ proxy'.at \in {"idle", "quarantined"}
      /\ proxy'.turn = proxy.turn \/ (proxy'.turn = proxy.turn + 1 /\ proxy'.at = "idle")
      /\ proxy'.counter = proxy.counter /\ proxy'.waitsFor = 0
      /\ proxy'.cached = proxy.cached
  <2>1. CASE proxy' = [idle EXCEPT !.next = "update", !.attempt = 0]
    <3>1. 0 \in 0..RetryBudget
      BY IsolationAssumption
    <3> QED
      BY <1>2, <2>1, <3>1, ZenonT(60) DEF Proxies
  <2>2. CASE proxy' = NextTurn(idle)
    <3>1. 0 \in 0..RetryBudget
      BY IsolationAssumption
    <3> PICK next : next = idle.turn + 1
      OBVIOUS
    <3>2. next \in Nat \ {0} /\ next = proxy.turn + 1
      <4>1. idle.turn \in Nat \ {0}
        BY <1>2 DEF Proxies
      <4> QED
        BY <1>2, <4>1
    <3>3. proxy' = [idle EXCEPT !.turn = next, !.next = "act", !.attempt = 0]
      BY <2>2 DEF NextTurn
    <3> QED
      BY <1>2, <3>1, <3>2, <3>3, ZenonT(60) DEF Proxies
  <2>3. CASE proxy' = [idle EXCEPT !.at = "quarantined", !.closed = TRUE]
    BY <1>2, <2>3, ZenonT(60) DEF Proxies, CallPlaces
  <2>4. CASE MayRetry /\ proxy' = [idle EXCEPT !.attempt = @ + 1]
    <3>1. idle.attempt + 1 \in 0..RetryBudget
      <4>1. idle.attempt \in 0..RetryBudget /\ RetryBudget \in Nat
        BY <1>2, IsolationAssumption DEF Proxies
      <4>2. idle.attempt < RetryBudget
        BY <1>2, <2>4 DEF MayRetry
      <4> QED
        BY <4>1, <4>2
    <3> QED
      BY <1>2, <2>4, <3>1, ZenonT(60) DEF Proxies
  <2> QED
    BY <1>3, <2>1, <2>2, <2>3, <2>4
<1>5. boundary' = boundary /\ host' = host
  BY DEF RuntimeTakes
<1>6. proxy'.turn <= IF proxy'.at = "idle" THEN LastTurn + 1 ELSE LastTurn
  BY <1>1, <1>4, TurnsCounted, SMTT(30) DEF IsolationInv, CallShapes, Proxies
<1>7. ProxyKeeps'
  BY <1>1, <1>4, <1>5, <1>6, SameCalls DEF IsolationInv, CallShapes, Proxies, ProxyKeeps, Waiting
<1> QED
  BY <1>4, <1>7, ProxyAlone DEF RuntimeTakes, ProxyFollows

---------------------------------------------------------------------------
(* Messages *)

\* What the proxy does next leaves what it was told as it is.
LEMMA AllStay ==
    IsolationInv /\ proxy' \in Proxies /\ ProxyFollows => \A c \in Calls : Fits(c) => Fits(c)'
BY FitsStays DEF IsolationInv

LEMMA SameProxy ==
    proxy' = proxy => \A c \in Calls : Fits(c) => Fits(c)'
BY DEF Fits

LEMMA SameProxyKeeps ==
    IsolationInv /\ proxy' = proxy /\ boundary' = boundary /\ host'.policy \in Nat
        /\ host'.policy >= host.policy
    => ProxyKeeps'
<1> SUFFICES ASSUME IsolationInv, proxy' = proxy, boundary' = boundary,
                    host'.policy \in Nat, host'.policy >= host.policy
             PROVE  ProxyKeeps'
  OBVIOUS
<1>1. proxy.cached \in Nat /\ host.policy \in Nat /\ proxy.cached <= host.policy
  BY DEF IsolationInv, CallShapes, Proxies, ProxyKeeps
<1>2. proxy.cached <= host'.policy
  BY <1>1
<1>3. Normalized' = Normalized /\ Waiting' = Waiting
  BY DEF Normalized, Waiting
<1> QED
  BY <1>2, <1>3, SameCalls DEF IsolationInv, ProxyKeeps

\* An answer stays true as the learner's policy goes on.
LEMMA StillTruthful ==
    ASSUME NEW a \in Answers, Truthful(a), boundary' = boundary,
           host.policy \in Nat, host'.policy \in Nat, host'.policy >= host.policy
    PROVE  Truthful(a)'
<1>1. a.policy \in Nat
  BY DEF Answers
<1>2. a.policy <= host'.policy
  BY <1>1 DEF Truthful
<1> QED
  BY <1>2 DEF Truthful

\* The wire loses its first message ...
LEMMA ShorterRequests ==
    ASSUME IsolationInv, boundary' = boundary, requests # <<>>, requests' = Tail(requests),
           \A c \in Calls : Fits(c) => Fits(c)'
    PROVE  requests' \in Seq(Calls') /\ RequestsFit'
<1>1. requests' \in Seq(Calls)
  BY HeadTailProperties DEF IsolationInv, CallShapes
<1>2. ASSUME NEW i \in DOMAIN requests'
      PROVE  requests'[i] \in Calls /\ requests'[i].id > 0 /\ Fits(requests'[i])
  <2>1. i + 1 \in DOMAIN requests /\ requests'[i] = requests[i + 1]
    BY <1>2, HeadTailProperties DEF IsolationInv, CallShapes
  <2>2. requests[i + 1] \in Calls
    BY <2>1, ElementOfSeq DEF IsolationInv, CallShapes
  <2> QED
    BY <2>1, <2>2 DEF IsolationInv, RequestsFit
<1>3. RequestsFit'
  BY <1>2 DEF RequestsFit
<1> QED
  BY <1>1, <1>3, SameCalls

LEMMA ShorterAnswers ==
    ASSUME IsolationInv, boundary' = boundary, answers # <<>>, answers' = Tail(answers),
           host'.policy = host.policy, \A c \in Calls : Fits(c) => Fits(c)'
    PROVE  answers' \in Seq(Answers') /\ AnswersFit'
<1>1. answers' \in Seq(Answers)
  BY HeadTailProperties DEF IsolationInv, CallShapes
<1>2. ASSUME NEW i \in DOMAIN answers'
      PROVE  (Fits(answers[i].of) /\ Truthful(answers[i]))'
  <2>1. i + 1 \in DOMAIN answers /\ answers'[i] = answers[i + 1]
    BY <1>2, HeadTailProperties DEF IsolationInv, CallShapes
  <2> PICK a : a = answers[i + 1]
    OBVIOUS
  <2>2. a \in Answers /\ a.of \in Calls
    BY <2>1, AnswerShape DEF IsolationInv
  <2>3. Fits(a.of) /\ Truthful(a)
    BY <2>1 DEF IsolationInv, AnswersFit
  <2>4. host.policy \in Nat
    BY DEF IsolationInv, CallShapes
  <2>5. Fits(a.of)' /\ Truthful(a)'
    BY <2>2, <2>3, <2>4, StillTruthful
  <2> QED
    BY <2>1, <2>5 DEF Fits, Truthful
<1>3. AnswersFit'
  BY <1>2 DEF AnswersFit
<1> QED
  BY <1>1, <1>3, SameSets

\* ... or has one more.
LEMMA MoreRequests ==
    ASSUME IsolationInv, boundary' = boundary, NEW c \in Calls, c.id > 0, Fits(c)',
           requests' = Append(requests, c), \A d \in Calls : Fits(d) => Fits(d)'
    PROVE  requests' \in Seq(Calls') /\ RequestsFit'
<1>1. requests' \in Seq(Calls)
  BY AppendProperties DEF IsolationInv, CallShapes
<1>2. ASSUME NEW i \in DOMAIN requests'
      PROVE  (requests[i].id > 0 /\ Fits(requests[i]))'
  <2> PICK d : d = requests'[i]
    OBVIOUS
  <2>1. d.id > 0 /\ Fits(d)'
    <3>1. CASE i = Len(requests) + 1
      <4>1. d = c
        BY <3>1, AppendProperties DEF IsolationInv, CallShapes
      <4> QED
        BY <4>1
    <3>2. CASE i # Len(requests) + 1
      <4>1. i \in DOMAIN requests /\ d = requests[i]
        BY <1>2, <3>2, AppendProperties DEF IsolationInv, CallShapes
      <4>2. d \in Calls
        BY <4>1, ElementOfSeq DEF IsolationInv, CallShapes
      <4>3. d.id > 0 /\ Fits(d)
        BY <4>1 DEF IsolationInv, RequestsFit
      <4> QED
        BY <4>2, <4>3
    <3> QED
      BY <3>1, <3>2
  <2> QED
    BY <2>1 DEF Fits
<1>3. RequestsFit'
  BY <1>2 DEF RequestsFit
<1> QED
  BY <1>1, <1>3, SameCalls

LEMMA MoreAnswers ==
    ASSUME IsolationInv, boundary' = boundary, proxy' = proxy, host'.policy = host.policy,
           NEW a \in Answers, Fits(a.of), Truthful(a), answers' = Append(answers, a)
    PROVE  answers' \in Seq(Answers') /\ AnswersFit'
<1>1. answers' \in Seq(Answers)
  BY AppendProperties DEF IsolationInv, CallShapes
<1>2. ASSUME NEW i \in DOMAIN answers'
      PROVE  (Fits(answers[i].of) /\ Truthful(answers[i]))'
  <2> PICK b : b = answers'[i]
    OBVIOUS
  <2>1. Fits(b.of) /\ Truthful(b)
    <3>1. CASE i = Len(answers) + 1
      <4>1. b = a
        BY <3>1, AppendProperties DEF IsolationInv, CallShapes
      <4> QED
        BY <4>1
    <3>2. CASE i # Len(answers) + 1
      <4>1. i \in DOMAIN answers /\ b = answers[i]
        BY <1>2, <3>2, AppendProperties DEF IsolationInv, CallShapes
      <4> QED
        BY <4>1 DEF IsolationInv, AnswersFit
    <3> QED
      BY <3>1, <3>2
  <2> QED
    BY <2>1 DEF Fits, Truthful
<1>3. AnswersFit'
  BY <1>2 DEF AnswersFit
<1> QED
  BY <1>1, <1>3, SameSets

\* The answers stay where they are while the learner works.
LEMMA SameAnswers ==
    ASSUME IsolationInv, boundary' = boundary, answers' = answers,
           host'.policy \in Nat, host'.policy >= host.policy,
           \A c \in Calls : Fits(c) => Fits(c)'
    PROVE  answers' \in Seq(Answers') /\ AnswersFit'
<1>1. answers' \in Seq(Answers')
  BY SameSets DEF IsolationInv, CallShapes
<1>2. ASSUME NEW i \in DOMAIN answers
      PROVE  Fits(answers[i].of)' /\ Truthful(answers[i])'
  <2>1. host.policy \in Nat
    BY DEF IsolationInv, CallShapes
  <2>2. answers[i] \in Answers /\ answers[i].of \in Calls
    BY AnswerShape DEF IsolationInv
  <2>3. Fits(answers[i].of) /\ Truthful(answers[i])
    BY DEF IsolationInv, AnswersFit
  <2> QED
    BY <2>1, <2>2, <2>3, StillTruthful
<1> QED
  BY <1>1, <1>2 DEF AnswersFit

LEMMA SameRequests ==
    ASSUME IsolationInv, boundary' = boundary, requests' = requests,
           \A c \in Calls : Fits(c) => Fits(c)'
    PROVE  requests' \in Seq(Calls') /\ RequestsFit'
<1>1. requests' \in Seq(Calls')
  BY SameCalls DEF IsolationInv, CallShapes
<1>2. ASSUME NEW i \in DOMAIN requests PROVE requests[i].id > 0 /\ Fits(requests[i])'
  <2>1. requests[i] \in Calls
    BY ElementOfSeq DEF IsolationInv, CallShapes
  <2> QED
    BY <2>1 DEF IsolationInv, RequestsFit
<1> QED
  BY <1>1, <1>2 DEF RequestsFit

\* The host serves calls that it served.
LEMMA ServesOn ==
    ASSUME IsolationInv, boundary' = boundary, \A c \in Calls : Fits(c) => Fits(c)',
           \A d \in host'.serving : \E c \in host.serving : d.call = c.call
    PROVE  ServedFit'
BY DEF IsolationInv, CallShapes, Servings, ServedFit

\* The relay and what it watches stay as they are.
LEMMA RelaysOn ==
    ASSUME IsolationInv, boundary' = boundary, relay' = relay, private' = private,
           host'.serving = host.serving, \A c \in Calls : Fits(c) => Fits(c)'
    PROVE  RelayKeeps'
BY DEF IsolationInv, CallShapes, RelayKeeps

---------------------------------------------------------------------------
(* The proxy makes a call, and takes what its peer sends *)

\* A call of the proxy's next number, which nothing else has.
LEMMA NewNumber ==
    ASSUME IsolationInv, proxy.turn <= LastTurn,
           NEW method \in {"act", "update", "export"}, NEW c, c = Request(method),
           proxy'.counter = proxy.counter + 1, proxy'.waitsFor = proxy.counter + 1,
           proxy'.at = "call" => proxy'.call = c,
           proxy'.at = "export" => method = "export"
    PROVE  c \in Calls /\ c.id > 0 /\ c.id = proxy.counter + 1 /\ c.method = method /\ Fits(c)'
<1>1. proxy.counter \in Nat /\ proxy.turn \in Nat /\ LastTurn \in Nat
  BY TurnsCounted DEF IsolationInv, CallShapes, Proxies
<1>2. c.id = proxy.counter + 1 /\ c.method = method /\ c \in Calls
  BY <1>1 DEF Request, Calls
<1> QED
  BY <1>1, <1>2 DEF Fits

LEMMA BeginCallKeeps == IsolationInv /\ BeginCall => IsolationInv'
<1> SUFFICES ASSUME IsolationInv, BeginCall PROVE IsolationInv'
  OBVIOUS
<1> PICK c : c = Request(proxy.next)
  OBVIOUS
<1>1. /\ proxy.at = "idle" /\ proxy.turn <= LastTurn /\ proxy.next \in {"act", "update"}
      /\ proxy.counter \in Nat /\ proxy.waitsFor <= proxy.counter /\ proxy.waitsFor \in Nat
      /\ 0 \in 0..Deadline + 1 /\ NoAnswer \in Answers
      /\ UNCHANGED <<boundary, answers, relay, host, private>>
  BY NoAnswerShape, IsolationAssumption, SMTT(30) DEF IsolationInv, CallShapes, Proxies, ProxyKeeps, BeginCall
<1>2. c \in Calls /\ c.id = proxy.counter + 1 /\ c.method = proxy.next
  <2>1. proxy.turn \in Nat /\ LastTurn \in Nat
    BY TurnsCounted DEF IsolationInv, CallShapes, Proxies
  <2> QED
    BY <1>1, <2>1 DEF Request, Calls
<1>3. CASE proxy.closed
  <2>1. /\ proxy' = [proxy EXCEPT !.at = "returned", !.result = "unavailable",
                                  !.call = c, !.elapsed = 0]
        /\ requests' = requests
    BY <1>3 DEF BeginCall
  <2>2. proxy' \in Proxies
    BY <1>1, <1>2, <2>1 DEF IsolationInv, CallShapes, Proxies, CallPlaces, Results
  <2>3. /\ proxy'.at = "returned" /\ proxy'.result = "unavailable" /\ proxy'.closed
        /\ proxy'.counter = proxy.counter /\ proxy'.waitsFor = proxy.waitsFor
        /\ proxy'.turn = proxy.turn /\ proxy'.cached = proxy.cached
    BY <1>3, <2>1 DEF IsolationInv, CallShapes, Proxies
  <2>4. ProxyKeeps'
    BY <1>1, <2>3, SameCalls DEF IsolationInv, ProxyKeeps, Waiting
  <2> QED
    BY <1>1, <2>1, <2>2, <2>3, <2>4, ProxyAlone DEF ProxyFollows
<1>4. CASE ~proxy.closed
  <2> PICK counter : counter = proxy.counter + 1
    OBVIOUS
  <2>1. /\ proxy' = [proxy EXCEPT !.at = "call", !.call = c, !.waitsFor = c.id,
                                  !.counter = counter, !.elapsed = 0, !.answer = NoAnswer]
        /\ requests' = Append(requests, c)
    BY <1>4 DEF BeginCall
  <2>2. counter \in Nat /\ c.id = counter /\ counter > 0
    BY <1>1, <1>2
  <2>3. proxy' \in Proxies
    BY <1>1, <1>2, <2>1, <2>2 DEF IsolationInv, CallShapes, Proxies, CallPlaces
  <2>4. /\ proxy'.at = "call" /\ proxy'.call = c /\ proxy'.waitsFor = counter
        /\ proxy'.counter = counter /\ proxy'.turn = proxy.turn
        /\ proxy'.cached = proxy.cached
    BY <2>1, <2>2 DEF IsolationInv, CallShapes, Proxies
  <2>5. ProxyKeeps'
    BY <1>1, <1>2, <2>2, <2>4, SameCalls DEF IsolationInv, ProxyKeeps, Waiting
  <2>6. \A d \in Calls : Fits(d) => Fits(d)'
    BY <2>3, <2>4, AllStay DEF ProxyFollows
  <2>7. Fits(c)' /\ c.id > 0
    BY <2>2, <2>4 DEF Fits
  <2>8. requests' \in Seq(Calls') /\ RequestsFit'
    BY <1>1, <1>2, <2>1, <2>6, <2>7, MoreRequests
  <2>9. host'.policy \in Nat /\ host'.policy >= host.policy
    BY <1>1 DEF IsolationInv, CallShapes
  <2>10. answers' \in Seq(Answers') /\ AnswersFit'
    BY <1>1, <2>6, <2>9, SameAnswers
  <2>11. ServedFit' /\ RelayKeeps'
    BY <1>1, <2>6, ServesOn, RelaysOn
  <2>12. CallShapes'
    BY <1>1, <2>3, <2>8, <2>10, SameSets, SameCalls DEF IsolationInv, CallShapes
  <2> QED
    BY <2>5, <2>8, <2>10, <2>11, <2>12 DEF IsolationInv
<1> QED
  BY <1>3, <1>4

LEMMA FirstAnswer ==
    IsolationInv /\ answers # <<>> =>
        /\ Head(answers) \in Answers /\ Head(answers).of \in Calls
        /\ Fits(Head(answers).of) /\ Truthful(Head(answers))
<1> SUFFICES ASSUME IsolationInv, answers # <<>>
             PROVE  /\ Head(answers) \in Answers /\ Head(answers).of \in Calls
                    /\ Fits(Head(answers).of) /\ Truthful(Head(answers))
  OBVIOUS
<1>1. 1 \in DOMAIN answers /\ Head(answers) = answers[1]
  BY HeadTailProperties DEF IsolationInv, CallShapes
<1>2. answers[1] \in Answers /\ answers[1].of \in Calls
  BY <1>1, AnswerShape DEF IsolationInv
<1> QED
  BY <1>1, <1>2 DEF IsolationInv, AnswersFit

\* An answer that the host gave settles the call it answers ...
LEMMA AnswersTheCall ==
    ASSUME IsolationInv, NEW a \in Answers, a.of \in Calls, Fits(a.of), Truthful(a),
           a.kind = "answer", a.ok, Pending(a)
    PROVE  proxy.at = "call" /\ a.of = proxy.call
BY DEF IsolationInv, ProxyKeeps, Truthful, Fits, Pending, Waiting

\* ... and a policy the fetch that follows it.
LEMMA AnswersTheFetch ==
    ASSUME IsolationInv, NEW a \in Answers, a.of \in Calls, Fits(a.of), Truthful(a),
           a.kind = "policy", Pending(a)
    PROVE  proxy.at = "export" /\ proxy.answer.of = proxy.call
BY DEF IsolationInv, ProxyKeeps, Truthful, Fits, Pending, Waiting

\* What an answer makes of the proxy, and of the requests.
ProxyMoved ==
    /\ proxy' \in Proxies /\ ProxyFollows /\ ProxyKeeps'
    /\ requests' \in Seq(Calls') /\ RequestsFit'

LEMMA SettledMoved ==
    ASSUME IsolationInv, proxy' \in Proxies, ProxyFollows, ProxyKeeps',
           boundary' = boundary, requests' = requests
    PROVE  ProxyMoved
BY AllStay, SameRequests DEF ProxyMoved

LEMMA WithAnswer ==
    ASSUME IsolationInv, NEW a \in Answers, NEW s, s = [proxy EXCEPT !.answer = a]
    PROVE  /\ s \in Proxies /\ s.call = proxy.call /\ s.counter = proxy.counter
           /\ s.waitsFor = proxy.waitsFor /\ s.turn = proxy.turn /\ s.elapsed = proxy.elapsed
           /\ s.cached = proxy.cached /\ s.answer = a
BY DEF IsolationInv, CallShapes, Proxies

LEMMA FetchMoves ==
    ASSUME IsolationInv, NEW a \in Answers, proxy.at = "call", a.of = proxy.call, Fetch(a),
           boundary' = boundary, host' = host
    PROVE  ProxyMoved
<1> PICK s : s = [proxy EXCEPT !.answer = a]
  OBVIOUS
<1>1. Waiting /\ proxy.turn <= LastTurn /\ proxy.cached <= host'.policy
  BY DEF IsolationInv, ProxyKeeps, Waiting
<1>2. CASE Normalized /\ proxy.elapsed >= Deadline
  <2>1. proxy' = Settle(s, "deadline") /\ requests' = requests
    BY <1>2 DEF Fetch
  <2>2. proxy' \in Proxies /\ ProxyFollows /\ ProxyKeeps'
    BY <1>1, <2>1, WithAnswer, Settles DEF Results
  <2> QED
    BY <2>1, <2>2, SettledMoved
<1>3. CASE ~(Normalized /\ proxy.elapsed >= Deadline)
  <2> PICK c : c = Request("export")
    OBVIOUS
  <2> PICK counter : counter = proxy.counter + 1
    OBVIOUS
  <2> PICK elapsed : elapsed = IF Normalized THEN proxy.elapsed ELSE 0
    OBVIOUS
  <2>1. /\ proxy' = [proxy EXCEPT !.at = "export", !.answer = a, !.counter = counter,
                                  !.waitsFor = counter, !.elapsed = elapsed]
        /\ requests' = Append(requests, c)
    BY <1>3 DEF Fetch
  <2>2. counter \in Nat /\ counter > 0 /\ elapsed \in 0..Deadline + 1
    BY IsolationAssumption, SMTT(30) DEF IsolationInv, CallShapes, Proxies
  <2>3. proxy' \in Proxies
    BY <2>1, <2>2 DEF IsolationInv, CallShapes, Proxies, CallPlaces
  <2>4. /\ proxy'.at = "export" /\ proxy'.call = proxy.call /\ proxy'.waitsFor = counter
        /\ proxy'.counter = counter /\ proxy'.turn = proxy.turn
        /\ proxy'.cached = proxy.cached /\ proxy'.answer = a
    BY <2>1 DEF IsolationInv, CallShapes, Proxies
  <2>5. proxy.call.method # "export"
    BY DEF IsolationInv, ProxyKeeps, Waiting
  <2>6. ProxyKeeps'
    BY <1>1, <2>2, <2>4, <2>5, SameCalls DEF ProxyKeeps, Waiting
  <2>7. ProxyFollows
    BY <2>4 DEF ProxyFollows
  <2>8. \A d \in Calls : Fits(d) => Fits(d)'
    BY <2>3, <2>7, AllStay
  <2>9. c \in Calls /\ c.id > 0 /\ Fits(c)'
    BY <1>1, <2>4, NewNumber
  <2>10. requests' \in Seq(Calls') /\ RequestsFit'
    BY <2>1, <2>8, <2>9, MoreRequests
  <2> QED
    BY <2>3, <2>6, <2>7, <2>10 DEF ProxyMoved
<1> QED
  BY <1>2, <1>3

LEMMA ReceiveMoves ==
    ASSUME IsolationInv, Receive, Head(answers).kind # "append"
    PROVE  ProxyMoved /\ host' = host /\ private' = private
<1> PICK a : a = Head(answers)
  OBVIOUS
<1>1. a \in Answers /\ a.of \in Calls /\ Fits(a.of) /\ Truthful(a) /\ a.kind # "append"
  BY FirstAnswer DEF Receive
<1>2. boundary' = boundary /\ host' = host /\ private' = private
  BY <1>1 DEF Receive
<1> PICK s : s = [proxy EXCEPT !.answer = a]
  OBVIOUS
<1>3. /\ s \in Proxies /\ s.call = proxy.call /\ s.counter = proxy.counter
      /\ s.waitsFor = proxy.waitsFor /\ s.turn = proxy.turn /\ s.elapsed = proxy.elapsed
      /\ s.cached = proxy.cached /\ s.answer = a /\ s.cached <= host'.policy
  BY <1>1, <1>2, WithAnswer DEF IsolationInv, ProxyKeeps
<1>4. CASE ~Pending(a) /\ proxy' = proxy /\ requests' = requests
  <2>1. host'.policy \in Nat /\ host'.policy >= host.policy
    BY <1>2 DEF IsolationInv, CallShapes
  <2>2. ProxyKeeps'
    BY <1>2, <1>4, <2>1, SameProxyKeeps
  <2>3. proxy' \in Proxies /\ ProxyFollows
    BY <1>4 DEF IsolationInv, CallShapes, ProxyFollows
  <2> QED
    BY <1>2, <1>4, <2>2, <2>3, SettledMoved
<1>5. CASE Pending(a) /\ proxy' = Settle(s, "host error") /\ requests' = requests
  <2>1. proxy' \in Proxies /\ ProxyFollows /\ ProxyKeeps'
    BY <1>2, <1>3, <1>5, Settles DEF Results, Pending
  <2> QED
    BY <1>2, <1>5, <2>1, SettledMoved
<1>6. CASE a.kind = "answer" /\ Pending(a) /\ a.ok
  <2>1. proxy.at = "call" /\ a.of = proxy.call /\ Waiting
    BY <1>1, <1>6, AnswersTheCall DEF Waiting
  <2>2. CASE a.policy = proxy.cached
    <3> PICK result : result = IF Normalized /\ proxy.elapsed > Deadline
                               THEN "deadline" ELSE "value"
      OBVIOUS
    <3>1. proxy' = Settle(s, result) /\ requests' = requests
      BY <1>6, <2>2 DEF Receive
    <3>2. result \in Results
      BY DEF Results
    <3>3. proxy' \in Proxies /\ ProxyFollows /\ ProxyKeeps'
      BY <1>2, <1>3, <2>1, <2>2, <3>1, <3>2, Settles
    <3> QED
      BY <1>2, <3>1, <3>3, SettledMoved
  <2>3. CASE a.policy # proxy.cached
    <3>1. Fetch(a)
      BY <1>6, <2>3 DEF Receive
    <3> QED
      BY <1>1, <1>2, <2>1, <3>1, FetchMoves
  <2> QED
    BY <1>2, <2>2, <2>3
<1>7. CASE a.kind = "policy" /\ Pending(a) /\ a.ok
  <2>1. proxy.at = "export" /\ proxy.answer.of = proxy.call /\ Waiting
    BY <1>1, <1>7, AnswersTheFetch DEF Waiting
  <2>2. requests' = requests
    BY <1>7 DEF Receive
  <2>3. CASE ~Announced(a.policy)
    <3>1. proxy' = Settle(proxy, "violation")
      BY <1>7, <2>3 DEF Receive
    <3>2. proxy \in Proxies /\ proxy.cached <= host'.policy
      BY <1>3 DEF IsolationInv, CallShapes
    <3>3. proxy' \in Proxies /\ ProxyFollows /\ ProxyKeeps'
      BY <1>2, <2>1, <3>1, <3>2, Settles DEF Results
    <3> QED
      BY <1>2, <2>2, <3>3, SettledMoved
  <2>4. CASE Announced(a.policy)
    <3> PICK result : result = IF Normalized /\ proxy.elapsed > Deadline
                               THEN "deadline" ELSE "value"
      OBVIOUS
    <3> PICK t : t = [proxy EXCEPT !.cached = a.policy]
      OBVIOUS
    <3>1. proxy' = Settle(t, result)
      BY <1>7, <2>4 DEF Receive
    <3>2. a.policy \in Nat /\ a.policy <= host'.policy /\ a.policy = proxy.answer.policy
      BY <1>1, <1>2, <2>4 DEF Answers, Truthful, Announced
    <3>3. /\ t \in Proxies /\ t.call = proxy.call /\ t.counter = proxy.counter
          /\ t.waitsFor = proxy.waitsFor /\ t.turn = proxy.turn
          /\ t.elapsed = proxy.elapsed /\ t.cached = a.policy /\ t.answer = proxy.answer
      BY <3>2 DEF IsolationInv, CallShapes, Proxies
    <3>4. result \in Results
      BY DEF Results
    <3>5. proxy' \in Proxies /\ ProxyFollows /\ ProxyKeeps'
      BY <1>2, <2>1, <3>1, <3>2, <3>3, <3>4, Settles
    <3> QED
      BY <1>2, <2>2, <3>5, SettledMoved
  <2> QED
    BY <1>2, <2>3, <2>4
<1> QED
  BY <1>1, <1>2, <1>4, <1>5, <1>6, <1>7 DEF Receive

LEMMA TakeAnswerKeeps ==
    IsolationInv /\ Receive /\ Head(answers).kind # "append" => IsolationInv'
<1> SUFFICES ASSUME IsolationInv, Receive, Head(answers).kind # "append" PROVE IsolationInv'
  OBVIOUS
<1>1. ProxyMoved /\ host' = host /\ private' = private
  BY ReceiveMoves
<1>2. answers # <<>> /\ answers' = Tail(answers) /\ boundary' = boundary /\ relay' = relay
  BY DEF Receive
<1>3. \A c \in Calls : Fits(c) => Fits(c)'
  BY <1>1, AllStay DEF ProxyMoved
<1>4. answers' \in Seq(Answers') /\ AnswersFit'
  BY <1>1, <1>2, <1>3, ShorterAnswers
<1>5. ServedFit' /\ RelayKeeps'
  BY <1>1, <1>2, <1>3, ServesOn, RelaysOn
<1>6. CallShapes'
  BY <1>1, <1>2, <1>4, SameSets, SameCalls DEF IsolationInv, CallShapes, ProxyMoved
<1> QED
  BY <1>1, <1>4, <1>5, <1>6 DEF IsolationInv, ProxyMoved

\* An append of a host that is the proxy's peer.
LEMMA TakeAppendKeeps ==
    IsolationInv /\ Receive /\ Head(answers).kind = "append" => IsolationInv'
<1> SUFFICES ASSUME IsolationInv, Receive, Head(answers).kind = "append" PROVE IsolationInv'
  OBVIOUS
<1> PICK a : a = Head(answers)
  OBVIOUS
<1> PICK e : e = [stamp |-> proxy.turn, of |-> a.of]
  OBVIOUS
<1> PICK serving : serving = {[c EXCEPT !.asked = FALSE] : c \in host.serving}
  OBVIOUS
<1>1. a \in Answers /\ a.of \in Calls /\ Truthful(a) /\ a.kind = "append"
  BY FirstAnswer DEF Receive
<1>2. /\ answers # <<>> /\ answers' = Tail(answers)
      /\ private' = Append(private, e) /\ host' = [host EXCEPT !.serving = serving]
      /\ UNCHANGED <<boundary, proxy, requests, relay>>
  BY <1>1 DEF Receive
<1>3. boundary.link = "direct"
  BY <1>1 DEF Truthful
<1>4. \A c \in Calls : Fits(c) => Fits(c)'
  BY <1>2, SameProxy
<1>5. serving \in SUBSET Servings
  <2>1. \A c \in Servings : [c EXCEPT !.asked = FALSE] \in Servings
    BY DEF Servings
  <2>2. \A c \in host.serving : c \in Servings
    BY DEF IsolationInv, CallShapes
  <2> QED
    BY <2>1, <2>2
<1>6. \A d \in serving : \E c \in host.serving : d.call = c.call
  BY DEF IsolationInv, CallShapes, Servings
<1>7. /\ host'.serving = serving /\ host'.policy = host.policy /\ host.policy \in Nat
      /\ host' \in [serving : SUBSET Servings, policy : Nat, appends : Nat, exited : BOOLEAN]
  BY <1>2, <1>5 DEF IsolationInv, CallShapes
<1>8. ProxyKeeps'
  BY <1>2, <1>7, SameProxyKeeps
<1>9. answers' \in Seq(Answers') /\ AnswersFit'
  BY <1>2, <1>4, <1>7, ShorterAnswers
<1>10. requests' \in Seq(Calls') /\ RequestsFit'
  BY <1>2, <1>4, SameRequests
<1>11. ServedFit'
  BY <1>2, <1>4, <1>6, <1>7, ServesOn
<1>12. RelayKeeps'
  BY <1>2, <1>3, <1>4 DEF IsolationInv, CallShapes, RelayKeeps
<1>13. private' \in Seq([stamp : Nat, of : Calls])
  <2>1. e \in [stamp : Nat, of : Calls]
    BY <1>1 DEF IsolationInv, CallShapes, Proxies
  <2> QED
    BY <1>2, <2>1, AppendProperties DEF IsolationInv, CallShapes
<1>14. CallShapes'
  BY <1>2, <1>7, <1>9, <1>10, <1>13, SameSets, SameCalls DEF IsolationInv, CallShapes
<1> QED
  BY <1>8, <1>9, <1>10, <1>11, <1>12, <1>14 DEF IsolationInv

LEMMA ReceiveKeeps == IsolationInv /\ Receive => IsolationInv'
BY TakeAnswerKeeps, TakeAppendKeeps

---------------------------------------------------------------------------
(* The relay and the host *)

LEMMA FirstRequest ==
    IsolationInv /\ requests # <<>> =>
        Head(requests) \in Calls /\ Head(requests).id > 0 /\ Fits(Head(requests))
<1> SUFFICES ASSUME IsolationInv, requests # <<>>
             PROVE  Head(requests) \in Calls /\ Head(requests).id > 0 /\ Fits(Head(requests))
  OBVIOUS
<1>1. 1 \in DOMAIN requests /\ Head(requests) = requests[1]
  BY HeadTailProperties DEF IsolationInv, CallShapes
<1>2. requests[1] \in Calls
  BY <1>1, ElementOfSeq DEF IsolationInv, CallShapes
<1> QED
  BY <1>1, <1>2 DEF IsolationInv, RequestsFit

\* A step of the peer that leaves the proxy alone.
LEMMA PeerAlone ==
    ASSUME IsolationInv, UNCHANGED <<boundary, proxy>>,
           host' \in [serving : SUBSET Servings, policy : Nat, appends : Nat, exited : BOOLEAN],
           host'.policy >= host.policy,
           relay' \in [active : Calls, closing : BOOLEAN, closed : BOOLEAN],
           private' \in Seq([stamp : Nat, of : Calls]),
           requests' \in Seq(Calls') /\ RequestsFit', answers' \in Seq(Answers') /\ AnswersFit',
           ServedFit', RelayKeeps'
    PROVE  IsolationInv'
<1>1. ProxyKeeps'
  BY SameProxyKeeps
<1>2. CallShapes'
  BY SameSets, SameCalls DEF IsolationInv, CallShapes
<1> QED
  BY <1>1, <1>2 DEF IsolationInv

LEMMA WorkKeeps == IsolationInv /\ (\E c \in host.serving : Work(c)) => IsolationInv'
<1> SUFFICES ASSUME IsolationInv, NEW c \in host.serving, Work(c) PROVE IsolationInv'
  OBVIOUS
<1> PICK w : w = [c EXCEPT !.done = TRUE]
  OBVIOUS
<1>1. UNCHANGED <<boundary, proxy, requests, answers, relay, private>>
  BY DEF Work
<1>2. c \in Servings /\ w \in Servings /\ w.call = c.call
  BY DEF IsolationInv, CallShapes, Servings
<1>3. PICK policy : /\ policy \in {host.policy, host.policy + 1}
                    /\ host' = [host EXCEPT !.serving = (host.serving \ {c}) \cup {w},
                                            !.policy = policy]
  BY DEF Work
<1>4. policy \in Nat /\ policy >= host.policy
  BY <1>3 DEF IsolationInv, CallShapes
<1>5. /\ host' \in [serving : SUBSET Servings, policy : Nat, appends : Nat, exited : BOOLEAN]
      /\ host'.serving = (host.serving \ {c}) \cup {w} /\ host'.policy = policy
  BY <1>2, <1>3, <1>4 DEF IsolationInv, CallShapes
<1>6. \A d \in Calls : Fits(d) => Fits(d)'
  BY <1>1, SameProxy
<1>7. answers' \in Seq(Answers') /\ AnswersFit'
  BY <1>1, <1>4, <1>5, <1>6, SameAnswers
<1>8. requests' \in Seq(Calls') /\ RequestsFit'
  BY <1>1, <1>6, SameRequests
<1>9. ServedFit'
  BY <1>1, <1>2, <1>5, <1>6, ServesOn
<1>10. RelayKeeps'
  BY <1>1, <1>2, <1>5, <1>6 DEF IsolationInv, CallShapes, RelayKeeps
<1> QED
  BY <1>1, <1>4, <1>5, <1>7, <1>8, <1>9, <1>10, PeerAlone DEF IsolationInv, CallShapes

LEMMA RespondKeeps == IsolationInv /\ (\E c \in host.serving : Respond(c)) => IsolationInv'
<1> SUFFICES ASSUME IsolationInv, NEW c \in host.serving, Respond(c) PROVE IsolationInv'
  OBVIOUS
<1> PICK a : a = AnswerOf(c)
  OBVIOUS
<1>1. /\ answers' = IF relay.closed THEN answers ELSE Append(answers, a)
      /\ host' = [host EXCEPT !.serving = host.serving \ {c}]
      /\ relay' = IF relay.active = c.call THEN [relay EXCEPT !.active = NoCall] ELSE relay
      /\ UNCHANGED <<boundary, proxy, requests, private>>
  BY DEF Respond
<1>2. c \in Servings /\ c.call \in Calls /\ c.call.method # "export" /\ Fits(c.call)
  BY DEF IsolationInv, CallShapes, Servings, ServedFit
<1>3. /\ host' \in [serving : SUBSET Servings, policy : Nat, appends : Nat, exited : BOOLEAN]
      /\ host'.serving = host.serving \ {c} /\ host'.policy = host.policy /\ host.policy \in Nat
  BY <1>1 DEF IsolationInv, CallShapes
<1>4. \A d \in Calls : Fits(d) => Fits(d)'
  BY <1>1, SameProxy
<1>5. a \in Answers /\ Fits(a.of) /\ Truthful(a)
  <2>1. /\ a.kind = "answer" /\ a.id = c.call.id /\ a.of = c.call /\ a.policy = host.policy
        /\ a \in Answers
    BY <1>2, <1>3, CallShape DEF AnswerOf, Answers, Servings
  <2> QED
    BY <1>2, <1>3, <2>1 DEF Truthful
<1>6. answers' \in Seq(Answers') /\ AnswersFit'
  <2>1. CASE relay.closed
    <3>1. answers' = answers
      BY <1>1, <2>1
    <3> QED
      BY <1>1, <1>3, <1>4, <3>1, SameAnswers
  <2>2. CASE ~relay.closed
    <3>1. answers' = Append(answers, a)
      BY <1>1, <2>2
    <3> QED
      BY <1>1, <1>3, <1>5, <3>1, MoreAnswers
  <2> QED
    BY <2>1, <2>2
<1>7. requests' \in Seq(Calls') /\ RequestsFit'
  BY <1>1, <1>4, SameRequests
<1>8. ServedFit'
  BY <1>1, <1>3, <1>4, ServesOn
<1>9. /\ relay' \in [active : Calls, closing : BOOLEAN, closed : BOOLEAN]
      /\ relay'.closed = relay.closed
      /\ relay'.active = IF relay.active = c.call THEN NoCall ELSE relay.active
  BY <1>1, NoCallShape DEF IsolationInv, CallShapes
<1>10. RelayKeeps'
  <2>1. NoCall.id = 0 /\ proxy.counter \in Nat /\ (Waiting => proxy.waitsFor > 0)
    BY DEF NoCall, IsolationInv, CallShapes, Proxies, ProxyKeeps
  <2>2. Fits(NoCall)
    BY <2>1 DEF Fits, Waiting
  <2>3. Fits(relay'.active)
    BY <1>9, <2>2 DEF IsolationInv, RelayKeeps
  <2>4. Fits(relay.active)'
    BY <1>1, <2>3 DEF Fits
  <2>5. boundary.link = "relayed" => host'.serving = {}
    BY <1>3 DEF IsolationInv, RelayKeeps
  <2> QED
    BY <1>1, <2>4, <2>5 DEF IsolationInv, RelayKeeps
<1>11. private' \in Seq([stamp : Nat, of : Calls])
  BY <1>1 DEF IsolationInv, CallShapes
<1> QED
  BY <1>1, <1>3, <1>6, <1>7, <1>8, <1>9, <1>10, <1>11, PeerAlone

LEMMA LedgerAppendKeeps ==
    IsolationInv /\ (\E c \in host.serving : LedgerAppend(c)) => IsolationInv'
<1> SUFFICES ASSUME IsolationInv, NEW c \in host.serving, LedgerAppend(c)
             PROVE  IsolationInv'
  OBVIOUS
<1> PICK appends : appends = host.appends + 1
  OBVIOUS
<1>1. UNCHANGED <<boundary, proxy, requests>>
  BY DEF LedgerAppend
<1>2. c \in Servings /\ c.call \in Calls /\ Fits(c.call)
  BY DEF IsolationInv, CallShapes, Servings, ServedFit
<1>3. appends \in Nat /\ host.policy \in Nat
  BY DEF IsolationInv, CallShapes
<1>4. \A d \in Calls : Fits(d) => Fits(d)'
  BY <1>1, SameProxy
<1>5. requests' \in Seq(Calls') /\ RequestsFit'
  BY <1>1, <1>4, SameRequests
<1>6. CASE boundary.link = "direct"
  <2> PICK a : a = [NoAnswer EXCEPT !.kind = "append", !.of = c.call]
    OBVIOUS
  <2> PICK w : w = [c EXCEPT !.asked = TRUE]
    OBVIOUS
  <2>1. /\ answers' = Append(answers, a) /\ UNCHANGED <<relay, private>>
        /\ host' = [host EXCEPT !.serving = (host.serving \ {c}) \cup {w},
                                !.appends = appends]
    BY <1>6 DEF LedgerAppend
  <2>2. a \in Answers /\ a.of = c.call /\ a.kind = "append" /\ a.policy = 0
    BY <1>2, NoCallShape DEF IsolationInv, NoAnswer, Answers
  <2>3. w \in Servings /\ w.call = c.call
    BY <1>2 DEF Servings
  <2>4. /\ host' \in [serving : SUBSET Servings, policy : Nat, appends : Nat, exited : BOOLEAN]
        /\ host'.serving = (host.serving \ {c}) \cup {w} /\ host'.policy = host.policy
    BY <1>2, <1>3, <2>1, <2>3 DEF IsolationInv, CallShapes
  <2>5. Truthful(a)
    BY <1>3, <1>6, <2>2 DEF Truthful
  <2>6. answers' \in Seq(Answers') /\ AnswersFit'
    BY <1>1, <1>2, <2>1, <2>2, <2>4, <2>5, MoreAnswers
  <2>7. ServedFit'
    BY <1>1, <1>4, <2>3, <2>4, ServesOn
  <2>8. RelayKeeps'
    BY <1>1, <1>4, <1>6, <2>1 DEF IsolationInv, CallShapes, RelayKeeps
  <2> QED
    BY <1>1, <1>3, <1>5, <2>1, <2>4, <2>6, <2>7, <2>8, PeerAlone DEF IsolationInv, CallShapes
<1>7. CASE boundary.link # "direct"
  <2>1. /\ ~relay.closed /\ answers' = answers
        /\ host' = [host EXCEPT !.appends = appends]
    BY <1>7 DEF LedgerAppend
  <2>2. /\ host' \in [serving : SUBSET Servings, policy : Nat, appends : Nat, exited : BOOLEAN]
        /\ host'.serving = host.serving /\ host'.policy = host.policy
    BY <1>3, <2>1 DEF IsolationInv, CallShapes
  <2>3. answers' \in Seq(Answers') /\ AnswersFit'
    BY <1>1, <1>3, <1>4, <2>1, <2>2, SameAnswers
  <2>4. ServedFit'
    BY <1>1, <1>4, <2>2, ServesOn
  <2>5. CASE Busy
    <3> PICK e : e = [stamp |-> Stamp, of |-> c.call]
      OBVIOUS
    <3>1. private' = Append(private, e) /\ relay' = relay
      BY <1>7, <2>5 DEF LedgerAppend
    <3>2. relay.active \in Calls
      BY DEF IsolationInv, CallShapes
    <3>3. e \in [stamp : Nat, of : Calls] /\ e.stamp = relay.active.turn /\ e.of = c.call
      <4>1. relay.active.turn \in Nat
        BY <3>2, TurnsCounted, CallShape DEF IsolationInv
      <4> QED
        BY <1>2, <4>1 DEF Stamp
    <3>4. private' \in Seq([stamp : Nat, of : Calls])
      BY <3>1, <3>3, AppendProperties DEF IsolationInv, CallShapes
    <3>5. boundary.link = "relayed" => c.call = relay.active
      BY <2>1 DEF IsolationInv, RelayKeeps
    <3>6. ASSUME boundary.link = "relayed", NEW i \in DOMAIN private'
          PROVE  private'[i].stamp = private'[i].of.turn
      <4>1. CASE i = Len(private) + 1
        <5>1. private'[i] = e
          BY <3>1, <3>3, <4>1, AppendProperties DEF IsolationInv, CallShapes
        <5> QED
          BY <3>3, <3>5, <3>6, <5>1
      <4>2. CASE i # Len(private) + 1
        <5>1. i \in DOMAIN private /\ private'[i] = private[i]
          BY <3>1, <3>3, <3>6, <4>2, AppendProperties DEF IsolationInv, CallShapes
        <5> QED
          BY <3>6, <5>1 DEF IsolationInv, RelayKeeps
      <4> QED
        BY <4>1, <4>2
    <3>7. RelayKeeps'
      BY <1>1, <1>4, <2>2, <3>1, <3>2, <3>6 DEF IsolationInv, RelayKeeps
    <3> QED
      BY <1>1, <1>3, <1>5, <2>2, <2>3, <2>4, <3>1, <3>4, <3>7, PeerAlone
         DEF IsolationInv, CallShapes
  <2>6. CASE ~Busy
    <3>1. relay' = [relay EXCEPT !.closing = TRUE] /\ private' = private
      BY <1>7, <2>6 DEF LedgerAppend
    <3>2. /\ relay' \in [active : Calls, closing : BOOLEAN, closed : BOOLEAN]
          /\ relay'.active = relay.active /\ relay'.closed = relay.closed
      BY <3>1 DEF IsolationInv, CallShapes
    <3>3. RelayKeeps'
      BY <1>1, <1>4, <2>2, <3>1, <3>2 DEF IsolationInv, CallShapes, RelayKeeps
    <3> QED
      BY <1>1, <1>3, <1>5, <2>2, <2>3, <2>4, <3>1, <3>2, <3>3, PeerAlone
         DEF IsolationInv, CallShapes
  <2> QED
    BY <2>5, <2>6
<1> QED
  BY <1>6, <1>7

LEMMA ForwardKeeps == IsolationInv /\ Forward => IsolationInv'
<1> SUFFICES ASSUME IsolationInv, Forward PROVE IsolationInv'
  OBVIOUS
<1> PICK c : c = Head(requests)
  OBVIOUS
<1>1. /\ requests # <<>> /\ ~relay.closed /\ requests' = Tail(requests)
      /\ UNCHANGED <<boundary, proxy, private>>
  BY DEF Forward
<1>2. c \in Calls /\ c.id > 0 /\ Fits(c)
  BY <1>1, FirstRequest
<1>3. \A d \in Calls : Fits(d) => Fits(d)'
  BY <1>1, SameProxy
<1>4. requests' \in Seq(Calls') /\ RequestsFit'
  BY <1>1, <1>3, ShorterRequests
<1>5. host.policy \in Nat
  BY DEF IsolationInv, CallShapes
<1>6. CASE boundary.link = "relayed" /\ Busy
  <2> PICK a : a = Refusal(c)
    OBVIOUS
  <2>1. answers' = Append(answers, a) /\ relay' = [relay EXCEPT !.closing = TRUE]
        /\ host' = host
    BY <1>6 DEF Forward
  <2>2. a \in Answers /\ a.of = c /\ Truthful(a)
    BY <1>2, <1>5, CallShape DEF Refusal, Answers, Truthful
  <2>3. answers' \in Seq(Answers') /\ AnswersFit'
    BY <1>1, <1>2, <2>1, <2>2, MoreAnswers
  <2>4. ServedFit'
    BY <1>1, <1>3, <2>1, ServesOn
  <2>5. /\ relay' \in [active : Calls, closing : BOOLEAN, closed : BOOLEAN]
        /\ relay'.active = relay.active /\ relay'.closed = relay.closed
    BY <2>1 DEF IsolationInv, CallShapes
  <2>6. RelayKeeps'
    BY <1>1, <1>3, <2>1, <2>5 DEF IsolationInv, CallShapes, RelayKeeps
  <2> QED
    BY <1>1, <1>4, <1>5, <2>1, <2>3, <2>4, <2>5, <2>6, PeerAlone DEF IsolationInv, CallShapes
<1>7. CASE ~(boundary.link = "relayed" /\ Busy) /\ c.method = "export"
  <2> PICK a : a = Exported(c)
    OBVIOUS
  <2>1. answers' = Append(answers, a) /\ UNCHANGED <<host, relay>>
    BY <1>7 DEF Forward
  <2>2. a \in Answers /\ a.of = c /\ Truthful(a)
    BY <1>2, <1>5, <1>7, CallShape DEF Exported, Answers, Truthful
  <2>3. answers' \in Seq(Answers') /\ AnswersFit'
    BY <1>1, <1>2, <2>1, <2>2, MoreAnswers
  <2>4. ServedFit' /\ RelayKeeps'
    BY <1>1, <1>3, <2>1, ServesOn, RelaysOn
  <2> QED
    BY <1>1, <1>4, <1>5, <2>1, <2>3, <2>4, PeerAlone DEF IsolationInv, CallShapes
<1>8. CASE ~(boundary.link = "relayed" /\ Busy) /\ c.method # "export"
  <2> PICK w : w = Serving(c)
    OBVIOUS
  <2>1. /\ host' = [host EXCEPT !.serving = host.serving \cup {w}] /\ answers' = answers
        /\ relay' = IF boundary.link = "relayed" THEN [relay EXCEPT !.active = c] ELSE relay
    BY <1>8 DEF Forward
  <2>2. w \in Servings /\ w.call = c
    BY <1>2 DEF Serving, Servings
  <2>3. /\ host' \in [serving : SUBSET Servings, policy : Nat, appends : Nat, exited : BOOLEAN]
        /\ host'.serving = host.serving \cup {w} /\ host'.policy = host.policy
    BY <2>1, <2>2 DEF IsolationInv, CallShapes
  <2>4. answers' \in Seq(Answers') /\ AnswersFit'
    BY <1>1, <1>3, <1>5, <2>1, <2>3, SameAnswers
  <2>5. ServedFit'
    BY <1>2, <1>3, <1>8, <2>2, <2>3 DEF IsolationInv, CallShapes, Servings, ServedFit
  <2>6. /\ relay' \in [active : Calls, closing : BOOLEAN, closed : BOOLEAN]
        /\ relay'.active = IF boundary.link = "relayed" THEN c ELSE relay.active
    BY <1>2, <2>1 DEF IsolationInv, CallShapes
  <2>7. boundary.link = "relayed" => host.serving = {}
    <3>1. boundary.link = "relayed" => relay.active.id = 0
      BY <1>8 DEF Busy, NoCall
    <3> QED
      BY <1>1, <3>1 DEF IsolationInv, ServedFit, RelayKeeps
  <2>8. RelayKeeps'
    BY <1>1, <1>2, <1>3, <2>2, <2>3, <2>6, <2>7 DEF IsolationInv, CallShapes, RelayKeeps
  <2> QED
    BY <1>1, <1>4, <1>5, <2>3, <2>4, <2>5, <2>6, <2>8, PeerAlone DEF IsolationInv, CallShapes
<1> QED
  BY <1>6, <1>7, <1>8

\* Nobody has a call once the relay is closed.
LEMMA ClosedRelay ==
    ASSUME IsolationInv, boundary' = boundary, private' = private, proxy' \in Proxies,
           ProxyKeeps', relay' = [active |-> NoCall, closing |-> TRUE, closed |-> TRUE],
           host'.serving \subseteq host.serving
    PROVE  RelayKeeps'
<1>1. NoCall.id = 0 /\ proxy'.counter \in Nat /\ (Waiting' => proxy'.waitsFor > 0)
  BY DEF NoCall, Proxies, ProxyKeeps
<1>2. relay'.active = NoCall /\ relay'.closed
  OBVIOUS
<1>3. Fits(relay.active)'
  BY <1>1, <1>2 DEF Fits, Waiting
<1> QED
  BY <1>2, <1>3 DEF IsolationInv, RelayKeeps

LEMMA RelayClosesKeeps == IsolationInv /\ RelayCloses => IsolationInv'
<1> SUFFICES ASSUME IsolationInv, RelayCloses PROVE IsolationInv'
  OBVIOUS
<1>1. /\ relay' = [active |-> NoCall, closing |-> TRUE, closed |-> TRUE]
      /\ proxy' = Closed(proxy)
      /\ UNCHANGED <<boundary, requests, answers, host, private>>
  BY DEF RelayCloses
<1>2. proxy' \in Proxies /\ ProxyFollows /\ ProxyKeeps'
  BY <1>1, Closes
<1>3. \A d \in Calls : Fits(d) => Fits(d)'
  BY <1>2, AllStay
<1>4. host'.policy \in Nat /\ host'.policy >= host.policy
  BY <1>1 DEF IsolationInv, CallShapes
<1>5. requests' \in Seq(Calls') /\ RequestsFit' /\ answers' \in Seq(Answers') /\ AnswersFit'
  BY <1>1, <1>3, <1>4, SameRequests, SameAnswers
<1>6. ServedFit'
  BY <1>1, <1>3, ServesOn
<1>7. RelayKeeps'
  BY <1>1, <1>2, ClosedRelay
<1>8. CallShapes'
  BY <1>1, <1>2, <1>5, NoCallShape, SameSets, SameCalls DEF IsolationInv, CallShapes
<1> QED
  BY <1>2, <1>5, <1>6, <1>7, <1>8 DEF IsolationInv

LEMMA HostExitsKeeps == IsolationInv /\ HostExits => IsolationInv'
<1> SUFFICES ASSUME IsolationInv, HostExits PROVE IsolationInv'
  OBVIOUS
<1>1. /\ host' = [host EXCEPT !.serving = {}, !.exited = TRUE] /\ requests' = <<>>
      /\ relay' = [active |-> NoCall, closing |-> TRUE, closed |-> TRUE]
      /\ proxy' = Closed(proxy)
      /\ UNCHANGED <<boundary, answers, private>>
  BY DEF HostExits
<1>2. /\ host' \in [serving : SUBSET Servings, policy : Nat, appends : Nat, exited : BOOLEAN]
      /\ host'.serving = {} /\ host'.policy = host.policy /\ host.policy \in Nat
  BY <1>1 DEF IsolationInv, CallShapes
<1>3. proxy' \in Proxies /\ ProxyFollows /\ ProxyKeeps'
  BY <1>1, <1>2, Closes
<1>4. \A d \in Calls : Fits(d) => Fits(d)'
  BY <1>3, AllStay
<1>5. answers' \in Seq(Answers') /\ AnswersFit'
  BY <1>1, <1>2, <1>4, SameAnswers
<1>6. requests' \in Seq(Calls') /\ RequestsFit'
  BY <1>1 DEF RequestsFit
<1>7. ServedFit'
  BY <1>2 DEF ServedFit
<1>8. RelayKeeps'
  BY <1>1, <1>2, <1>3, ClosedRelay
<1>9. CallShapes'
  BY <1>1, <1>2, <1>3, <1>5, <1>6, NoCallShape, SameSets, SameCalls DEF IsolationInv, CallShapes
<1> QED
  BY <1>3, <1>5, <1>6, <1>7, <1>8, <1>9 DEF IsolationInv

---------------------------------------------------------------------------
(* The invariant, and what it says *)

LEMMA InitHolds == IsolationInit => IsolationInv
<1> SUFFICES ASSUME IsolationInit PROVE IsolationInv
  OBVIOUS
<1>1. LastTurn \in Nat
  BY IsolationAssumption DEF IsolationInit, LastTurn
<1>2. NoCall \in Calls /\ NoCall.id = 0
  BY <1>1 DEF NoCall, Calls
<1>3. NoAnswer \in Answers
  BY <1>2 DEF NoAnswer, Answers
<1>4. CallShapes
  <2>1. 0 \in 0..RetryBudget /\ 0 \in 0..Deadline + 1
    BY IsolationAssumption
  <2>2. proxy \in Proxies
    BY <1>2, <1>3, <2>1 DEF IsolationInit, Proxies, CallPlaces, Results
  <2> QED
    BY <1>2, <2>2 DEF IsolationInit, CallShapes
<1>5. ProxyKeeps
  BY <1>1 DEF IsolationInit, ProxyKeeps, Waiting
<1>6. RequestsFit /\ AnswersFit /\ ServedFit
  BY DEF IsolationInit, RequestsFit, AnswersFit, ServedFit
<1>7. RelayKeeps
  BY <1>2 DEF IsolationInit, RelayKeeps, Fits
<1> QED
  BY <1>4, <1>5, <1>6, <1>7 DEF IsolationInv

LEMMA NextKeeps == IsolationInv /\ [IsolationNext]_isoVars => IsolationInv'
<1> SUFFICES ASSUME IsolationInv, [IsolationNext]_isoVars PROVE IsolationInv'
  OBVIOUS
<1>1. CASE ProxySteps
  BY <1>1, BeginCallKeeps, ReleaseKeeps, ReceiveKeeps, DeadlineExceededKeeps, RuntimeTakesKeeps
     DEF ProxySteps
<1>2. CASE HostSteps
  BY <1>2, WorkKeeps, RespondKeeps, LedgerAppendKeeps DEF HostSteps
<1>3. CASE Tick \/ Forward \/ RelayCloses \/ HostExits
  BY <1>3, TickKeeps, ForwardKeeps, RelayClosesKeeps, HostExitsKeeps
<1>4. CASE UNCHANGED isoVars
  <2>1. proxy' \in Proxies /\ ProxyFollows /\ ProxyKeeps'
    <3>1. host'.policy \in Nat /\ host'.policy >= host.policy
      BY <1>4 DEF isoVars, IsolationInv, CallShapes
    <3>2. ProxyKeeps'
      BY <1>4, <3>1, SameProxyKeeps DEF isoVars
    <3> QED
      BY <1>4, <3>2 DEF isoVars, IsolationInv, CallShapes, ProxyFollows
  <2> QED
    BY <1>4, <2>1, ProxyAlone DEF isoVars
<1> QED
  BY <1>1, <1>2, <1>3, <1>4 DEF IsolationNext

LEMMA CallsInvIsSafe == IsolationInv => IsolationSafe
<1> SUFFICES ASSUME IsolationInv PROVE IsolationSafe
  OBVIOUS
<1>1. IsolationTypeOK
  <2>1. /\ proxy.at \in {"idle", "call", "export", "held", "returned", "quarantined"}
        /\ proxy.call \in Calls /\ proxy.elapsed \in 0..Deadline + 1
        /\ proxy.attempt \in 0..RetryBudget /\ proxy.waitsFor <= proxy.counter
        /\ requests \in Seq(Calls) /\ relay.active \in Calls
        /\ proxy.cached <= host.policy
    BY DEF IsolationInv, CallShapes, Proxies, CallPlaces, ProxyKeeps
  <2>2. proxy.turn \in 1..LastTurn + 1
    BY TurnsCounted DEF IsolationInv, CallShapes, Proxies, ProxyKeeps
  <2>3. \A c \in host.serving : c.call \in Calls /\ {c.done, c.asked} \subseteq BOOLEAN
    BY DEF IsolationInv, CallShapes, Servings
  <2> QED
    BY <2>1, <2>2, <2>3 DEF IsolationTypeOK
<1>2. AnswersItsOwnCall /\ HoldsAnnouncedPolicy /\ ReturnsOnSchedule
  BY DEF IsolationInv, ProxyKeeps, AnswersItsOwnCall, HoldsAnnouncedPolicy, ReturnsOnSchedule
<1>3. RelayedOneAtATime
  <2> SUFFICES ASSUME boundary.link = "relayed" PROVE Cardinality(host.serving) <= 1
    BY DEF RelayedOneAtATime
  <2>1. CASE host.serving = {}
    BY <2>1, FS_EmptySet
  <2>2. CASE host.serving # {}
    <3>1. PICK c : host.serving = {c}
      BY <2>2, ZenonT(60) DEF IsolationInv, RelayKeeps
    <3> QED
      BY <3>1, FS_Singleton
  <2> QED
    BY <2>1, <2>2
<1>4. StampedWithItsTurn
  BY DEF IsolationInv, RelayKeeps, StampedWithItsTurn
<1> QED
  BY <1>1, <1>2, <1>3, <1>4 DEF IsolationSafe

(* What the boundary of a learner promises of its calls holds, whatever the  *)
(* host, the relay and the timers do, and in whatever order: a value is the  *)
(* answer to the call that returns it, the policy the proxy holds is the one *)
(* announced, a normalized call returns on schedule, and behind the relay a  *)
(* learner serves one call at a time and appends to its turn                 *)
(* (remote-adapter.ts, channel.ts, learner-relay.ts).                        *)
THEOREM CallsAreSafe == IsolationSpec => []IsolationSafe
<1>1. IsolationInv /\ [IsolationNext]_isoVars => IsolationInv'
  BY NextKeeps
<1> QED
  BY <1>1, InitHolds, CallsInvIsSafe, PTL DEF IsolationSpec
---------------------------------------------------------------------------
(* The affect channel keeps its promise, for any schedule, number of         *)
(* remembered windows, of turns and of submissions.                          *)
(*                                                                           *)
(* The invariant says why a forgotten window is never answered again: the    *)
(* remembered windows are in the order of their turns, only the last can be  *)
(* open, and whatever was answered is of the last window or of an earlier    *)
(* one, of an earlier one while the last is open.                            *)

WindowTypes == [turn : Nat, status : {"open", "consumed"}]

AnswerTypes == [kind : {"affect", "rejected"}, turn : Nat, inWindow : BOOLEAN]

WindowsFit ==
    /\ clock \in Nat /\ windows \in Seq(WindowTypes)
    /\ \A i \in DOMAIN windows :
          /\ windows[i].turn <= clock /\ Due(windows[i].turn)
          /\ windows[i].status = "open" => i = Len(windows)
          /\ \A j \in DOMAIN windows : i < j => windows[i].turn < windows[j].turn

\* An answer of a turn was made, and the windows are these.
Spent(turn, seq) ==
    /\ seq # <<>> /\ turn <= seq[Len(seq)].turn
    /\ seq[Len(seq)].status = "open" => turn < seq[Len(seq)].turn

SpentFit ==
    /\ affectLog \in Seq(AnswerTypes) /\ inFlight \in Seq(AnswerTypes)
    /\ \A i \in DOMAIN AnswersMade : AnswersMade[i].inWindow => Spent(AnswersMade[i].turn, windows)
    /\ AnswersFollowWindows

AffectInv == WindowsFit /\ SpentFit

\* The answers are a sequence.
LEMMA AnswersAre ==
    ASSUME AffectInv
    PROVE  /\ AnswersMade \in Seq(AnswerTypes) /\ Len(AnswersMade) = Len(affectLog) + Len(inFlight)
           /\ Len(affectLog) \in Nat /\ Len(inFlight) \in Nat
           /\ \A i \in 1..Len(affectLog) : AnswersMade[i] = affectLog[i]
           /\ \A i \in 1..Len(inFlight) : AnswersMade[Len(affectLog) + i] = inFlight[i]
BY DEF AffectInv, SpentFit, AnswersMade

LEMMA AffectStarts == AffectInit => AffectInv
<1> SUFFICES ASSUME AffectInit PROVE AffectInv
  OBVIOUS
<1>1. windows = <<>> /\ affectLog = <<>> /\ inFlight = <<>> /\ clock = 0
  BY DEF AffectInit
<1>2. AnswersMade = <<>>
  BY <1>1 DEF AnswersMade
<1>3. DOMAIN AnswersMade = {} /\ DOMAIN windows = {}
  BY <1>1, <1>2
<1> QED
  BY <1>1, <1>3 DEF AffectInv, WindowsFit, SpentFit, AnswersFollowWindows

\* What the schedule says of a turn does not change.
LEMMA SameAnswersKeep ==
    ASSUME AffectInv, AnswersMade' = AnswersMade, affectLog' \in Seq(AnswerTypes), inFlight' \in Seq(AnswerTypes),
           \A turn \in Nat : Spent(turn, windows) => Spent(turn, windows')
    PROVE  SpentFit'
<1>1. AnswersMade \in Seq(AnswerTypes)
  BY AnswersAre
<1>2. AnswersFollowWindows'
  BY DEF AffectInv, SpentFit, AnswersFollowWindows, Due
<1>3. ASSUME NEW i \in DOMAIN AnswersMade', AnswersMade'[i].inWindow
      PROVE  Spent(AnswersMade'[i].turn, windows')
  <2>1. i \in DOMAIN AnswersMade /\ AnswersMade[i] \in AnswerTypes /\ AnswersMade[i].inWindow
    BY <1>1, <1>3
  <2>2. Spent(AnswersMade[i].turn, windows) /\ AnswersMade[i].turn \in Nat
    BY <2>1 DEF AffectInv, SpentFit, AnswerTypes
  <2> QED
    BY <2>2
<1> QED
  BY <1>2, <1>3 DEF SpentFit

\* What the history forgets leaves the last window as it is.
LEMMA EvictedIs ==
    ASSUME AffectAssumption, NEW seq \in Seq(WindowTypes), seq # <<>>
    PROVE  /\ Evicted(seq) \in Seq(WindowTypes) /\ Evicted(seq) # <<>>
           /\ Evicted(seq)[Len(Evicted(seq))] = seq[Len(seq)]
           /\ \E gone \in Nat :
                 /\ Len(Evicted(seq)) = Len(seq) - gone
                 /\ \A i \in DOMAIN Evicted(seq) : i + gone \in DOMAIN seq /\ Evicted(seq)[i] = seq[i + gone]
<1>1. WindowHistory \in Nat \ {0} /\ Len(seq) \in Nat /\ Len(seq) > 0
  BY DEF AffectAssumption
<1>2. CASE Len(seq) > WindowHistory
  <2> DEFINE gone == Len(seq) - WindowHistory
  <2>1. Evicted(seq) = SubSeq(seq, gone + 1, Len(seq))
    BY <1>2 DEF Evicted
  <2>2. gone \in Nat /\ gone + 1 \in 1..Len(seq)
    BY <1>1, <1>2
  <2>3. /\ Evicted(seq) \in Seq(WindowTypes) /\ Len(Evicted(seq)) = Len(seq) - gone
        /\ \A i \in 1..Len(seq) - gone : Evicted(seq)[i] = seq[i + gone]
    BY <1>1, <2>1, <2>2, SubSeqProperties
  <2>4. Len(seq) - gone = WindowHistory
    BY <1>1
  <2> HIDE DEF gone
  <2>5. DOMAIN Evicted(seq) = 1..Len(seq) - gone
    BY <2>3
  <2>6. Evicted(seq)[Len(Evicted(seq))] = seq[Len(seq)]
    BY <1>1, <2>2, <2>3, <2>4
  <2>7. Evicted(seq) # <<>>
    BY <1>1, <2>3, <2>4
  <2>8. \A i \in DOMAIN Evicted(seq) : i + gone \in DOMAIN seq /\ Evicted(seq)[i] = seq[i + gone]
    BY <1>1, <2>2, <2>3, <2>5
  <2> QED
    BY <2>2, <2>3, <2>6, <2>7, <2>8
<1>3. CASE ~(Len(seq) > WindowHistory)
  <2>1. Evicted(seq) = seq
    BY <1>3 DEF Evicted
  <2>2. Len(Evicted(seq)) = Len(seq) - 0 /\ \A i \in DOMAIN Evicted(seq) : i + 0 \in DOMAIN seq /\ Evicted(seq)[i] = seq[i + 0]
    BY <1>1, <2>1
  <2> QED
    BY <2>1, <2>2
<1> QED
  BY <1>2, <1>3

LEMMA OutcomeKeeps == AffectInv /\ Outcome => AffectInv'
<1> SUFFICES ASSUME AffectInv, Outcome PROVE AffectInv'
  OBVIOUS
<1>1. /\ clock' = clock + 1 /\ windows' = windows /\ affectLog' = affectLog /\ inFlight' = inFlight
  BY DEF Outcome
<1>2. clock \in Nat /\ \A i \in DOMAIN windows : windows[i].turn \in Nat
  <2>1. \A i \in DOMAIN windows : windows[i] \in WindowTypes
    BY DEF AffectInv, WindowsFit
  <2> QED
    BY <2>1 DEF AffectInv, WindowsFit, WindowTypes
<1>3. WindowsFit'
  BY <1>1, <1>2 DEF AffectInv, WindowsFit, Due
<1>4. SpentFit'
  BY <1>1, SameAnswersKeep DEF AffectInv, SpentFit, AnswersMade
<1> QED
  BY <1>3, <1>4 DEF AffectInv

LEMMA OpenWindowKeeps == AffectInv /\ OpenWindow => AffectInv'
<1> SUFFICES ASSUME AffectInv, OpenWindow PROVE AffectInv'
  OBVIOUS
<1> DEFINE opened == [turn |-> clock, status |-> "open"]
           all == Append(CloseAll, opened)
<1>1. /\ Due(clock) /\ Status(clock) = "unknown" /\ windows' = Evicted(all)
      /\ clock' = clock /\ affectLog' = affectLog /\ inFlight' = inFlight
  BY DEF OpenWindow
<1>2. windows \in Seq(WindowTypes) /\ Len(windows) \in Nat /\ DOMAIN windows = 1..Len(windows) /\ clock \in Nat
  BY DEF AffectInv, WindowsFit
<1>3. /\ CloseAll \in Seq(WindowTypes) /\ Len(CloseAll) = Len(windows)
      /\ \A i \in 1..Len(windows) : CloseAll[i].turn = windows[i].turn /\ CloseAll[i].status = "consumed"
  <2>1. \A i \in 1..Len(windows) : windows[i] \in WindowTypes
    BY <1>2
  <2> QED
    BY <1>2, <2>1 DEF CloseAll, WindowTypes
<1>4. opened \in WindowTypes
  BY <1>2 DEF WindowTypes
<1>5. /\ all \in Seq(WindowTypes) /\ Len(all) = Len(windows) + 1 /\ all # <<>>
      /\ all[Len(windows) + 1] = opened
      /\ \A i \in 1..Len(windows) : all[i].turn = windows[i].turn /\ all[i].status = "consumed"
  BY <1>2, <1>3, <1>4
<1> HIDE DEF all
\* The turn of the window that opens is later than every other's.
<1>6. \A i \in 1..Len(windows) : windows[i].turn \in Nat /\ windows[i].turn < clock
  <2> SUFFICES ASSUME NEW i \in 1..Len(windows) PROVE windows[i].turn \in Nat /\ windows[i].turn < clock
    OBVIOUS
  <2>1. windows[i] \in WindowTypes /\ windows[i].turn <= clock
    BY <1>2 DEF AffectInv, WindowsFit
  <2>2. windows[i].turn # clock
    <3> SUFFICES ASSUME windows[i].turn = clock PROVE FALSE
      OBVIOUS
    <3>1. windows[i] \in Range(windows)
      BY <1>2 DEF Range
    <3>2. PICK w \in Range(windows) : Status(clock) = w.status
      BY <3>1 DEF Status
    <3>3. w \in WindowTypes
      BY <1>2, <3>2 DEF Range
    <3> QED
      BY <1>1, <3>2, <3>3 DEF WindowTypes
  <2> QED
    BY <1>2, <2>1, <2>2 DEF WindowTypes
<1>7. /\ windows' \in Seq(WindowTypes) /\ windows' # <<>> /\ windows'[Len(windows')] = opened
  <2>1. all \in Seq(WindowTypes) /\ all # <<>> /\ windows' = Evicted(all) /\ all[Len(all)] = opened
    BY <1>1, <1>5
  <2>2. Evicted(all) \in Seq(WindowTypes) /\ Evicted(all) # <<>> /\ Evicted(all)[Len(Evicted(all))] = all[Len(all)]
    BY <2>1, EvictedIs, AffectAssumption, Zenon
  <2> QED
    BY <2>1, <2>2, Zenon
<1>8. PICK gone \in Nat :
         /\ Len(windows') = Len(all) - gone
         /\ \A i \in DOMAIN windows' : i + gone \in DOMAIN all /\ windows'[i] = all[i + gone]
  <2>1. all \in Seq(WindowTypes) /\ all # <<>> /\ windows' = Evicted(all)
    BY <1>1, <1>5
  <2> QED
    BY <2>1, EvictedIs, AffectAssumption, Zenon
<1>9. WindowsFit'
  <2> SUFFICES ASSUME NEW i \in DOMAIN windows'
               PROVE  /\ windows'[i].turn <= clock /\ Due(windows'[i].turn)
                      /\ windows'[i].status = "open" => i = Len(windows')
                      /\ \A j \in DOMAIN windows' : i < j => windows'[i].turn < windows'[j].turn
    BY <1>1, <1>2, <1>7 DEF WindowsFit, Due
  <2>1. DOMAIN windows' = 1..Len(windows') /\ Len(windows') \in Nat
    BY <1>7
  <2>2. DOMAIN all = 1..Len(windows) + 1
    BY <1>5
  <2>3. \A k \in DOMAIN all : all[k].turn \in Nat /\ all[k].turn <= clock /\ Due(all[k].turn)
    <3> SUFFICES ASSUME NEW k \in DOMAIN all PROVE all[k].turn \in Nat /\ all[k].turn <= clock /\ Due(all[k].turn)
      OBVIOUS
    <3>1. CASE k \in 1..Len(windows)
      BY <1>2, <1>5, <1>6, <3>1 DEF AffectInv, WindowsFit
    <3>2. CASE k = Len(windows) + 1
      BY <1>1, <1>2, <1>5, <3>2
    <3> QED
      BY <1>2, <2>2, <3>1, <3>2
  <2>4. \A k \in DOMAIN all : all[k].status = "open" => k = Len(windows) + 1
    <3> SUFFICES ASSUME NEW k \in DOMAIN all, k # Len(windows) + 1 PROVE all[k].status # "open"
      OBVIOUS
    <3>1. k \in 1..Len(windows)
      BY <1>2, <2>2
    <3> QED
      BY <1>5, <3>1
  <2>5. \A k, l \in DOMAIN all : k < l => all[k].turn < all[l].turn
    <3> SUFFICES ASSUME NEW k \in DOMAIN all, NEW l \in DOMAIN all, k < l PROVE all[k].turn < all[l].turn
      OBVIOUS
    <3>1. k \in 1..Len(windows)
      BY <1>2, <2>2
    <3>2. CASE l \in 1..Len(windows)
      BY <1>2, <1>5, <3>1, <3>2 DEF AffectInv, WindowsFit
    <3>3. CASE l = Len(windows) + 1
      BY <1>5, <1>6, <3>1, <3>3
    <3> QED
      BY <1>2, <2>2, <3>2, <3>3
  <2>6. windows'[i].turn <= clock /\ Due(windows'[i].turn)
    BY <1>8, <2>3
  <2>7. windows'[i].status = "open" => i = Len(windows')
    BY <1>2, <1>5, <1>8, <2>1, <2>4
  <2>8. \A j \in DOMAIN windows' : i < j => windows'[i].turn < windows'[j].turn
    BY <1>8, <2>1, <2>5
  <2> QED
    BY <2>6, <2>7, <2>8
<1>10. \A turn \in Nat : Spent(turn, windows) => Spent(turn, windows')
  <2> SUFFICES ASSUME NEW turn \in Nat, Spent(turn, windows) PROVE turn < clock
    BY <1>2, <1>7 DEF Spent
  <2>1. Len(windows) \in 1..Len(windows) /\ turn <= windows[Len(windows)].turn
    BY <1>2 DEF Spent
  <2> QED
    BY <1>2, <1>6, <2>1
<1>11. SpentFit'
  BY <1>1, <1>10, SameAnswersKeep DEF AffectInv, SpentFit, AnswersMade
<1> QED
  BY <1>9, <1>11 DEF AffectInv

\* A turn whose window is open is that of the last window.
LEMMA OpenIsLast ==
    ASSUME AffectInv, NEW turn, Status(turn) = "open"
    PROVE  windows # <<>> /\ windows[Len(windows)].turn = turn /\ windows[Len(windows)].status = "open"
<1>1. windows \in Seq(WindowTypes) /\ DOMAIN windows = 1..Len(windows) /\ Len(windows) \in Nat
  BY DEF AffectInv, WindowsFit
<1>2. PICK w \in Range(windows) : w.turn = turn /\ w.status = "open"
  <2>1. \E w \in Range(windows) : w.turn = turn
    BY DEF Status
  <2> DEFINE w == CHOOSE w \in Range(windows) : w.turn = turn
  <2>2. w \in Range(windows) /\ w.turn = turn
    BY <2>1
  <2>3. w.status = "open"
    BY <2>1 DEF Status
  <2> QED
    BY <2>2, <2>3
<1>3. PICK i \in DOMAIN windows : windows[i] = w
  BY <1>2 DEF Range
<1>4. i = Len(windows)
  BY <1>2, <1>3 DEF AffectInv, WindowsFit
<1> QED
  BY <1>1, <1>2, <1>3, <1>4

\* What was spent of a window stays so.
LEMMA ConsumedKeeps ==
    ASSUME AffectInv, NEW turn, windows' = Consumed(turn), clock' = clock
    PROVE  /\ WindowsFit'
           /\ \A t \in Nat : Spent(t, windows) => Spent(t, windows')
           /\ \A t \in Nat : Status(turn) = "open" /\ t = turn => Spent(t, windows')
<1>1. windows \in Seq(WindowTypes) /\ DOMAIN windows = 1..Len(windows) /\ Len(windows) \in Nat
  BY DEF AffectInv, WindowsFit
<1>2. \A i \in 1..Len(windows) : windows[i] \in WindowTypes
  BY <1>1
<1>3. /\ windows' \in Seq(WindowTypes) /\ Len(windows') = Len(windows) /\ DOMAIN windows' = 1..Len(windows)
      /\ \A i \in 1..Len(windows) : /\ windows'[i].turn = windows[i].turn
                                    /\ windows'[i].status \in {windows[i].status, "consumed"}
                                    /\ windows[i].turn = turn => windows'[i].status = "consumed"
  BY <1>1, <1>2 DEF Consumed, WindowTypes
<1>4. WindowsFit'
  <2> SUFFICES ASSUME NEW i \in DOMAIN windows'
               PROVE  /\ windows'[i].turn <= clock /\ Due(windows'[i].turn)
                      /\ windows'[i].status = "open" => i = Len(windows)
                      /\ \A j \in DOMAIN windows' : i < j => windows'[i].turn < windows'[j].turn
    BY <1>3 DEF AffectInv, WindowsFit, Due
  <2>1. i \in DOMAIN windows
    BY <1>1, <1>3
  <2> QED
    BY <1>1, <1>3, <2>1 DEF AffectInv, WindowsFit
<1>5. windows # <<>> => windows' # <<>> /\ Len(windows) \in 1..Len(windows)
  BY <1>1, <1>3
<1>6. ASSUME NEW t \in Nat, Spent(t, windows) PROVE Spent(t, windows')
  BY <1>3, <1>5, <1>6 DEF Spent
<1>7. ASSUME NEW t \in Nat, Status(turn) = "open", t = turn PROVE Spent(t, windows')
  <2>1. windows # <<>> /\ windows[Len(windows)].turn = turn
    BY <1>7, OpenIsLast
  <2>2. windows'[Len(windows')].turn = t /\ windows'[Len(windows')].status = "consumed"
    BY <1>3, <1>5, <1>7, <2>1
  <2> QED
    BY <1>5, <1>7, <2>1, <2>2 DEF Spent
<1> QED
  BY <1>4, <1>6, <1>7

\* An answer that is made is the last one, whose turn is later than that of any other.
LEMMA SubmitsKeeps ==
    ASSUME AffectInv, NEW turn \in Nat, NEW kind \in {"affect", "rejected"}, NEW inWindow \in BOOLEAN,
           affectLog' = affectLog,
           inFlight' = Append(inFlight, [kind |-> kind, turn |-> turn, inWindow |-> inWindow]),
           \A t \in Nat : Spent(t, windows) => Spent(t, windows'),
           inWindow => Status(turn) = "open" /\ Spent(turn, windows')
    PROVE  SpentFit'
<1> DEFINE new == [kind |-> kind, turn |-> turn, inWindow |-> inWindow]
<1>1. new \in AnswerTypes
  BY DEF AnswerTypes
<1>2. inFlight' \in Seq(AnswerTypes) /\ affectLog' \in Seq(AnswerTypes)
  BY <1>1 DEF AffectInv, SpentFit
<1>3. AnswersMade' = Append(AnswersMade, new)
  BY <1>1 DEF AnswersMade, AffectInv, SpentFit
<1>4. AnswersMade \in Seq(AnswerTypes) /\ Len(AnswersMade) \in Nat
  BY AnswersAre
<1>5. DOMAIN AnswersMade' = 1..Len(AnswersMade) + 1
  BY <1>1, <1>3, <1>4
<1>6. /\ AnswersMade'[Len(AnswersMade) + 1] = new
      /\ \A i \in 1..Len(AnswersMade) : AnswersMade'[i] = AnswersMade[i] /\ AnswersMade[i] \in AnswerTypes
  BY <1>1, <1>3, <1>4
<1>7. \A i \in 1..Len(AnswersMade) :
         AnswersMade[i].inWindow => Spent(AnswersMade[i].turn, windows) /\ Due(AnswersMade[i].turn)
  BY <1>4 DEF AffectInv, SpentFit, AnswersFollowWindows
<1> HIDE DEF new
<1>8. new.turn = turn /\ new.inWindow = inWindow
  BY DEF new
<1>9. inWindow => /\ Due(turn)
                  /\ \A i \in 1..Len(AnswersMade) : AnswersMade[i].inWindow => AnswersMade[i].turn < turn
  <2> SUFFICES ASSUME inWindow
               PROVE  /\ Due(turn)
                      /\ \A i \in 1..Len(AnswersMade) : AnswersMade[i].inWindow => AnswersMade[i].turn < turn
    OBVIOUS
  <2>1. windows # <<>> /\ windows[Len(windows)].turn = turn /\ windows[Len(windows)].status = "open"
    BY OpenIsLast
  <2>2. Len(windows) \in DOMAIN windows
    BY <2>1 DEF AffectInv, WindowsFit
  <2> QED
    BY <1>7, <2>1, <2>2 DEF AffectInv, WindowsFit, Spent
<1>10. ASSUME NEW i \in DOMAIN AnswersMade', AnswersMade'[i].inWindow
       PROVE  /\ Spent(AnswersMade'[i].turn, windows') /\ Due(AnswersMade'[i].turn)
              /\ \A j \in DOMAIN AnswersMade' :
                    i < j /\ AnswersMade'[j].inWindow => AnswersMade'[i].turn < AnswersMade'[j].turn
  <2>1. CASE i = Len(AnswersMade) + 1
    <3>1. inWindow /\ AnswersMade'[i].turn = turn
      BY <1>6, <1>8, <1>10, <2>1
    <3>2. \A j \in DOMAIN AnswersMade' : ~(i < j)
      BY <1>4, <1>5, <2>1
    <3> QED
      BY <1>9, <3>1, <3>2
  <2>2. CASE i \in 1..Len(AnswersMade)
    <3>1. AnswersMade'[i] = AnswersMade[i] /\ AnswersMade[i].turn \in Nat /\ AnswersMade[i].inWindow
      BY <1>6, <1>10, <2>2 DEF AnswerTypes
    <3>2. Spent(AnswersMade[i].turn, windows') /\ Due(AnswersMade[i].turn)
      BY <1>7, <2>2, <3>1
    <3>3. ASSUME NEW j \in DOMAIN AnswersMade', i < j, AnswersMade'[j].inWindow
          PROVE  AnswersMade[i].turn < AnswersMade'[j].turn
      <4>1. CASE j = Len(AnswersMade) + 1
        BY <1>6, <1>8, <1>9, <2>2, <3>1, <3>3, <4>1
      <4>2. CASE j \in 1..Len(AnswersMade)
        <5>1. AnswersMade'[j] = AnswersMade[j] /\ i \in DOMAIN AnswersMade /\ j \in DOMAIN AnswersMade
          BY <1>4, <1>6, <2>2, <4>2
        <5> QED
          BY <3>1, <3>3, <5>1 DEF AffectInv, SpentFit, AnswersFollowWindows
      <4> QED
        BY <1>4, <1>5, <4>1, <4>2
    <3> QED
      BY <3>1, <3>2, <3>3
  <2> QED
    BY <1>4, <1>5, <2>1, <2>2
<1>11. AnswersFollowWindows'
  BY <1>10 DEF AnswersFollowWindows, Due
<1> QED
  BY <1>2, <1>10, <1>11 DEF SpentFit

LEMMA SubmissionKeeps == AffectInv /\ Submission => AffectInv'
<1> SUFFICES ASSUME AffectInv, NEW turn \in 0..clock,
                    SubmitOutside(turn) \/ SubmitAffect(turn) \/ RecordDerivedAffect(turn)
             PROVE  AffectInv'
  BY DEF Submission
<1>1. turn \in Nat
  BY DEF AffectInv, WindowsFit
<1>2. CASE SubmitOutside(turn)
  <2>1. /\ windows' = windows /\ clock' = clock /\ affectLog' = affectLog
        /\ inFlight' = Append(inFlight, [kind |-> "rejected", turn |-> turn, inWindow |-> FALSE])
    BY <1>2 DEF SubmitOutside, Submits
  <2>2. SpentFit'
    BY <1>1, <2>1, SubmitsKeeps
  <2>3. WindowsFit'
    BY <2>1 DEF AffectInv, WindowsFit, Due
  <2> QED
    BY <2>2, <2>3 DEF AffectInv
<1>3. CASE SubmitAffect(turn) \/ RecordDerivedAffect(turn)
  <2>1. PICK kind \in {"affect", "rejected"} :
           inFlight' = Append(inFlight, [kind |-> kind, turn |-> turn, inWindow |-> TRUE])
    BY <1>3 DEF SubmitAffect, RecordDerivedAffect, Submits
  <2>2. Status(turn) = "open" /\ windows' = Consumed(turn) /\ clock' = clock /\ affectLog' = affectLog
    BY <1>3 DEF SubmitAffect, RecordDerivedAffect, Submits
  <2>3. /\ WindowsFit' /\ \A t \in Nat : Spent(t, windows) => Spent(t, windows')
        /\ Spent(turn, windows')
    BY <1>1, <2>2, ConsumedKeeps
  <2>4. SpentFit'
    BY <1>1, <2>1, <2>2, <2>3, SubmitsKeeps
  <2> QED
    BY <2>3, <2>4 DEF AffectInv
<1> QED
  BY <1>2, <1>3

LEMMA AppendArrivesKeeps == AffectInv /\ AppendArrives => AffectInv'
<1> SUFFICES ASSUME AffectInv, AppendArrives PROVE AffectInv'
  OBVIOUS
<1>1. /\ inFlight # <<>> /\ inFlight' = Tail(inFlight) /\ windows' = windows /\ clock' = clock
      /\ affectLog' = affectLog \/ affectLog' = Append(affectLog, Head(inFlight))
  BY DEF AppendArrives
<1>2. affectLog \in Seq(AnswerTypes) /\ inFlight \in Seq(AnswerTypes)
  BY DEF AffectInv, SpentFit
<1>3. /\ Head(inFlight) \in AnswerTypes /\ Tail(inFlight) \in Seq(AnswerTypes)
      /\ Len(Tail(inFlight)) = Len(inFlight) - 1 /\ Len(inFlight) \in Nat \ {0}
      /\ \A i \in 1..Len(inFlight) - 1 : Tail(inFlight)[i] = inFlight[i + 1]
  BY <1>1, <1>2
<1>4. affectLog' \in Seq(AnswerTypes) /\ inFlight' \in Seq(AnswerTypes)
  <2>1. Append(affectLog, Head(inFlight)) \in Seq(AnswerTypes)
    BY <1>2, <1>3
  <2> QED
    BY <1>1, <1>2, <1>3, <2>1
<1>5. WindowsFit'
  BY <1>1 DEF AffectInv, WindowsFit, Due
<1>6. CASE affectLog' = Append(affectLog, Head(inFlight))
  <2>1. AnswersMade' = AnswersMade
    <3>1. inFlight = <<Head(inFlight)>> \o Tail(inFlight)
      BY <1>1, <1>2
    <3>2. Append(affectLog, Head(inFlight)) = affectLog \o <<Head(inFlight)>>
      BY <1>2, <1>3
    <3> QED
      BY <1>1, <1>2, <1>3, <1>6, <3>1, <3>2 DEF AnswersMade
  <2> QED
    BY <1>1, <1>4, <1>5, <2>1, SameAnswersKeep DEF AffectInv
<1>7. CASE affectLog' = affectLog
  <2> DEFINE old(i) == IF i <= Len(affectLog) THEN i ELSE i + 1
  <2>1. DOMAIN AnswersMade = 1..Len(affectLog) + Len(inFlight) /\ Len(affectLog) \in Nat
    BY <1>2, AnswersAre
  <2>2. DOMAIN AnswersMade' = 1..Len(affectLog) + Len(inFlight) - 1
    BY <1>1, <1>2, <1>3, <1>7 DEF AnswersMade
  <2>3. \A i \in DOMAIN AnswersMade' : old(i) \in DOMAIN AnswersMade /\ AnswersMade'[i] = AnswersMade[old(i)]
    <3> SUFFICES ASSUME NEW i \in DOMAIN AnswersMade'
                 PROVE  old(i) \in DOMAIN AnswersMade /\ AnswersMade'[i] = AnswersMade[old(i)]
      OBVIOUS
    <3>1. CASE i <= Len(affectLog)
      <4>1. AnswersMade'[i] = affectLog[i]
        BY <1>1, <1>2, <1>3, <1>7, <2>2, <3>1 DEF AnswersMade
      <4>2. i \in 1..Len(affectLog)
        BY <2>1, <2>2, <3>1
      <4> QED
        BY <1>3, <2>1, <3>1, <4>1, <4>2, AnswersAre
    <3>2. CASE i > Len(affectLog)
      <4>1. i - Len(affectLog) \in 1..Len(inFlight) - 1
        BY <1>3, <2>1, <2>2, <3>2
      <4>2. AnswersMade'[i] = Tail(inFlight)[i - Len(affectLog)]
        BY <1>1, <1>2, <1>3, <1>7, <2>1, <4>1 DEF AnswersMade
      <4>3. /\ i - Len(affectLog) + 1 \in 1..Len(inFlight)
            /\ Len(affectLog) + (i - Len(affectLog) + 1) = i + 1
        BY <1>3, <2>1, <4>1, SMTT(30)
      <4>4. AnswersMade[i + 1] = inFlight[i - Len(affectLog) + 1]
        BY <4>3, AnswersAre
      <4>5. old(i) = i + 1 /\ i + 1 \in DOMAIN AnswersMade
        BY <1>3, <2>1, <2>2, <3>2
      <4> QED
        BY <1>3, <4>1, <4>2, <4>4, <4>5
    <3> QED
      BY <2>1, <2>2, <3>1, <3>2
  <2>4. \A i, j \in DOMAIN AnswersMade' : i < j => old(i) < old(j)
    BY <1>3, <2>1, <2>2
  <2> HIDE DEF old
  <2>5. AnswersFollowWindows'
    BY <2>3, <2>4 DEF AffectInv, SpentFit, AnswersFollowWindows, Due
  <2>6. \A i \in DOMAIN AnswersMade' : AnswersMade'[i].inWindow => Spent(AnswersMade'[i].turn, windows')
    BY <1>1, <2>3 DEF AffectInv, SpentFit
  <2> QED
    BY <1>4, <1>5, <2>5, <2>6 DEF AffectInv, SpentFit
<1> QED
  BY <1>1, <1>6, <1>7

LEMMA AffectKeeps == AffectInv /\ [AffectNext]_affVars => AffectInv'
<1> SUFFICES ASSUME AffectInv, [AffectNext]_affVars PROVE AffectInv'
  OBVIOUS
<1>1. CASE TakePrivateMeasurements \/ UNCHANGED affVars
  <2>1. windows' = windows /\ clock' = clock /\ affectLog' = affectLog /\ inFlight' = inFlight
    BY <1>1 DEF TakePrivateMeasurements, affVars
  <2>2. SpentFit'
    BY <2>1, SameAnswersKeep DEF AffectInv, SpentFit, AnswersMade
  <2>3. WindowsFit'
    BY <2>1 DEF AffectInv, WindowsFit, Due
  <2> QED
    BY <2>2, <2>3 DEF AffectInv
<1> QED
  BY <1>1, OutcomeKeeps, OpenWindowKeeps, SubmissionKeeps, AppendArrivesKeeps DEF AffectNext
---------------------------------------------------------------------------
(* What a carrier lets through is what its validator accepts, for any set of *)
(* marks and any bounds: what is delivered in the sender's place is valid    *)
(* because a drawn run of a mark is shorter than the bound (RunsAreShort,    *)
(* DrawnRunsAreShort), a drawn, constant or provided artifact passes         *)
(* (RandomArtifactsPass, ConstantArtifactPasses), and an accepted envelope   *)
(* holds nothing beside its marks (AcceptedIs).                              *)

\* The rule that decides is the first that holds.
LEMMA FirstIs ==
    ASSUME NEW n \in Nat, NEW rules, DOMAIN rules = 1..n
    PROVE  \/ FirstOf(rules) = "ok" /\ \A i \in 1..n : ~rules[i][1]
           \/ \E i \in 1..n : rules[i][1] /\ FirstOf(rules) = rules[i][2]
<1> DEFINE hit == {i \in DOMAIN rules : rules[i][1]}
<1>1. CASE hit = {}
  BY <1>1 DEF FirstOf
<1>2. CASE hit # {}
  <2>1. \E i \in hit : \A j \in hit : i <= j
    <3>1. hit \subseteq Nat
      OBVIOUS
    <3> QED
      BY <1>2, <3>1, LeastOf
  <2>2. FirstOf(rules) = rules[CHOOSE i \in hit : \A j \in hit : i <= j][2]
    BY <1>2 DEF FirstOf
  <2> QED
    BY <2>1, <2>2
<1> QED
  BY <1>1, <1>2

\* What a list of a carrier has to be.
ListPasses(c, list) ==
    /\ ~Symbolic(c) => Strings(list) = {}
    /\ c # "bitmap" => Len(list) # 0 /\ ~(Len(list) > MaxMarks)
    /\ c = "bitmap" => Len(list) = BitCount
    /\ ListFailure(c, list) = "ok"
    /\ Symbolic(c) => ~(LongestRun(list) > MaxRepeats)

LEMMA ValidatedPasses ==
    ASSUME NEW c, NEW p, Validate(c, p) = "ok"
    PROVE  p.extraTop = "none" /\ p.extra = "none" /\ p.shape # "no-artifact" /\ ListPasses(c, p.value)
<1> DEFINE list == p.value
           text == ~Symbolic(c) /\ Strings(list) # {}
           rules == <<
        <<p.extraTop # "none", ExtraFieldFailure(p.extraTop)>>,
        <<p.shape = "no-artifact", "invalid-envelope">>,
        <<p.extra # "none", ExtraFieldFailure(p.extra)>>,
        <<p.shape = "no-list" /\ ~text, "invalid-envelope">>,
        <<text, "free-text-present">>,
        <<Len(list) = 0 /\ c # "bitmap", "empty-message">>,
        <<Len(list) > MaxMarks /\ c # "bitmap", "message-too-long">>,
        <<Len(list) # BitCount /\ c = "bitmap", "bitmap-size-invalid">>,
        <<ListFailure(c, list) # "ok", ListFailure(c, list)>>,
        <<Symbolic(c) /\ LongestRun(list) > MaxRepeats, "symbol-repeat-limit">> >>
<1>1. FirstOf(rules) = "ok"
  BY DEF Validate
<1>2. DOMAIN rules = 1..10
  OBVIOUS
<1>3. /\ rules[1] = <<p.extraTop # "none", ExtraFieldFailure(p.extraTop)>>
      /\ rules[2] = <<p.shape = "no-artifact", "invalid-envelope">>
      /\ rules[3] = <<p.extra # "none", ExtraFieldFailure(p.extra)>>
      /\ rules[4] = <<p.shape = "no-list" /\ ~text, "invalid-envelope">>
      /\ rules[5] = <<text, "free-text-present">>
      /\ rules[6] = <<Len(list) = 0 /\ c # "bitmap", "empty-message">>
      /\ rules[7] = <<Len(list) > MaxMarks /\ c # "bitmap", "message-too-long">>
      /\ rules[8] = <<Len(list) # BitCount /\ c = "bitmap", "bitmap-size-invalid">>
      /\ rules[9] = <<ListFailure(c, list) # "ok", ListFailure(c, list)>>
      /\ rules[10] = <<Symbolic(c) /\ LongestRun(list) > MaxRepeats, "symbol-repeat-limit">>
  OBVIOUS
<1>4. /\ rules[1][1] <=> p.extraTop # "none"
      /\ rules[2][1] <=> p.shape = "no-artifact"
      /\ rules[3][1] <=> p.extra # "none"
      /\ rules[4][1] <=> p.shape = "no-list" /\ ~text
      /\ rules[5][1] <=> text
      /\ rules[6][1] <=> Len(list) = 0 /\ c # "bitmap"
      /\ rules[7][1] <=> Len(list) > MaxMarks /\ c # "bitmap"
      /\ rules[8][1] <=> Len(list) # BitCount /\ c = "bitmap"
      /\ rules[9][1] <=> ListFailure(c, list) # "ok"
      /\ rules[10][1] <=> Symbolic(c) /\ LongestRun(list) > MaxRepeats
  BY <1>3
<1>5. /\ rules[1][2] = ExtraFieldFailure(p.extraTop) /\ rules[2][2] = "invalid-envelope"
      /\ rules[3][2] = ExtraFieldFailure(p.extra) /\ rules[4][2] = "invalid-envelope"
      /\ rules[5][2] = "free-text-present" /\ rules[6][2] = "empty-message"
      /\ rules[7][2] = "message-too-long" /\ rules[8][2] = "bitmap-size-invalid"
      /\ rules[9][2] = ListFailure(c, list) /\ rules[10][2] = "symbol-repeat-limit"
  BY <1>3
<1> HIDE DEF rules
<1>6. \A i \in 1..10 : rules[i][1] => rules[i][2] # "ok"
  <2>1. ExtraFieldFailure(p.extraTop) # "ok" /\ ExtraFieldFailure(p.extra) # "ok"
    BY DEF ExtraFieldFailure
  <2>2. \A i \in 1..10 : i \in {1, 2, 3, 4, 5, 6, 7, 8, 9, 10}
    OBVIOUS
  <2> QED
    BY <1>4, <1>5, <2>1, <2>2
<1>7. \A i \in 1..10 : ~rules[i][1]
  BY <1>1, <1>2, <1>6, FirstIs
<1> QED
  BY <1>4, <1>7 DEF ListPasses

\* What such a list is in a proposal that is clean passes.
LEMMA CleanPasses ==
    ASSUME NEW c, NEW list, ListPasses(c, list)
    PROVE  Validate(c, Clean(c, list)) = "ok"
<1> DEFINE p == Clean(c, list)
           text == ~Symbolic(c) /\ Strings(list) # {}
           rules == <<
        <<p.extraTop # "none", ExtraFieldFailure(p.extraTop)>>,
        <<p.shape = "no-artifact", "invalid-envelope">>,
        <<p.extra # "none", ExtraFieldFailure(p.extra)>>,
        <<p.shape = "no-list" /\ ~text, "invalid-envelope">>,
        <<text, "free-text-present">>,
        <<Len(list) = 0 /\ c # "bitmap", "empty-message">>,
        <<Len(list) > MaxMarks /\ c # "bitmap", "message-too-long">>,
        <<Len(list) # BitCount /\ c = "bitmap", "bitmap-size-invalid">>,
        <<ListFailure(c, list) # "ok", ListFailure(c, list)>>,
        <<Symbolic(c) /\ LongestRun(list) > MaxRepeats, "symbol-repeat-limit">> >>
<1>1. p.value = list /\ p.extraTop = "none" /\ p.extra = "none" /\ p.shape = "list"
  BY DEF Clean
<1>2. Validate(c, p) = FirstOf(rules)
  BY <1>1 DEF Validate
<1>3. DOMAIN rules = 1..10
  OBVIOUS
<1>4. /\ rules[1][1] <=> p.extraTop # "none"
      /\ rules[2][1] <=> p.shape = "no-artifact"
      /\ rules[3][1] <=> p.extra # "none"
      /\ rules[4][1] <=> p.shape = "no-list" /\ ~text
      /\ rules[5][1] <=> text
      /\ rules[6][1] <=> Len(list) = 0 /\ c # "bitmap"
      /\ rules[7][1] <=> Len(list) > MaxMarks /\ c # "bitmap"
      /\ rules[8][1] <=> Len(list) # BitCount /\ c = "bitmap"
      /\ rules[9][1] <=> ListFailure(c, list) # "ok"
      /\ rules[10][1] <=> Symbolic(c) /\ LongestRun(list) > MaxRepeats
  OBVIOUS
<1> HIDE DEF rules, p
<1>5. \A i \in 1..10 : ~rules[i][1]
  <2>1. \A i \in 1..10 : i \in {1, 2, 3, 4, 5, 6, 7, 8, 9, 10}
    OBVIOUS
  <2> QED
    BY <1>1, <1>4, <2>1 DEF ListPasses
<1> QED
  BY <1>2, <1>3, <1>5, FirstIs DEF p

\* What an accepted proposal is.
LEMMA AcceptedIs ==
    ASSUME NEW c, NEW p, ValidateProposal(c, p) = "ok"
    PROVE  "shape" \notin p.flaws /\ p.kind = KindOf[c] /\ Validate(c, p) = "ok"
<1> DEFINE rules == <<
        <<"shape" \in p.flaws, "invalid-envelope">>,
        <<"complex" \in p.flaws, "payload-too-complex">>,
        <<"trusted" \in p.flaws, "trusted-metadata-present">>,
        <<"draft" \in p.flaws, "missing-intention">>,
        <<p.kind # KindOf[c], "carrier-mismatch">>,
        <<TRUE, Validate(c, p)>> >>
<1>1. FirstOf(rules) = "ok"
  BY DEF ValidateProposal
<1>2. DOMAIN rules = 1..6
  OBVIOUS
<1>3. /\ rules[1] = <<"shape" \in p.flaws, "invalid-envelope">>
      /\ rules[2] = <<"complex" \in p.flaws, "payload-too-complex">>
      /\ rules[3] = <<"trusted" \in p.flaws, "trusted-metadata-present">>
      /\ rules[4] = <<"draft" \in p.flaws, "missing-intention">>
      /\ rules[5] = <<p.kind # KindOf[c], "carrier-mismatch">>
      /\ rules[6] = <<TRUE, Validate(c, p)>>
  OBVIOUS
<1>0. /\ rules[1][1] <=> "shape" \in p.flaws
      /\ rules[5][1] <=> p.kind # KindOf[c]
  OBVIOUS
<1> HIDE DEF rules
<1>4. DEFINE hit == {i \in DOMAIN rules : rules[i][1]}
<1>5. PICK i \in hit : FirstOf(rules) = rules[i][2] /\ \A j \in hit : i <= j
  <2>1. hit \subseteq Nat /\ 6 \in hit
    <3>1. 6 \in DOMAIN rules /\ DOMAIN rules \subseteq Nat
      BY <1>2
    <3>2. rules[6][1]
      BY <1>3
    <3> QED
      BY <3>1, <3>2
  <2>2. \E i \in hit : \A j \in hit : i <= j
    BY <2>1, LeastOf
  <2>3. FirstOf(rules) = rules[CHOOSE i \in hit : \A j \in hit : i <= j][2]
    BY <2>1 DEF FirstOf
  <2> QED
    BY <2>2, <2>3
<1>6. i \in {1, 2, 3, 4, 5, 6}
  BY <1>2
<1>7. i = 6 /\ Validate(c, p) = "ok"
  BY <1>1, <1>3, <1>5, <1>6
<1>8. 1 \notin hit /\ 5 \notin hit
  BY <1>5, <1>7
<1>9. 1 \in DOMAIN rules /\ 5 \in DOMAIN rules
  BY <1>2
<1>10. ~rules[1][1] /\ ~rules[5][1]
  BY <1>8, <1>9
<1> QED
  BY <1>0, <1>7, <1>10

\* A list of a carrier has marks for elements.
LEMMA FailureOfLists ==
    ASSUME NEW c, NEW n \in Nat, NEW list, DOMAIN list = 1..n
    PROVE  ListFailure(c, list) = "ok" <=> \A i \in 1..n : list[i] \in Marks
<1> DEFINE bad == {i \in DOMAIN list : list[i] \notin Marks}
<1>1. CASE bad = {}
  BY <1>1 DEF ListFailure
<1>2. CASE bad # {}
  <2>1. ListFailure(c, list) = ElementFailure(c, list[CHOOSE i \in bad : \A j \in bad : i <= j])
    BY <1>2 DEF ListFailure
  <2>2. \A e : ElementFailure(c, e) # "ok"
    BY DEF ElementFailure
  <2> QED
    BY <1>2, <2>1, <2>2
<1> QED
  BY <1>1, <1>2

LEMMA MarksAreNoStrings ==
    ASSUME CarriersAssumption, NEW list, \A i \in DOMAIN list : list[i] \in Marks
    PROVE  Strings(list) = {}
BY DEF CarriersAssumption, Strings, BadElements, Range

LEMMA RunsAreShort ==
    ASSUME CarriersAssumption, NEW n \in Nat, NEW list, list \in [1..n -> Marks],
           \A start \in 1..n, m \in 1..n :
               /\ start + m - 1 \in 1..n
               /\ \A k \in start..(start + m - 1) : list[k] = list[start]
               => m <= MaxRepeats
    PROVE  ~(LongestRun(list) > MaxRepeats)
<1> DEFINE lengths == {m \in DOMAIN list :
            \E start \in DOMAIN list :
                /\ start + m - 1 \in DOMAIN list
                /\ \A k \in start..(start + m - 1) : list[k] = list[start]}
<1>1. MaxRepeats \in Nat \ {0} /\ DOMAIN list = 1..n
  BY DEF CarriersAssumption
<1>2. lengths \subseteq 1..MaxRepeats
  <2> SUFFICES ASSUME NEW m \in lengths PROVE m \in 1..MaxRepeats
    OBVIOUS
  <2>1. PICK start \in 1..n :
           start + m - 1 \in 1..n /\ \A k \in start..(start + m - 1) : list[k] = list[start]
    BY <1>1
  <2>2. m \in 1..n
    BY <1>1
  <2>3. m <= MaxRepeats
    BY <2>1, <2>2
  <2> QED
    BY <1>1, <2>2, <2>3
<1>3. IsFiniteSet(1..MaxRepeats) /\ Cardinality(1..MaxRepeats) = MaxRepeats
  <2>1. /\ IsFiniteSet(1..MaxRepeats)
        /\ Cardinality(1..MaxRepeats) = IF 1 > MaxRepeats THEN 0 ELSE MaxRepeats - 1 + 1
    <3>1. 1 \in Int /\ MaxRepeats \in Int
      BY <1>1
    <3> QED
      BY <3>1, FS_Interval
  <2> QED
    BY <1>1, <2>1
<1> HIDE DEF lengths
<1>4. Cardinality(lengths) <= MaxRepeats /\ Cardinality(lengths) \in Nat
  <2>1. lengths \in SUBSET (1..MaxRepeats)
    BY <1>2
  <2>2. IsFiniteSet(lengths) /\ Cardinality(lengths) <= Cardinality(1..MaxRepeats)
    BY <1>3, <2>1, FS_Subset
  <2> QED
    BY <1>3, <2>2, FS_CardinalityType
<1>5. LongestRun(list) = Cardinality(lengths)
  BY DEF LongestRun, lengths
<1> QED
  BY <1>1, <1>4, <1>5

\* A message that is drawn symbol by symbol, none of which repeats too often.
LEMMA DrawnRunsAreShort ==
    ASSUME CarriersAssumption, NEW n \in Nat, NEW list, list \in [1..n -> Marks],
           \A i \in DOMAIN list : TrailingRepeats(SubSeq(list, 1, i - 1), list[i]) < MaxRepeats
    PROVE  ~(LongestRun(list) > MaxRepeats)
<1>1. MaxRepeats \in Nat \ {0} /\ DOMAIN list = 1..n /\ list \in Seq(Marks) /\ Len(list) = n
  BY DEF CarriersAssumption
<1>2. ASSUME NEW start \in 1..n, NEW m \in 1..n, start + m - 1 \in 1..n,
             \A k \in start..(start + m - 1) : list[k] = list[start]
      PROVE  m <= MaxRepeats
  <2> DEFINE i == start + m - 1
             before == SubSeq(list, 1, i - 1)
             same == {k \in 1..Len(before) : \A l \in (Len(before) - k + 1)..Len(before) : before[l] = list[i]}
  <2>1. i \in 1..n /\ i - 1 \in 0..n /\ i - 1 >= m - 1
    BY <1>2
  <2>2. /\ before \in Seq(Marks) /\ Len(before) = i - 1
        /\ \A l \in 1..i - 1 : before[l] = list[l]
    BY <1>1, <2>1
  <2>3. Cardinality(same) < MaxRepeats
    BY <1>1, <2>1 DEF TrailingRepeats
  <2>4. 1..(m - 1) \subseteq same
    <3> SUFFICES ASSUME NEW k \in 1..(m - 1) PROVE k \in same
      OBVIOUS
    <3>1. k \in 1..Len(before)
      BY <2>1, <2>2
    <3>2. ASSUME NEW l \in (Len(before) - k + 1)..Len(before) PROVE before[l] = list[i]
      <4>1. l \in 1..i - 1 /\ l \in start..(start + m - 1) /\ i \in start..(start + m - 1)
        BY <1>2, <2>1, <2>2, <3>2
      <4> QED
        BY <1>2, <2>2, <4>1
    <3> QED
      BY <3>1, <3>2
  <2>5. IsFiniteSet(1..Len(before)) /\ same \in SUBSET (1..Len(before))
    <3>1. Len(before) \in Int /\ 1 \in Int
      BY <2>1, <2>2
    <3>2. IsFiniteSet(1..Len(before))
      BY <3>1, FS_Interval
    <3> QED
      BY <3>2
  <2> HIDE DEF i, before, same
  <2>6. IsFiniteSet(same) /\ Cardinality(same) \in Nat
    BY <2>5, FS_Subset, FS_CardinalityType
  <2>7. Cardinality(1..(m - 1)) <= Cardinality(same)
    <3>1. 1..(m - 1) \in SUBSET same
      BY <2>4
    <3> QED
      BY <2>6, <3>1, FS_Subset
  <2>8. Cardinality(1..(m - 1)) = m - 1
    <3>1. 1 \in Int /\ m - 1 \in Int
      OBVIOUS
    <3>2. Cardinality(1..(m - 1)) = IF 1 > m - 1 THEN 0 ELSE (m - 1) - 1 + 1
      BY <3>1, FS_Interval
    <3> QED
      BY <3>2
  <2> QED
    BY <1>1, <2>3, <2>6, <2>7, <2>8
<1> QED
  BY <1>2, RunsAreShort

\* Messages: marks, as many as a carrier's artifact has.
Messages == UNION {[1..n -> Marks] : n \in Nat}

LEMMA MessagesPass ==
    ASSUME CarriersAssumption, NEW c, NEW n \in Nat, NEW list, list \in [1..n -> Marks],
           c = "bitmap" => n = BitCount,
           c # "bitmap" => n \in 1..MaxMarks,
           Symbolic(c) => ~(LongestRun(list) > MaxRepeats)
    PROVE  ListPasses(c, list)
<1>1. DOMAIN list = 1..n /\ Len(list) = n
  OBVIOUS
<1>2. ListFailure(c, list) = "ok" /\ Strings(list) = {}
  BY <1>1, FailureOfLists, MarksAreNoStrings
<1> QED
  BY <1>1, <1>2 DEF ListPasses, CarriersAssumption

\* The artifact that is drawn, and the constant one, are valid.
LEMMA RandomArtifactsPass ==
    ASSUME CarriersAssumption, NEW c \in CarrierModes, NEW list \in RandomArtifacts(c)
    PROVE  list \in Messages /\ ListPasses(c, list)
<1>1. BitCount \in Nat /\ MaxMarks \in Nat
  BY DEF CarriersAssumption
<1>2. CASE Symbolic(c)
  <2>0. RandomArtifacts(c) =
            {s \in UNION {[1..n -> Marks] : n \in 1..MaxMarks} :
                \A i \in DOMAIN s : TrailingRepeats(SubSeq(s, 1, i - 1), s[i]) < MaxRepeats}
    BY <1>2 DEF RandomArtifacts, Symbolic
  <2>1. PICK n \in 1..MaxMarks : list \in [1..n -> Marks]
    BY <2>0
  <2>2. \A i \in DOMAIN list : TrailingRepeats(SubSeq(list, 1, i - 1), list[i]) < MaxRepeats
    BY <2>0
  <2>3. n \in Nat /\ c # "bitmap"
    BY <1>2, <2>1 DEF Symbolic
  <2>4. ~(LongestRun(list) > MaxRepeats)
    BY <2>1, <2>2, <2>3, DrawnRunsAreShort
  <2> QED
    BY <2>1, <2>3, <2>4, MessagesPass DEF Messages
<1>3. CASE c = "bitmap"
  <2>1. ~Symbolic(c)
    BY <1>3 DEF Symbolic
  <2>2. list \in [1..BitCount -> Marks]
    BY <1>3, <2>1 DEF RandomArtifacts
  <2> QED
    BY <1>1, <1>3, <2>1, <2>2, MessagesPass DEF Messages
<1>4. CASE ~Symbolic(c) /\ c # "bitmap"
  <2>1. PICK n \in 1..MaxMarks : list \in [1..n -> Marks]
    BY <1>4 DEF RandomArtifacts
  <2>2. n \in Nat
    BY <2>1
  <2> QED
    BY <1>4, <2>1, <2>2, MessagesPass DEF Messages
<1> QED
  BY <1>2, <1>3, <1>4

LEMMA ConstantArtifactPasses ==
    ASSUME CarriersAssumption, NEW c \in CarrierModes
    PROVE  ConstantArtifact(c) \in Messages /\ ListPasses(c, ConstantArtifact(c))
<1> DEFINE first == CHOOSE m \in Marks : TRUE
<1>1. first \in Marks
  <2>1. Marks # {}
    BY FS_EmptySet DEF CarriersAssumption
  <2> QED
    BY <2>1
<1>2. /\ BitCount \in Nat /\ MaxMarks \in Nat \ {0} /\ MaxRepeats \in Nat \ {0}
  BY DEF CarriersAssumption
<1> HIDE DEF first
<1>3. CASE c = "bitmap"
  <2>1. ConstantArtifact(c) = [i \in 1..BitCount |-> first]
    BY <1>3 DEF ConstantArtifact, first
  <2>2. ConstantArtifact(c) \in [1..BitCount -> Marks]
    BY <1>1, <2>1
  <2>3. ~Symbolic(c)
    BY <1>3 DEF Symbolic
  <2> QED
    BY <1>2, <1>3, <2>2, <2>3, MessagesPass DEF Messages
<1>4. CASE c # "bitmap"
  <2>1. ConstantArtifact(c) = <<first>>
    BY <1>4 DEF ConstantArtifact, first
  <2>2. ConstantArtifact(c) \in [1..1 -> Marks]
    BY <1>1, <2>1
  <2> DEFINE list == ConstantArtifact(c)
  <2> HIDE DEF list
  <2>3. \A m \in 1..1 : m <= MaxRepeats
    BY <1>2
  <2>4. 1 \in Nat /\ list \in [1..1 -> Marks]
    BY <2>2 DEF list
  <2>5. ~(LongestRun(list) > MaxRepeats)
    BY <2>3, <2>4, RunsAreShort
  <2>6. 1 \in 1..MaxMarks
    BY <1>2
  <2>7. ListPasses(c, list)
    BY <1>4, <2>4, <2>5, <2>6, MessagesPass
  <2> QED
    BY <2>4, <2>7 DEF Messages, list
<1> QED
  BY <1>3, <1>4
---------------------------------------------------------------------------
(* The invariant keeps what was judged until it is used: an envelope with    *)
(* the verdict "ok" is one the validator accepts, the completion it was      *)
(* built from is the model's own, and the artifact passes the carrier's      *)
(* rules (ListPasses) from its delivery until a probe has changed it.        *)

\* Any list an artifact may be.
AnyLists == UNION {[1..n -> Marks \cup BadElements] : n \in Nat}

\* What came of a completion before it was judged.
CompletionFits ==
    completion # Nobody => carrier = "token" /\ completion \in Completions
                           /\ envelope = BuildForwardedProposal(completion)

EnvelopeFits ==
    /\ stage \notin {"propose"} => envelope.value \in AnyLists
    /\ stage = "propose" => completion = Nobody
    /\ stage \in {"propose", "judge"} => verdict = "none"
    /\ verdict = "ok" => ValidateProposal(carrier, envelope) = "ok"
    /\ stage = "deliver" => verdict = "ok"

ArtifactFits ==
    /\ artifact \in Messages
    /\ artifact # <<>> => ListPasses(carrier, artifact)
    /\ stage # "done" => probe = Nobody

CarriersInv ==
    /\ carrier \in CarrierModes
    /\ CompletionFits /\ EnvelopeFits /\ ArtifactFits /\ ProbeChangesOneMark

LEMMA ListsAre == ASSUME CarriersAssumption, NEW list \in Lists PROVE list \in AnyLists
<1>1. MaxMarks \in Nat
  BY DEF CarriersAssumption
<1>2. CASE \E n \in 0..2 : list \in [1..n -> Marks \cup BadElements]
  BY <1>2 DEF AnyLists
<1>3. CASE \E n \in 3..(MaxMarks + 1) : list \in [1..n -> Marks]
  <2>1. PICK n \in 3..(MaxMarks + 1) : list \in [1..n -> Marks]
    BY <1>3
  <2>2. n \in Nat /\ list \in [1..n -> Marks \cup BadElements]
    BY <1>1, <2>1
  <2> QED
    BY <2>2 DEF AnyLists
<1> QED
  BY <1>2, <1>3 DEF Lists

LEMMA EnvelopesAre ==
    ASSUME CarriersAssumption, NEW c, NEW p \in Envelopes(c)
    PROVE  p.value \in AnyLists /\ {"kind", "flaws", "extraTop"} \subseteq DOMAIN p
<1>1. \A e \in Marks \cup {"prose"} : <<e>> \in AnyLists
  <2> SUFFICES ASSUME NEW e \in Marks \cup {"prose"} PROVE <<e>> \in AnyLists
    OBVIOUS
  <2>1. <<e>> \in [1..1 -> Marks \cup BadElements]
    BY DEF BadElements
  <2> QED
    BY <2>1 DEF AnyLists
<1>2. \A q \in {Clean(c, list) : list \in Lists} : q.value \in AnyLists /\ {"kind", "flaws", "extraTop"} \subseteq DOMAIN q
  BY ListsAre DEF Clean
<1>3. \A q \in Flawed(c) : q.value \in AnyLists /\ {"kind", "flaws", "extraTop"} \subseteq DOMAIN q
  <2> SUFFICES ASSUME NEW q \in Flawed(c) PROVE q.value \in AnyLists /\ {"kind", "flaws", "extraTop"} \subseteq DOMAIN q
    OBVIOUS
  <2>1. PICK m \in Marks, f \in SUBSET {"shape", "complex", "trusted", "draft"} : q = [Clean(c, <<m>>) EXCEPT !.flaws = f]
    BY DEF Flawed
  <2> QED
    BY <1>1, <2>1 DEF Clean
<1>4. \A q \in Misnamed(c) : q.value \in AnyLists /\ {"kind", "flaws", "extraTop"} \subseteq DOMAIN q
  <2> SUFFICES ASSUME NEW q \in Misnamed(c) PROVE q.value \in AnyLists /\ {"kind", "flaws", "extraTop"} \subseteq DOMAIN q
    OBVIOUS
  <2>1. PICK m \in Marks, d \in DOMAIN KindOf : q = [Clean(c, <<m>>) EXCEPT !.kind = KindOf[d]]
    BY DEF Misnamed
  <2> QED
    BY <1>1, <2>1 DEF Clean
<1>5. \A q \in Misshapen(c) : q.value \in AnyLists /\ {"kind", "flaws", "extraTop"} \subseteq DOMAIN q
  <2> SUFFICES ASSUME NEW q \in Misshapen(c) PROVE q.value \in AnyLists /\ {"kind", "flaws", "extraTop"} \subseteq DOMAIN q
    OBVIOUS
  <2>1. q.value \in {<<e>> : e \in Marks \cup {"prose"}} /\ {"kind", "flaws", "extraTop"} \subseteq DOMAIN q
    BY DEF Misshapen
  <2> QED
    BY <1>1, <2>1
<1> QED
  BY <1>2, <1>3, <1>4, <1>5 DEF Envelopes

\* An element of an artifact that passes is a mark.
LEMMA PassingIsMessage ==
    ASSUME NEW c, NEW list \in AnyLists, ListPasses(c, list)
    PROVE  list \in Messages
<1>1. PICK n \in Nat : list \in [1..n -> Marks \cup BadElements]
  BY DEF AnyLists
<1>2. \A i \in 1..n : list[i] \in Marks
  BY <1>1, FailureOfLists DEF ListPasses
<1>3. list \in [1..n -> Marks]
  BY <1>1, <1>2
<1> QED
  BY <1>3 DEF Messages

LEMMA CarriersStart == CarriersInit => CarriersInv
<1> SUFFICES ASSUME CarriersInit PROVE CarriersInv
  OBVIOUS
<1>1. <<>> \in Messages
  <2>1. <<>> \in [1..0 -> Marks]
    OBVIOUS
  <2> QED
    BY <2>1 DEF Messages
<1> QED
  BY <1>1 DEF CarriersInit, CarriersInv, CompletionFits, EnvelopeFits, ArtifactFits, ProbeChangesOneMark

LEMMA CompletionsAre == ASSUME CarriersAssumption, NEW m \in Completions
                        PROVE  /\ BuildForwardedProposal(m).value \in AnyLists
                               /\ m # Nobody /\ m.args.flaws = {}
<1>1. m.args \in Envelopes("token") /\ m.args.flaws = {} /\ m.text \in BOOLEAN
  BY DEF Completions
<1>2. m.args.value \in AnyLists
  BY <1>1, EnvelopesAre
<1>3. <<>> \in AnyLists
  <2>1. <<>> \in [1..0 -> Marks \cup BadElements]
    OBVIOUS
  <2> QED
    BY <2>1 DEF AnyLists
<1>4. BuildForwardedProposal(m).value \in AnyLists
  BY <1>2, <1>3 DEF BuildForwardedProposal
<1>5. m # Nobody
  BY DEF Completions, Nobody
<1> QED
  BY <1>1, <1>4, <1>5

LEMMA CompleteKeeps == ASSUME CarriersAssumption, CarriersInv, Complete PROVE CarriersInv'
<1>1. PICK m \in Completions : completion' = m /\ envelope' = BuildForwardedProposal(m)
  BY DEF Complete
<1>2. envelope'.value \in AnyLists
  BY <1>1, CompletionsAre
<1>3. stage = "propose" /\ stage' = "judge" /\ carrier = "token" /\ UNCHANGED <<carrier, verdict, artifact, probe>>
  BY DEF Complete
<1>4. CompletionFits'
  BY <1>1, <1>3 DEF CompletionFits, BuildForwardedProposal, OutputClass
<1> QED
  BY <1>2, <1>3, <1>4 DEF CarriersInv, EnvelopeFits, ArtifactFits, ProbeChangesOneMark, ListPasses

LEMMA ProposeKeeps == ASSUME CarriersAssumption, CarriersInv, Propose PROVE CarriersInv'
<1>1. /\ stage = "propose" /\ stage' = "judge" /\ envelope' \in Envelopes(carrier)
      /\ UNCHANGED <<carrier, completion, verdict, artifact, probe>>
  BY DEF Propose
<1>2. envelope'.value \in AnyLists
  BY <1>1, EnvelopesAre
<1> QED
  BY <1>1, <1>2 DEF CarriersInv, CompletionFits, EnvelopeFits, ArtifactFits, ProbeChangesOneMark, ListPasses

LEMMA JudgeKeeps == ASSUME CarriersInv, Judge PROVE CarriersInv'
<1>1. /\ stage = "judge" /\ verdict' = ValidateProposal(carrier, envelope)
      /\ stage' = IF verdict' = "ok" THEN "deliver" ELSE "done"
      /\ UNCHANGED <<carrier, completion, envelope, artifact, probe>>
  BY DEF Judge
<1>2. EnvelopeFits'
  BY <1>1 DEF CarriersInv, EnvelopeFits, ValidateProposal, Validate
<1>3. CompletionFits'
  BY <1>1 DEF CarriersInv, CompletionFits, BuildForwardedProposal
<1> QED
  BY <1>1, <1>2, <1>3 DEF CarriersInv, ArtifactFits, ProbeChangesOneMark, ListPasses

LEMMA DeliverKeeps == ASSUME CarriersAssumption, CarriersInv, Deliver PROVE CarriersInv'
<1>1. /\ stage = "deliver" /\ stage' = "probe"
      /\ artifact' \in {<<>>, envelope.value, ConstantArtifact(carrier)}
                        \cup RandomArtifacts(carrier) \cup Provided(carrier)
      /\ UNCHANGED <<carrier, completion, envelope, verdict, probe>>
  BY DEF Deliver
<1>2. carrier \in CarrierModes
  BY DEF CarriersInv
<1>3. envelope.value \in Messages /\ ListPasses(carrier, envelope.value)
  <2>1. ValidateProposal(carrier, envelope) = "ok" /\ envelope.value \in AnyLists
    BY <1>1 DEF CarriersInv, EnvelopeFits
  <2>2. ListPasses(carrier, envelope.value)
    BY <2>1, AcceptedIs, ValidatedPasses
  <2> QED
    BY <2>1, <2>2, PassingIsMessage
<1>4. \A list \in Provided(carrier) : list \in Messages /\ ListPasses(carrier, list)
  <2> SUFFICES ASSUME NEW list \in Provided(carrier) PROVE list \in Messages /\ ListPasses(carrier, list)
    OBVIOUS
  <2>1. list \in AnyLists /\ Validate(carrier, Clean(carrier, list)) = "ok"
    BY ListsAre DEF Provided
  <2>2. Clean(carrier, list).value = list
    BY DEF Clean
  <2>3. ListPasses(carrier, list)
    BY <2>1, <2>2, ValidatedPasses
  <2> QED
    BY <2>1, <2>3, PassingIsMessage
<1>5. <<>> \in Messages
  <2>1. <<>> \in [1..0 -> Marks]
    OBVIOUS
  <2> QED
    BY <2>1 DEF Messages
<1>6. artifact' \in Messages /\ (artifact' # <<>> => ListPasses(carrier, artifact'))
  BY <1>1, <1>2, <1>3, <1>4, <1>5, ConstantArtifactPasses, RandomArtifactsPass
<1>7. ArtifactFits'
  BY <1>1, <1>6 DEF CarriersInv, ArtifactFits, ListPasses
<1>8. ProbeChangesOneMark'
  BY <1>1 DEF CarriersInv, ArtifactFits, ProbeChangesOneMark
<1>9. EnvelopeFits'
  BY <1>1 DEF CarriersInv, EnvelopeFits, ValidateProposal, Validate
<1>10. CompletionFits'
  BY <1>1 DEF CarriersInv, CompletionFits, BuildForwardedProposal
<1> QED
  BY <1>1, <1>2, <1>7, <1>8, <1>9, <1>10 DEF CarriersInv

\* Nothing refuses a probe that is tried: the mark it changes is there.
LEMMA TriedIs ==
    ASSUME NEW c, NEW p, NEW list, ProbeRefusal(c, p, list) = "ok"
    PROVE  /\ list # <<>> /\ p.position \in DOMAIN list
           /\ p.kind = "ablation" => Len(list) # 1
           /\ p.kind = "substitution" => p.substitute \in Marks
<1> DEFINE rules == <<
        <<list = <<>>, "no-delivery">>,
        <<~Symbolic(c), "unsupported-carrier">>,
        <<p.position \notin DOMAIN list, "position-out-of-range">>,
        <<p.kind = "ablation" /\ Len(list) = 1, "would-empty-artifact">>,
        <<p.kind = "substitution" /\ p.substitute \notin Marks, "no-substitute">> >>
<1>1. FirstOf(rules) = "ok"
  BY DEF ProbeRefusal
<1>2. DOMAIN rules = 1..5
  OBVIOUS
<1>3. /\ rules[1][1] <=> list = <<>>
      /\ rules[2][1] <=> ~Symbolic(c)
      /\ rules[3][1] <=> p.position \notin DOMAIN list
      /\ rules[4][1] <=> p.kind = "ablation" /\ Len(list) = 1
      /\ rules[5][1] <=> p.kind = "substitution" /\ p.substitute \notin Marks
  OBVIOUS
<1>4. /\ rules[1][2] = "no-delivery" /\ rules[2][2] = "unsupported-carrier"
      /\ rules[3][2] = "position-out-of-range" /\ rules[4][2] = "would-empty-artifact"
      /\ rules[5][2] = "no-substitute"
  OBVIOUS
<1> HIDE DEF rules
<1>5. \A i \in 1..5 : rules[i][2] # "ok"
  <2>1. \A i \in 1..5 : i \in {1, 2, 3, 4, 5}
    OBVIOUS
  <2> QED
    BY <1>4, <2>1
<1>6. \A i \in 1..5 : ~rules[i][1]
  BY <1>1, <1>2, <1>5, FirstIs
<1> QED
  BY <1>3, <1>6

LEMMA PerturbedIs ==
    ASSUME NEW n \in Nat, NEW list, list \in [1..n -> Marks], NEW p,
           p.position \in 1..n, p.kind = "ablation" \/ p.substitute \in Marks
    PROVE  /\ Perturbed(p, list) \in Messages
           /\ Len(Perturbed(p, list)) \in {n, n - 1}
<1>1. list \in Seq(Marks) /\ Len(list) = n
  OBVIOUS
<1>2. CASE p.kind = "ablation"
  <2> DEFINE k == p.position
             before == SubSeq(list, 1, k - 1)
             after == SubSeq(list, k + 1, Len(list))
  <2>1. Perturbed(p, list) = before \o after
    BY <1>2 DEF Perturbed, RemoveAt
  <2>2. k \in 1..n
    OBVIOUS
  <2>3. before \in Seq(Marks) /\ Len(before) = k - 1
    BY <1>1, <2>2
  <2>4. after \in Seq(Marks) /\ Len(after) = n - k
    BY <1>1, <2>2
  <2> HIDE DEF k, before, after
  <2>5. before \o after \in Seq(Marks) /\ Len(before \o after) = n - 1
    <3>1. before \o after \in Seq(Marks) /\ Len(before \o after) = Len(before) + Len(after)
      BY <2>3, <2>4, ConcatProperties
    <3>2. (k - 1) + (n - k) = n - 1
      BY <2>2
    <3> QED
      BY <2>3, <2>4, <3>1, <3>2
  <2>6. before \o after \in [1..n - 1 -> Marks] /\ n - 1 \in Nat
    <3>1. n - 1 \in Nat
      BY <2>2
    <3> DEFINE rest == before \o after
    <3>2. rest \in Seq(Marks) /\ Len(rest) = n - 1
      BY <2>5
    <3> HIDE DEF rest
    <3>3. rest \in [1..n - 1 -> Marks]
      BY <3>1, <3>2
    <3> QED
      BY <3>1, <3>3 DEF rest
  <2> QED
    BY <2>1, <2>5, <2>6 DEF Messages
<1>3. CASE p.kind # "ablation"
  <2>1. Perturbed(p, list) = [list EXCEPT ![p.position] = p.substitute]
    BY <1>3 DEF Perturbed
  <2>2. Perturbed(p, list) \in [1..n -> Marks]
    BY <1>3, <2>1
  <2>3. Len(Perturbed(p, list)) = n
    BY <2>2
  <2> QED
    BY <2>2, <2>3 DEF Messages
<1> QED
  BY <1>2, <1>3

LEMMA ApplyProbeKeeps == ASSUME CarriersAssumption, CarriersInv, ApplyProbe PROVE CarriersInv'
<1>1. PICK p \in Probes :
         /\ probe' = [probe |-> p, outcome |-> ProbeOutcome(carrier, p, artifact), before |-> artifact]
         /\ artifact' = IF ProbeOutcome(carrier, p, artifact) = "ok" THEN Perturbed(p, artifact) ELSE artifact
  BY DEF ApplyProbe
<1>2. stage = "probe" /\ stage' = "done" /\ UNCHANGED <<carrier, completion, envelope, verdict>>
  BY DEF ApplyProbe
<1>3. PICK n \in Nat : artifact \in [1..n -> Marks]
  BY DEF CarriersInv, ArtifactFits, Messages
<1>4. DOMAIN artifact = 1..n /\ Len(artifact) = n
  BY <1>3
<1>5. /\ probe'.outcome = ProbeOutcome(carrier, p, artifact) /\ probe'.before = artifact
  BY <1>1
<1>6. /\ artifact' \in Messages /\ (artifact' # <<>> => ListPasses(carrier, artifact'))
      /\ ProbeChangesOneMark'
  <2>1. CASE ProbeOutcome(carrier, p, artifact) = "ok"
    <3>1. /\ ProbeRefusal(carrier, p, artifact) = "ok" /\ artifact' = Perturbed(p, artifact)
          /\ Validate(carrier, Clean(carrier, artifact')) = "ok" /\ artifact' # artifact
      BY <1>1, <2>1 DEF ProbeOutcome
    <3>2. p.position \in 1..n /\ (p.kind = "ablation" \/ p.substitute \in Marks)
      <4>1. p.kind \in {"ablation", "substitution"}
        BY DEF Probes
      <4> QED
        BY <1>4, <3>1, <4>1, TriedIs
    <3>3. artifact' \in Messages /\ Len(artifact') \in {n, n - 1}
      BY <1>3, <3>1, <3>2, PerturbedIs
    <3>4. Clean(carrier, artifact').value = artifact'
      BY DEF Clean
    <3>5. ListPasses(carrier, artifact')
      BY <3>1, <3>4, ValidatedPasses
    <3>6. ProbeChangesOneMark'
      BY <1>4, <1>5, <2>1, <3>1, <3>3 DEF ProbeChangesOneMark
    <3> QED
      BY <3>3, <3>5, <3>6
  <2>2. CASE ProbeOutcome(carrier, p, artifact) # "ok"
    <3>1. artifact' = artifact
      BY <1>1, <2>2
    <3>2. ProbeChangesOneMark'
      BY <1>5, <2>2, <3>1 DEF ProbeChangesOneMark
    <3> QED
      BY <3>1, <3>2 DEF CarriersInv, ArtifactFits
  <2> QED
    BY <2>1, <2>2
<1>7. ArtifactFits'
  BY <1>2, <1>6 DEF ArtifactFits, ListPasses
<1>8. EnvelopeFits'
  BY <1>2 DEF CarriersInv, EnvelopeFits, ValidateProposal, Validate
<1>9. CompletionFits'
  BY <1>2 DEF CarriersInv, CompletionFits, BuildForwardedProposal
<1> QED
  BY <1>2, <1>6, <1>7, <1>8, <1>9 DEF CarriersInv

LEMMA CarriersKeep ==
    ASSUME CarriersAssumption, CarriersInv, [CarriersNext]_carVars
    PROVE  CarriersInv'
<1>1. CASE UNCHANGED carVars
  BY <1>1 DEF carVars, CarriersInv, CompletionFits, EnvelopeFits, ArtifactFits, ProbeChangesOneMark,
              ValidateProposal, Validate, ListPasses, BuildForwardedProposal
<1> QED
  BY <1>1, CompleteKeeps, ProposeKeeps, JudgeKeeps, DeliverKeeps, ApplyProbeKeeps DEF CarriersNext

\* What a completion has to be for its proposal to be accepted.
LEMMA AttemptsSeen == ASSUME CarriersInv, CarriersAssumption PROVE AttemptsAreSeen
<1> SUFFICES ASSUME completion # Nobody, verdict = "ok"
             PROVE  /\ ~completion.text /\ completion.tool = "emit_symbols"
                    /\ completion.args.extra = "none" /\ Range(completion.args.value) \subseteq Marks
  BY DEF AttemptsAreSeen
<1> DEFINE m == completion
<1>1. carrier = "token" /\ m \in Completions /\ envelope = BuildForwardedProposal(m)
  BY DEF CarriersInv, CompletionFits
<1>2. /\ "shape" \notin envelope.flaws /\ envelope.kind = "emit_symbols"
      /\ envelope.extraTop = "none" /\ envelope.extra = "none" /\ ListPasses(carrier, envelope.value)
  BY <1>1, AcceptedIs, ValidatedPasses DEF CarriersInv, EnvelopeFits, KindOf
<1>3. m.text \in BOOLEAN /\ m.args \in Envelopes("token")
  BY <1>1 DEF Completions
<1>4. m.args.value \in AnyLists
  BY <1>3, EnvelopesAre
<1>5. OutputClass(m) \notin {"unparsed", "text-only"}
  <2>1. OutputClass(m) # "unparsed"
    <3> SUFFICES ASSUME OutputClass(m) = "unparsed" PROVE FALSE
      OBVIOUS
    <3>1. envelope = [m.args EXCEPT !.flaws = {"shape"}]
      BY <1>1 DEF BuildForwardedProposal
    <3>2. "flaws" \in DOMAIN m.args
      BY <1>3, EnvelopesAre
    <3> QED
      BY <1>2, <3>1, <3>2
  <2>2. OutputClass(m) # "text-only"
    <3> SUFFICES ASSUME OutputClass(m) = "text-only" PROVE FALSE
      OBVIOUS
    <3>1. envelope = [m.args EXCEPT !.kind = KindOf["token"], !.extraTop = "text", !.shape = "no-list",
                               !.extra = "none", !.value = <<>>]
      BY <1>1 DEF BuildForwardedProposal
    <3>2. "extraTop" \in DOMAIN m.args
      BY <1>3, EnvelopesAre
    <3> QED
      BY <1>2, <3>1, <3>2
  <2> QED
    BY <2>1, <2>2
<1>6. envelope = [m.args EXCEPT !.kind = m.tool, !.extraTop = IF m.text THEN "text" ELSE "none"]
  BY <1>1, <1>5 DEF BuildForwardedProposal
<1>7. {"kind", "extraTop"} \subseteq DOMAIN m.args
  BY <1>3, EnvelopesAre
<1>8. /\ envelope.kind = m.tool /\ envelope.extraTop = (IF m.text THEN "text" ELSE "none")
      /\ envelope.extra = m.args.extra /\ envelope.value = m.args.value
  BY <1>6, <1>7
<1>9. ~m.text /\ m.tool = "emit_symbols" /\ m.args.extra = "none"
  BY <1>2, <1>3, <1>8
<1>10. m.args.value \in Messages
  BY <1>1, <1>2, <1>4, <1>8, PassingIsMessage
<1>11. Range(m.args.value) \subseteq Marks
  BY <1>10 DEF Messages, Range
<1> QED
  BY <1>9, <1>11

LEMMA CarriersInvIsSafe == ASSUME CarriersAssumption, CarriersInv PROVE CarriersSafe
<1>1. DeliveredIsValid
  BY CleanPasses DEF CarriersInv, ArtifactFits, DeliveredIsValid
<1> QED
  BY <1>1, AttemptsSeen DEF CarriersInv, CarriersSafe
---------------------------------------------------------------------------
(* What a Baby says and hears beside its turn is kept straight, for any       *)
(* schedule of windows, number of submissions, set of marks and size of       *)
(* message: an affect answer is accepted only inside the open window of its   *)
(* turn (affect-channel.ts), and a carrier that is accepted, perturbed or     *)
(* replaced by a probe is one its own validator accepts (symbol-gateway.ts,   *)
(* signal-probes.ts).                                                         *)
THEOREM ChannelsAreKept == Spec => []ChannelsSafe
<1> DEFINE Inv == AffectInv /\ CarriersInv
<1>1. Init => Inv
  BY AffectStarts, CarriersStart DEF Init
<1>2. Inv /\ [Next]_serviceVars => Inv'
  <2> SUFFICES ASSUME Inv, [Next]_serviceVars PROVE Inv'
    OBVIOUS
  <2>1. [AffectNext]_affVars
    BY DEF Next, serviceVars
  <2>2. [CarriersNext]_carVars
    BY DEF Next, serviceVars
  <2> QED
    BY <2>1, <2>2, AffectKeeps, CarriersKeep, CarriersAssumption
<1>3. Inv => ChannelsSafe
  BY CarriersInvIsSafe, CarriersAssumption DEF ChannelsSafe, AffectInv, SpentFit
<1> QED
  BY <1>1, <1>2, <1>3, PTL DEF Spec
=============================================================================
