----------------------------- MODULE LearningProofs -----------------------------
(* Proofs about Learning: what a learner's ledger promises (LedgersAreKept)   *)
(* and what its policy promises (PoliciesAreKept), for every number of marks, *)
(* types, turns, stages, attempts, faults and ends of the process.            *)
(* The handlers of a learner are sets of results. The first part says of each *)
(* handler what all its results leave (Sent, Received, Selected, Answered,    *)
(* Updated), for the five tracks at once, and what a policy file gives back   *)
(* (LoadedFrom); after it no proof looks into a track. The invariants follow: *)
(* what is where (CourseOK); that all that a memory, a registry or a policy   *)
(* file refers to is on the ledger (Backed); which mark a turn has sent       *)
(* (LedgerFollows); in which order turns were learnt (LearntInOrder) and      *)
(* counted (SensedInOrder); what the last update's answer names (RefFollows); *)
(* and which stages are recorded (StagesFollow).                              *)
EXTENDS Learning, TLAPS, WellFoundedInduction

---------------------------------------------------------------------------
(* What a learner holds *)

Entries ==
    {e \in [role : {"none", "sender", "receiver"}, mark : Marks \cup {NoMark}, rewarded : BOOLEAN, folded : BOOLEAN] :
        e.role = "sender" => e.mark \in Marks}

Versions == [Marks -> [version : Nat, type : Types]]
Registries == [emitted : SUBSET Marks, received : SUBSET Marks, hyp : Versions, sensed : Seq(Int)]
KnobSettings == [set : [Knobs -> Nat], consolidating : BOOLEAN]

Memories ==
    [pending : [Turns -> Entries], last : Int, emitted : SUBSET Marks, received : SUBSET Marks,
     hyp : Versions, belief : [Marks -> Types], learnt : Seq(Int), sensed : Seq(Int),
     knobs : KnobSettings, kept : Registries]

Policies ==
    [run : {"this", "parent"}, belief : [Marks -> Types], learnt : Seq(Int), sensed : Seq(Int),
     knobs : KnobSettings, registries : Registries]

Events ==
    [kind : {"emitted", "received", "hypothesis", "contradicted", "intention"}, turn : Turns,
     mark : Marks \cup {NoMark}, version : Nat, prior : Nat]

Faults == {"none", "refused", "lost"}
Results == [mem : Memories, ledger : Seq(Events), fault : Faults]

LEMMA StagesAreNumbered ==
    /\ Len(Stages) \in Nat /\ DOMAIN Stages = 1..Len(Stages)
    /\ Stages # <<>> => 1 \in DOMAIN Stages
<1> DEFINE S == Range(Stages)
<1>1. Stages \in Seq(S)
  BY LearnerAssumption
<1> HIDE DEF S
<1>2. Len(Stages) \in Nat /\ DOMAIN Stages = 1..Len(Stages)
  BY <1>1
<1>3. Stages # <<>> => Len(Stages) # 0
  BY <1>1
<1> QED BY <1>2, <1>3

LEMMA FreshIsMemory == Fresh \in Memories
<1>1. (CHOOSE t \in Types : TRUE) \in Types
  BY LearnerAssumption
<1>2. NoHypothesis \in [version : Nat, type : Types] /\ NoEntry \in Entries
  BY <1>1 DEF NoHypothesis, NoEntry, Entries
<1>3. Drawn \in [Marks -> Types] /\ Configured \in KnobSettings
  BY <1>1 DEF Drawn, Configured, KnobSettings
<1>4. EmptyRegistries \in Registries
  BY <1>2 DEF EmptyRegistries, Registries, Versions
<1> QED BY <1>2, <1>3, <1>4 DEF Fresh, Memories, Versions, NoTurn

LEMMA FirstEmission ==
    ASSUME NEW m \in Memories, NEW l \in Seq(Events), NEW t \in Turns, NEW k \in Marks,
           NEW r \in FirstUse(m, l, "emitted", t, k)
    PROVE  /\ r \in Results
           /\ r.mem \in {m, [m EXCEPT !.emitted = m.emitted \cup {k}]}
           /\ r.ledger \in {l, Append(l, Event("emitted", t, k, 0, 0))}
           /\ r.ledger = l => r.mem = m
<1>1. CASE k \in m.emitted
  BY <1>1 DEF FirstUse, Returns, Results, Faults
<1>2. CASE k \notin m.emitted
  <2> DEFINE a == [m EXCEPT !.emitted = m.emitted \cup {k}]
             e == Event("emitted", t, k, 0, 0)
  <2>1. r \in Appending(m, a, l, e)
    BY <1>2 DEF FirstUse
  <2>2. e \in Events
    BY DEF Event, Events
  <2>3. Append(l, e) \in Seq(Events) /\ Append(l, e) # l
    BY <2>2
  <2>4. a \in Memories
    BY DEF Memories
  <2> HIDE DEF a, e
  <2>5. /\ r \in Results
        /\ r.mem \in {m, a}
        /\ r.ledger \in {l, Append(l, e)}
        /\ r.ledger = l => r.mem = m
    BY <2>1, <2>3, <2>4 DEF Appending, Returns, Results, Faults
  <2> QED BY <2>5 DEF a, e
<1> QED BY <1>1, <1>2

LEMMA FirstReception ==
    ASSUME NEW m \in Memories, NEW l \in Seq(Events), NEW t \in Turns, NEW k \in Marks,
           NEW r \in FirstUse(m, l, "received", t, k)
    PROVE  /\ r \in Results
           /\ r.mem \in {m, [m EXCEPT !.received = m.received \cup {k}]}
           /\ r.ledger \in {l, Append(l, Event("received", t, k, 0, 0))}
           /\ r.ledger = l => r.mem = m
<1>1. CASE k \in m.received
  BY <1>1 DEF FirstUse, Returns, Results, Faults
<1>2. CASE k \notin m.received
  <2> DEFINE a == [m EXCEPT !.received = m.received \cup {k}]
             e == Event("received", t, k, 0, 0)
  <2>1. r \in Appending(m, a, l, e)
    BY <1>2 DEF FirstUse
  <2>2. e \in Events
    BY DEF Event, Events
  <2>3. Append(l, e) \in Seq(Events) /\ Append(l, e) # l
    BY <2>2
  <2>4. a \in Memories
    BY DEF Memories
  <2> HIDE DEF a, e
  <2>5. /\ r \in Results
        /\ r.mem \in {m, a}
        /\ r.ledger \in {l, Append(l, e)}
        /\ r.ledger = l => r.mem = m
    BY <2>1, <2>3, <2>4 DEF Appending, Returns, Results, Faults
  <2> QED BY <2>5 DEF a, e
<1> QED BY <1>1, <1>2

\* An entry replaces the one of the turn.
LEMMA RememberedIsMemory ==
    ASSUME NEW m \in Memories, NEW t \in Turns, NEW e \in Entries
    PROVE  /\ Remembered(m, t, e) \in Memories
           /\ Remembered(m, t, e).pending = [m.pending EXCEPT ![t] = e]
           /\ Remembered(m, t, e).pending[t] = e
BY DEF Remembered, Memories

LEMMA SenderEntry ==
    ASSUME NEW k \in Marks
    PROVE  Entry("sender", k) \in Entries /\ Entry("sender", k).role = "sender" /\ Entry("sender", k).mark = k
BY DEF Entry, NoEntry, Entries

LEMMA ReceiverEntry ==
    ASSUME NEW k \in Marks \cup {NoMark}
    PROVE  Entry("receiver", k) \in Entries /\ Entry("receiver", k).role = "receiver"
           /\ Entry("receiver", k).mark = k /\ ~Entry("receiver", k).rewarded
BY DEF Entry, NoEntry, Entries

\* What the learner has in mind when it goes to send: an attempt that is
\* repeated finds the entry of the one before.
Draft(m, t, d, e) ==
    /\ e \in Entries /\ e.role = "sender"
    /\ d.pending = [m.pending EXCEPT ![t] = e]
    /\ d.last = m.last /\ d.emitted = m.emitted /\ d.received = m.received /\ d.hyp = m.hyp
    /\ d.learnt = m.learnt /\ d.sensed = m.sensed /\ d.knobs = m.knobs /\ d.kept = m.kept

Drafts(m, t) == IF Cached(m, t, "sender") THEN {m} ELSE {Remembered(m, t, Entry("sender", k)) : k \in Marks}

LEMMA DraftIsKept ==
    ASSUME NEW m \in Memories, NEW t \in Turns, NEW d \in Drafts(m, t)
    PROVE  /\ d \in Memories
           /\ Draft(m, t, d, d.pending[t])
           /\ d.belief = m.belief
           /\ Cached(m, t, "sender") => d.pending[t] = m.pending[t]
<1>1. CASE Cached(m, t, "sender")
  <2>1. d = m /\ m.pending[t] \in Entries /\ m.pending[t].role = "sender"
    BY <1>1 DEF Drafts, Cached, Memories
  <2>2. m.pending = [m.pending EXCEPT ![t] = m.pending[t]]
    BY DEF Memories
  <2> QED BY <2>1, <2>2 DEF Draft
<1>2. CASE ~Cached(m, t, "sender")
  <2>1. PICK k \in Marks : d = Remembered(m, t, Entry("sender", k))
    BY <1>2 DEF Drafts
  <2> DEFINE e == Entry("sender", k)
  <2>2. e \in Entries /\ e.role = "sender"
    BY SenderEntry
  <2> HIDE DEF e
  <2>3. d \in Memories /\ d.pending = [m.pending EXCEPT ![t] = e] /\ d.pending[t] = e
    BY <2>1, <2>2, RememberedIsMemory DEF e
  <2>4. /\ d.last = m.last /\ d.emitted = m.emitted /\ d.received = m.received /\ d.hyp = m.hyp
        /\ d.learnt = m.learnt /\ d.sensed = m.sensed /\ d.knobs = m.knobs /\ d.kept = m.kept
        /\ d.belief = m.belief
    BY <2>1 DEF Remembered, Memories
  <2> QED BY <1>2, <2>2, <2>3, <2>4 DEF Draft
<1> QED BY <1>1, <1>2

LEMMA EncodedIsKept ==
    ASSUME NEW m \in Memories, NEW k \in Marks \cup {NoMark}, NEW n \in Encoded(m, k)
    PROVE  /\ n \in Memories
           /\ n.pending = m.pending /\ n.last = m.last /\ n.emitted = m.emitted /\ n.received = m.received
           /\ n.hyp = m.hyp /\ n.learnt = m.learnt /\ n.sensed = m.sensed /\ n.knobs = m.knobs
           /\ n.kept = m.kept
<1>1. CASE k = NoMark
  BY <1>1 DEF Encoded
<1>2. CASE k # NoMark
  <2>1. PICK y \in Types : n = [m EXCEPT !.belief[k] = y]
    BY <1>2 DEF Encoded
  <2>2. k \in Marks
    BY <1>2
  <2> QED BY <2>1, <2>2 DEF Memories
<1> QED BY <1>1, <1>2

\* What sending does to the memory and to the ledger.
Sent(track, m, l, t, r) ==
    \E e \in Entries :
        /\ e.role = "sender"
        /\ track # "no-learning" /\ m.pending[t].role = "sender" => e = m.pending[t]
        /\ r.mem.pending = [m.pending EXCEPT ![t] = e]
        /\ r.ledger \in {l, Append(l, Event("emitted", t, e.mark, 0, 0))}
        /\ r.mem.emitted \in {m.emitted, m.emitted \cup {e.mark}}
        /\ r.ledger = l => r.mem.emitted = m.emitted
        /\ r.mem.last = m.last /\ r.mem.received = m.received /\ r.mem.hyp = m.hyp
        /\ r.mem.learnt = m.learnt /\ r.mem.knobs = m.knobs /\ r.mem.kept = m.kept
        /\ track # "hybrid" => r.mem.belief = m.belief
        /\ track # "frozen-llm" => r.mem.sensed = m.sensed
        /\ r.mem.sensed # m.sensed => t \notin Range(m.sensed) /\ r.mem.sensed = Append(m.sensed, t)

\* The first use of a draft.
LEMMA DraftIsSent ==
    ASSUME NEW m \in Memories, NEW l \in Seq(Events), NEW t \in Turns, NEW track \in Tracks,
           NEW d \in Memories, Draft(m, t, d, d.pending[t]),
           track # "no-learning" /\ m.pending[t].role = "sender" => d.pending[t] = m.pending[t],
           track # "hybrid" => d.belief = m.belief,
           NEW r \in FirstUse(d, l, "emitted", t, d.pending[t].mark)
    PROVE  /\ r \in Results /\ Sent(track, m, l, t, r)
           /\ r.mem.sensed = m.sensed
<1> DEFINE e == d.pending[t]
<1>1. e \in Entries /\ e.role = "sender" /\ e.mark \in Marks
  BY DEF Draft, Entries
<1> HIDE DEF e
<1>2. /\ r \in Results
      /\ r.mem \in {d, [d EXCEPT !.emitted = d.emitted \cup {e.mark}]}
      /\ r.ledger \in {l, Append(l, Event("emitted", t, e.mark, 0, 0))}
      /\ r.ledger = l => r.mem = d
  BY <1>1, FirstEmission DEF e
<1>3. /\ r.mem.pending = d.pending /\ r.mem.last = d.last /\ r.mem.received = d.received /\ r.mem.hyp = d.hyp
      /\ r.mem.learnt = d.learnt /\ r.mem.knobs = d.knobs /\ r.mem.kept = d.kept
      /\ r.mem.belief = d.belief /\ r.mem.sensed = d.sensed
      /\ r.mem.emitted \in {d.emitted, d.emitted \cup {e.mark}}
  BY <1>2 DEF Memories
<1>4. Draft(m, t, d, e) /\ (track # "no-learning" /\ m.pending[t].role = "sender" => e = m.pending[t])
  BY DEF e
<1> QED BY <1>1, <1>2, <1>3, <1>4 DEF Sent, Draft

LEMMA TabularSent ==
    ASSUME NEW m \in Memories, NEW l \in Seq(Events), NEW t \in Turns,
           NEW track \in {"scratch-rl", "self-supervised"}, NEW r \in Sends(track, m, l, t)
    PROVE  r \in Results /\ Sent(track, m, l, t, r)
<1>1. Sends(track, m, l, t) = UNION {FirstUse(d, l, "emitted", t, d.pending[t].mark) : d \in Drafts(m, t)}
  BY DEF Sends, TabularSends, TabularDraw, SelfSupervisedSends, Drafts
<1>2. PICK d \in Drafts(m, t) : r \in FirstUse(d, l, "emitted", t, d.pending[t].mark)
  BY <1>1
<1>3. /\ d \in Memories /\ Draft(m, t, d, d.pending[t]) /\ d.belief = m.belief
      /\ m.pending[t].role = "sender" => d.pending[t] = m.pending[t]
  BY DraftIsKept DEF Cached
<1> QED BY <1>2, <1>3, DraftIsSent DEF Tracks

LEMMA HybridSent ==
    ASSUME NEW m \in Memories, NEW l \in Seq(Events), NEW t \in Turns, NEW r \in Sends("hybrid", m, l, t)
    PROVE  r \in Results /\ Sent("hybrid", m, l, t, r)
<1> DEFINE D == IF Cached(m, t, "sender") THEN {m}
                ELSE UNION {Encoded(Remembered(m, t, Entry("sender", k)), k) : k \in Marks}
<1>1. Sends("hybrid", m, l, t) = UNION {FirstUse(d, l, "emitted", t, d.pending[t].mark) : d \in D}
  BY DEF Sends, HybridSends
<1>2. PICK d \in D : r \in FirstUse(d, l, "emitted", t, d.pending[t].mark)
  BY <1>1
<1>3. /\ d \in Memories /\ Draft(m, t, d, d.pending[t])
      /\ m.pending[t].role = "sender" => d.pending[t] = m.pending[t]
  <2>1. CASE Cached(m, t, "sender")
    <3>1. d \in Drafts(m, t)
      BY <2>1 DEF Drafts
    <3> QED BY <3>1, DraftIsKept, <2>1
  <2>2. CASE ~Cached(m, t, "sender")
    <3>1. PICK k \in Marks : d \in Encoded(Remembered(m, t, Entry("sender", k)), k)
      BY <2>2
    <3> DEFINE n == Remembered(m, t, Entry("sender", k))
    <3>2. n \in Drafts(m, t)
      BY <2>2 DEF Drafts
    <3> HIDE DEF n
    <3>3. n \in Memories /\ Draft(m, t, n, n.pending[t])
      BY <3>2, DraftIsKept
    <3>4. /\ d \in Memories
          /\ d.pending = n.pending /\ d.last = n.last /\ d.emitted = n.emitted /\ d.received = n.received
          /\ d.hyp = n.hyp /\ d.learnt = n.learnt /\ d.sensed = n.sensed /\ d.knobs = n.knobs /\ d.kept = n.kept
      BY <3>1, <3>3, EncodedIsKept DEF n
    <3> QED BY <2>2, <3>3, <3>4 DEF Draft, Cached
  <2> QED BY <2>1, <2>2
<1> QED BY <1>2, <1>3, DraftIsSent DEF Tracks

LEMMA FrozenSent ==
    ASSUME NEW m \in Memories, NEW l \in Seq(Events), NEW t \in Turns, NEW r \in Sends("frozen-llm", m, l, t)
    PROVE  r \in Results /\ Sent("frozen-llm", m, l, t, r)
<1> DEFINE F(d) == FirstUse(d, l, "emitted", t, d.pending[t].mark)
           S(q) == IF q.fault = "none" /\ t \notin Range(q.mem.sensed)
                   THEN [q EXCEPT !.mem.sensed = Append(@, t)] ELSE q
<1>1. Sends("frozen-llm", m, l, t) = UNION {{S(q) : q \in F(d)} : d \in Drafts(m, t)}
  BY DEF Sends, FrozenSends, Drafts
<1>2. PICK d \in Drafts(m, t) : r \in {S(q) : q \in F(d)}
  BY <1>1
<1>3. PICK q \in F(d) : r = S(q)
  BY <1>2
<1>4. /\ d \in Memories /\ Draft(m, t, d, d.pending[t]) /\ d.belief = m.belief
      /\ m.pending[t].role = "sender" => d.pending[t] = m.pending[t]
  BY DraftIsKept DEF Cached
<1>5. q \in Results /\ Sent("frozen-llm", m, l, t, q) /\ q.mem.sensed = m.sensed
  BY <1>4, DraftIsSent DEF Tracks
<1>6. CASE q.fault = "none" /\ t \notin Range(q.mem.sensed)
  <2>1. r = [q EXCEPT !.mem = [q.mem EXCEPT !.sensed = Append(q.mem.sensed, t)]]
    BY <1>3, <1>6, <1>5 DEF Results, Memories
  <2>2. Append(q.mem.sensed, t) \in Seq(Int)
    BY <1>5 DEF Results, Memories, Turns
  <2>3. /\ r \in Results /\ r.ledger = q.ledger
        /\ r.mem = [q.mem EXCEPT !.sensed = Append(q.mem.sensed, t)]
    BY <2>1, <2>2, <1>5 DEF Results, Memories
  <2>4. /\ r.mem.sensed = Append(q.mem.sensed, t)
        /\ r.mem.pending = q.mem.pending /\ r.mem.last = q.mem.last /\ r.mem.received = q.mem.received
        /\ r.mem.hyp = q.mem.hyp /\ r.mem.learnt = q.mem.learnt /\ r.mem.knobs = q.mem.knobs
        /\ r.mem.kept = q.mem.kept /\ r.mem.belief = q.mem.belief /\ r.mem.emitted = q.mem.emitted
    BY <2>3, <1>5 DEF Results, Memories
  <2>5. PICK e \in Entries :
          /\ e.role = "sender"
          /\ m.pending[t].role = "sender" => e = m.pending[t]
          /\ q.mem.pending = [m.pending EXCEPT ![t] = e]
          /\ q.ledger \in {l, Append(l, Event("emitted", t, e.mark, 0, 0))}
          /\ q.mem.emitted \in {m.emitted, m.emitted \cup {e.mark}}
          /\ q.ledger = l => q.mem.emitted = m.emitted
          /\ q.mem.last = m.last /\ q.mem.received = m.received /\ q.mem.hyp = m.hyp
          /\ q.mem.learnt = m.learnt /\ q.mem.knobs = m.knobs /\ q.mem.kept = m.kept
          /\ q.mem.belief = m.belief
    BY <1>5 DEF Sent
  <2>6. t \notin Range(m.sensed) /\ r.mem.sensed = Append(m.sensed, t)
    BY <1>5, <1>6, <2>4
  <2>7. Sent("frozen-llm", m, l, t, r)
    BY <2>3, <2>4, <2>5, <2>6, ZenonT(60) DEF Sent
  <2> QED BY <2>3, <2>7
<1>7. CASE ~(q.fault = "none" /\ t \notin Range(q.mem.sensed))
  BY <1>3, <1>5, <1>7
<1> QED BY <1>6, <1>7

LEMMA NoLearningSent ==
    ASSUME NEW m \in Memories, NEW l \in Seq(Events), NEW t \in Turns, NEW r \in Sends("no-learning", m, l, t)
    PROVE  r \in Results /\ Sent("no-learning", m, l, t, r)
<1>1. PICK k \in Marks : r \in FirstUse(Remembered(m, t, Entry("sender", k)), l, "emitted", t, k)
  BY DEF Sends, NoLearningSends
<1> DEFINE e == Entry("sender", k)
           d == Remembered(m, t, e)
<1>2. e \in Entries /\ e.role = "sender" /\ e.mark = k
  BY SenderEntry
<1>3. r \in FirstUse(d, l, "emitted", t, e.mark)
  BY <1>1, <1>2
<1> HIDE DEF e
<1>4. d \in Memories /\ d.pending = [m.pending EXCEPT ![t] = e] /\ d.pending[t] = e
  BY <1>2, RememberedIsMemory
<1>5. /\ d.last = m.last /\ d.emitted = m.emitted /\ d.received = m.received /\ d.hyp = m.hyp
      /\ d.learnt = m.learnt /\ d.sensed = m.sensed /\ d.knobs = m.knobs /\ d.kept = m.kept
      /\ d.belief = m.belief
  BY DEF Remembered, Memories
<1> HIDE DEF d
<1>6. Draft(m, t, d, d.pending[t])
  BY <1>2, <1>4, <1>5 DEF Draft
<1>7. r \in FirstUse(d, l, "emitted", t, d.pending[t].mark)
  BY <1>3, <1>4
<1> QED BY <1>4, <1>5, <1>6, <1>7, DraftIsSent DEF Tracks

LEMMA SendsDo ==
    ASSUME NEW track \in Tracks, NEW m \in Memories, NEW l \in Seq(Events), NEW t \in Turns,
           NEW r \in Sends(track, m, l, t)
    PROVE  r \in Results /\ Sent(track, m, l, t, r)
BY TabularSent, HybridSent, FrozenSent, NoLearningSent DEF Tracks

\* What receiving does.
Received(track, m, l, t, k, r) ==
    /\ r.mem.last = t /\ r.mem.pending = m.pending
    /\ r.ledger \in {l, Append(l, Event("received", t, k, 0, 0))}
    /\ r.mem.received \in {m.received, m.received \cup {k}}
    /\ r.ledger = l => r.mem.received = m.received
    /\ r.mem.emitted = m.emitted /\ r.mem.hyp = m.hyp
    /\ r.mem.learnt = m.learnt /\ r.mem.knobs = m.knobs /\ r.mem.kept = m.kept
    /\ track # "hybrid" => r.mem.belief = m.belief
    /\ track # "frozen-llm" => r.mem.sensed = m.sensed
    /\ r.mem.sensed # m.sensed => m.last # t /\ r.mem.sensed = Append(m.sensed, t)

\* The first use of a delivered mark.
LEMMA FirstIsReceived ==
    ASSUME NEW m \in Memories, NEW l \in Seq(Events), NEW t \in Turns, NEW k \in Marks, NEW track \in Tracks,
           NEW r \in FirstUse([m EXCEPT !.last = t], l, "received", t, k)
    PROVE  r \in Results /\ Received(track, m, l, t, k, r) /\ r.mem.sensed = m.sensed /\ r.mem.belief = m.belief
<1> DEFINE d == [m EXCEPT !.last = t]
<1>1. d \in Memories
  <2>1. t \in Int
    BY LearnerAssumption DEF Turns
  <2> QED BY <2>1 DEF Memories
<1>2. /\ d.last = t /\ d.pending = m.pending /\ d.emitted = m.emitted /\ d.received = m.received /\ d.hyp = m.hyp
      /\ d.learnt = m.learnt /\ d.sensed = m.sensed /\ d.knobs = m.knobs /\ d.kept = m.kept
      /\ d.belief = m.belief
  BY DEF Memories
<1>0. r \in FirstUse(d, l, "received", t, k)
  OBVIOUS
<1> HIDE DEF d
<1>3. /\ r \in Results
      /\ r.mem \in {d, [d EXCEPT !.received = d.received \cup {k}]}
      /\ r.ledger \in {l, Append(l, Event("received", t, k, 0, 0))}
      /\ r.ledger = l => r.mem = d
  BY <1>0, <1>1, FirstReception
<1>4. /\ r.mem.pending = d.pending /\ r.mem.last = d.last /\ r.mem.emitted = d.emitted /\ r.mem.hyp = d.hyp
      /\ r.mem.learnt = d.learnt /\ r.mem.knobs = d.knobs /\ r.mem.kept = d.kept
      /\ r.mem.belief = d.belief /\ r.mem.sensed = d.sensed
      /\ r.mem.received \in {d.received, d.received \cup {k}}
  BY <1>1, <1>3 DEF Memories
<1> QED BY <1>2, <1>3, <1>4 DEF Received

LEMMA HybridReceived ==
    ASSUME NEW m \in Memories, NEW l \in Seq(Events), NEW t \in Turns, NEW k \in Marks,
           NEW r \in Receives("hybrid", m, l, t, k)
    PROVE  r \in Results /\ Received("hybrid", m, l, t, k, r)
<1> DEFINE F == FirstUse([m EXCEPT !.last = t], l, "received", t, k)
<1>1. PICK q \in F : r \in (IF q.fault = "none" THEN {[q EXCEPT !.mem = n] : n \in Encoded(q.mem, k)} ELSE {q})
  BY DEF Receives, HybridReceives
<1>2. q \in Results /\ Received("hybrid", m, l, t, k, q) /\ q.mem.sensed = m.sensed
  BY FirstIsReceived DEF Tracks
<1>3. CASE q.fault = "none"
  <2>1. PICK n \in Encoded(q.mem, k) : r = [q EXCEPT !.mem = n]
    BY <1>1, <1>3
  <2>2. q.mem \in Memories
    BY <1>2 DEF Results
  <2>3. /\ n \in Memories
        /\ n.pending = q.mem.pending /\ n.last = q.mem.last /\ n.emitted = q.mem.emitted
        /\ n.received = q.mem.received /\ n.hyp = q.mem.hyp /\ n.learnt = q.mem.learnt
        /\ n.sensed = q.mem.sensed /\ n.knobs = q.mem.knobs /\ n.kept = q.mem.kept
    BY <2>1, <2>2, EncodedIsKept
  <2>4. r \in Results /\ r.mem = n /\ r.ledger = q.ledger
    BY <2>1, <2>3, <1>2 DEF Results
  <2> QED BY <1>2, <2>3, <2>4 DEF Received
<1>4. CASE q.fault # "none"
  BY <1>1, <1>2, <1>4
<1> QED BY <1>3, <1>4

LEMMA FrozenReceived ==
    ASSUME NEW m \in Memories, NEW l \in Seq(Events), NEW t \in Turns, NEW k \in Marks,
           NEW r \in Receives("frozen-llm", m, l, t, k)
    PROVE  r \in Results /\ Received("frozen-llm", m, l, t, k, r)
<1> DEFINE F == FirstUse([m EXCEPT !.last = t], l, "received", t, k)
<1>1. PICK q \in F : r = IF q.fault = "none" /\ m.last # t THEN [q EXCEPT !.mem.sensed = Append(@, t)] ELSE q
  BY DEF Receives, FrozenReceives
<1>2. q \in Results /\ Received("frozen-llm", m, l, t, k, q) /\ q.mem.sensed = m.sensed
  BY FirstIsReceived DEF Tracks
<1>3. CASE q.fault = "none" /\ m.last # t
  <2>1. r = [q EXCEPT !.mem = [q.mem EXCEPT !.sensed = Append(q.mem.sensed, t)]]
    BY <1>1, <1>3, <1>2 DEF Results, Memories
  <2>2. Append(q.mem.sensed, t) \in Seq(Int)
    BY <1>2 DEF Results, Memories, Turns
  <2>3. /\ r \in Results /\ r.ledger = q.ledger
        /\ r.mem = [q.mem EXCEPT !.sensed = Append(q.mem.sensed, t)]
    BY <2>1, <2>2, <1>2 DEF Results, Memories
  <2>4. /\ r.mem.sensed = Append(m.sensed, t)
        /\ r.mem.pending = q.mem.pending /\ r.mem.last = q.mem.last /\ r.mem.received = q.mem.received
        /\ r.mem.hyp = q.mem.hyp /\ r.mem.learnt = q.mem.learnt /\ r.mem.knobs = q.mem.knobs
        /\ r.mem.kept = q.mem.kept /\ r.mem.belief = q.mem.belief /\ r.mem.emitted = q.mem.emitted
    BY <2>3, <1>2 DEF Results, Memories
  <2> QED BY <1>2, <1>3, <2>3, <2>4 DEF Received
<1>4. CASE ~(q.fault = "none" /\ m.last # t)
  BY <1>1, <1>2, <1>4
<1> QED BY <1>3, <1>4

LEMMA ReceivesDo ==
    ASSUME NEW track \in Tracks, NEW m \in Memories, NEW l \in Seq(Events), NEW t \in Turns, NEW k \in Marks,
           NEW r \in Receives(track, m, l, t, k)
    PROVE  r \in Results /\ Received(track, m, l, t, k, r)
<1>1. CASE track \in {"scratch-rl", "self-supervised", "no-learning"}
  <2>1. r \in FirstUse([m EXCEPT !.last = t], l, "received", t, k)
    BY <1>1 DEF Receives, TabularReceives, SelfSupervisedReceives, NoLearningReceives
  <2> QED BY <2>1, FirstIsReceived
<1>2. CASE track = "hybrid"
  BY <1>2, HybridReceived
<1>3. CASE track = "frozen-llm"
  BY <1>3, FrozenReceived
<1> QED BY <1>1, <1>2, <1>3 DEF Tracks

\* What the action does.
Selected(track, m, l, t, r) ==
    /\ r.ledger = l
    /\ \E e \in Entries : r.mem.pending = [m.pending EXCEPT ![t] = e]
    /\ r.mem.last = m.last /\ r.mem.emitted = m.emitted /\ r.mem.received = m.received
    /\ r.mem.hyp = m.hyp /\ r.mem.learnt = m.learnt /\ r.mem.sensed = m.sensed
    /\ r.mem.knobs = m.knobs /\ r.mem.kept = m.kept
    /\ track # "hybrid" => r.mem.belief = m.belief

LEMMA SelectsDo ==
    ASSUME NEW track \in Tracks, NEW m \in Memories, NEW l \in Seq(Events), NEW t \in Turns,
           NEW k \in Marks \cup {NoMark}, NEW r \in Selects(track, m, l, t, k)
    PROVE  r \in Results /\ Selected(track, m, l, t, r)
<1> DEFINE h == IF m.last = t THEN k ELSE NoMark
           e == Entry("receiver", h)
           d == Remembered(m, t, e)
<1>1. m.pending = [m.pending EXCEPT ![t] = m.pending[t]] /\ m.pending[t] \in Entries
  BY DEF Memories
<1>2. CASE r = Returns(m, l)
  BY <1>1, <1>2 DEF Returns, Results, Faults, Selected
<1>3. e \in Entries
  BY ReceiverEntry
<1>4. d \in Memories /\ d.pending = [m.pending EXCEPT ![t] = e]
  <2> HIDE DEF e
  <2> QED BY <1>3, RememberedIsMemory
<1>5. /\ d.last = m.last /\ d.emitted = m.emitted /\ d.received = m.received /\ d.hyp = m.hyp
      /\ d.learnt = m.learnt /\ d.sensed = m.sensed /\ d.knobs = m.knobs /\ d.kept = m.kept
      /\ d.belief = m.belief
  BY DEF Remembered, Memories
<1>6. ASSUME NEW n \in Encoded(d, h), r = Returns(n, l), track = "hybrid"
      PROVE  r \in Results /\ Selected(track, m, l, t, r)
  <2>1. h \in Marks \cup {NoMark}
    OBVIOUS
  <2> HIDE DEF h, d, e
  <2>2. /\ n \in Memories
        /\ n.pending = d.pending /\ n.last = d.last /\ n.emitted = d.emitted
        /\ n.received = d.received /\ n.hyp = d.hyp /\ n.learnt = d.learnt
        /\ n.sensed = d.sensed /\ n.knobs = d.knobs /\ n.kept = d.kept
    BY <1>4, <2>1, EncodedIsKept
  <2>3. r.mem = n /\ r.ledger = l /\ r \in Results
    BY <1>6, <2>2 DEF Returns, Results, Faults
  <2> QED BY <1>3, <1>4, <1>5, <1>6, <2>2, <2>3 DEF Selected
<1>7. ASSUME r = Returns(d, l)
      PROVE  r \in Results /\ Selected(track, m, l, t, r)
  <2> HIDE DEF h, d, e
  <2>1. r.mem = d /\ r.ledger = l /\ r \in Results
    BY <1>4, <1>7 DEF Returns, Results, Faults
  <2> QED BY <1>3, <1>4, <1>5, <2>1 DEF Selected
<1>8. \/ r = Returns(m, l)
      \/ r = Returns(d, l)
      \/ track = "hybrid" /\ \E n \in Encoded(d, h) : r = Returns(n, l)
  <2> HIDE DEF Returns, Remembered, Entry, Encoded, Cached
  <2> QED BY DEF Selects, TabularSelects, SelfSupervisedSelects, HybridSelects, FrozenSelects, Tracks
<1> QED BY <1>2, <1>6, <1>7, <1>8

\* The next version of a mark's hypothesis.
Advanced(m, k) == [m EXCEPT !.hyp = [m.hyp EXCEPT ![k] = [version |-> m.hyp[k].version + 1, type |-> m.belief[k]]]]

\* What hypothesis events do.
Reasoned(m, l, t, k, r) ==
    LET v == m.hyp[k].version
    IN  \/ r.mem = m /\ r.ledger = l
        \/ r.mem = m /\ r.ledger = Append(l, Event("contradicted", t, k, v, v))
        \/ r.mem \in {m, Advanced(m, k)} /\ r.ledger = Append(l, Event("hypothesis", t, k, v + 1, v))

LEMMA HypothesesDo ==
    ASSUME NEW m \in Memories, NEW l \in Seq(Events), NEW t \in Turns, NEW k \in Marks, NEW doubted \in BOOLEAN,
           NEW r \in Hypotheses(m, l, t, k, doubted)
    PROVE  /\ r \in Results
           /\ Reasoned(m, l, t, k, r)
           /\ r.fault = "none" => r.mem.hyp[k].version > 0 /\ r.mem.hyp[k].type = m.belief[k]
<1> DEFINE v == m.hyp[k].version
           n == [m EXCEPT !.hyp[k] = [version |-> v + 1, type |-> m.belief[k]]]
           c == Event("contradicted", t, k, v, v)
           h == Event("hypothesis", t, k, v + 1, v)
<1>1. v \in Nat /\ m.hyp[k].type \in Types /\ m.belief[k] \in Types
  BY DEF Memories, Versions
<1>2. n = Advanced(m, k)
  BY DEF Memories, Versions, Advanced
<1>3. c \in Events /\ h \in Events
  BY <1>1 DEF Event, Events
<1>4. Advanced(m, k) \in Memories /\ Advanced(m, k).hyp[k] = [version |-> v + 1, type |-> m.belief[k]]
  <2> DEFINE hyp == [m.hyp EXCEPT ![k] = [version |-> v + 1, type |-> m.belief[k]]]
  <2>1. v + 1 \in Nat /\ m.hyp \in Versions
    BY <1>1 DEF Memories
  <2>2. hyp \in Versions /\ hyp[k] = [version |-> v + 1, type |-> m.belief[k]]
    <3> HIDE DEF v
    <3> QED BY <1>1, <2>1 DEF Versions
  <2>3. Advanced(m, k) = [m EXCEPT !.hyp = hyp]
    BY DEF Advanced
  <2> HIDE DEF hyp
  <2> QED BY <2>2, <2>3 DEF Memories
<1>5. Append(l, c) \in Seq(Events) /\ Append(l, h) \in Seq(Events)
  BY <1>3
<1>6. CASE v = 0 \/ m.hyp[k].type # m.belief[k]
  <2>1. r \in Appending(m, n, l, h)
    BY <1>6 DEF Hypotheses
  <2> HIDE DEF n, c, h, v, Advanced
  <2>2. r \in Appending(m, Advanced(m, k), l, h)
    BY <2>1, <1>2
  <2>3. r \in Results /\ r.mem \in {m, Advanced(m, k)} /\ (r.ledger = l => r.mem = m)
        /\ r.ledger \in {l, Append(l, h)}
        /\ (r.fault = "none" => r.mem = Advanced(m, k))
    BY <2>2, <1>3, <1>4, <1>5 DEF Appending, Returns, Results, Faults
  <2>4. r.fault = "none" => r.mem.hyp[k].version > 0 /\ r.mem.hyp[k].type = m.belief[k]
    BY <2>3, <1>4, <1>1
  <2> QED BY <2>3, <2>4 DEF Reasoned, h, v
<1>7. CASE ~(v = 0 \/ m.hyp[k].type # m.belief[k]) /\ doubted
  <2>1. r \in Appending(m, m, l, c)
    BY <1>7 DEF Hypotheses
  <2> HIDE DEF n, c, h, v
  <2>2. r \in Results /\ r.mem = m /\ r.ledger \in {l, Append(l, c)}
    BY <2>1, <1>3, <1>5 DEF Appending, Returns, Results, Faults
  <2> QED BY <2>2, <1>1, <1>7 DEF Reasoned, c, v
<1>8. CASE ~(v = 0 \/ m.hyp[k].type # m.belief[k]) /\ ~doubted
  <2>1. r = Returns(m, l)
    BY <1>8 DEF Hypotheses
  <2> QED BY <2>1, <1>1, <1>8 DEF Reasoned, Returns, Results, Faults
<1> QED BY <1>6, <1>7, <1>8

LEMMA HypothesesOnDo ==
    ASSUME NEW m \in Memories, NEW l \in Seq(Events), NEW t \in Turns, NEW doubts \in SUBSET BOOLEAN,
           NEW r \in HypothesesOn(m, l, t, doubts)
    PROVE  LET k == m.pending[t].mark
           IN  /\ r \in Results
               /\ (k \in Marks /\ Reasoned(m, l, t, k, r)) \/ r = Returns(m, l)
               /\ r.fault = "none" /\ k # NoMark =>
                     r.mem.hyp[k].version > 0 /\ r.mem.hyp[k].type = m.belief[k]
<1> DEFINE k == m.pending[t].mark
<1>1. k \in Marks \cup {NoMark}
  BY DEF Memories, Entries
<1>2. CASE k = NoMark
  BY <1>2 DEF HypothesesOn, Returns, Results, Faults
<1>3. CASE k # NoMark
  <2>1. PICK d \in doubts : r \in Hypotheses(m, l, t, k, d)
    BY <1>3 DEF HypothesesOn
  <2> HIDE DEF k
  <2>2. k \in Marks /\ d \in BOOLEAN
    BY <1>1, <1>3
  <2>3. /\ r \in Results
        /\ Reasoned(m, l, t, k, r)
        /\ r.fault = "none" => r.mem.hyp[k].version > 0 /\ r.mem.hyp[k].type = m.belief[k]
    BY <2>1, <2>2, HypothesesDo
  <2> QED BY <2>2, <2>3 DEF k
<1> QED BY <1>2, <1>3

\* What an outcome does. The memory after it is that before it, except for
\* the entry of the turn, the hypotheses and, by track, the tables.
Answered(track, m, l, t, r) ==
    /\ \E n \in Memories, e \in Entries :
          /\ n.pending = [m.pending EXCEPT ![t] = e] /\ e.mark = m.pending[t].mark
          /\ n.last = m.last /\ n.emitted = m.emitted /\ n.received = m.received /\ n.hyp = m.hyp
          /\ n.knobs = m.knobs /\ n.kept = m.kept
          /\ track # "frozen-llm" => n.learnt = m.learnt /\ n.belief = m.belief
          /\ \/ n.learnt = m.learnt
             \/ track = "frozen-llm" /\ ~m.pending[t].folded /\ e.folded /\ n.learnt = Append(m.learnt, t)
          /\ m.pending[t].folded => e.folded
          /\ m.pending[t].rewarded => e.rewarded
          /\ \/ n.sensed = m.sensed
             \/ track = "scratch-rl" /\ ~m.pending[t].rewarded /\ e.rewarded /\ n.sensed = Append(m.sensed, t)
             \/ track = "hybrid"
          /\ track = "hybrid" => e.rewarded \/ e.mark = NoMark
          /\ \/ r = Returns(n, l)
             \/ e.mark \in Marks /\ Reasoned(n, l, t, e.mark, r)
    /\ track \in Updating /\ r.fault = "none" /\ m.pending[t].mark # NoMark =>
          r.mem.hyp[m.pending[t].mark].version > 0
          /\ r.mem.hyp[m.pending[t].mark].type = m.belief[m.pending[t].mark]

\* The turn's entry is kept as it was.
LEMMA EntryStays ==
    ASSUME NEW m \in Memories, NEW t \in Turns
    PROVE  m.pending = [m.pending EXCEPT ![t] = m.pending[t]] /\ m.pending[t] \in Entries
BY DEF Memories

LEMMA NoEntryHasNoMark == NoEntry.mark = NoMark
BY DEF NoEntry

\* A turn that was not begun has nothing to answer.
LEMMA NothingAnswered ==
    ASSUME NEW m \in Memories, NEW l \in Seq(Events), NEW t \in Turns, NEW track \in Tracks,
           track = "hybrid" => m.pending[t].mark = NoMark,
           track \in Updating => m.pending[t].mark = NoMark
    PROVE  Returns(m, l) \in Results /\ Answered(track, m, l, t, Returns(m, l))
<1> DEFINE r == Returns(m, l)
           e == m.pending[t]
<1>1. m.pending = [m.pending EXCEPT ![t] = e] /\ e \in Entries
  BY EntryStays
<1>2. r \in Results
  BY DEF Returns, Results, Faults
<1> HIDE DEF r
<1>3. Answered(track, m, l, t, r)
  BY <1>1 DEF Answered, r
<1> QED BY <1>2, <1>3 DEF r

LEMMA TabularRewarded ==
    ASSUME NEW m \in Memories, NEW t \in Turns
    PROVE  LET n == Rewarded(m, t)
           IN  /\ n \in Memories
               /\ n.pending = [m.pending EXCEPT ![t] = n.pending[t]]
               /\ n.pending[t].mark = m.pending[t].mark /\ n.pending[t].folded = m.pending[t].folded
               /\ n.pending[t].rewarded
               /\ n.last = m.last /\ n.emitted = m.emitted /\ n.received = m.received /\ n.hyp = m.hyp
               /\ n.knobs = m.knobs /\ n.kept = m.kept /\ n.learnt = m.learnt /\ n.belief = m.belief
               /\ \/ n.sensed = m.sensed /\ m.pending[t].rewarded
                  \/ n.sensed = Append(m.sensed, t) /\ ~m.pending[t].rewarded
<1>1. CASE m.pending[t].rewarded
  BY <1>1, EntryStays DEF Rewarded
<1>2. CASE ~m.pending[t].rewarded
  <2> DEFINE e == [m.pending[t] EXCEPT !.rewarded = TRUE]
             p == [m.pending EXCEPT ![t] = e]
             s == Append(m.sensed, t)
  <2>1. t \in Int
    BY LearnerAssumption DEF Turns
  <2>2. m.pending[t] \in Entries /\ m.pending \in [Turns -> Entries] /\ m.sensed \in Seq(Int)
    BY DEF Memories
  <2>3. e \in Entries /\ e.mark = m.pending[t].mark /\ e.folded = m.pending[t].folded /\ e.rewarded
    BY <2>2 DEF Entries
  <2>4. s \in Seq(Int)
    BY <2>1, <2>2
  <2>5. Rewarded(m, t) = [m EXCEPT !.pending = p, !.sensed = s]
    BY <1>2 DEF Rewarded, Memories
  <2> HIDE DEF e
  <2>6. p \in [Turns -> Entries] /\ p[t] = e
    BY <2>2, <2>3
  <2> HIDE DEF p, s
  <2>7. Rewarded(m, t) \in Memories /\ Rewarded(m, t).pending = p /\ Rewarded(m, t).sensed = s
    BY <2>4, <2>5, <2>6 DEF Memories
  <2>8. LET n == Rewarded(m, t)
        IN  /\ n.last = m.last /\ n.emitted = m.emitted /\ n.received = m.received /\ n.hyp = m.hyp
            /\ n.knobs = m.knobs /\ n.kept = m.kept /\ n.learnt = m.learnt /\ n.belief = m.belief
    BY <2>5 DEF Memories
  <2> QED BY <1>2, <2>3, <2>6, <2>7, <2>8 DEF p, s
<1> QED BY <1>1, <1>2

LEMMA TabularAnswered ==
    ASSUME NEW m \in Memories, NEW l \in Seq(Events), NEW t \in Turns, NEW bits \in {0, 1},
           NEW r \in OnOutcome("scratch-rl", m, l, t, bits)
    PROVE  r \in Results /\ Answered("scratch-rl", m, l, t, r)
<1>1. CASE m.pending[t] = NoEntry
  <2>1. r = Returns(m, l)
    BY <1>1 DEF OnOutcome, TabularOutcome
  <2> QED BY <1>1, <2>1, NothingAnswered, NoEntryHasNoMark DEF Tracks
<1>2. CASE m.pending[t] # NoEntry
  <2> DEFINE n == Rewarded(m, t)
             e == n.pending[t]
  <2>1. r \in HypothesesOn(n, l, t, Failed(bits)) /\ Failed(bits) \in SUBSET BOOLEAN
    BY <1>2 DEF OnOutcome, TabularOutcome, Failed
  <2>2. /\ n \in Memories
        /\ n.pending = [m.pending EXCEPT ![t] = e]
        /\ e.mark = m.pending[t].mark /\ e.folded = m.pending[t].folded
        /\ e.rewarded
        /\ n.last = m.last /\ n.emitted = m.emitted /\ n.received = m.received /\ n.hyp = m.hyp
        /\ n.knobs = m.knobs /\ n.kept = m.kept /\ n.learnt = m.learnt /\ n.belief = m.belief
        /\ \/ n.sensed = m.sensed /\ m.pending[t].rewarded
           \/ n.sensed = Append(m.sensed, t) /\ ~m.pending[t].rewarded
    BY TabularRewarded
  <2> HIDE DEF n
  <2>3. e \in Entries
    BY <2>2 DEF Memories
  <2>4. /\ r \in Results
        /\ (e.mark \in Marks /\ Reasoned(n, l, t, e.mark, r)) \/ r = Returns(n, l)
        /\ r.fault = "none" /\ e.mark # NoMark => r.mem.hyp[e.mark].version > 0 /\ r.mem.hyp[e.mark].type = n.belief[e.mark]
    <3>1. n \in Memories
      BY <2>2
    <3> QED BY ONLY <2>1, <3>1, HypothesesOnDo, l \in Seq(Events), t \in Turns
  <2> HIDE DEF e
  <2> QED BY <2>2, <2>3, <2>4 DEF Answered
<1> QED BY <1>1, <1>2

LEMMA SelfSupervisedAnswered ==
    ASSUME NEW m \in Memories, NEW l \in Seq(Events), NEW t \in Turns, NEW bits \in {0, 1},
           NEW r \in OnOutcome("self-supervised", m, l, t, bits)
    PROVE  r \in Results /\ Answered("self-supervised", m, l, t, r)
<1>1. CASE m.pending[t] = NoEntry
  <2>1. r = Returns(m, l)
    BY <1>1 DEF OnOutcome, SelfSupervisedOutcome
  <2> QED BY <1>1, <2>1, NothingAnswered, NoEntryHasNoMark DEF Tracks
<1>2. CASE m.pending[t] # NoEntry
  <2> DEFINE e == m.pending[t]
  <2>1. r \in HypothesesOn(m, l, t, BOOLEAN)
    BY <1>2 DEF OnOutcome, SelfSupervisedOutcome
  <2>2. m.pending = [m.pending EXCEPT ![t] = e] /\ e \in Entries
    BY EntryStays
  <2>3. /\ r \in Results
        /\ (e.mark \in Marks /\ Reasoned(m, l, t, e.mark, r)) \/ r = Returns(m, l)
        /\ r.fault = "none" /\ e.mark # NoMark => r.mem.hyp[e.mark].version > 0 /\ r.mem.hyp[e.mark].type = m.belief[e.mark]
    BY <2>1, HypothesesOnDo
  <2> QED BY <2>2, <2>3 DEF Answered
<1> QED BY <1>1, <1>2

LEMMA HybridAnswered ==
    ASSUME NEW m \in Memories, NEW l \in Seq(Events), NEW t \in Turns, NEW bits \in {0, 1},
           NEW r \in OnOutcome("hybrid", m, l, t, bits)
    PROVE  r \in Results /\ Answered("hybrid", m, l, t, r)
<1>1. CASE m.pending[t] = NoEntry
  <2>1. r = Returns(m, l)
    BY <1>1 DEF OnOutcome, HybridOutcome
  <2> QED BY <1>1, <2>1, NothingAnswered, NoEntryHasNoMark DEF Tracks
<1>2. CASE m.pending[t] # NoEntry
  <2> DEFINE e == [m.pending[t] EXCEPT !.rewarded = TRUE]
             p == [m.pending EXCEPT ![t] = e]
             s == Append(m.sensed, t)
             n == [m EXCEPT !.pending = p, !.sensed = s]
  <2>1. t \in Int
    BY LearnerAssumption DEF Turns
  <2>2. m.pending[t] \in Entries /\ m.pending \in [Turns -> Entries] /\ m.sensed \in Seq(Int)
    BY DEF Memories
  <2>3. e \in Entries /\ e.mark = m.pending[t].mark /\ e.folded = m.pending[t].folded /\ e.rewarded
    BY <2>2 DEF Entries
  <2>4. s \in Seq(Int)
    BY <2>1, <2>2
  <2>5. [m EXCEPT !.pending[t].rewarded = TRUE, !.sensed = Append(@, t)] = n
    BY DEF Memories
  <2>6. r \in HypothesesOn(n, l, t, Failed(bits)) /\ Failed(bits) \in SUBSET BOOLEAN
    BY <1>2, <2>5 DEF OnOutcome, HybridOutcome, Failed
  <2> HIDE DEF e
  <2>7. p \in [Turns -> Entries] /\ p[t] = e
    BY <2>2, <2>3
  <2> HIDE DEF p, s
  <2>8. n \in Memories /\ n.pending = p
        /\ n.last = m.last /\ n.emitted = m.emitted /\ n.received = m.received /\ n.hyp = m.hyp
        /\ n.knobs = m.knobs /\ n.kept = m.kept /\ n.learnt = m.learnt /\ n.belief = m.belief
    BY <2>4, <2>7 DEF Memories
  <2> HIDE DEF n
  <2>9. n.pending[t] = e
    BY <2>7, <2>8
  <2>10. /\ r \in Results
         /\ (e.mark \in Marks /\ Reasoned(n, l, t, e.mark, r)) \/ r = Returns(n, l)
         /\ r.fault = "none" /\ e.mark # NoMark => r.mem.hyp[e.mark].version > 0 /\ r.mem.hyp[e.mark].type = n.belief[e.mark]
    BY <2>6, <2>8, <2>9, HypothesesOnDo, SMTT(30)
  <2>11. n.pending = [m.pending EXCEPT ![t] = e]
    BY <2>8 DEF p
  <2> QED BY <2>3, <2>8, <2>10, <2>11 DEF Answered
<1> QED BY <1>1, <1>2

LEMMA LearntDoes ==
    ASSUME NEW m \in Memories, NEW t \in Turns, m.pending[t].mark \in Marks, NEW n \in Learnt(m, t)
    PROVE  /\ n \in Memories /\ n.learnt = Append(m.learnt, t)
           /\ n.pending = m.pending /\ n.last = m.last /\ n.emitted = m.emitted /\ n.received = m.received
           /\ n.hyp = m.hyp /\ n.sensed = m.sensed /\ n.knobs = m.knobs /\ n.kept = m.kept
<1> DEFINE k == m.pending[t].mark
           s == Append(m.learnt, t)
<1>1. PICK y \in Types : n = [m EXCEPT !.learnt = Append(@, t), !.belief[k] = y]
  BY DEF Learnt
<1> DEFINE b == [m.belief EXCEPT ![k] = y]
<1>2. n = [m EXCEPT !.learnt = s, !.belief = b]
  BY <1>1 DEF Memories
<1>3. t \in Int
  BY LearnerAssumption DEF Turns
<1>4. s \in Seq(Int) /\ b \in [Marks -> Types]
  BY <1>3 DEF Memories
<1> HIDE DEF s, b, k
<1>5. /\ n \in Memories /\ n.learnt = s
      /\ n.pending = m.pending /\ n.last = m.last /\ n.emitted = m.emitted /\ n.received = m.received
      /\ n.hyp = m.hyp /\ n.sensed = m.sensed /\ n.knobs = m.knobs /\ n.kept = m.kept
  BY <1>2, <1>4 DEF Memories
<1> QED BY <1>5 DEF s

LEMMA ForgottenIsMemory ==
    ASSUME NEW m \in Memories, NEW t \in Turns
    PROVE  /\ Forgotten(m, t) \in Memories
           /\ Forgotten(m, t).pending = [m.pending EXCEPT ![t] = NoEntry] /\ NoEntry \in Entries
           /\ Forgotten(m, t).last = m.last /\ Forgotten(m, t).emitted = m.emitted
           /\ Forgotten(m, t).received = m.received /\ Forgotten(m, t).hyp = m.hyp
           /\ Forgotten(m, t).learnt = m.learnt /\ Forgotten(m, t).sensed = m.sensed
           /\ Forgotten(m, t).knobs = m.knobs
<1>1. NoEntry \in Entries
  BY DEF NoEntry, Entries
<1>2. Forgotten(m, t) = Remembered(m, t, NoEntry)
  BY DEF Forgotten, Remembered
<1>3. /\ Remembered(m, t, NoEntry) \in Memories
      /\ Remembered(m, t, NoEntry).pending = [m.pending EXCEPT ![t] = NoEntry]
  BY <1>1, RememberedIsMemory
<1>4. /\ Forgotten(m, t).last = m.last /\ Forgotten(m, t).emitted = m.emitted
      /\ Forgotten(m, t).received = m.received /\ Forgotten(m, t).hyp = m.hyp
      /\ Forgotten(m, t).learnt = m.learnt /\ Forgotten(m, t).sensed = m.sensed
      /\ Forgotten(m, t).knobs = m.knobs
  BY DEF Forgotten, Memories
<1> QED BY <1>1, <1>2, <1>3, <1>4

LEMMA FrozenAnswered ==
    ASSUME NEW m \in Memories, NEW l \in Seq(Events), NEW t \in Turns, NEW bits \in {0, 1},
           NEW r \in OnOutcome("frozen-llm", m, l, t, bits)
    PROVE  r \in Results /\ Answered("frozen-llm", m, l, t, r)
<1>1. CASE m.pending[t] = NoEntry \/ m.pending[t].folded
  <2>1. r = Returns(m, l)
    BY <1>1 DEF OnOutcome, FrozenOutcome
  <2> QED BY <2>1, NothingAnswered DEF Tracks, Updating
<1>2. CASE ~(m.pending[t] = NoEntry \/ m.pending[t].folded)
  <2> DEFINE e == [m.pending[t] EXCEPT !.folded = TRUE]
             d == Remembered(m, t, e)
  <2>1. e \in Entries /\ e.mark = m.pending[t].mark /\ e.folded /\ e.rewarded = m.pending[t].rewarded
    <3>1. m.pending[t] \in Entries
      BY DEF Memories
    <3> QED BY <3>1 DEF Entries
  <2>2. [m EXCEPT !.pending[t].folded = TRUE] = d
    BY DEF Memories, Remembered
  <2>3. r \in IF m.pending[t].mark = NoMark THEN {Returns(d, l)}
              ELSE UNION {HypothesesOn(q, l, t, Failed(bits)) : q \in Learnt(d, t)}
    BY <1>2, <2>2 DEF OnOutcome, FrozenOutcome
  <2> HIDE DEF e
  <2>4. d \in Memories /\ d.pending = [m.pending EXCEPT ![t] = e] /\ d.pending[t] = e
    BY <2>1, RememberedIsMemory
  <2>5. /\ d.last = m.last /\ d.emitted = m.emitted /\ d.received = m.received /\ d.hyp = m.hyp
        /\ d.learnt = m.learnt /\ d.sensed = m.sensed /\ d.knobs = m.knobs /\ d.kept = m.kept
        /\ d.belief = m.belief
    BY DEF Remembered, Memories
  <2> HIDE DEF d
  <2>6. CASE m.pending[t].mark = NoMark
    <3>1. r = Returns(d, l) /\ r \in Results
      BY <2>3, <2>4, <2>6 DEF Returns, Results, Faults
    <3> QED BY <1>2, <2>1, <2>4, <2>5, <3>1 DEF Answered, Updating
  <2>7. CASE m.pending[t].mark # NoMark
    <3>1. PICK q \in Learnt(d, t) : r \in HypothesesOn(q, l, t, Failed(bits))
      BY <2>3, <2>7
    <3>2. e.mark \in Marks
      BY <2>1, <2>7 DEF Entries
    <3>3. /\ q \in Memories /\ q.learnt = Append(d.learnt, t)
          /\ q.pending = d.pending /\ q.last = d.last /\ q.emitted = d.emitted /\ q.received = d.received
          /\ q.hyp = d.hyp /\ q.sensed = d.sensed /\ q.knobs = d.knobs /\ q.kept = d.kept
      BY <2>4, <3>1, <3>2, LearntDoes
    <3>4. Failed(bits) \in SUBSET BOOLEAN
      BY DEF Failed
    <3>5. r \in Results /\ ((e.mark \in Marks /\ Reasoned(q, l, t, e.mark, r)) \/ r = Returns(q, l))
      <4>1. q.pending[t] = e /\ q \in Memories
        BY <2>4, <3>3
      <4> QED BY ONLY <3>1, <3>4, <4>1, HypothesesOnDo, l \in Seq(Events), t \in Turns
    <3>6. /\ q.pending = [m.pending EXCEPT ![t] = e]
          /\ q.last = m.last /\ q.emitted = m.emitted /\ q.received = m.received /\ q.hyp = m.hyp
          /\ q.knobs = m.knobs /\ q.kept = m.kept /\ q.sensed = m.sensed
          /\ ~m.pending[t].folded /\ e.folded /\ q.learnt = Append(m.learnt, t)
      BY <1>2, <2>1, <2>4, <2>5, <3>3
    <3>7. "frozen-llm" \notin Updating
      BY DEF Updating
    <3> QED BY <2>1, <3>3, <3>5, <3>6, <3>7 DEF Answered
  <2> QED BY <2>6, <2>7
<1> QED BY <1>1, <1>2

LEMMA OutcomeDoes ==
    ASSUME NEW track \in Tracks, NEW m \in Memories, NEW l \in Seq(Events), NEW t \in Turns, NEW bits \in {0, 1},
           NEW r \in OnOutcome(track, m, l, t, bits)
    PROVE  r \in Results /\ Answered(track, m, l, t, r)
<1>1. CASE track = "no-learning"
  <2>1. r = Returns(m, l)
    BY <1>1 DEF OnOutcome
  <2> QED BY <1>1, <2>1, NothingAnswered DEF Updating
<1> QED BY <1>1, TabularAnswered, SelfSupervisedAnswered, HybridAnswered, FrozenAnswered DEF Tracks

\* What an update does. It ends by keeping the live registries.
Updated(track, m, t, n) ==
    /\ \E e \in Entries :
          /\ n.pending = [m.pending EXCEPT ![t] = e]
          /\ e.mark = NoMark \/ e = m.pending[t]
          /\ \/ n.learnt = m.learnt
             \/ /\ n.learnt = Append(m.learnt, t) /\ m.pending[t].mark # NoMark
                /\ e.mark = NoMark \/ (track = "hybrid" /\ ~m.pending[t].rewarded)
    /\ n.last = m.last /\ n.emitted = m.emitted /\ n.received = m.received /\ n.hyp = m.hyp
    /\ n.sensed = m.sensed /\ n.knobs = m.knobs
    /\ n.kept = Snapshot(m)

LEMMA KeptIsMemory ==
    ASSUME NEW n \in Memories
    PROVE  LET k == [n EXCEPT !.kept = Snapshot(n)]
           IN  /\ k \in Memories
               /\ k.pending = n.pending /\ k.last = n.last /\ k.emitted = n.emitted /\ k.received = n.received
               /\ k.hyp = n.hyp /\ k.learnt = n.learnt /\ k.sensed = n.sensed /\ k.knobs = n.knobs
               /\ k.kept = Snapshot(n) /\ k.belief = n.belief
<1>1. Snapshot(n) \in Registries
  BY DEF Snapshot, Memories, Registries
<1> QED BY <1>1 DEF Memories

\* A tail of an update: forgetting the turn, or learning it first.
LEMMA ForgettingUpdates ==
    ASSUME NEW track \in Updating, NEW m \in Memories, NEW t \in Turns,
           NEW n \in {Forgotten(m, t)} \cup
                     (IF m.pending[t].mark = NoMark THEN {} ELSE {Forgotten(q, t) : q \in Learnt(m, t)}),
           NEW k, k = [n EXCEPT !.kept = Snapshot(n)]
    PROVE  k \in Memories /\ Updated(track, m, t, k)
<1>1. NoEntry \in Entries /\ NoEntry.mark = NoMark
  BY DEF NoEntry, Entries
<1>2. CASE n = Forgotten(m, t)
  <2>1. /\ n \in Memories /\ n.pending = [m.pending EXCEPT ![t] = NoEntry]
        /\ n.last = m.last /\ n.emitted = m.emitted
        /\ n.received = m.received /\ n.hyp = m.hyp /\ n.learnt = m.learnt /\ n.sensed = m.sensed
        /\ n.knobs = m.knobs
    BY <1>2, ForgottenIsMemory
  <2>2. /\ k \in Memories /\ k.kept = Snapshot(n)
        /\ k.pending = n.pending /\ k.last = n.last /\ k.emitted = n.emitted /\ k.received = n.received
        /\ k.hyp = n.hyp /\ k.learnt = n.learnt /\ k.sensed = n.sensed /\ k.knobs = n.knobs
    BY <2>1, KeptIsMemory
  <2>3. Snapshot(n) = Snapshot(m)
    BY <2>1 DEF Snapshot
  <2> QED BY <1>1, <2>1, <2>2, <2>3 DEF Updated
<1>3. CASE m.pending[t].mark # NoMark /\ n \in {Forgotten(q, t) : q \in Learnt(m, t)}
  <2>1. PICK q \in Learnt(m, t) : n = Forgotten(q, t)
    BY <1>3
  <2>2. m.pending[t].mark \in Marks
    BY <1>3 DEF Memories, Entries
  <2>3. /\ q \in Memories /\ q.learnt = Append(m.learnt, t)
        /\ q.pending = m.pending /\ q.last = m.last /\ q.emitted = m.emitted /\ q.received = m.received
        /\ q.hyp = m.hyp /\ q.sensed = m.sensed /\ q.knobs = m.knobs
    BY <2>1, <2>2, LearntDoes
  <2>4. /\ n \in Memories /\ n.pending = [q.pending EXCEPT ![t] = NoEntry]
        /\ n.last = q.last /\ n.emitted = q.emitted
        /\ n.received = q.received /\ n.hyp = q.hyp /\ n.learnt = q.learnt /\ n.sensed = q.sensed
        /\ n.knobs = q.knobs
    BY <2>1, <2>3, ForgottenIsMemory
  <2>5. /\ k \in Memories /\ k.kept = Snapshot(n)
        /\ k.pending = n.pending /\ k.last = n.last /\ k.emitted = n.emitted /\ k.received = n.received
        /\ k.hyp = n.hyp /\ k.learnt = n.learnt /\ k.sensed = n.sensed /\ k.knobs = n.knobs
    BY <2>4, KeptIsMemory
  <2>6. Snapshot(n) = Snapshot(m)
    BY <2>3, <2>4 DEF Snapshot
  <2> QED BY <1>1, <1>3, <2>3, <2>4, <2>5, <2>6 DEF Updated
<1> QED BY <1>2, <1>3

LEMMA UpdateDoes ==
    ASSUME NEW track \in Updating, NEW m \in Memories, NEW t \in Turns, NEW k \in UpdatePolicy(track, m, t)
    PROVE  k \in Memories /\ Updated(track, m, t, k)
<1>1. PICK n : /\ k = [n EXCEPT !.kept = Snapshot(n)]
               /\ \/ n \in {Forgotten(m, t)} \cup
                           (IF m.pending[t].mark = NoMark THEN {} ELSE {Forgotten(q, t) : q \in Learnt(m, t)})
                  \/ n = m
                  \/ track = "hybrid" /\ ~m.pending[t].rewarded /\ m.pending[t].mark # NoMark /\ n \in Learnt(m, t)
  <2>1. CASE track = "scratch-rl"
    BY <2>1 DEF UpdatePolicy, TabularUpdate
  <2>2. CASE track = "self-supervised"
    BY <2>2 DEF UpdatePolicy, SelfSupervisedUpdate
  <2>3. CASE track = "hybrid"
    BY <2>3 DEF UpdatePolicy, HybridUpdate
  <2> QED BY <2>1, <2>2, <2>3 DEF Updating
<1>2. CASE n = m
  <2>1. /\ k \in Memories /\ k.kept = Snapshot(m)
        /\ k.pending = m.pending /\ k.last = m.last /\ k.emitted = m.emitted /\ k.received = m.received
        /\ k.hyp = m.hyp /\ k.learnt = m.learnt /\ k.sensed = m.sensed /\ k.knobs = m.knobs
    BY <1>1, <1>2, KeptIsMemory
  <2> DEFINE e == m.pending[t]
  <2>2. e \in Entries /\ k.pending = [m.pending EXCEPT ![t] = e] /\ e = m.pending[t]
    BY <2>1, EntryStays
  <2> HIDE DEF e
  <2>3. \E x \in Entries : /\ k.pending = [m.pending EXCEPT ![t] = x]
                           /\ x.mark = NoMark \/ x = m.pending[t]
                           /\ k.learnt = m.learnt
    BY <2>1, <2>2
  <2> QED BY <2>1, <2>3 DEF Updated
<1>3. CASE track = "hybrid" /\ ~m.pending[t].rewarded /\ m.pending[t].mark # NoMark /\ n \in Learnt(m, t)
  <2>1. m.pending[t].mark \in Marks
    BY <1>3 DEF Memories, Entries
  <2>2. /\ n \in Memories /\ n.learnt = Append(m.learnt, t)
        /\ n.pending = m.pending /\ n.last = m.last /\ n.emitted = m.emitted /\ n.received = m.received
        /\ n.hyp = m.hyp /\ n.sensed = m.sensed /\ n.knobs = m.knobs
    BY <1>3, <2>1, LearntDoes
  <2>3. /\ k \in Memories /\ k.kept = Snapshot(n)
        /\ k.pending = n.pending /\ k.last = n.last /\ k.emitted = n.emitted /\ k.received = n.received
        /\ k.hyp = n.hyp /\ k.learnt = n.learnt /\ k.sensed = n.sensed /\ k.knobs = n.knobs
    BY <1>1, <2>2, KeptIsMemory
  <2>4. Snapshot(n) = Snapshot(m)
    BY <2>2 DEF Snapshot
  <2> DEFINE e == m.pending[t]
  <2>5. e \in Entries /\ k.pending = [m.pending EXCEPT ![t] = e] /\ e = m.pending[t]
    BY <2>2, <2>3, EntryStays
  <2>6. k.learnt = Append(m.learnt, t)
    BY <2>2, <2>3
  <2> HIDE DEF e
  <2>7. \E x \in Entries : /\ k.pending = [m.pending EXCEPT ![t] = x]
                           /\ x.mark = NoMark \/ x = m.pending[t]
                           /\ k.learnt = Append(m.learnt, t) /\ m.pending[t].mark # NoMark
                           /\ x.mark = NoMark \/ (track = "hybrid" /\ ~m.pending[t].rewarded)
    BY <1>3, <2>5, <2>6
  <2> QED BY <2>2, <2>3, <2>4, <2>7 DEF Updated
<1> QED BY <1>1, <1>2, <1>3, ForgettingUpdates

---------------------------------------------------------------------------
(* Policies: exported, loaded, staged *)

Exports == {p \in Policies : p.run = "this"}

LEMMA ExportDoes ==
    ASSUME NEW track \in Tracks, NEW m \in Memories
    PROVE  LET p == ExportPolicy(track, m)
           IN  /\ p \in Exports
               /\ track \in Updating => p.learnt = m.learnt /\ p.registries = m.kept
               /\ track = "hybrid" => p.sensed = m.sensed
<1>1. Fresh \in Memories
  BY FreshIsMemory
<1>2. Configured \in KnobSettings /\ m.knobs \in KnobSettings
  BY DEF Configured, KnobSettings, Memories
<1>3. ASSUME NEW n \in Memories
      PROVE  TabularExport(n) \in Exports /\ TabularExport(n).learnt = n.learnt /\ TabularExport(n).registries = n.kept
  BY <1>2, <1>3 DEF TabularExport, Exports, Policies, Memories
<1>4. CASE track = "scratch-rl"
  BY <1>3, <1>4 DEF ExportPolicy
<1>5. CASE track = "self-supervised"
  <2> DEFINE q == TabularExport(m)
  <2>1. ExportPolicy(track, m) = [q EXCEPT !.knobs = m.knobs]
    BY <1>5 DEF ExportPolicy, SelfSupervisedExport
  <2>2. q \in Exports /\ q.learnt = m.learnt /\ q.registries = m.kept
    BY <1>3
  <2> HIDE DEF q
  <2> QED BY <1>2, <1>5, <2>1, <2>2 DEF Exports, Policies
<1>6. CASE track = "hybrid"
  BY <1>6 DEF ExportPolicy, HybridExport, Exports, Policies, Memories
<1>7. CASE track = "frozen-llm"
  <2>1. EmptyRegistries \in Registries /\ [EmptyRegistries EXCEPT !.hyp = m.hyp] \in Registries
    BY <1>1 DEF EmptyRegistries, Registries, Memories, Fresh
  <2> QED BY <1>2, <1>7, <2>1 DEF ExportPolicy, FrozenExport, Exports, Policies, Memories, Updating
<1>8. CASE track = "no-learning"
  BY <1>1, <1>3, <1>8 DEF ExportPolicy, NoLearningExport, Updating
<1> QED BY <1>4, <1>5, <1>6, <1>7, <1>8 DEF Tracks

\* What is loaded: the tables of the policy, and the registries of a policy
\* of this run.
LoadedFrom(track, p, m) ==
    /\ m.learnt \in {p.learnt, <<>>}
    /\ track # "hybrid" => m.sensed \in {p.registries.sensed, <<>>}
    /\ m.kept.sensed \in {m.sensed, <<>>}
    /\ m.pending = Fresh.pending /\ m.knobs = Configured
    /\ m.kept.emitted = m.emitted /\ m.kept.received = m.received /\ m.kept.hyp = m.hyp
    /\ \/ m.emitted = {} /\ m.received = {} /\ m.hyp = Fresh.hyp
       \/ /\ p.run = "this"
          /\ m.emitted = p.registries.emitted /\ m.received = p.registries.received /\ m.hyp = p.registries.hyp

LEMMA FreshIsLoaded ==
    ASSUME NEW track, NEW p
    PROVE  LoadedFrom(track, p, Fresh)
BY DEF LoadedFrom, Fresh, EmptyRegistries

LEMMA RestoredDoes ==
    ASSUME NEW m \in Memories, NEW g \in Registries
    PROVE  LET n == Restored(m, g)
           IN  /\ n \in Memories
               /\ n.pending = m.pending /\ n.learnt = m.learnt /\ n.sensed = m.sensed /\ n.knobs = m.knobs
               /\ n.emitted = g.emitted /\ n.received = g.received /\ n.hyp = g.hyp
               /\ n.kept = [emitted |-> g.emitted, received |-> g.received, hyp |-> g.hyp, sensed |-> m.sensed]
<1> DEFINE r == [m EXCEPT !.emitted = g.emitted, !.received = g.received, !.hyp = g.hyp]
<1>1. /\ r \in Memories /\ r.emitted = g.emitted /\ r.received = g.received /\ r.hyp = g.hyp
      /\ r.pending = m.pending /\ r.learnt = m.learnt /\ r.sensed = m.sensed /\ r.knobs = m.knobs
  BY DEF Memories, Registries
<1>2. Restored(m, g) = [r EXCEPT !.kept = Snapshot(r)]
  BY DEF Restored
<1> HIDE DEF r
<1>3. LET k == [r EXCEPT !.kept = Snapshot(r)]
      IN  /\ k \in Memories
          /\ k.pending = r.pending /\ k.last = r.last /\ k.emitted = r.emitted /\ k.received = r.received
          /\ k.hyp = r.hyp /\ k.learnt = r.learnt /\ k.sensed = r.sensed /\ k.knobs = r.knobs
          /\ k.kept = Snapshot(r)
  BY <1>1, KeptIsMemory
<1> QED BY <1>1, <1>2, <1>3 DEF Snapshot

LEMMA LoadDoes ==
    ASSUME NEW track \in Tracks, NEW p \in Policies
    PROVE  Loaded(track, p) \in Memories /\ LoadedFrom(track, p, Loaded(track, p))
<1> DEFINE n == Loaded(track, p)
<1>1. Fresh \in Memories
  BY FreshIsMemory
<1>2. /\ p.belief \in [Marks -> Types] /\ p.learnt \in Seq(Int) /\ p.sensed \in Seq(Int)
      /\ p.registries \in Registries /\ p.registries.sensed \in Seq(Int)
  BY DEF Policies, Registries
<1> DEFINE f == [Fresh EXCEPT !.belief = p.belief, !.learnt = p.learnt]
<1>3. f \in Memories /\ f.learnt = p.learnt /\ f.pending = Fresh.pending /\ f.sensed = <<>>
      /\ f.knobs = Configured /\ f.emitted = {} /\ f.received = {} /\ f.hyp = Fresh.hyp /\ f.kept = EmptyRegistries
  BY <1>1, <1>2 DEF Fresh, Memories
<1> DEFINE g == [f EXCEPT !.sensed = p.registries.sensed]
           h == [Fresh EXCEPT !.belief = p.belief, !.learnt = p.learnt, !.sensed = p.sensed]
<1>4. g \in Memories /\ g.learnt = p.learnt /\ g.pending = Fresh.pending /\ g.sensed = p.registries.sensed
      /\ g.knobs = Configured
  BY <1>2, <1>3 DEF Memories
<1>5. h \in Memories /\ h.learnt = p.learnt /\ h.pending = Fresh.pending /\ h.sensed = p.sensed
      /\ h.knobs = Configured /\ h.emitted = {} /\ h.received = {} /\ h.hyp = Fresh.hyp /\ h.kept = EmptyRegistries
  BY <1>1, <1>2 DEF Fresh, Memories
<1>6. EmptyRegistries.emitted = {} /\ EmptyRegistries.received = {} /\ EmptyRegistries.hyp = Fresh.hyp
      /\ EmptyRegistries.sensed = <<>>
  BY DEF EmptyRegistries, Fresh
<1>7. \/ n = Fresh
      \/ track = "scratch-rl" /\ p.run # "this" /\ n = f
      \/ track = "scratch-rl" /\ p.run = "this" /\ n = Restored(g, p.registries)
      \/ track = "self-supervised" /\ p.run # "this" /\ n = f
      \/ track = "self-supervised" /\ p.run = "this" /\ n = Restored(f, p.registries)
      \/ track = "hybrid" /\ p.run # "this" /\ n = h
      \/ track = "hybrid" /\ p.run = "this" /\ n = Restored(h, p.registries)
  <2> HIDE DEF f, g, h
  <2> QED BY DEF Loaded, TabularLoad, SelfSupervisedLoad, HybridLoad, Tracks, f, g, h
<1> HIDE DEF f, g, h, n
<1>8. CASE n = Fresh
  BY <1>1, <1>8, FreshIsLoaded DEF n
<1>9. CASE n = f
  <2>1. LoadedFrom(track, p, n)
    BY <1>3, <1>6, <1>9 DEF LoadedFrom
  <2> QED BY <1>3, <1>9, <2>1 DEF n
<1>10. CASE n = h /\ track = "hybrid"
  <2>1. LoadedFrom(track, p, n)
    BY <1>5, <1>6, <1>10 DEF LoadedFrom
  <2> QED BY <1>5, <1>10, <2>1 DEF n
<1>11. ASSUME NEW m \in Memories, n = Restored(m, p.registries), p.run = "this",
              m.learnt = p.learnt, m.pending = Fresh.pending, m.knobs = Configured,
              track # "hybrid" => m.sensed \in {p.registries.sensed, <<>>}
       PROVE  n \in Memories /\ LoadedFrom(track, p, n)
  <2>1. /\ n \in Memories
        /\ n.pending = m.pending /\ n.learnt = m.learnt /\ n.sensed = m.sensed /\ n.knobs = m.knobs
        /\ n.emitted = p.registries.emitted /\ n.received = p.registries.received /\ n.hyp = p.registries.hyp
        /\ n.kept = [emitted |-> p.registries.emitted, received |-> p.registries.received,
                     hyp |-> p.registries.hyp, sensed |-> m.sensed]
    BY <1>2, <1>11, RestoredDoes
  <2> QED BY <1>11, <2>1 DEF LoadedFrom
<1> QED BY <1>3, <1>4, <1>5, <1>7, <1>8, <1>9, <1>10, <1>11 DEF n

LEMMA StageSets ==
    ASSUME NEW track, NEW m, NEW i
    PROVE  ApplyStage(track, m, i) =
             [m EXCEPT !.knobs = [set |-> [k \in Knobs |-> IF k \in Stages[i].knobs THEN i ELSE m.knobs.set[k]],
                                  consolidating |-> Stages[i].consolidation]]
BY DEF ApplyStage, HybridStage, SelfSupervisedStage

LEMMA StageDoes ==
    ASSUME NEW track, NEW m \in Memories, NEW i \in DOMAIN Stages
    PROVE  LET n == ApplyStage(track, m, i)
           IN  /\ n \in Memories
               /\ n.pending = m.pending /\ n.last = m.last /\ n.emitted = m.emitted /\ n.received = m.received
               /\ n.hyp = m.hyp /\ n.learnt = m.learnt /\ n.sensed = m.sensed /\ n.kept = m.kept
               /\ n.belief = m.belief
<1> DEFINE s == [set |-> [k \in Knobs |-> IF k \in Stages[i].knobs THEN i ELSE m.knobs.set[k]],
                 consolidating |-> Stages[i].consolidation]
<1>1. ApplyStage(track, m, i) = [m EXCEPT !.knobs = s]
  BY StageSets
<1>2. i \in Nat /\ Stages[i].consolidation \in BOOLEAN
  BY LearnerAssumption, StagesAreNumbered
<1>3. m.knobs \in KnobSettings
  BY DEF Memories
<1>4. [k \in Knobs |-> IF k \in Stages[i].knobs THEN i ELSE m.knobs.set[k]] \in [Knobs -> Nat]
  BY <1>2, <1>3 DEF KnobSettings
<1>5. s \in KnobSettings
  BY <1>2, <1>4 DEF KnobSettings
<1> HIDE DEF s
<1> QED BY <1>1, <1>5 DEF Memories

---------------------------------------------------------------------------
(* What a ledger backs *)

UsedIn(l, kind) == {e.mark : e \in {f \in Range(l) : f.kind = kind}}

NamedIn(l, k, v, before) ==
    v = 0 \/ \E i \in 1..before : l[i].kind = "hypothesis" /\ l[i].mark = k /\ l[i].version = v

Priors(l) == \A i \in DOMAIN l : NamedIn(l, l[i].mark, l[i].prior, i - 1)

\* Registries, live or kept, hold nothing the ledger does not record.
Backs(l, g) ==
    /\ g.emitted \subseteq UsedIn(l, "emitted") /\ g.received \subseteq UsedIn(l, "received")
    /\ \A k \in Marks : NamedIn(l, k, g.hyp[k].version, Len(l))

Reasons == {"hypothesis", "contradicted"}

\* A call adds one event of its turn at most.
Grown(l, n, t, kinds) ==
    n = l \/ \E e \in Events : e.turn = t /\ e.kind \in kinds /\ n = Append(l, e)

LEMMA AppendKeeps ==
    ASSUME NEW l \in Seq(Events), NEW e \in Events
    PROVE  /\ Append(l, e) \in Seq(Events) /\ Len(Append(l, e)) = Len(l) + 1 /\ Len(l) \in Nat
           /\ \A i \in 1..Len(l) : Append(l, e)[i] = l[i]
           /\ Append(l, e)[Len(l) + 1] = e
           /\ DOMAIN l = 1..Len(l) /\ DOMAIN Append(l, e) = 1..(Len(l) + 1)
OBVIOUS

LEMMA UsedGrows ==
    ASSUME NEW l \in Seq(Events), NEW e \in Events, NEW kind
    PROVE  /\ UsedIn(l, kind) \subseteq UsedIn(Append(l, e), kind)
           /\ e.kind = kind => e.mark \in UsedIn(Append(l, e), kind)
<1>1. Range(l) \subseteq Range(Append(l, e)) /\ e \in Range(Append(l, e))
  BY AppendKeeps DEF Range
<1> QED BY <1>1 DEF UsedIn

LEMMA NamedGrows ==
    ASSUME NEW l \in Seq(Events), NEW e \in Events, NEW k, NEW v, NEW n \in 0..Len(l), NamedIn(l, k, v, n)
    PROVE  NamedIn(Append(l, e), k, v, n) /\ NamedIn(Append(l, e), k, v, Len(Append(l, e)))
<1>1. /\ Len(l) \in Nat /\ Len(Append(l, e)) = Len(l) + 1
      /\ \A i \in 1..Len(l) : Append(l, e)[i] = l[i]
  BY AppendKeeps
<1>2. CASE v = 0
  BY <1>2 DEF NamedIn
<1>3. CASE v # 0
  <2>1. PICK i \in 1..n : l[i].kind = "hypothesis" /\ l[i].mark = k /\ l[i].version = v
    BY <1>3 DEF NamedIn
  <2>2. i \in 1..Len(l) /\ i \in 1..(Len(l) + 1)
    BY <1>1, <2>1
  <2>3. Append(l, e)[i] = l[i]
    BY <1>1, <2>2
  <2> QED BY <1>1, <2>1, <2>2, <2>3 DEF NamedIn
<1> QED BY <1>2, <1>3

LEMMA BacksGrows ==
    ASSUME NEW l \in Seq(Events), NEW e \in Events, NEW g, Backs(l, g)
    PROVE  Backs(Append(l, e), g)
<1>1. Len(l) \in 0..Len(l)
  OBVIOUS
<1> QED BY <1>1, UsedGrows, NamedGrows DEF Backs

LEMMA BacksStays ==
    ASSUME NEW l \in Seq(Events), NEW n, NEW t, NEW kinds, Grown(l, n, t, kinds), NEW g, Backs(l, g)
    PROVE  Backs(n, g)
BY BacksGrows DEF Grown

LEMMA BacksLike ==
    ASSUME NEW l, NEW g, NEW h, Backs(l, g), h.emitted = g.emitted, h.received = g.received, h.hyp = g.hyp
    PROVE  Backs(l, h)
BY DEF Backs

LEMMA BacksNothing ==
    ASSUME NEW l, NEW h, h.emitted = {}, h.received = {}, h.hyp = Fresh.hyp
    PROVE  Backs(l, h)
BY DEF Backs, Fresh, NoHypothesis, NamedIn

LEMMA PriorsGrow ==
    ASSUME NEW l \in Seq(Events), NEW e \in Events, Priors(l), NamedIn(l, e.mark, e.prior, Len(l))
    PROVE  Priors(Append(l, e))
<1> DEFINE n == Append(l, e)
<1>1. /\ Len(l) \in Nat /\ Len(n) = Len(l) + 1 /\ DOMAIN l = 1..Len(l) /\ DOMAIN n = 1..(Len(l) + 1)
      /\ \A i \in 1..Len(l) : n[i] = l[i]
      /\ n[Len(l) + 1] = e
  BY AppendKeeps
<1> SUFFICES ASSUME NEW i \in DOMAIN n PROVE NamedIn(n, n[i].mark, n[i].prior, i - 1)
  BY DEF Priors
<1>2. CASE i = Len(l) + 1
  <2>1. NamedIn(n, e.mark, e.prior, Len(l))
    BY <1>1, NamedGrows
  <2> HIDE DEF n
  <2>2. n[i] = e /\ i - 1 = Len(l)
    BY <1>1, <1>2
  <2> QED BY <2>1, <2>2
<1>3. CASE i # Len(l) + 1
  <2> HIDE DEF n
  <2>1. i \in DOMAIN l /\ n[i] = l[i] /\ i - 1 \in 0..Len(l)
    BY <1>1, <1>3
  <2>2. NamedIn(l, l[i].mark, l[i].prior, i - 1)
    BY <2>1 DEF Priors
  <2> QED BY <2>1, <2>2, NamedGrows DEF n
<1> QED BY <1>2, <1>3

\* First uses and hypotheses keep the ledger as it should be.
LEMMA SentIsBacked ==
    ASSUME NEW track, NEW m \in Memories, NEW l \in Seq(Events), NEW t \in Turns, NEW r \in Results,
           Sent(track, m, l, t, r), Backs(l, m), Priors(l)
    PROVE  Backs(r.ledger, r.mem) /\ Priors(r.ledger) /\ Grown(l, r.ledger, t, {"emitted"}) /\ r.mem.kept = m.kept
<1>1. PICK e \in Entries :
        /\ e.role = "sender"
        /\ r.ledger \in {l, Append(l, Event("emitted", t, e.mark, 0, 0))}
        /\ r.mem.emitted \in {m.emitted, m.emitted \cup {e.mark}}
        /\ r.ledger = l => r.mem.emitted = m.emitted
        /\ r.mem.received = m.received /\ r.mem.hyp = m.hyp /\ r.mem.kept = m.kept
  BY DEF Sent
<1>2. CASE r.ledger = l
  BY <1>1, <1>2, BacksLike DEF Grown
<1>3. CASE r.ledger # l
  <2> DEFINE f == Event("emitted", t, e.mark, 0, 0)
  <2>1. f \in Events /\ f.kind = "emitted" /\ f.mark = e.mark /\ f.prior = 0 /\ f.turn = t
    BY DEF Events, Event, Entries
  <2> HIDE DEF f
  <2>2. r.ledger = Append(l, f)
    BY <1>1, <1>3 DEF f
  <2>3. Backs(r.ledger, m)
    BY <2>1, <2>2, BacksGrows
  <2>4. e.mark \in UsedIn(r.ledger, "emitted")
    BY <2>1, <2>2, UsedGrows
  <2>5. Backs(r.ledger, r.mem)
    BY <1>1, <2>3, <2>4 DEF Backs
  <2>6. Priors(r.ledger)
    BY <2>1, <2>2, PriorsGrow DEF NamedIn
  <2> QED BY <1>1, <2>1, <2>2, <2>5, <2>6 DEF Grown
<1> QED BY <1>2, <1>3

LEMMA ReceivedIsBacked ==
    ASSUME NEW track, NEW m \in Memories, NEW l \in Seq(Events), NEW t \in Turns, NEW k \in Marks, NEW r \in Results,
           Received(track, m, l, t, k, r), Backs(l, m), Priors(l)
    PROVE  Backs(r.ledger, r.mem) /\ Priors(r.ledger) /\ Grown(l, r.ledger, t, {"received"}) /\ r.mem.kept = m.kept
<1>1. /\ r.ledger \in {l, Append(l, Event("received", t, k, 0, 0))}
      /\ r.mem.received \in {m.received, m.received \cup {k}}
      /\ r.ledger = l => r.mem.received = m.received
      /\ r.mem.emitted = m.emitted /\ r.mem.hyp = m.hyp /\ r.mem.kept = m.kept
  BY DEF Received
<1>2. CASE r.ledger = l
  BY <1>1, <1>2, BacksLike DEF Grown
<1>3. CASE r.ledger # l
  <2> DEFINE f == Event("received", t, k, 0, 0)
  <2>1. f \in Events /\ f.kind = "received" /\ f.mark = k /\ f.prior = 0 /\ f.turn = t
    BY DEF Events, Event
  <2> HIDE DEF f
  <2>2. r.ledger = Append(l, f)
    BY <1>1, <1>3 DEF f
  <2>3. Backs(r.ledger, m)
    BY <2>1, <2>2, BacksGrows
  <2>4. k \in UsedIn(r.ledger, "received")
    BY <2>1, <2>2, UsedGrows
  <2>5. Backs(r.ledger, r.mem)
    BY <1>1, <2>3, <2>4 DEF Backs
  <2>6. Priors(r.ledger)
    BY <2>1, <2>2, PriorsGrow DEF NamedIn
  <2> QED BY <1>1, <2>1, <2>2, <2>5, <2>6 DEF Grown
<1> QED BY <1>2, <1>3

LEMMA ReasonedIsBacked ==
    ASSUME NEW m \in Memories, NEW l \in Seq(Events), NEW t \in Turns, NEW k \in Marks, NEW r \in Results,
           Reasoned(m, l, t, k, r), Backs(l, m), Priors(l)
    PROVE  Backs(r.ledger, r.mem) /\ Priors(r.ledger) /\ Grown(l, r.ledger, t, Reasons) /\ r.mem.kept = m.kept
<1> DEFINE v == m.hyp[k].version
           c == Event("contradicted", t, k, v, v)
           h == Event("hypothesis", t, k, v + 1, v)
<1>1. v \in Nat /\ v + 1 \in Nat
  BY DEF Memories, Versions
<1>2. NamedIn(l, k, v, Len(l))
  BY DEF Backs
<1> HIDE DEF v
<1>3. /\ c \in Events /\ c.kind \in Reasons /\ c.mark = k /\ c.prior = v /\ c.turn = t
      /\ h \in Events /\ h.kind \in Reasons /\ h.kind = "hypothesis" /\ h.mark = k /\ h.prior = v /\ h.version = v + 1 /\ h.turn = t
  BY <1>1 DEF Events, Event, Reasons
<1> HIDE DEF c, h
<1>4. \/ r.mem = m /\ r.ledger = l
      \/ r.mem = m /\ r.ledger = Append(l, c)
      \/ r.mem \in {m, Advanced(m, k)} /\ r.ledger = Append(l, h)
  BY DEF Reasoned, c, h, v
<1>5. Priors(r.ledger) /\ Grown(l, r.ledger, t, Reasons) /\ Backs(r.ledger, m)
  <2>1. Priors(Append(l, c)) /\ Priors(Append(l, h))
    BY <1>2, <1>3, PriorsGrow
  <2>2. Backs(Append(l, c), m) /\ Backs(Append(l, h), m)
    BY <1>3, BacksGrows
  <2> QED BY <1>3, <1>4, <2>1, <2>2 DEF Grown
<1>6. CASE r.mem = m
  BY <1>5, <1>6
<1>7. CASE r.mem = Advanced(m, k) /\ r.ledger = Append(l, h)
  <2> DEFINE n == Advanced(m, k)
  <2>1. /\ n.emitted = m.emitted /\ n.received = m.received /\ n.kept = m.kept
        /\ n.hyp = [m.hyp EXCEPT ![k] = [version |-> v + 1, type |-> m.belief[k]]]
    BY DEF Advanced, Memories, v
  <2> HIDE DEF n
  <2>2. n.hyp[k].version = v + 1 /\ \A j \in Marks \ {k} : n.hyp[j] = m.hyp[j]
    BY <2>1 DEF Memories, Versions
  <2>3. NamedIn(r.ledger, k, v + 1, Len(r.ledger))
    <3>1. Len(Append(l, h)) = Len(l) + 1 /\ Append(l, h)[Len(l) + 1] = h /\ Len(l) \in Nat
      BY <1>3, AppendKeeps
    <3>2. Len(l) + 1 \in 1..(Len(l) + 1)
      BY <3>1
    <3> QED BY <1>3, <1>7, <3>1, <3>2 DEF NamedIn
  <2>4. Backs(r.ledger, n)
    BY <1>5, <2>1, <2>2, <2>3 DEF Backs
  <2> QED BY <1>5, <1>7, <2>1, <2>4 DEF n
<1> QED BY <1>4, <1>6, <1>7

LEMMA AnsweredIsBacked ==
    ASSUME NEW track, NEW m \in Memories, NEW l \in Seq(Events), NEW t \in Turns, NEW r \in Results,
           Answered(track, m, l, t, r), Backs(l, m), Priors(l)
    PROVE  Backs(r.ledger, r.mem) /\ Priors(r.ledger) /\ Grown(l, r.ledger, t, Reasons) /\ r.mem.kept = m.kept
<1>1. PICK n \in Memories, e \in Entries :
        /\ n.emitted = m.emitted /\ n.received = m.received /\ n.hyp = m.hyp /\ n.kept = m.kept
        /\ \/ r = Returns(n, l)
           \/ e.mark \in Marks /\ Reasoned(n, l, t, e.mark, r)
  BY DEF Answered
<1>2. Backs(l, n)
  BY <1>1, BacksLike
<1>3. CASE r = Returns(n, l)
  BY <1>1, <1>2, <1>3 DEF Returns, Grown
<1>4. CASE e.mark \in Marks /\ Reasoned(n, l, t, e.mark, r)
  BY <1>1, <1>2, <1>4, ReasonedIsBacked
<1> QED BY <1>1, <1>3, <1>4

---------------------------------------------------------------------------
(* A call *)

\* An attempt that returned, or one that failed.
Ends(r, next) ==
    \/ r.fault = "none" /\ pc' = next /\ attempt' = 0 /\ faults' = faults
    \/ /\ faults < MaxFaults /\ faults' = faults + 1
       /\ \/ attempt + 1 < Attempts /\ pc' = pc /\ attempt' = attempt + 1
          \/ ~(attempt + 1 < Attempts) /\ pc' = "forfeit" /\ attempt' = 0

\* However it ends, a call leaves what one of its results says.
LEMMA CallDoes ==
    ASSUME NEW results, \A q \in results : q \in Results, NEW next, Call(results, next)
    PROVE  \E r \in results : r \in Results /\ mem' = r.mem /\ ledger' = r.ledger /\ Ends(r, next)
<1>1. PICK q \in Answers(results) :
        /\ mem' = q.mem /\ ledger' = q.ledger
        /\ IF q.fault = "none"
           THEN pc' = next /\ attempt' = 0 /\ UNCHANGED faults
           ELSE /\ faults < MaxFaults /\ faults' = faults + 1
                /\ pc' = IF attempt + 1 < Attempts THEN pc ELSE "forfeit"
                /\ attempt' = IF attempt + 1 < Attempts THEN attempt + 1 ELSE 0
  BY DEF Call
<1>2. CASE q \in results
  BY <1>1, <1>2 DEF Ends
<1>3. CASE q \notin results
  <2>1. PICK r \in results : r.fault = "none" /\ q = [r EXCEPT !.fault = "unanswered"]
    BY <1>3 DEF Answers
  <2>2. q.mem = r.mem /\ q.ledger = r.ledger /\ q.fault = "unanswered"
    BY <2>1 DEF Results
  <2> QED BY <1>1, <2>1, <2>2 DEF Ends
<1> QED BY <1>2, <1>3

---------------------------------------------------------------------------
(* The inductive invariant: what is where *)

Calls == {"begin", "act", "submit", "deliver", "receive", "select", "outcome", "update", "write", "record",
          "forfeit", "checkpoint", "down", "done", "stuck"}

CourseOK ==
    /\ setting \in Settings
    /\ mem \in Memories /\ ledger \in Seq(Events)
    /\ latest \in {None, Torn} \cup Exports /\ policyRef \in {None} \cup Exports
    /\ pc \in Calls
    /\ turns \in Seq(BOOLEAN) /\ turn = Len(turns) /\ turn \in 0..(LastTurn + 1)
    /\ pc # "done" => turn <= LastTurn
    /\ attempt \in 0..(Attempts - 1) /\ bit \in {0, 1}
    /\ heard \in Marks \cup {NoMark} /\ (pc = "receive" => heard \in Marks)
    /\ channel \subseteq Turns /\ \A t \in channel : t <= turn
    /\ stages \in Seq([stage : DOMAIN Stages, turn : Nat]) /\ (stages # <<>> => setting.staged)
    /\ pc \in {"update", "write"} => setting.track \in Updating /\ turn < TrainingTurns
    /\ faults \in Nat /\ crashes \in Nat /\ (pc \in {"down", "stuck"} => crashes > 0)

LEMMA NumbersAreNumbers ==
    /\ LastTurn \in Nat /\ TrainingTurns \in Nat /\ Attempts \in Nat \ {0}
    /\ MaxFaults \in Nat /\ MaxCrashes \in Nat /\ TrainingTurns <= LastTurn
BY LearnerAssumption, LearningAssumption

LEMMA TrackIsTrack ==
    ASSUME CourseOK
    PROVE  setting.track \in Tracks
BY LearningAssumption DEF CourseOK

LEMMA TurnIsTurn ==
    ASSUME CourseOK, pc # "done"
    PROVE  turn \in Turns /\ turn \in Nat
BY NumbersAreNumbers DEF CourseOK, Turns

\* A turn after the calls of this one.
LEMMA CallKeepsTurn ==
    ASSUME CourseOK, NEW r, NEW next, Ends(r, next)
    PROVE  attempt' \in 0..(Attempts - 1) /\ faults' \in Nat /\ pc' \in {next, pc, "forfeit"}
BY NumbersAreNumbers DEF CourseOK, Ends

LEMMA SenderStep ==
    ASSUME CourseOK, SenderActs
    PROVE  \E r \in Results :
             /\ Sent(setting.track, mem, ledger, turn, r)
             /\ mem' = r.mem /\ ledger' = r.ledger /\ Ends(r, "submit")
<1> DEFINE q == Sends(setting.track, mem, ledger, turn)
<1>1. pc = "act" /\ Call(q, "submit")
  BY DEF SenderActs
<1>2. mem \in Memories /\ ledger \in Seq(Events) /\ turn \in Turns /\ setting.track \in Tracks
  BY <1>1, TurnIsTurn, TrackIsTrack DEF CourseOK
<1>3. \A r \in q : r \in Results /\ Sent(setting.track, mem, ledger, turn, r)
  BY <1>2, SendsDo
<1> HIDE DEF q
<1> QED BY <1>1, <1>3, CallDoes

LEMMA ReceiverStep ==
    ASSUME CourseOK, ReceiverReceives
    PROVE  \E r \in Results :
             /\ Received(setting.track, mem, ledger, turn, heard, r)
             /\ mem' = r.mem /\ ledger' = r.ledger /\ Ends(r, "select")
<1> DEFINE q == Receives(setting.track, mem, ledger, turn, heard)
<1>1. pc = "receive" /\ Call(q, "select")
  BY DEF ReceiverReceives
<1>2. /\ mem \in Memories /\ ledger \in Seq(Events) /\ turn \in Turns /\ setting.track \in Tracks
      /\ heard \in Marks
  BY <1>1, TurnIsTurn, TrackIsTrack DEF CourseOK
<1>3. \A r \in q : r \in Results /\ Received(setting.track, mem, ledger, turn, heard, r)
  BY <1>2, ReceivesDo
<1> HIDE DEF q
<1> QED BY <1>1, <1>3, CallDoes

LEMMA SelectStep ==
    ASSUME CourseOK, ReceiverActs
    PROVE  \E r \in Results :
             /\ Selected(setting.track, mem, ledger, turn, r)
             /\ mem' = r.mem /\ ledger' = r.ledger /\ Ends(r, "outcome")
<1> DEFINE q == Selects(setting.track, mem, ledger, turn, heard)
<1>1. pc = "select" /\ Call(q, "outcome")
  BY DEF ReceiverActs
<1>2. /\ mem \in Memories /\ ledger \in Seq(Events) /\ turn \in Turns /\ setting.track \in Tracks
      /\ heard \in Marks \cup {NoMark}
  BY <1>1, TurnIsTurn, TrackIsTrack DEF CourseOK
<1>3. \A r \in q : r \in Results /\ Selected(setting.track, mem, ledger, turn, r)
  BY <1>2, SelectsDo
<1> HIDE DEF q
<1> QED BY <1>1, <1>3, CallDoes

LEMMA OutcomeStep ==
    ASSUME CourseOK, Outcome
    PROVE  \E r \in Results :
             /\ Answered(setting.track, mem, ledger, turn, r)
             /\ mem' = r.mem /\ ledger' = r.ledger /\ Ends(r, AfterOutcome)
<1> DEFINE q == OnOutcome(setting.track, mem, ledger, turn, bit)
<1>1. pc = "outcome" /\ Call(q, AfterOutcome)
  BY DEF Outcome
<1>2. /\ mem \in Memories /\ ledger \in Seq(Events) /\ turn \in Turns /\ setting.track \in Tracks
      /\ bit \in {0, 1}
  BY <1>1, TurnIsTurn, TrackIsTrack DEF CourseOK
<1>3. \A r \in q : r \in Results /\ Answered(setting.track, mem, ledger, turn, r)
  BY <1>2, OutcomeDoes
<1> HIDE DEF q
<1> QED BY <1>1, <1>3, CallDoes

LEMMA UpdateStep ==
    ASSUME CourseOK, Update
    PROVE  /\ mem' \in Memories /\ Updated(setting.track, mem, turn, mem')
           /\ ledger' = ledger
           /\ Ends(Returns(mem', ledger), "write")
<1> DEFINE q == {Returns(m, ledger) : m \in UpdatePolicy(setting.track, mem, turn)}
<1>1. pc = "update" /\ Call(q, "write")
  BY DEF Update
<1>2. mem \in Memories /\ ledger \in Seq(Events) /\ turn \in Turns /\ setting.track \in Updating
  BY <1>1, TurnIsTurn DEF CourseOK
<1>3. \A m \in UpdatePolicy(setting.track, mem, turn) : m \in Memories /\ Updated(setting.track, mem, turn, m)
  BY <1>2, UpdateDoes
<1>4. \A r \in q : r \in Results
  BY <1>2, <1>3 DEF Returns, Results, Faults
<1>5. PICK r \in q : mem' = r.mem /\ ledger' = r.ledger /\ Ends(r, "write")
  <2> HIDE DEF q
  <2> QED BY <1>1, <1>4, CallDoes
<1>6. PICK m \in UpdatePolicy(setting.track, mem, turn) : r = Returns(m, ledger)
  BY <1>5
<1>7. r.mem = m /\ r.ledger = ledger
  BY <1>6 DEF Returns
<1> QED BY <1>3, <1>5, <1>6, <1>7

LEMMA FirstStage ==
    ASSUME CourseOK, ApplyTransition
    PROVE  LET i == CHOOSE j \in StageDue : \A k \in StageDue : j <= k
           IN  /\ i \in StageDue /\ i \in DOMAIN Stages
               /\ \A k \in StageDue : i <= k
               /\ mem' = ApplyStage(setting.track, mem, i)
               /\ stages' = Append(stages, [stage |-> i, turn |-> Stages[i].start])
<1>1. StageDue # {} /\ StageDue \subseteq DOMAIN Stages
  BY DEF ApplyTransition, StageDue
<1>2. DOMAIN Stages \subseteq Nat
  BY StagesAreNumbered
<1> DEFINE R == OpToRel(<, Nat)
<1>3. IsWellFoundedOn(R, Nat)
  BY NatLessThanWellFounded
<1>4. \A x, y \in Nat : x < y => <<x, y>> \in R
  BY DEF OpToRel
<1> HIDE DEF R
<1>5. PICK j \in StageDue : \A k \in StageDue : ~(<<k, j>> \in R)
  BY <1>1, <1>2, <1>3, WFMin
<1>6. ASSUME NEW k \in StageDue PROVE j <= k
  <2>1. j \in Nat /\ k \in Nat
    BY <1>1, <1>2
  <2>2. ~(k < j)
    BY <1>4, <1>5, <2>1
  <2> QED BY <2>1, <2>2
<1> QED BY <1>1, <1>6 DEF ApplyTransition

---------------------------------------------------------------------------
(* Every step keeps what is where *)

NoExportIsNone == \A p \in Exports : p # None /\ p # Torn

LEMMA ExportsAreDistinct == NoExportIsNone
BY DEF NoExportIsNone, Exports, None, Torn

LEMMA InitializedDoes ==
    ASSUME NEW p \in {None, Torn} \cup Policies, setting.track \in Tracks
    PROVE  /\ Initialized(p) \in Memories
           /\ \/ Initialized(p) = Fresh
              \/ p \in Policies /\ LoadedFrom(setting.track, p, Initialized(p))
<1>1. CASE p \in {None, Torn}
  BY <1>1, FreshIsMemory DEF Initialized
<1>2. CASE p \notin {None, Torn}
  BY <1>2, LoadDoes DEF Initialized
<1> QED BY <1>1, <1>2

LEMMA ParentIsPolicy ==
    ASSUME setting.track \in Tracks
    PROVE  ParentPolicy \in Policies /\ ParentPolicy.run = "parent"
           /\ ParentPolicy.learnt \in {<<ParentTurn>>, <<>>} /\ ParentPolicy.registries.sensed = <<>>
<1> DEFINE f == [Fresh EXCEPT !.learnt = <<ParentTurn>>]
           q == ExportPolicy(setting.track, f)
<1>0. Fresh \in Memories
  BY FreshIsMemory
<1>1. <<ParentTurn>> \in Seq(Int)
  BY DEF ParentTurn
<1>2. f \in Memories /\ f.learnt = <<ParentTurn>> /\ f.kept = Fresh.kept
  BY <1>0, <1>1 DEF Memories
<1>3. Fresh.kept.sensed = <<>> /\ Fresh.learnt = <<>> /\ EmptyRegistries.sensed = <<>>
  BY DEF Fresh, EmptyRegistries
<1> HIDE DEF f
<1>4. q \in Exports
  BY <1>2, ExportDoes
<1>5. q.learnt \in {f.learnt, Fresh.learnt} /\ q.registries.sensed = <<>>
  <2>1. CASE setting.track \in Updating
    BY <1>2, <1>3, <2>1, ExportDoes
  <2>2. CASE setting.track = "frozen-llm"
    <3>1. q.learnt = f.learnt /\ q.registries = [EmptyRegistries EXCEPT !.hyp = f.hyp]
      BY <2>2 DEF ExportPolicy, FrozenExport
    <3> QED BY <3>1 DEF EmptyRegistries
  <2>3. CASE setting.track = "no-learning"
    <3>1. q.learnt = Fresh.learnt /\ q.registries = Fresh.kept
      BY <2>3 DEF ExportPolicy, NoLearningExport, TabularExport
    <3> QED BY <1>3, <3>1
  <2> QED BY <2>1, <2>2, <2>3 DEF Tracks, Updating
<1>6. ParentPolicy = [q EXCEPT !.run = "parent"]
  BY DEF ParentPolicy, f
<1> HIDE DEF q
<1> QED BY <1>2, <1>3, <1>4, <1>5, <1>6 DEF Exports, Policies

LEMMA CourseHoldsAtFirst ==
    ASSUME LearningInit
    PROVE  CourseOK
<1>1. setting \in Settings /\ setting.track \in Tracks
  BY LearningAssumption DEF LearningInit
<1>2. mem \in Memories
  <2>1. Fresh \in Memories
    BY FreshIsMemory
  <2>2. Initialized(ParentPolicy) \in Memories
    BY <1>1, ParentIsPolicy, InitializedDoes
  <2> QED BY <2>1, <2>2 DEF LearningInit
<1>3. 0 \in 0..(LastTurn + 1) /\ 0 <= LastTurn /\ 0 \in 0..(Attempts - 1)
  BY NumbersAreNumbers
<1> QED BY <1>1, <1>2, <1>3 DEF LearningInit, CourseOK, Calls

LEMMA StageForTurnGoverns ==
    ASSUME setting \in Settings, setting.staged, NEW t \in Nat
    PROVE  StageForTurn(t) \in DOMAIN Stages
           /\ Stages[StageForTurn(t)].start <= t
           /\ \A j \in DOMAIN Stages : Stages[j].start <= t => Stages[j].start <= Stages[StageForTurn(t)].start
<1> DEFINE due == {i \in DOMAIN Stages : Stages[i].start <= t}
           R == OpToRel(<, Nat)
           rest(i) == t - Stages[i].start
           T == {rest(i) : i \in due}
<1>1. \A i \in DOMAIN Stages : Stages[i].start \in Nat
  BY LearnerAssumption
<1>2. 1 \in due
  <2>1. Stages # <<>> /\ Stages[1].start = 0
    BY ScheduleAssumption
  <2> QED BY <2>1, StagesAreNumbered
<1>3. T \subseteq Nat /\ T # {}
  BY <1>1, <1>2
<1>4. IsWellFoundedOn(R, Nat)
  BY NatLessThanWellFounded
<1>5. \A x, y \in Nat : x < y => <<x, y>> \in R
  BY DEF OpToRel
<1> HIDE DEF R
<1>6. PICK x \in T : \A y \in T : ~(<<y, x>> \in R)
  BY <1>3, <1>4, WFMin
<1>7. PICK i \in due : x = rest(i)
  OBVIOUS
<1>8. ASSUME NEW j \in DOMAIN Stages, Stages[j].start <= t
      PROVE  Stages[j].start <= Stages[i].start
  <2>1. rest(j) \in T /\ rest(j) \in Nat /\ x \in Nat
    BY <1>1, <1>3, <1>8
  <2>2. ~(rest(j) < x)
    BY <1>5, <1>6, <2>1
  <2> QED BY <1>1, <1>7, <2>1, <2>2
<1> QED BY <1>7, <1>8 DEF StageForTurn

LEMMA StageForTurnIsStage ==
    ASSUME CourseOK, stages # <<>>, NEW t \in Nat
    PROVE  StageForTurn(t) \in DOMAIN Stages
BY StageForTurnGoverns DEF CourseOK

LEMMA CourseStays ==
    ASSUME CourseOK, [LearningNext]_learnVars
    PROVE  CourseOK'
<1>0. setting.track \in Tracks /\ setting.track' \in {setting.track'}
  BY TrackIsTrack
<1>1. CASE ApplyTransition
  <2> DEFINE i == CHOOSE j \in StageDue : \A k \in StageDue : j <= k
  <2>1. /\ i \in StageDue /\ i \in DOMAIN Stages
        /\ mem' = ApplyStage(setting.track, mem, i)
        /\ stages' = Append(stages, [stage |-> i, turn |-> Stages[i].start])
    BY <1>1, FirstStage
  <2>2. setting.staged
    BY <2>1 DEF StageDue
  <2> HIDE DEF i
  <2>3. mem' \in Memories
    BY <2>1, StageDoes DEF CourseOK
  <2>4. Stages[i].start \in Nat
    BY <2>1, LearnerAssumption
  <2>5. stages' \in Seq([stage : DOMAIN Stages, turn : Nat])
    BY <2>1, <2>4 DEF CourseOK
  <2> QED BY <1>1, <2>2, <2>3, <2>5 DEF ApplyTransition, CourseOK
<1>2. CASE Begin
  <2>1. pc' \in Calls \ {"update", "write", "receive", "done", "down", "stuck"}
    BY <1>2 DEF Begin, FirstCall, Calls
  <2> QED BY <1>2, <2>1 DEF Begin, CourseOK, learning
<1>3. CASE SenderActs
  <2>1. PICK r \in Results : mem' = r.mem /\ ledger' = r.ledger /\ Ends(r, "submit")
    BY <1>3, SenderStep
  <2>2. mem' \in Memories /\ ledger' \in Seq(Events)
    BY <2>1 DEF Results
  <2>3. attempt' \in 0..(Attempts - 1) /\ faults' \in Nat /\ pc' \in {"submit", "act", "forfeit"} /\ pc = "act"
    BY <1>3, <2>1, CallKeepsTurn DEF SenderActs
  <2> QED BY <1>3, <2>2, <2>3 DEF SenderActs, CourseOK, Calls
<1>4. CASE Submit
  <2>1. turn \in Turns /\ turn \in Nat
    BY <1>4, TurnIsTurn DEF Submit
  <2>2. mem.pending[turn].mark \in Marks \cup {NoMark}
    BY <2>1 DEF CourseOK, Memories, Entries
  <2>3. Event("intention", turn, mem.pending[turn].mark, 0, 0) \in Events
    BY <2>1, <2>2 DEF Event, Events
  <2>4. ledger' \in Seq(Events) /\ bit' \in {0, 1}
    BY <1>4, <2>3 DEF Submit, CourseOK
  <2>5. channel' \subseteq Turns /\ \A t \in channel' : t <= turn
    <3>1. channel' \subseteq channel \cup {turn}
      BY <1>4 DEF Submit
    <3>2. channel \subseteq Turns /\ (\A t \in channel : t <= turn) /\ turn <= turn
      BY <2>1 DEF CourseOK
    <3> QED BY <2>1, <3>1, <3>2
  <2> QED BY <1>4, <2>4, <2>5 DEF Submit, CourseOK, Calls
<1>5. CASE Deliver
  <2>1. turn \in Turns /\ turn \in Nat
    BY <1>5, TurnIsTurn DEF Deliver
  <2>2. channel' \subseteq Turns /\ \A t \in channel' : t <= turn
    <3>1. channel' \subseteq channel \cup {turn}
      BY <1>5 DEF Deliver
    <3>2. channel \subseteq Turns /\ (\A t \in channel : t <= turn) /\ turn <= turn
      BY <2>1 DEF CourseOK
    <3> QED BY <2>1, <3>1, <3>2
  <2>3. pc' \in {"receive", "outcome"} /\ bit' \in {0, 1} /\ heard' \in Marks \cup {NoMark}
        /\ (pc' = "receive" => heard' \in Marks)
    BY <1>5 DEF Deliver, CourseOK
  <2> QED BY <1>5, <2>2, <2>3 DEF Deliver, CourseOK, Calls, learning
<1>6. CASE ReceiverReceives
  <2>1. PICK r \in Results : mem' = r.mem /\ ledger' = r.ledger /\ Ends(r, "select")
    BY <1>6, ReceiverStep
  <2>2. mem' \in Memories /\ ledger' \in Seq(Events)
    BY <2>1 DEF Results
  <2>3. attempt' \in 0..(Attempts - 1) /\ faults' \in Nat /\ pc' \in {"select", "receive", "forfeit"}
        /\ pc = "receive"
    BY <1>6, <2>1, CallKeepsTurn DEF ReceiverReceives
  <2> QED BY <1>6, <2>2, <2>3 DEF ReceiverReceives, CourseOK, Calls
<1>7. CASE ReceiverActs
  <2>1. PICK r \in Results : mem' = r.mem /\ ledger' = r.ledger /\ Ends(r, "outcome")
    BY <1>7, SelectStep
  <2>2. mem' \in Memories /\ ledger' \in Seq(Events)
    BY <2>1 DEF Results
  <2>3. attempt' \in 0..(Attempts - 1) /\ faults' \in Nat /\ pc' \in {"outcome", "select", "forfeit"}
        /\ pc = "select"
    BY <1>7, <2>1, CallKeepsTurn DEF ReceiverActs
  <2> QED BY <1>7, <2>2, <2>3 DEF ReceiverActs, CourseOK, Calls
<1>8. CASE Outcome
  <2>1. PICK r \in Results : mem' = r.mem /\ ledger' = r.ledger /\ Ends(r, AfterOutcome)
    BY <1>8, OutcomeStep
  <2>2. mem' \in Memories /\ ledger' \in Seq(Events)
    BY <2>1 DEF Results
  <2>3. attempt' \in 0..(Attempts - 1) /\ faults' \in Nat /\ pc' \in {AfterOutcome, "outcome", "forfeit"}
        /\ pc = "outcome"
    BY <1>8, <2>1, CallKeepsTurn DEF Outcome
  <2>4. /\ AfterOutcome \in {"update", "record"}
        /\ AfterOutcome = "update" => setting.track \in Updating /\ turn < TrainingTurns
    BY DEF AfterOutcome, Phase
  <2>5. setting' = setting /\ turn' = turn
    BY <1>8 DEF Outcome
  <2>6. pc' \in {"update", "record", "outcome", "forfeit"}
        /\ (pc' = "update" => setting'.track \in Updating /\ turn' < TrainingTurns)
    BY <2>3, <2>4, <2>5
  <2> QED BY <1>8, <2>2, <2>3, <2>6 DEF Outcome, CourseOK, Calls
<1>9. CASE Update
  <2>1. mem' \in Memories /\ ledger' = ledger /\ Ends(Returns(mem', ledger), "write") /\ pc = "update"
    BY <1>9, UpdateStep DEF Update
  <2>2. attempt' \in 0..(Attempts - 1) /\ faults' \in Nat /\ pc' \in {"write", "update", "forfeit"}
    BY <2>1, CallKeepsTurn
  <2>3. policyRef' \in {None} \cup Exports
    BY <1>0, <1>9, <2>1, ExportDoes DEF Update, CourseOK
  <2> QED BY <1>9, <2>1, <2>2, <2>3 DEF Update, CourseOK, Calls
<1>10. CASE WriteLatest
  <2>1. latest' \in Exports
    BY <1>0, <1>10, ExportDoes DEF WriteLatest, CourseOK
  <2> QED BY <1>10, <2>1 DEF WriteLatest, CourseOK, Calls
<1>11. CASE RecordTurn
  <2>1. turns \in Seq(BOOLEAN) /\ turn = Len(turns) /\ turn <= LastTurn /\ turn \in Nat
    BY <1>11, TurnIsTurn DEF RecordTurn, CourseOK
  <2>2. turns' \in Seq(BOOLEAN) /\ turn' = Len(turns') /\ turn' = turn + 1
    BY <1>11, <2>1 DEF RecordTurn
  <2>3. turn' \in 0..(LastTurn + 1)
    BY <2>1, <2>2, NumbersAreNumbers
  <2>4. pc' \in {"checkpoint", "done", "begin"} /\ (pc' # "done" => turn' <= LastTurn)
    BY <1>11, <2>1, <2>2, NumbersAreNumbers DEF RecordTurn
  <2>5. \A t \in channel : t <= turn'
    BY <2>1, <2>2, NumbersAreNumbers DEF CourseOK, Turns
  <2> QED BY <1>11, <2>2, <2>3, <2>4, <2>5 DEF RecordTurn, CourseOK, Calls, learning
<1>12. CASE PolicyCheckpoint
  BY <1>12 DEF PolicyCheckpoint, CourseOK, Calls, learning
<1>13. CASE PartnerFails
  <2>1. faults' \in Nat /\ 0 \in 0..(Attempts - 1)
    BY <1>13, NumbersAreNumbers DEF PartnerFails, CourseOK
  <2> QED BY <1>13, <2>1 DEF PartnerFails, CourseOK, Calls, learning
<1>14. CASE Crash
  <2>1. crashes' \in Nat /\ crashes' > 0 /\ 0 \in 0..(Attempts - 1)
    BY <1>14, NumbersAreNumbers DEF Crash, CourseOK
  <2>2. mem' \in Memories
    BY <1>14, FreshIsMemory DEF Crash
  <2>3. latest' \in {None, Torn} \cup Exports
    BY <1>14 DEF Crash, CourseOK
  <2> QED BY <1>14, <2>1, <2>2, <2>3 DEF Crash, CourseOK, Calls
<1>15. CASE Recover
  <2>1. turn' = turn /\ turn \in Nat /\ turn <= LastTurn
    BY <1>15, TurnIsTurn DEF Recover, CourseOK
  <2>2. latest \in {None, Torn} \cup Policies
    BY DEF CourseOK, Exports
  <2>3. Initialized(latest) \in Memories
    BY <1>0, <2>2, InitializedDoes
  <2>4. ASSUME stages # <<>>
        PROVE  ApplyStage(setting.track, Initialized(latest), StageForTurn(IF turn' = 0 THEN 0 ELSE turn' - 1)) \in Memories
    <3>1. (IF turn' = 0 THEN 0 ELSE turn' - 1) \in Nat
      BY <2>1
    <3>2. StageForTurn(IF turn' = 0 THEN 0 ELSE turn' - 1) \in DOMAIN Stages
      BY <2>4, <3>1, StageForTurnIsStage
    <3> QED BY <2>3, <3>2, StageDoes
  <2>5. mem' \in Memories
    BY <1>15, <2>3, <2>4 DEF Recover, CourseOK
  <2>6. pc' \in {"stuck", "begin"} /\ crashes' > 0
    BY <1>15, <2>1, NumbersAreNumbers DEF Recover, CourseOK
  <2> QED BY <1>15, <2>1, <2>5, <2>6 DEF Recover, CourseOK, Calls
<1>16. CASE UNCHANGED learnVars
  BY <1>16 DEF learnVars, learning, course, CourseOK
<1> QED BY <1>1, <1>2, <1>3, <1>4, <1>5, <1>6, <1>7, <1>8, <1>9, <1>10, <1>11, <1>12, <1>13, <1>14, <1>15, <1>16
        DEF LearningNext, Turn

---------------------------------------------------------------------------
(* The inductive invariant: the ledger backs whatever is held for recorded,  *)
(* in the memory, in what an update kept of it and in the policy file.       *)

Backed ==
    /\ Backs(ledger, mem) /\ Backs(ledger, mem.kept)
    /\ latest \in Exports => Backs(ledger, latest.registries)
    /\ Priors(ledger)

LEMMA BackedAtFirst ==
    ASSUME LearningInit
    PROVE  Backed
<1>1. setting.track \in Tracks /\ ledger = <<>> /\ latest = None
  BY LearningAssumption DEF LearningInit
<1>2. /\ Fresh.emitted = {} /\ Fresh.received = {}
      /\ Fresh.kept.emitted = {} /\ Fresh.kept.received = {} /\ Fresh.kept.hyp = Fresh.hyp
  BY DEF Fresh, EmptyRegistries
<1>3. /\ mem.emitted = {} /\ mem.received = {} /\ mem.hyp = Fresh.hyp
      /\ mem.kept.emitted = {} /\ mem.kept.received = {} /\ mem.kept.hyp = Fresh.hyp
  <2>1. CASE mem = Fresh
    BY <1>2, <2>1
  <2>2. CASE mem # Fresh
    <3>1. mem = Initialized(ParentPolicy) /\ LoadedFrom(setting.track, ParentPolicy, mem)
          /\ ParentPolicy.run = "parent"
      BY <1>1, <2>2, ParentIsPolicy, InitializedDoes DEF LearningInit
    <3> QED BY <3>1 DEF LoadedFrom
  <2> QED BY <2>1, <2>2
<1>4. Backs(ledger, mem) /\ Backs(ledger, mem.kept)
  BY <1>3, BacksNothing
<1>5. Priors(ledger)
  BY <1>1 DEF Priors
<1> QED BY <1>1, <1>4, <1>5, ExportsAreDistinct DEF Backed, NoExportIsNone

\* A handler that backs what it leaves.
LEMMA HandlerBacks ==
    ASSUME CourseOK, Backed, latest' = latest, NEW t, NEW kinds,
           Backs(ledger', mem'), Priors(ledger'), mem'.kept = mem.kept, Grown(ledger, ledger', t, kinds)
    PROVE  Backed'
<1>1. ledger \in Seq(Events)
  BY DEF CourseOK
<1>2. Backs(ledger', mem.kept)
  BY <1>1, BacksStays DEF Backed
<1>3. latest \in Exports => Backs(ledger', latest.registries)
  BY <1>1, BacksStays DEF Backed
<1> QED BY <1>2, <1>3 DEF Backed

\* What the calls of a turn write.
LEMMA LedgerGrows ==
    ASSUME CourseOK, Backed, [LearningNext]_learnVars
    PROVE  /\ Backed'
           /\ \/ ledger' = ledger
              \/ SenderActs /\ Grown(ledger, ledger', turn, {"emitted"})
              \/ Submit /\ Grown(ledger, ledger', turn, {"intention"})
              \/ ReceiverReceives /\ Grown(ledger, ledger', turn, {"received"})
              \/ Outcome /\ Grown(ledger, ledger', turn, Reasons)
<1>0. setting.track \in Tracks /\ mem \in Memories /\ ledger \in Seq(Events)
  BY TrackIsTrack DEF CourseOK
<1>1. CASE SenderActs
  <2>1. turn \in Turns /\ latest' = latest
    BY <1>1, TurnIsTurn DEF SenderActs
  <2>2. PICK r \in Results : /\ Sent(setting.track, mem, ledger, turn, r)
                             /\ mem' = r.mem /\ ledger' = r.ledger
    BY <1>1, SenderStep
  <2>3. /\ Backs(r.ledger, r.mem) /\ Priors(r.ledger) /\ Grown(ledger, r.ledger, turn, {"emitted"})
        /\ r.mem.kept = mem.kept
    BY <1>0, <2>1, <2>2, SentIsBacked DEF Backed
  <2> QED BY <1>1, <2>1, <2>2, <2>3, HandlerBacks
<1>2. CASE ReceiverReceives
  <2>1. turn \in Turns /\ latest' = latest /\ heard \in Marks
    BY <1>2, TurnIsTurn DEF ReceiverReceives, CourseOK
  <2>2. PICK r \in Results : /\ Received(setting.track, mem, ledger, turn, heard, r)
                             /\ mem' = r.mem /\ ledger' = r.ledger
    BY <1>2, ReceiverStep
  <2>3. /\ Backs(r.ledger, r.mem) /\ Priors(r.ledger) /\ Grown(ledger, r.ledger, turn, {"received"})
        /\ r.mem.kept = mem.kept
    BY <1>0, <2>1, <2>2, ReceivedIsBacked DEF Backed
  <2> QED BY <1>2, <2>1, <2>2, <2>3, HandlerBacks
<1>3. CASE ReceiverActs
  <2>1. PICK r \in Results : /\ Selected(setting.track, mem, ledger, turn, r)
                             /\ mem' = r.mem /\ ledger' = r.ledger
    BY <1>3, SelectStep
  <2>2. /\ ledger' = ledger /\ latest' = latest /\ mem'.kept = mem.kept
        /\ mem'.emitted = mem.emitted /\ mem'.received = mem.received /\ mem'.hyp = mem.hyp
    BY <1>3, <2>1 DEF Selected, ReceiverActs
  <2>3. Backs(ledger, mem')
    BY <2>2, BacksLike DEF Backed
  <2> QED BY <2>2, <2>3 DEF Backed
<1>4. CASE Outcome
  <2>1. turn \in Turns /\ latest' = latest
    BY <1>4, TurnIsTurn DEF Outcome
  <2>2. PICK r \in Results : /\ Answered(setting.track, mem, ledger, turn, r)
                             /\ mem' = r.mem /\ ledger' = r.ledger
    BY <1>4, OutcomeStep
  <2>3. /\ Backs(r.ledger, r.mem) /\ Priors(r.ledger) /\ Grown(ledger, r.ledger, turn, Reasons)
        /\ r.mem.kept = mem.kept
    BY <1>0, <2>1, <2>2, AnsweredIsBacked DEF Backed
  <2> QED BY <1>4, <2>1, <2>2, <2>3, HandlerBacks
<1>5. CASE Submit
  <2>1. turn \in Turns /\ latest' = latest /\ mem' = mem
    BY <1>5, TurnIsTurn DEF Submit
  <2> DEFINE e == Event("intention", turn, mem.pending[turn].mark, 0, 0)
  <2>2. mem.pending[turn].mark \in Marks \cup {NoMark}
    BY <2>1, <1>0 DEF Memories, Entries
  <2>3. e \in Events /\ e.turn = turn /\ e.kind = "intention" /\ e.prior = 0
    BY <2>1, <2>2 DEF Event, Events
  <2>4. ledger' = ledger \/ ledger' = Append(ledger, e)
    BY <1>5 DEF Submit
  <2> HIDE DEF e
  <2>5. CASE ledger' = ledger
    BY <2>1, <2>5 DEF Backed
  <2>6. CASE ledger' = Append(ledger, e)
    <3>1. Backs(ledger', mem) /\ Priors(ledger') /\ Grown(ledger, ledger', turn, {"intention"})
      BY <1>0, <2>3, <2>6, BacksGrows, PriorsGrow DEF Backed, NamedIn, Grown
    <3> QED BY <1>5, <2>1, <3>1, HandlerBacks
  <2> QED BY <2>4, <2>5, <2>6
<1>6. CASE ApplyTransition
  <2> DEFINE i == CHOOSE j \in StageDue : \A k \in StageDue : j <= k
  <2>1. i \in DOMAIN Stages /\ mem' = ApplyStage(setting.track, mem, i)
    BY <1>6, FirstStage
  <2> HIDE DEF i
  <2>2. /\ mem'.emitted = mem.emitted /\ mem'.received = mem.received /\ mem'.hyp = mem.hyp
        /\ mem'.kept = mem.kept
    BY <1>0, <2>1, StageDoes
  <2>3. ledger' = ledger /\ latest' = latest
    BY <1>6 DEF ApplyTransition
  <2>4. Backs(ledger, mem')
    BY <2>2, BacksLike DEF Backed
  <2> QED BY <2>2, <2>3, <2>4 DEF Backed
<1>7. CASE Update
  <2>1. Updated(setting.track, mem, turn, mem') /\ ledger' = ledger /\ latest' = latest
    BY <1>7, UpdateStep DEF Update
  <2>2. /\ mem'.emitted = mem.emitted /\ mem'.received = mem.received /\ mem'.hyp = mem.hyp
        /\ mem'.kept.emitted = mem.emitted /\ mem'.kept.received = mem.received /\ mem'.kept.hyp = mem.hyp
    BY <2>1 DEF Updated, Snapshot
  <2>3. Backs(ledger, mem') /\ Backs(ledger, mem'.kept)
    BY <2>2, BacksLike DEF Backed
  <2> QED BY <2>1, <2>3 DEF Backed
<1>8. CASE WriteLatest
  <2>1. setting.track \in Updating
    BY <1>8 DEF WriteLatest, CourseOK
  <2>2. latest'.registries = mem.kept /\ mem' = mem /\ ledger' = ledger
    BY <1>0, <1>8, <2>1, ExportDoes DEF WriteLatest
  <2> QED BY <2>2 DEF Backed
<1>9. CASE Crash
  <2>1. mem' = Fresh /\ ledger' = ledger /\ (latest' \in Exports => latest' = latest)
    BY <1>9, ExportsAreDistinct DEF Crash, NoExportIsNone
  <2>2. /\ Fresh.emitted = {} /\ Fresh.received = {}
        /\ Fresh.kept.emitted = {} /\ Fresh.kept.received = {} /\ Fresh.kept.hyp = Fresh.hyp
    BY DEF Fresh, EmptyRegistries
  <2>3. Backs(ledger, Fresh) /\ Backs(ledger, Fresh.kept)
    BY <2>2, BacksNothing
  <2> QED BY <2>1, <2>3 DEF Backed
<1>10. CASE Recover
  <2> DEFINE m == Initialized(latest)
             s == StageForTurn(IF turn' = 0 THEN 0 ELSE turn' - 1)
  <2>1. /\ ledger' = ledger /\ latest' = latest
        /\ mem' \in {mem, m} \/ (stages # <<>> /\ mem' = ApplyStage(setting.track, m, s))
    BY <1>10 DEF Recover
  <2>2. m \in Memories
    BY <1>0, InitializedDoes DEF CourseOK, Exports
  <2>3. Backs(ledger, m) /\ Backs(ledger, m.kept)
    <3>1. CASE m = Fresh
      <4>1. /\ Fresh.emitted = {} /\ Fresh.received = {}
            /\ Fresh.kept.emitted = {} /\ Fresh.kept.received = {} /\ Fresh.kept.hyp = Fresh.hyp
        BY DEF Fresh, EmptyRegistries
      <4> QED BY <3>1, <4>1, BacksNothing
    <3>2. CASE m # Fresh
      <4>1. latest \in Policies /\ LoadedFrom(setting.track, latest, m)
        BY <1>0, <3>2, InitializedDoes DEF CourseOK, Exports
      <4>2. /\ m.kept.emitted = m.emitted /\ m.kept.received = m.received /\ m.kept.hyp = m.hyp
            /\ \/ m.emitted = {} /\ m.received = {} /\ m.hyp = Fresh.hyp
               \/ /\ latest.run = "this"
                  /\ m.emitted = latest.registries.emitted /\ m.received = latest.registries.received
                  /\ m.hyp = latest.registries.hyp
        BY <4>1 DEF LoadedFrom
      <4>3. latest.run = "this" => latest \in Exports
        BY <4>1 DEF Exports
      <4>4. Backs(ledger, m)
        BY <4>2, <4>3, BacksLike, BacksNothing DEF Backed
      <4> QED BY <4>2, <4>4, BacksLike
    <3> QED BY <3>1, <3>2
  <2> HIDE DEF m
  <2>4. CASE mem' \in {mem, m}
    BY <2>1, <2>3, <2>4 DEF Backed
  <2>5. CASE stages # <<>> /\ mem' = ApplyStage(setting.track, m, s)
    <3>1. turn' = turn /\ turn \in Nat
      BY <1>10, TurnIsTurn DEF Recover, CourseOK
    <3>2. (IF turn' = 0 THEN 0 ELSE turn' - 1) \in Nat
      BY <3>1
    <3>3. s \in DOMAIN Stages
      BY <2>5, <3>2, StageForTurnIsStage
    <3> HIDE DEF s
    <3>4. /\ mem'.emitted = m.emitted /\ mem'.received = m.received /\ mem'.hyp = m.hyp
          /\ mem'.kept = m.kept
      BY <1>0, <2>2, <2>5, <3>3, StageDoes
    <3>5. Backs(ledger, mem')
      BY <2>3, <3>4, BacksLike
    <3> QED BY <2>1, <2>3, <3>4, <3>5 DEF Backed
  <2> QED BY <2>1, <2>4, <2>5
<1>11. CASE UNCHANGED <<mem, ledger, latest>>
  BY <1>11 DEF Backed
<1> QED BY <1>1, <1>2, <1>3, <1>4, <1>5, <1>6, <1>7, <1>8, <1>9, <1>10, <1>11
        DEF LearningNext, Turn, Begin, Deliver, RecordTurn, PolicyCheckpoint, PartnerFails, learnVars, learning

---------------------------------------------------------------------------
(* The inductive invariant: while the process lasts, the ledger of a turn    *)
(* speaks of the mark that the turn's entry holds.                           *)

Untouched == crashes = 0 /\ setting.track # "no-learning"

LedgerFollows ==
    Untouched =>
        /\ \A i \in DOMAIN ledger : ledger[i].turn <= turn
        /\ pc \in {"begin", "checkpoint", "done"} => \A i \in DOMAIN ledger : ledger[i].turn < turn
        /\ pc \in {"act", "submit"} =>
              \A i \in DOMAIN ledger : ledger[i].turn = turn =>
                  /\ ledger[i].kind # "intention"
                  /\ ledger[i].kind = "emitted" =>
                        mem.pending[turn].role = "sender" /\ ledger[i].mark = mem.pending[turn].mark

LEMMA GrownEvents ==
    ASSUME NEW l \in Seq(Events), NEW n, NEW t, NEW kinds, Grown(l, n, t, kinds)
    PROVE  \A i \in DOMAIN n : (i \in DOMAIN l /\ n[i] = l[i]) \/ (n[i].turn = t /\ n[i].kind \in kinds)
<1>1. CASE n = l
  BY <1>1
<1>2. CASE n # l
  <2>1. PICK e \in Events : e.turn = t /\ e.kind \in kinds /\ n = Append(l, e)
    BY <1>2 DEF Grown
  <2>2. /\ Len(l) \in Nat /\ \A i \in 1..Len(l) : n[i] = l[i]
        /\ n[Len(l) + 1] = e
        /\ DOMAIN l = 1..Len(l) /\ DOMAIN n = 1..(Len(l) + 1)
    BY <2>1, AppendKeeps
  <2> SUFFICES ASSUME NEW i \in DOMAIN n, i \notin DOMAIN l PROVE n[i].turn = t /\ n[i].kind \in kinds
    BY <2>2
  <2>3. i = Len(l) + 1
    BY <2>2
  <2> QED BY <2>1, <2>2, <2>3
<1> QED BY <1>1, <1>2

LEMMA TurnsOfEvents ==
    ASSUME CourseOK, NEW i \in DOMAIN ledger
    PROVE  ledger[i] \in Events /\ ledger[i].turn \in Int
<1>1. ledger[i] \in Events
  BY DEF CourseOK
<1> QED BY <1>1, NumbersAreNumbers DEF Events, Turns

LEMMA FollowsAtFirst ==
    ASSUME LearningInit
    PROVE  LedgerFollows /\ FirstUseWasSent
BY DEF LearningInit, LedgerFollows, FirstUseWasSent

LEMMA LedgerStaysFollowed ==
    ASSUME CourseOK, Backed, LedgerFollows, FirstUseWasSent, [LearningNext]_learnVars
    PROVE  LedgerFollows' /\ FirstUseWasSent'
<1> SUFFICES ASSUME Untouched'
             PROVE  LedgerFollows' /\ FirstUseWasSent'
  BY DEF LedgerFollows, FirstUseWasSent, Untouched
<1>1. setting' = setting /\ crashes \in {crashes', crashes' - 1} /\ crashes \in Nat
  <2>1. crashes \in Nat
    BY DEF CourseOK
  <2> QED BY <2>1 DEF LearningNext, Turn, ApplyTransition, Begin, SenderActs, Submit, Deliver, ReceiverReceives, ReceiverActs,
       Outcome, Update, WriteLatest, RecordTurn, PolicyCheckpoint, PartnerFails, Crash, Recover, learnVars
<1>2. Untouched /\ crashes' = crashes
  BY <1>1 DEF Untouched
<1>3. ~Crash
  BY <1>1, <1>2 DEF Crash
<1>4. turn \in Nat
  BY DEF CourseOK
<1>5. /\ \A i \in DOMAIN ledger : ledger[i].turn <= turn /\ ledger[i].turn \in Int
      /\ pc \in {"begin", "checkpoint", "done"} => \A i \in DOMAIN ledger : ledger[i].turn < turn
  BY <1>2, TurnsOfEvents DEF LedgerFollows
<1>6. \A i, j \in DOMAIN ledger :
        ledger[i].kind = "emitted" /\ ledger[j].kind = "intention" /\ ledger[i].turn = ledger[j].turn
            => ledger[i].mark = ledger[j].mark
  BY <1>2 DEF FirstUseWasSent, Untouched
<1>7. CASE SenderActs
  <2>1. pc = "act" /\ turn \in Turns /\ turn' = turn
    BY <1>7, TurnIsTurn DEF SenderActs
  <2>2. PICK r \in Results : /\ Sent(setting.track, mem, ledger, turn, r)
                             /\ mem' = r.mem /\ ledger' = r.ledger /\ Ends(r, "submit")
    BY <1>7, SenderStep
  <2>3. PICK e \in Entries :
          /\ e.role = "sender"
          /\ setting.track # "no-learning" /\ mem.pending[turn].role = "sender" => e = mem.pending[turn]
          /\ r.mem.pending = [mem.pending EXCEPT ![turn] = e]
          /\ r.ledger \in {ledger, Append(ledger, Event("emitted", turn, e.mark, 0, 0))}
    BY <2>2 DEF Sent
  <2>4. mem'.pending[turn] = e
    BY <2>1, <2>2, <2>3 DEF CourseOK, Memories
  <2>5. \A i \in DOMAIN ledger : ledger[i].turn = turn =>
          /\ ledger[i].kind # "intention"
          /\ ledger[i].kind = "emitted" => ledger[i].mark = e.mark
    BY <1>2, <2>1, <2>3 DEF LedgerFollows, Untouched
  <2>6. pc' \in {"submit", "act", "forfeit"}
    BY <2>1, <2>2, CallKeepsTurn
  <2>7. \A i \in DOMAIN ledger' :
          \/ i \in DOMAIN ledger /\ ledger'[i] = ledger[i]
          \/ ledger'[i].turn = turn /\ ledger'[i].kind = "emitted" /\ ledger'[i].mark = e.mark
    <3>1. CASE ledger' = ledger
      BY <3>1
    <3>2. CASE ledger' # ledger
      <4> DEFINE f == Event("emitted", turn, e.mark, 0, 0)
      <4>1. f \in Events /\ f.turn = turn /\ f.kind = "emitted" /\ f.mark = e.mark
        BY <2>1 DEF Event, Events, Entries
      <4> HIDE DEF f
      <4>2. ledger' = Append(ledger, f) /\ ledger \in Seq(Events)
        BY <2>2, <2>3, <3>2 DEF f, CourseOK
      <4>3. /\ Len(ledger) \in Nat /\ \A i \in 1..Len(ledger) : ledger'[i] = ledger[i]
            /\ ledger'[Len(ledger) + 1] = f
            /\ DOMAIN ledger = 1..Len(ledger) /\ DOMAIN ledger' = 1..(Len(ledger) + 1)
        BY <4>1, <4>2, AppendKeeps
      <4> SUFFICES ASSUME NEW i \in DOMAIN ledger', i \notin DOMAIN ledger
                   PROVE  ledger'[i].turn = turn /\ ledger'[i].kind = "emitted" /\ ledger'[i].mark = e.mark
        BY <4>3
      <4>4. i = Len(ledger) + 1
        BY <4>3
      <4> QED BY <4>1, <4>3, <4>4
    <3> QED BY <3>1, <3>2
  <2>8. LedgerFollows'
    <3>1. \A i \in DOMAIN ledger' : ledger'[i].turn <= turn'
      BY <1>4, <1>5, <2>1, <2>7
    <3>2. \A i \in DOMAIN ledger' : ledger'[i].turn = turn' =>
            /\ ledger'[i].kind # "intention"
            /\ ledger'[i].kind = "emitted" =>
                  mem'.pending[turn'].role = "sender" /\ ledger'[i].mark = mem'.pending[turn'].mark
      BY <2>1, <2>3, <2>4, <2>5, <2>7
    <3> QED BY <2>6, <3>1, <3>2 DEF LedgerFollows
  <2>9. ASSUME NEW i \in DOMAIN ledger', NEW j \in DOMAIN ledger',
               ledger'[i].kind = "emitted", ledger'[j].kind = "intention", ledger'[i].turn = ledger'[j].turn
        PROVE  ledger'[i].mark = ledger'[j].mark
    <3>1. j \in DOMAIN ledger /\ ledger'[j] = ledger[j]
      BY <2>7, <2>9
    <3>2. CASE i \in DOMAIN ledger /\ ledger'[i] = ledger[i]
      BY <1>6, <2>9, <3>1, <3>2
    <3>3. CASE ledger'[i].turn = turn
      BY <2>5, <2>9, <3>1, <3>3
    <3> QED BY <2>7, <3>2, <3>3
  <2> QED BY <2>8, <2>9 DEF FirstUseWasSent
<1>8. CASE Submit
  <2>1. pc = "submit" /\ turn \in Turns /\ turn' = turn /\ pc' = "outcome"
    BY <1>8, TurnIsTurn DEF Submit
  <2> DEFINE f == Event("intention", turn, mem.pending[turn].mark, 0, 0)
  <2>2. ledger' \in {ledger, Append(ledger, f)} /\ ledger \in Seq(Events)
    BY <1>8 DEF Submit, CourseOK
  <2>3. f \in Events /\ f.turn = turn /\ f.kind = "intention" /\ f.mark = mem.pending[turn].mark
    <3>1. mem.pending[turn].mark \in Marks \cup {NoMark}
      BY <2>1 DEF CourseOK, Memories, Entries
    <3> QED BY <2>1, <3>1 DEF Event, Events
  <2>4. \A i \in DOMAIN ledger : ledger[i].turn = turn /\ ledger[i].kind = "emitted" =>
          ledger[i].mark = mem.pending[turn].mark
    BY <1>2, <2>1 DEF LedgerFollows
  <2> HIDE DEF f
  <2>5. \A i \in DOMAIN ledger' : (i \in DOMAIN ledger /\ ledger'[i] = ledger[i]) \/ ledger'[i] = f
    <3>1. CASE ledger' = ledger
      BY <3>1
    <3>2. CASE ledger' # ledger
      <4>1. /\ Len(ledger) \in Nat /\ \A i \in 1..Len(ledger) : ledger'[i] = ledger[i]
            /\ ledger'[Len(ledger) + 1] = f
            /\ DOMAIN ledger = 1..Len(ledger) /\ DOMAIN ledger' = 1..(Len(ledger) + 1)
        BY <2>2, <2>3, <3>2, AppendKeeps
      <4> SUFFICES ASSUME NEW i \in DOMAIN ledger', i \notin DOMAIN ledger PROVE ledger'[i] = f
        BY <4>1
      <4>2. i = Len(ledger) + 1
        BY <4>1
      <4> QED BY <4>1, <4>2
    <3> QED BY <3>1, <3>2
  <2>6. \A i \in DOMAIN ledger' : ledger'[i].turn <= turn'
    BY <1>4, <1>5, <2>1, <2>3, <2>5
  <2>7. ASSUME NEW i \in DOMAIN ledger', NEW j \in DOMAIN ledger',
               ledger'[i].kind = "emitted", ledger'[j].kind = "intention", ledger'[i].turn = ledger'[j].turn
        PROVE  ledger'[i].mark = ledger'[j].mark
    <3>1. i \in DOMAIN ledger /\ ledger'[i] = ledger[i]
      BY <2>3, <2>5, <2>7
    <3>2. CASE j \in DOMAIN ledger /\ ledger'[j] = ledger[j]
      BY <1>6, <2>7, <3>1, <3>2
    <3>3. CASE ledger'[j] = f
      BY <2>3, <2>4, <2>7, <3>1, <3>3
    <3> QED BY <2>5, <3>2, <3>3
  <2> QED BY <2>1, <2>6, <2>7 DEF LedgerFollows, FirstUseWasSent
<1>9. CASE ReceiverReceives \/ Outcome
  <2>1. PICK kinds \in SUBSET {"received", "hypothesis", "contradicted"} : Grown(ledger, ledger', turn, kinds)
    <3>1. CASE ledger' = ledger
      BY <3>1 DEF Grown
    <3>2. CASE ledger' # ledger
      <4>1. ~SenderActs /\ ~Submit
        BY <1>9 DEF SenderActs, Submit, ReceiverReceives, Outcome
      <4>2. \/ Grown(ledger, ledger', turn, {"received"})
            \/ Grown(ledger, ledger', turn, Reasons)
        BY <3>2, <4>1, LedgerGrows
      <4> QED BY <4>2 DEF Reasons
    <3> QED BY <3>1, <3>2
  <2>2. \A i \in DOMAIN ledger' :
          (i \in DOMAIN ledger /\ ledger'[i] = ledger[i]) \/ (ledger'[i].turn = turn /\ ledger'[i].kind \in kinds)
    <3>1. ledger \in Seq(Events)
      BY DEF CourseOK
    <3> QED BY <2>1, <3>1, GrownEvents
  <2>3. turn' = turn /\ pc' \in {"receive", "select", "outcome", "update", "record", "forfeit"}
    <3>1. CASE ReceiverReceives
      <4>1. PICK r \in Results : Ends(r, "select")
        BY <3>1, ReceiverStep
      <4> QED BY <3>1, <4>1, CallKeepsTurn DEF ReceiverReceives
    <3>2. CASE Outcome
      <4>1. PICK r \in Results : Ends(r, AfterOutcome)
        BY <3>2, OutcomeStep
      <4>2. AfterOutcome \in {"update", "record"}
        BY DEF AfterOutcome
      <4> QED BY <3>2, <4>1, <4>2, CallKeepsTurn DEF Outcome
    <3> QED BY <1>9, <3>1, <3>2
  <2>4. \A i \in DOMAIN ledger' : ledger'[i].turn <= turn'
    BY <1>4, <1>5, <2>2, <2>3
  <2>5. ASSUME NEW i \in DOMAIN ledger', NEW j \in DOMAIN ledger',
               ledger'[i].kind = "emitted", ledger'[j].kind = "intention", ledger'[i].turn = ledger'[j].turn
        PROVE  ledger'[i].mark = ledger'[j].mark
    <3>1. i \in DOMAIN ledger /\ ledger'[i] = ledger[i] /\ j \in DOMAIN ledger /\ ledger'[j] = ledger[j]
      BY <2>1, <2>2, <2>5
    <3> QED BY <1>6, <2>5, <3>1
  <2> QED BY <2>3, <2>4, <2>5 DEF LedgerFollows, FirstUseWasSent
<1>10. CASE RecordTurn
  <2>1. turn' = turn + 1 /\ ledger' = ledger /\ pc' \in {"checkpoint", "done", "begin"}
    BY <1>10 DEF RecordTurn, learning
  <2>2. \A i \in DOMAIN ledger' : ledger'[i].turn < turn'
    BY <1>4, <1>5, <2>1
  <2>3. turn' \in Nat /\ \A i \in DOMAIN ledger' : ledger'[i].turn <= turn'
    BY <1>4, <1>5, <2>1
  <2> QED BY <1>6, <2>1, <2>2, <2>3 DEF LedgerFollows, FirstUseWasSent
<1>11. ASSUME ledger' = ledger, turn' = turn,
              pc' \in {"begin", "act", "checkpoint", "done"} => pc \in {"begin", "checkpoint", "done"},
              pc' # "submit" \/ (pc = "submit" /\ mem' = mem)
       PROVE  LedgerFollows' /\ FirstUseWasSent'
  <2>1. pc' \in {"begin", "act", "checkpoint", "done"} => \A i \in DOMAIN ledger' : ledger'[i].turn < turn'
    BY <1>5, <1>11
  <2>2. pc' = "act" => \A i \in DOMAIN ledger' : ledger'[i].turn # turn'
    BY <1>4, <1>5, <1>11, <2>1
  <2>3. pc' = "submit" => \A i \in DOMAIN ledger' : ledger'[i].turn = turn' =>
                  /\ ledger'[i].kind # "intention"
                  /\ ledger'[i].kind = "emitted" =>
                        mem'.pending[turn'].role = "sender" /\ ledger'[i].mark = mem'.pending[turn'].mark
    BY <1>2, <1>11 DEF LedgerFollows
  <2> QED BY <1>5, <1>6, <1>11, <2>1, <2>2, <2>3 DEF LedgerFollows, FirstUseWasSent
<1>12. CASE ApplyTransition \/ Begin \/ Deliver \/ WriteLatest \/ PolicyCheckpoint \/ PartnerFails
  <2>1. ledger' = ledger /\ turn' = turn
    BY <1>12 DEF ApplyTransition, Begin, Deliver, WriteLatest, PolicyCheckpoint, PartnerFails, learning
  <2>2. pc' \in {"begin", "act", "checkpoint", "done"} => pc \in {"begin", "checkpoint", "done"}
    BY <1>12 DEF ApplyTransition, Begin, Deliver, WriteLatest, PolicyCheckpoint, PartnerFails
  <2>3. pc' # "submit"
    BY <1>12 DEF ApplyTransition, Begin, Deliver, WriteLatest, PolicyCheckpoint, PartnerFails, FirstCall
  <2> QED BY <1>11, <2>1, <2>2, <2>3
<1>13. CASE ReceiverActs
  <2>1. PICK r \in Results : Selected(setting.track, mem, ledger, turn, r) /\ ledger' = r.ledger /\ Ends(r, "outcome")
    BY <1>13, SelectStep
  <2>2. pc' \in {"outcome", "select", "forfeit"} /\ turn' = turn
    BY <1>13, <2>1, CallKeepsTurn DEF ReceiverActs
  <2>3. ledger' = ledger
    BY <2>1 DEF Selected
  <2> QED BY <1>11, <2>2, <2>3
<1>14. CASE Update
  <2>1. ledger' = ledger /\ Ends(Returns(mem', ledger), "write") /\ turn' = turn /\ pc = "update"
    BY <1>14, UpdateStep DEF Update
  <2>2. pc' \in {"write", "update", "forfeit"}
    BY <2>1, CallKeepsTurn
  <2> QED BY <1>11, <2>1, <2>2
<1>15. CASE Recover
  <2>1. FALSE
    BY <1>2, <1>15 DEF Recover, CourseOK, Untouched
  <2> QED BY <2>1
<1>16. CASE UNCHANGED learnVars
  BY <1>16 DEF learnVars, learning, course, LedgerFollows, FirstUseWasSent, Untouched
<1> QED BY <1>3, <1>7, <1>8, <1>9, <1>10, <1>12, <1>13, <1>14, <1>15, <1>16 DEF LearningNext, Turn

LEMMA CourseIsTyped ==
    ASSUME CourseOK
    PROVE  LearningTypeOK
<1>1. mem \in Memories /\ turn \in 0..(LastTurn + 1)
  BY DEF CourseOK
<1>2. /\ mem.emitted \subseteq Marks /\ mem.received \subseteq Marks
      /\ \A k \in Marks : mem.hyp[k].version \in Nat /\ mem.hyp[k].type \in Types /\ mem.belief[k] \in Types
  BY <1>1 DEF Memories, Versions
<1>3. Len(turns) <= LastTurn + 1
  BY <1>1, NumbersAreNumbers DEF CourseOK
<1> QED BY <1>2, <1>3 DEF CourseOK, LearningTypeOK

LEMMA BackedIsRecorded ==
    ASSUME Backed
    PROVE  SeenIsRecorded /\ NoDanglingPrior
<1>1. SeenIsRecorded
  BY DEF Backed, Backs, SeenIsRecorded, Uses, UsedIn
<1>2. NoDanglingPrior
  BY DEF Backed, Backs, Priors, NoDanglingPrior, NamedIn
<1> QED BY <1>1, <1>2

LEMMA OutcomeHasHypothesis ==
    ASSUME CourseOK, [LearningNext]_learnVars,
           pc = "outcome", pc' \in {"update", "record"}, setting.track \in Updating,
           mem.pending[turn].mark # NoMark
    PROVE  mem'.hyp[mem.pending[turn].mark].version > 0
           /\ mem'.hyp[mem.pending[turn].mark].type = mem.belief[mem.pending[turn].mark]
<1>1. Outcome
  BY DEF LearningNext, Turn, ApplyTransition, Begin, SenderActs, Submit, Deliver, ReceiverReceives, ReceiverActs,
         Update, WriteLatest, RecordTurn, PolicyCheckpoint, PartnerFails, Crash, Recover, learnVars, course
<1>2. PICK r \in Results : /\ Answered(setting.track, mem, ledger, turn, r)
                           /\ mem' = r.mem /\ ledger' = r.ledger /\ Ends(r, AfterOutcome)
  BY <1>1, OutcomeStep
<1>3. r.fault = "none"
  BY <1>2 DEF Ends
<1> QED BY <1>2, <1>3 DEF Answered

\* What a learner's ledger promises its reader holds for every number of marks
\* and types, whatever was refused, lost, retried or restarted
\* (tabular-reinforce.ts recordFirstUse, recordHypotheses, restoreRegistries).
THEOREM LedgersAreKept == LearningSpec => LedgerKept
<1>1. LearningInit => CourseOK /\ Backed /\ LedgerFollows /\ FirstUseWasSent
  BY CourseHoldsAtFirst, BackedAtFirst, FollowsAtFirst
<1>2. CourseOK /\ Backed /\ LedgerFollows /\ FirstUseWasSent /\ [LearningNext]_learnVars
        => (CourseOK /\ Backed /\ LedgerFollows /\ FirstUseWasSent)'
  BY CourseStays, LedgerGrows, LedgerStaysFollowed
<1>3. CourseOK /\ Backed /\ FirstUseWasSent => LearningTypeOK /\ SeenIsRecorded /\ NoDanglingPrior /\ FirstUseWasSent
  BY CourseIsTyped, BackedIsRecorded
<1>4. CourseOK /\ [LearningNext]_learnVars =>
        [pc = "outcome" /\ pc' \in {"update", "record"} /\ setting.track \in Updating
           /\ mem.pending[turn].mark # NoMark
         => LET k == mem.pending[turn].mark
            IN  mem'.hyp[k].version > 0 /\ mem'.hyp[k].type = mem.belief[k]]_learnVars
  BY OutcomeHasHypothesis
<1> QED BY <1>1, <1>2, <1>3, <1>4, PTL DEF LearningSpec, LedgerKept, TurnHasHypothesis

---------------------------------------------------------------------------
(* Tables that were moved once for each turn                                 *)

\* The turns follow one another, up to the present one.
Ordered(s, t) ==
    /\ \A i, j \in DOMAIN s : i < j => s[i] < s[j]
    /\ \A i \in DOMAIN s : s[i] <= t

LEMMA NothingIsOrdered ==
    ASSUME NEW t
    PROVE  Ordered(<<>>, t) /\ t \notin Range(<<>>)
BY DEF Ordered, Range

LEMMA OneMoreIsOrdered ==
    ASSUME NEW s \in Seq(Int), NEW t \in Int, Ordered(s, t), t \notin Range(s)
    PROVE  Ordered(Append(s, t), t) /\ Append(s, t) \in Seq(Int)
<1> DEFINE n == Append(s, t)
<1>1. /\ Len(s) \in Nat /\ DOMAIN s = 1..Len(s) /\ DOMAIN n = 1..(Len(s) + 1)
      /\ n \in Seq(Int)
  OBVIOUS
<1>2. (\A i \in 1..Len(s) : n[i] = s[i]) /\ n[Len(s) + 1] = t
  OBVIOUS
<1>3. \A i \in DOMAIN s : s[i] \in Int /\ s[i] < t
  <2> SUFFICES ASSUME NEW i \in DOMAIN s PROVE s[i] \in Int /\ s[i] < t
    OBVIOUS
  <2>1. s[i] \in Int /\ s[i] # t
    BY <1>1 DEF Range
  <2>2. s[i] <= t
    BY DEF Ordered
  <2> QED BY <2>1, <2>2
<1> HIDE DEF n
<1>4. \A i \in DOMAIN n : n[i] <= t
  <2> SUFFICES ASSUME NEW i \in DOMAIN n PROVE n[i] <= t
    OBVIOUS
  <2>1. CASE i \in DOMAIN s
    BY <1>1, <1>2, <1>3, <2>1
  <2>2. CASE i \notin DOMAIN s
    <3>1. i = Len(s) + 1
      BY <1>1, <2>2
    <3> QED BY <1>2, <3>1
  <2> QED BY <2>1, <2>2
<1>5. ASSUME NEW i \in DOMAIN n, NEW j \in DOMAIN n, i < j
      PROVE  n[i] < n[j]
  <2>1. i \in DOMAIN s /\ i \in 1..Len(s)
    BY <1>1, <1>5
  <2>2. n[i] = s[i]
    BY <1>2, <2>1
  <2>3. CASE j \in DOMAIN s
    <3>1. n[j] = s[j]
      BY <1>1, <1>2, <2>3
    <3> QED BY <1>5, <2>1, <2>2, <2>3, <3>1 DEF Ordered
  <2>4. CASE j \notin DOMAIN s
    <3>1. j = Len(s) + 1
      BY <1>1, <2>4
    <3> QED BY <1>2, <1>3, <2>1, <2>2, <3>1
  <2> QED BY <2>3, <2>4
<1> QED BY <1>1, <1>4, <1>5 DEF Ordered, n

LEMMA LaterIsOrdered ==
    ASSUME NEW s \in Seq(Int), NEW t \in Int, Ordered(s, t)
    PROVE  Ordered(s, t + 1) /\ (t + 1) \notin Range(s)
<1>1. \A i \in DOMAIN s : s[i] \in Int /\ s[i] <= t
  BY DEF Ordered
<1>2. \A i \in DOMAIN s : s[i] <= t + 1 /\ s[i] # t + 1
  BY <1>1
<1> QED BY <1>2 DEF Ordered, Range

---------------------------------------------------------------------------
(* The inductive invariant *)

\* Before the outcome of a turn, or between turns.
Early == {"begin", "act", "submit", "deliver", "receive", "select", "checkpoint", "done"}

\* With the turn's event on the channel chain.
Carried == {"receive", "select", "outcome", "update", "write", "record"}

\* What a policy file tells a restart.
Reloadable(s, t, c) == Ordered(s, t) /\ (t \in Range(s) => t \in c)

LearntInOrder ==
    setting.condition = "normal" =>
        /\ pc \in Carried => turn \in channel
        /\ Ordered(mem.learnt, turn)
        /\ pc \in Early => turn \notin Range(mem.learnt)
        /\ pc = "outcome" /\ turn \in Range(mem.learnt) =>
              setting.track = "frozen-llm" /\ mem.pending[turn].folded
        /\ pc = "update" /\ turn \in Range(mem.learnt) => mem.pending[turn].mark = NoMark
        /\ pc = "update" /\ setting.track = "hybrid" =>
              mem.pending[turn].rewarded \/ mem.pending[turn].mark = NoMark
        /\ latest \in Exports => Reloadable(latest.learnt, turn, channel)

SensedInOrder ==
    setting.condition = "normal" /\ setting.track # "hybrid" =>
        /\ Ordered(mem.sensed, turn) /\ Reloadable(mem.kept.sensed, turn, channel)
        /\ pc \in {"begin", "checkpoint", "done", "deliver"} => turn \notin Range(mem.sensed)
        /\ pc \in Early /\ setting.track # "frozen-llm" => turn \notin Range(mem.sensed)
        /\ pc = "receive" /\ turn \in Range(mem.sensed) => mem.last = turn
        /\ pc = "outcome" /\ setting.track = "scratch-rl" /\ turn \in Range(mem.sensed) =>
              mem.pending[turn].rewarded
        /\ latest \in Exports => Reloadable(latest.registries.sensed, turn, channel)

LEMMA OrderAtFirst ==
    ASSUME LearningInit
    PROVE  LearntInOrder /\ SensedInOrder
<1>1. setting.track \in Tracks /\ turn = 0 /\ pc = "begin" /\ latest = None /\ channel = {}
  BY LearningAssumption DEF LearningInit
<1>2. Fresh.learnt = <<>> /\ Fresh.sensed = <<>> /\ Fresh.kept.sensed = <<>>
  BY DEF Fresh, EmptyRegistries
<1>3. /\ mem.learnt \in {<<ParentTurn>>, <<>>}
      /\ setting.track # "hybrid" => mem.sensed = <<>> /\ mem.kept.sensed = <<>>
  <2>1. CASE mem = Fresh
    BY <1>2, <2>1
  <2>2. CASE mem # Fresh
    <3>1. mem = Initialized(ParentPolicy) /\ LoadedFrom(setting.track, ParentPolicy, mem)
          /\ ParentPolicy.learnt \in {<<ParentTurn>>, <<>>} /\ ParentPolicy.registries.sensed = <<>>
      BY <1>1, <2>2, ParentIsPolicy, InitializedDoes DEF LearningInit
    <3> QED BY <3>1 DEF LoadedFrom
  <2> QED BY <2>1, <2>2
<1>4. Ordered(<<ParentTurn>>, 0) /\ 0 \notin Range(<<ParentTurn>>)
  <2>1. DOMAIN <<ParentTurn>> = {1} /\ <<ParentTurn>>[1] = -1
    BY DEF ParentTurn
  <2> QED BY <2>1 DEF Ordered, Range
<1>5. Ordered(mem.learnt, turn) /\ turn \notin Range(mem.learnt)
  BY <1>1, <1>3, <1>4, NothingIsOrdered
<1>6. setting.track # "hybrid" =>
        Ordered(mem.sensed, turn) /\ turn \notin Range(mem.sensed) /\ Reloadable(mem.kept.sensed, turn, channel)
  BY <1>3, NothingIsOrdered DEF Reloadable
<1>7. latest \notin Exports
  BY <1>1, ExportsAreDistinct DEF NoExportIsNone
<1> QED BY <1>1, <1>5, <1>6, <1>7 DEF LearntInOrder, SensedInOrder, Carried

LEMMA ReloadableStays ==
    ASSUME NEW s, NEW t, NEW c, NEW d, Reloadable(s, t, c), c \subseteq d
    PROVE  Reloadable(s, t, d)
BY DEF Reloadable

LEMMA LaterIsReloadable ==
    ASSUME NEW s \in Seq(Int), NEW t \in Int, NEW c, Ordered(s, t)
    PROVE  Reloadable(s, t + 1, c)
BY LaterIsOrdered DEF Reloadable

\* What an outcome does to the tables.
AnsweredWith(track, m, t, n, e) ==
    /\ n.pending = [m.pending EXCEPT ![t] = e] /\ e.mark = m.pending[t].mark
    /\ \/ n.learnt = m.learnt
       \/ track = "frozen-llm" /\ ~m.pending[t].folded /\ e.folded /\ n.learnt = Append(m.learnt, t)
    /\ m.pending[t].folded => e.folded
    /\ m.pending[t].rewarded => e.rewarded
    /\ \/ n.sensed = m.sensed
       \/ track = "scratch-rl" /\ ~m.pending[t].rewarded /\ e.rewarded /\ n.sensed = Append(m.sensed, t)
       \/ track = "hybrid"
    /\ track = "hybrid" => e.rewarded \/ e.mark = NoMark
    /\ n.knobs = m.knobs /\ n.kept = m.kept /\ n.last = m.last
    /\ track # "frozen-llm" => n.learnt = m.learnt /\ n.belief = m.belief

LEMMA AnsweredLeaves ==
    ASSUME NEW track \in Tracks, NEW m \in Memories, NEW l, NEW t \in Turns, NEW r \in Results,
           Answered(track, m, l, t, r)
    PROVE  \E e \in Entries : AnsweredWith(track, m, t, r.mem, e)
<1>1. PICK n \in Memories, e \in Entries :
          /\ n.pending = [m.pending EXCEPT ![t] = e] /\ e.mark = m.pending[t].mark
          /\ n.last = m.last /\ n.knobs = m.knobs /\ n.kept = m.kept
          /\ track # "frozen-llm" => n.learnt = m.learnt /\ n.belief = m.belief
          /\ \/ n.learnt = m.learnt
             \/ track = "frozen-llm" /\ ~m.pending[t].folded /\ e.folded /\ n.learnt = Append(m.learnt, t)
          /\ m.pending[t].folded => e.folded
          /\ m.pending[t].rewarded => e.rewarded
          /\ \/ n.sensed = m.sensed
             \/ track = "scratch-rl" /\ ~m.pending[t].rewarded /\ e.rewarded /\ n.sensed = Append(m.sensed, t)
             \/ track = "hybrid"
          /\ track = "hybrid" => e.rewarded \/ e.mark = NoMark
          /\ \/ r = Returns(n, l)
             \/ e.mark \in Marks /\ Reasoned(n, l, t, e.mark, r)
  BY DEF Answered
<1>2. /\ r.mem.pending = n.pending /\ r.mem.last = n.last /\ r.mem.learnt = n.learnt /\ r.mem.sensed = n.sensed
      /\ r.mem.knobs = n.knobs /\ r.mem.kept = n.kept /\ r.mem.belief = n.belief
  <2>1. CASE r = Returns(n, l)
    BY <2>1 DEF Returns
  <2>2. CASE r.mem = n
    BY <2>2
  <2>3. CASE r.mem = Advanced(n, e.mark)
    BY <2>3 DEF Advanced, Memories
  <2> QED BY <1>1, <2>1, <2>2, <2>3 DEF Reasoned
<1> QED BY <1>1, <1>2 DEF AnsweredWith

\* A step of a turn that is not answered yet leaves the tables alone.
LEMMA EarlyStepLearns ==
    ASSUME CourseOK, LearntInOrder, pc \in Early, setting' = setting, turn' = turn, latest' = latest,
           mem'.learnt = mem.learnt, channel \subseteq channel', pc' # "update",
           setting.condition = "normal" /\ pc' \in Carried => turn \in channel'
    PROVE  LearntInOrder'
<1> SUFFICES ASSUME setting.condition = "normal" PROVE LearntInOrder'
  BY DEF LearntInOrder
<1>1. Ordered(mem.learnt, turn) /\ turn \notin Range(mem.learnt)
      /\ (latest \in Exports => Reloadable(latest.learnt, turn, channel))
  BY DEF LearntInOrder
<1>2. Ordered(mem'.learnt, turn') /\ turn' \notin Range(mem'.learnt)
  BY <1>1
<1>3. latest' \in Exports => Reloadable(latest'.learnt, turn', channel')
  BY <1>1, ReloadableStays
<1> QED BY <1>2, <1>3 DEF LearntInOrder

LEMMA LearntStaysInOrder ==
    ASSUME CourseOK, LearntInOrder, [LearningNext]_learnVars
    PROVE  LearntInOrder'
<1>0. setting.track \in Tracks /\ mem \in Memories /\ turn \in Nat /\ turn \in Int
  BY TrackIsTrack DEF CourseOK
<1>19. setting' = setting
  BY DEF LearningNext, Turn, ApplyTransition, Begin, SenderActs, Submit, Deliver, ReceiverReceives, ReceiverActs,
         Outcome, Update, WriteLatest, RecordTurn, PolicyCheckpoint, PartnerFails, Crash, Recover, learnVars
<1> SUFFICES ASSUME setting.condition = "normal" PROVE LearntInOrder'
  BY <1>19 DEF LearntInOrder
<1>1. /\ Ordered(mem.learnt, turn)
      /\ latest \in Exports => Reloadable(latest.learnt, turn, channel)
      /\ pc \in Carried => turn \in channel
  BY DEF LearntInOrder
<1>2. mem.learnt \in Seq(Int) /\ (latest \in Exports => latest.learnt \in Seq(Int))
  BY <1>0 DEF Memories, Exports, Policies
<1>3. CASE ApplyTransition
  <2> DEFINE i == CHOOSE j \in StageDue : \A k \in StageDue : j <= k
  <2>1. i \in DOMAIN Stages /\ mem' = ApplyStage(setting.track, mem, i)
    BY <1>3, FirstStage
  <2> HIDE DEF i
  <2>2. mem'.learnt = mem.learnt
    BY <1>0, <2>1, StageDoes
  <2> QED BY <1>3, <2>2, EarlyStepLearns DEF ApplyTransition, Early, Carried
<1>4. CASE Begin
  BY <1>4, EarlyStepLearns DEF Begin, Early, Carried, FirstCall, learning
<1>5. CASE SenderActs
  <2>1. PICK r \in Results : /\ Sent(setting.track, mem, ledger, turn, r) /\ mem' = r.mem /\ Ends(r, "submit")
    BY <1>5, SenderStep
  <2>2. mem'.learnt = mem.learnt
    BY <2>1 DEF Sent
  <2>3. pc' \in {"submit", "act", "forfeit"}
    BY <1>5, <2>1, CallKeepsTurn DEF SenderActs
  <2> QED BY <1>5, <2>2, <2>3, EarlyStepLearns DEF SenderActs, Early, Carried
<1>6. CASE Submit
  BY <1>6, EarlyStepLearns DEF Submit, Early
<1>7. CASE Deliver
  BY <1>7, EarlyStepLearns DEF Deliver, Early, learning
<1>8. CASE ReceiverReceives
  <2>1. PICK r \in Results : Received(setting.track, mem, ledger, turn, heard, r) /\ mem' = r.mem /\ Ends(r, "select")
    BY <1>8, ReceiverStep
  <2>2. mem'.learnt = mem.learnt
    BY <2>1 DEF Received
  <2>3. pc' \in {"select", "receive", "forfeit"} /\ turn \in channel
    BY <1>1, <1>8, <2>1, CallKeepsTurn DEF ReceiverReceives, Carried
  <2> QED BY <1>8, <2>2, <2>3, EarlyStepLearns DEF ReceiverReceives, Early
<1>9. CASE ReceiverActs
  <2>1. PICK r \in Results : Selected(setting.track, mem, ledger, turn, r) /\ mem' = r.mem /\ Ends(r, "outcome")
    BY <1>9, SelectStep
  <2>2. mem'.learnt = mem.learnt
    BY <2>1 DEF Selected
  <2>3. pc' \in {"outcome", "select", "forfeit"} /\ turn \in channel
    BY <1>1, <1>9, <2>1, CallKeepsTurn DEF ReceiverActs, Carried
  <2> QED BY <1>9, <2>2, <2>3, EarlyStepLearns DEF ReceiverActs, Early
<1>10. CASE Outcome
  <2>1. PICK r \in Results : Answered(setting.track, mem, ledger, turn, r) /\ mem' = r.mem /\ Ends(r, AfterOutcome)
    BY <1>10, OutcomeStep
  <2>2. pc = "outcome" /\ turn' = turn /\ channel' = channel /\ latest' = latest /\ turn \in Turns
    BY <1>10, TurnIsTurn DEF Outcome
  <2>3. PICK e \in Entries : AnsweredWith(setting.track, mem, turn, r.mem, e)
    BY <1>0, <2>1, <2>2, AnsweredLeaves
  <2>4. mem'.pending[turn] = e
    BY <1>0, <2>1, <2>2, <2>3 DEF Memories, AnsweredWith
  <2>5. turn \in Range(mem.learnt) => setting.track = "frozen-llm" /\ mem.pending[turn].folded
    BY <2>2 DEF LearntInOrder
  <2>6. Ordered(mem'.learnt, turn)
    BY <1>0, <1>1, <1>2, <2>1, <2>3, <2>5, OneMoreIsOrdered DEF AnsweredWith
  <2>7. turn \in Range(mem'.learnt) => setting.track = "frozen-llm" /\ e.folded
    BY <2>1, <2>3, <2>5 DEF AnsweredWith
  <2>8. pc' \in {"outcome", "update", "record", "forfeit"} /\ (pc' = "update" => setting.track \in Updating)
    <3>1. /\ AfterOutcome \in {"update", "record"}
          /\ AfterOutcome = "update" => setting.track \in Updating
      BY DEF AfterOutcome
    <3> QED BY <2>1, <2>2, <3>1, CallKeepsTurn
  <2>9. turn \in channel
    BY <1>1, <2>2 DEF Carried
  <2> QED BY <1>1, <1>19, <2>2, <2>3, <2>4, <2>6, <2>7, <2>8, <2>9 DEF LearntInOrder, Early, Updating, AnsweredWith
<1>11. CASE Update
  <2>1. Updated(setting.track, mem, turn, mem') /\ Ends(Returns(mem', ledger), "write")
    BY <1>11, UpdateStep
  <2>2. pc = "update" /\ turn' = turn /\ channel' = channel /\ latest' = latest /\ turn \in Turns
    BY <1>11, TurnIsTurn DEF Update
  <2>3. PICK e \in Entries :
          /\ mem'.pending = [mem.pending EXCEPT ![turn] = e]
          /\ e.mark = NoMark \/ e = mem.pending[turn]
          /\ \/ mem'.learnt = mem.learnt
             \/ /\ mem'.learnt = Append(mem.learnt, turn) /\ mem.pending[turn].mark # NoMark
                /\ e.mark = NoMark \/ (setting.track = "hybrid" /\ ~mem.pending[turn].rewarded)
    BY <2>1 DEF Updated
  <2>4. mem'.pending[turn] = e
    BY <1>0, <2>2, <2>3 DEF Memories
  <2>5. /\ turn \in Range(mem.learnt) => mem.pending[turn].mark = NoMark
        /\ setting.track = "hybrid" => mem.pending[turn].rewarded \/ mem.pending[turn].mark = NoMark
    BY <2>2 DEF LearntInOrder
  <2>6. Ordered(mem'.learnt, turn)
    BY <1>0, <1>1, <1>2, <2>3, <2>5, OneMoreIsOrdered
  <2>7. turn \in Range(mem'.learnt) => e.mark = NoMark
    BY <2>3, <2>5
  <2>8. setting.track = "hybrid" => e.rewarded \/ e.mark = NoMark
    BY <2>3, <2>5
  <2>9. pc' \in {"write", "update", "forfeit"} /\ turn \in channel
    BY <1>1, <2>1, <2>2, CallKeepsTurn DEF Carried
  <2> QED BY <1>1, <1>19, <2>2, <2>4, <2>6, <2>7, <2>8, <2>9 DEF LearntInOrder, Early
<1>12. CASE WriteLatest
  <2>1. /\ pc = "write" /\ pc' = "record" /\ mem' = mem /\ turn' = turn /\ channel' = channel
        /\ latest' = ExportPolicy(setting.track, mem)
    BY <1>12 DEF WriteLatest
  <2>2. setting.track \in Updating /\ turn \in channel
    BY <1>1, <2>1 DEF CourseOK, Carried
  <2>3. latest'.learnt = mem.learnt
    BY <1>0, <2>1, <2>2, ExportDoes
  <2>4. Reloadable(mem.learnt, turn, channel)
    BY <1>1, <2>2 DEF Reloadable
  <2> QED BY <1>1, <2>1, <2>2, <2>3, <2>4 DEF LearntInOrder, Early
<1>13. CASE RecordTurn
  <2>1. turn' = turn + 1 /\ mem' = mem /\ latest' = latest /\ channel' = channel
        /\ pc' \in {"checkpoint", "done", "begin"}
    BY <1>13 DEF RecordTurn, learning
  <2>2. Ordered(mem.learnt, turn + 1) /\ (turn + 1) \notin Range(mem.learnt)
    BY <1>0, <1>1, <1>2, LaterIsOrdered
  <2>3. latest \in Exports => Reloadable(latest.learnt, turn + 1, channel)
    BY <1>0, <1>1, <1>2, LaterIsReloadable DEF Reloadable
  <2> QED BY <2>1, <2>2, <2>3 DEF LearntInOrder, Carried
<1>14. CASE PolicyCheckpoint
  BY <1>14, EarlyStepLearns DEF PolicyCheckpoint, Early, Carried, learning
<1>15. CASE PartnerFails
  <2>1. turn' = turn /\ mem' = mem /\ latest' = latest /\ channel' = channel /\ pc' = "forfeit"
    BY <1>15 DEF PartnerFails, learning
  <2> QED BY <1>1, <2>1 DEF LearntInOrder, Early, Carried
<1>16. CASE Crash
  <2>1. turn' = turn /\ mem' = Fresh /\ channel' = channel /\ pc' = "down"
        /\ (latest' \in Exports => latest' = latest)
    BY <1>16, ExportsAreDistinct DEF Crash, NoExportIsNone
  <2>2. Ordered(Fresh.learnt, turn)
    BY NothingIsOrdered DEF Fresh
  <2> QED BY <1>1, <2>1, <2>2 DEF LearntInOrder, Early, Carried
<1>17. CASE Recover
  <2>1. turn' = turn /\ latest' = latest /\ channel' = channel /\ pc' \in {"stuck", "begin", "done"}
    BY <1>17 DEF Recover, CourseOK
  <2>2. CASE pc' = "stuck" /\ mem' = mem
    BY <1>1, <2>1, <2>2 DEF LearntInOrder, Early, Carried
  <2>3. CASE ~(pc' = "stuck" /\ mem' = mem)
    <3> DEFINE m == Initialized(latest)
               s == StageForTurn(IF turn' = 0 THEN 0 ELSE turn' - 1)
    <3>1. ~(\E t \in channel : t >= Len(turns)) /\ turn = Len(turns)
          /\ (mem' = m \/ (stages # <<>> /\ mem' = ApplyStage(setting.track, m, s)))
      BY <1>17, <2>3 DEF Recover, CourseOK
    <3>2. turn \notin channel
      BY <1>0, <3>1
    <3>3. m \in Memories /\ (m = Fresh \/ (latest \in Policies /\ LoadedFrom(setting.track, latest, m)))
          /\ latest \in {None, Torn} \cup Exports
      BY <1>0, InitializedDoes DEF CourseOK, Exports
    <3>4. m.learnt = <<>> \/ (latest \in Exports /\ m.learnt = latest.learnt)
      <4>1. CASE m = Fresh
        BY <4>1 DEF Fresh
      <4>2. CASE m # Fresh
        <5>1. latest \in Policies /\ m.learnt \in {latest.learnt, <<>>}
          BY <3>3, <4>2 DEF LoadedFrom
        <5>2. latest \in Exports
          BY <3>3, <5>1 DEF Policies, Exports, None, Torn
        <5> QED BY <5>1, <5>2
      <4> QED BY <4>1, <4>2
    <3> HIDE DEF m
    <3>5. Ordered(m.learnt, turn) /\ turn \notin Range(m.learnt)
      BY <1>1, <3>2, <3>4, NothingIsOrdered DEF Reloadable
    <3>6. mem'.learnt = m.learnt
      <4>1. CASE mem' = m
        BY <4>1
      <4>2. CASE stages # <<>> /\ mem' = ApplyStage(setting.track, m, s)
        <5>1. (IF turn' = 0 THEN 0 ELSE turn' - 1) \in Nat
          BY <1>0, <2>1
        <5>2. s \in DOMAIN Stages
          BY <4>2, <5>1, StageForTurnIsStage
        <5> HIDE DEF s
        <5> QED BY <1>0, <3>3, <4>2, <5>2, StageDoes
      <4> QED BY <3>1, <4>1, <4>2
    <3> QED BY <1>1, <2>1, <3>5, <3>6 DEF LearntInOrder, Carried
  <2> QED BY <2>2, <2>3
<1>18. CASE UNCHANGED learnVars
  BY <1>18 DEF LearntInOrder, learnVars, learning, course
<1> QED BY <1>3, <1>4, <1>5, <1>6, <1>7, <1>8, <1>9, <1>10, <1>11, <1>12, <1>13, <1>14, <1>15, <1>16, <1>17, <1>18
        DEF LearningNext, Turn

Sensing == setting.condition = "normal" /\ setting.track # "hybrid"

LEMMA SettingStays ==
    ASSUME [LearningNext]_learnVars
    PROVE  setting' = setting
BY DEF LearningNext, Turn, ApplyTransition, Begin, SenderActs, Submit, Deliver, ReceiverReceives, ReceiverActs,
       Outcome, Update, WriteLatest, RecordTurn, PolicyCheckpoint, PartnerFails, Crash, Recover, learnVars

\* A step that leaves the predictor and what is kept of it alone.
LEMMA QuietStepSenses ==
    ASSUME CourseOK, SensedInOrder, setting' = setting, turn' = turn, latest' = latest,
           mem'.sensed = mem.sensed, mem'.kept = mem.kept, channel \subseteq channel',
           \/ pc' \in {"forfeit", "stuck", "update", "write", "record"}
           \/ pc \in {"begin", "checkpoint", "done", "deliver"} /\ pc' \in Early \cup {"outcome"}
           \/ /\ setting.track # "frozen-llm" /\ pc \in Early
              /\ pc' \in Early \cup {"outcome"}
           \/ pc \in Early /\ pc' \in {"act", "submit", "select"}
           \/ pc \in Early /\ pc' = "outcome" /\ setting.track = "frozen-llm"
           \/ pc' = "outcome" /\ setting.track # "scratch-rl"
    PROVE  SensedInOrder'
<1> SUFFICES ASSUME Sensing PROVE SensedInOrder'
  BY DEF SensedInOrder, Sensing
<1>1. /\ Ordered(mem.sensed, turn) /\ Reloadable(mem.kept.sensed, turn, channel)
      /\ latest \in Exports => Reloadable(latest.registries.sensed, turn, channel)
  BY DEF SensedInOrder, Sensing
<1>2. /\ Ordered(mem'.sensed, turn') /\ Reloadable(mem'.kept.sensed, turn', channel')
      /\ latest' \in Exports => Reloadable(latest'.registries.sensed, turn', channel')
  BY <1>1, ReloadableStays
<1>3. pc \in {"begin", "checkpoint", "done", "deliver"} => turn \notin Range(mem.sensed)
  BY DEF SensedInOrder, Sensing
<1>4. pc \in Early /\ setting.track # "frozen-llm" => turn \notin Range(mem.sensed)
  BY DEF SensedInOrder, Sensing
<1>5. /\ pc' \in {"begin", "checkpoint", "done", "deliver"} => turn' \notin Range(mem'.sensed)
      /\ pc' \in Early /\ setting'.track # "frozen-llm" => turn' \notin Range(mem'.sensed)
      /\ pc' = "receive" => turn' \notin Range(mem'.sensed)
      /\ pc' = "outcome" /\ setting'.track = "scratch-rl" => turn' \notin Range(mem'.sensed)
  BY <1>3, <1>4 DEF Early
<1> QED BY <1>2, <1>5 DEF SensedInOrder

LEMMA SensedStaysInOrder ==
    ASSUME CourseOK, SensedInOrder, LearntInOrder, [LearningNext]_learnVars
    PROVE  SensedInOrder'
<1>0. setting.track \in Tracks /\ mem \in Memories /\ turn \in Nat /\ turn \in Int /\ setting' = setting
  BY TrackIsTrack, SettingStays DEF CourseOK
<1> SUFFICES ASSUME Sensing PROVE SensedInOrder'
  BY <1>0 DEF SensedInOrder, Sensing
<1>1. /\ Ordered(mem.sensed, turn) /\ Reloadable(mem.kept.sensed, turn, channel)
      /\ latest \in Exports => Reloadable(latest.registries.sensed, turn, channel)
  BY DEF SensedInOrder, Sensing
<1>2. /\ mem.sensed \in Seq(Int) /\ mem.kept.sensed \in Seq(Int)
      /\ latest \in Exports => latest.registries.sensed \in Seq(Int)
  BY <1>0 DEF Memories, Exports, Policies, Registries
<1>3. CASE ApplyTransition
  <2> DEFINE i == CHOOSE j \in StageDue : \A k \in StageDue : j <= k
  <2>1. i \in DOMAIN Stages /\ mem' = ApplyStage(setting.track, mem, i)
    BY <1>3, FirstStage
  <2> HIDE DEF i
  <2>2. mem'.sensed = mem.sensed /\ mem'.kept = mem.kept
    BY <1>0, <2>1, StageDoes
  <2> QED BY <1>3, <2>2, QuietStepSenses DEF ApplyTransition, Early
<1>4. CASE Begin
  BY <1>0, <1>4, QuietStepSenses DEF Begin, Early, FirstCall, learning
<1>5. CASE SenderActs
  <2>1. PICK r \in Results : /\ Sent(setting.track, mem, ledger, turn, r) /\ mem' = r.mem /\ Ends(r, "submit")
    BY <1>5, SenderStep
  <2>2. pc' \in {"submit", "act", "forfeit"} /\ pc = "act"
    BY <1>5, <2>1, CallKeepsTurn DEF SenderActs
  <2>3. turn' = turn /\ latest' = latest /\ channel' = channel
    BY <1>5 DEF SenderActs
  <2>4. /\ mem'.kept = mem.kept
        /\ setting.track # "frozen-llm" => mem'.sensed = mem.sensed
        /\ mem'.sensed # mem.sensed => turn \notin Range(mem.sensed) /\ mem'.sensed = Append(mem.sensed, turn)
    BY <2>1 DEF Sent
  <2>5. CASE mem'.sensed = mem.sensed
    BY <1>0, <2>2, <2>3, <2>4, <2>5, QuietStepSenses DEF Early
  <2>6. CASE mem'.sensed # mem.sensed
    <3>1. Ordered(mem'.sensed, turn)
      BY <1>0, <1>1, <1>2, <2>4, <2>6, OneMoreIsOrdered
    <3> QED BY <1>0, <1>1, <2>2, <2>3, <2>4, <2>6, <3>1 DEF SensedInOrder, Early
  <2> QED BY <2>5, <2>6
<1>6. CASE Submit
  <2>1. pc = "submit" /\ pc' = "outcome" /\ turn' = turn /\ latest' = latest /\ mem' = mem /\ channel \subseteq channel'
    BY <1>6 DEF Submit
  <2> QED BY <1>0, <2>1, QuietStepSenses DEF Early
<1>7. CASE Deliver
  <2>1. pc = "deliver" /\ pc' \in {"receive", "outcome"} /\ turn' = turn /\ latest' = latest /\ mem' = mem
        /\ channel \subseteq channel'
    BY <1>7 DEF Deliver, learning
  <2> QED BY <1>0, <2>1, QuietStepSenses DEF Early
<1>8. CASE ReceiverReceives
  <2>1. PICK r \in Results : Received(setting.track, mem, ledger, turn, heard, r) /\ mem' = r.mem /\ Ends(r, "select")
    BY <1>8, ReceiverStep
  <2>2. pc' \in {"select", "receive", "forfeit"} /\ pc = "receive"
    BY <1>8, <2>1, CallKeepsTurn DEF ReceiverReceives
  <2>3. turn' = turn /\ latest' = latest /\ channel' = channel
    BY <1>8 DEF ReceiverReceives
  <2>4. /\ mem'.kept = mem.kept /\ mem'.last = turn
        /\ setting.track # "frozen-llm" => mem'.sensed = mem.sensed
        /\ mem'.sensed # mem.sensed => mem.last # turn /\ mem'.sensed = Append(mem.sensed, turn)
    BY <2>1 DEF Received
  <2>5. turn \in Range(mem.sensed) => mem.last = turn
    BY <2>2 DEF SensedInOrder, Sensing
  <2>6. Ordered(mem'.sensed, turn)
    BY <1>0, <1>1, <1>2, <2>4, <2>5, OneMoreIsOrdered
  <2>7. setting.track # "frozen-llm" => turn \notin Range(mem'.sensed)
    BY <2>2, <2>4 DEF SensedInOrder, Sensing, Early
  <2> QED BY <1>0, <1>1, <2>2, <2>3, <2>4, <2>6, <2>7 DEF SensedInOrder, Early
<1>9. CASE ReceiverActs
  <2>1. PICK r \in Results : Selected(setting.track, mem, ledger, turn, r) /\ mem' = r.mem /\ Ends(r, "outcome")
    BY <1>9, SelectStep
  <2>2. mem'.sensed = mem.sensed /\ mem'.kept = mem.kept
    BY <2>1 DEF Selected
  <2>3. pc' \in {"outcome", "select", "forfeit"} /\ pc = "select"
    BY <1>9, <2>1, CallKeepsTurn DEF ReceiverActs
  <2>4. turn' = turn /\ latest' = latest /\ channel' = channel
    BY <1>9 DEF ReceiverActs
  <2> QED BY <1>0, <2>2, <2>3, <2>4, QuietStepSenses DEF Early
<1>10. CASE Outcome
  <2>1. PICK r \in Results : Answered(setting.track, mem, ledger, turn, r) /\ mem' = r.mem /\ Ends(r, AfterOutcome)
    BY <1>10, OutcomeStep
  <2>2. pc = "outcome" /\ turn' = turn /\ channel' = channel /\ latest' = latest /\ turn \in Turns
    BY <1>10, TurnIsTurn DEF Outcome
  <2>3. PICK e \in Entries : AnsweredWith(setting.track, mem, turn, r.mem, e)
    BY <1>0, <2>1, <2>2, AnsweredLeaves
  <2>4. mem'.pending[turn] = e
    BY <1>0, <2>1, <2>2, <2>3 DEF Memories, AnsweredWith
  <2>5. setting.track = "scratch-rl" /\ turn \in Range(mem.sensed) => mem.pending[turn].rewarded
    BY <2>2 DEF SensedInOrder, Sensing
  <2>6. \/ mem'.sensed = mem.sensed
        \/ setting.track = "scratch-rl" /\ ~mem.pending[turn].rewarded /\ mem'.sensed = Append(mem.sensed, turn)
    BY <2>1, <2>3 DEF AnsweredWith, Sensing
  <2>7. Ordered(mem'.sensed, turn)
    BY <1>0, <1>1, <1>2, <2>5, <2>6, OneMoreIsOrdered
  <2>8. setting.track = "scratch-rl" /\ turn \in Range(mem'.sensed) => e.rewarded
    BY <2>1, <2>3, <2>5, <2>6 DEF AnsweredWith
  <2>9. pc' \in {"outcome", "update", "record", "forfeit"}
    <3>1. AfterOutcome \in {"update", "record"}
      BY DEF AfterOutcome
    <3> QED BY <2>1, <2>2, <3>1, CallKeepsTurn
  <2>10. mem'.kept = mem.kept
    BY <2>1, <2>3 DEF AnsweredWith
  <2> QED BY <1>0, <1>1, <2>2, <2>4, <2>7, <2>8, <2>9, <2>10 DEF SensedInOrder, Early
<1>11. CASE Update
  <2>1. Updated(setting.track, mem, turn, mem') /\ Ends(Returns(mem', ledger), "write")
    BY <1>11, UpdateStep
  <2>2. pc = "update" /\ turn' = turn /\ channel' = channel /\ latest' = latest
    BY <1>11 DEF Update
  <2>3. mem'.sensed = mem.sensed /\ mem'.kept.sensed = mem.sensed
    BY <2>1 DEF Updated, Snapshot
  <2>4. turn \in channel
    BY <2>2 DEF LearntInOrder, Carried, Sensing
  <2>5. Reloadable(mem'.kept.sensed, turn, channel)
    BY <1>1, <2>3, <2>4 DEF Reloadable
  <2>6. pc' \in {"write", "update", "forfeit"}
    BY <2>1, <2>2, CallKeepsTurn
  <2> QED BY <1>0, <1>1, <2>2, <2>3, <2>5, <2>6 DEF SensedInOrder, Early
<1>12. CASE WriteLatest
  <2>1. /\ pc = "write" /\ pc' = "record" /\ mem' = mem /\ turn' = turn /\ channel' = channel
        /\ latest' = ExportPolicy(setting.track, mem)
    BY <1>12 DEF WriteLatest
  <2>2. setting.track \in Updating
    BY <2>1 DEF CourseOK
  <2>3. latest'.registries = mem.kept
    BY <1>0, <2>1, <2>2, ExportDoes
  <2> QED BY <1>0, <1>1, <2>1, <2>3 DEF SensedInOrder, Early
<1>13. CASE RecordTurn
  <2>1. turn' = turn + 1 /\ mem' = mem /\ latest' = latest /\ channel' = channel
        /\ pc' \in {"checkpoint", "done", "begin"}
    BY <1>13 DEF RecordTurn, learning
  <2>2. Ordered(mem.sensed, turn + 1) /\ (turn + 1) \notin Range(mem.sensed)
    BY <1>0, <1>1, <1>2, LaterIsOrdered
  <2>3. Reloadable(mem.kept.sensed, turn + 1, channel)
    BY <1>0, <1>1, <1>2, LaterIsReloadable DEF Reloadable
  <2>4. latest \in Exports => Reloadable(latest.registries.sensed, turn + 1, channel)
    BY <1>0, <1>1, <1>2, LaterIsReloadable DEF Reloadable
  <2> QED BY <1>0, <2>1, <2>2, <2>3, <2>4 DEF SensedInOrder
<1>14. CASE PolicyCheckpoint
  BY <1>0, <1>14, QuietStepSenses DEF PolicyCheckpoint, Early, learning
<1>15. CASE PartnerFails
  BY <1>0, <1>15, QuietStepSenses DEF PartnerFails, learning
<1>16. CASE Crash
  <2>1. turn' = turn /\ mem' = Fresh /\ channel' = channel /\ pc' = "down"
        /\ (latest' \in Exports => latest' = latest)
    BY <1>16, ExportsAreDistinct DEF Crash, NoExportIsNone
  <2>2. Ordered(Fresh.sensed, turn) /\ Reloadable(Fresh.kept.sensed, turn, channel)
    BY NothingIsOrdered DEF Fresh, EmptyRegistries, Reloadable
  <2> QED BY <1>0, <1>1, <2>1, <2>2 DEF SensedInOrder, Early
<1>17. CASE Recover
  <2>1. turn' = turn /\ latest' = latest /\ channel' = channel /\ pc' \in {"stuck", "begin", "done"}
    BY <1>17 DEF Recover, CourseOK
  <2>2. CASE pc' = "stuck" /\ mem' = mem
    BY <1>0, <2>1, <2>2, QuietStepSenses
  <2>3. CASE ~(pc' = "stuck" /\ mem' = mem)
    <3> DEFINE m == Initialized(latest)
               s == StageForTurn(IF turn' = 0 THEN 0 ELSE turn' - 1)
    <3>1. ~(\E t \in channel : t >= Len(turns)) /\ turn = Len(turns)
          /\ (mem' = m \/ (stages # <<>> /\ mem' = ApplyStage(setting.track, m, s)))
      BY <1>17, <2>3 DEF Recover, CourseOK
    <3>2. turn \notin channel
      BY <1>0, <3>1
    <3>3. m \in Memories /\ (m = Fresh \/ (latest \in Policies /\ LoadedFrom(setting.track, latest, m)))
          /\ latest \in {None, Torn} \cup Exports
      BY <1>0, InitializedDoes DEF CourseOK, Exports
    <3>4. /\ m.sensed = <<>> \/ (latest \in Exports /\ m.sensed = latest.registries.sensed)
          /\ m.kept.sensed \in {m.sensed, <<>>}
      <4>1. CASE m = Fresh
        BY <4>1 DEF Fresh, EmptyRegistries
      <4>2. CASE m # Fresh
        <5>1. latest \in Policies /\ m.sensed \in {latest.registries.sensed, <<>>} /\ m.kept.sensed \in {m.sensed, <<>>}
          BY <3>3, <4>2 DEF LoadedFrom, Sensing
        <5>2. latest \in Exports
          BY <3>3, <5>1 DEF Policies, Exports, None, Torn
        <5> QED BY <5>1, <5>2
      <4> QED BY <4>1, <4>2
    <3> HIDE DEF m
    <3>5. Ordered(m.sensed, turn) /\ turn \notin Range(m.sensed) /\ Reloadable(m.kept.sensed, turn, channel)
      BY <1>1, <3>2, <3>4, NothingIsOrdered DEF Reloadable
    <3>6. mem'.sensed = m.sensed /\ mem'.kept = m.kept
      <4>1. CASE mem' = m
        BY <4>1
      <4>2. CASE stages # <<>> /\ mem' = ApplyStage(setting.track, m, s)
        <5>1. (IF turn' = 0 THEN 0 ELSE turn' - 1) \in Nat
          BY <1>0, <2>1
        <5>2. s \in DOMAIN Stages
          BY <4>2, <5>1, StageForTurnIsStage
        <5> HIDE DEF s
        <5> QED BY <1>0, <3>3, <4>2, <5>2, StageDoes
      <4> QED BY <3>1, <4>1, <4>2
    <3> QED BY <1>0, <1>1, <2>1, <3>5, <3>6 DEF SensedInOrder
  <2> QED BY <2>2, <2>3
<1>18. CASE UNCHANGED learnVars
  BY <1>18 DEF SensedInOrder, learnVars, learning, course
<1> QED BY <1>3, <1>4, <1>5, <1>6, <1>7, <1>8, <1>9, <1>10, <1>11, <1>12, <1>13, <1>14, <1>15, <1>16, <1>17, <1>18
        DEF LearningNext, Turn

---------------------------------------------------------------------------
(* What is exported                                                          *)

\* The tracks whose policy moves in an update only.
Plain == {"scratch-rl", "self-supervised", "no-learning"}

\* What the policy of such a track is read from.
SameTables(m, n) == n.belief = m.belief /\ n.learnt = m.learnt /\ n.kept = m.kept /\ n.knobs = m.knobs

LEMMA ExportReads ==
    ASSUME NEW track \in Plain, NEW m, NEW n, SameTables(m, n)
    PROVE  ExportPolicy(track, n) = ExportPolicy(track, m)
<1>1. TabularExport(n) = TabularExport(m)
  BY DEF TabularExport, SameTables
<1>2. SelfSupervisedExport(n) = SelfSupervisedExport(m)
  BY <1>1 DEF SelfSupervisedExport, SameTables
<1>3. NoLearningExport(n) = NoLearningExport(m)
  BY DEF NoLearningExport
<1>4. CASE track = "scratch-rl"
  BY <1>1, <1>4 DEF ExportPolicy
<1>5. CASE track = "self-supervised"
  BY <1>2, <1>5 DEF ExportPolicy
<1>6. CASE track = "no-learning"
  BY <1>3, <1>6 DEF ExportPolicy
<1> QED BY <1>4, <1>5, <1>6 DEF Plain

\* The calls of a turn, its update aside.
LEMMA CallsLeaveTables ==
    ASSUME CourseOK, setting.track \in Plain, SenderActs \/ ReceiverReceives \/ ReceiverActs \/ Outcome
    PROVE  SameTables(mem, mem')
<1>1. setting.track # "hybrid" /\ setting.track # "frozen-llm"
  BY DEF Plain
<1>2. CASE SenderActs
  BY <1>1, <1>2, SenderStep DEF Sent, SameTables
<1>3. CASE ReceiverReceives
  BY <1>1, <1>3, ReceiverStep DEF Received, SameTables
<1>4. CASE ReceiverActs
  BY <1>1, <1>4, SelectStep DEF Selected, SameTables
<1>5. CASE Outcome
  <2>1. PICK r \in Results : Answered(setting.track, mem, ledger, turn, r) /\ mem' = r.mem
    BY <1>5, OutcomeStep
  <2>2. mem \in Memories /\ turn \in Turns /\ setting.track \in Tracks
    BY <1>5, TurnIsTurn, TrackIsTrack DEF Outcome, CourseOK
  <2>3. PICK e \in Entries : AnsweredWith(setting.track, mem, turn, r.mem, e)
    BY <2>1, <2>2, AnsweredLeaves
  <2> QED BY <1>1, <2>1, <2>3 DEF AnsweredWith, SameTables
<1> QED BY <1>2, <1>3, <1>4, <1>5

\* The policy of an evaluation.
LEMMA EvaluationKeepsPolicy ==
    ASSUME CourseOK, [LearningNext]_learnVars,
           turn >= TrainingTurns, pc \notin {"down", "checkpoint"}, pc' # "down",
           setting.track \in Plain, ~setting.staged
    PROVE  ExportPolicy(setting.track, mem') = ExportPolicy(setting.track, mem)
<1>1. CASE SenderActs \/ ReceiverReceives \/ ReceiverActs \/ Outcome
  BY <1>1, CallsLeaveTables, ExportReads
<1>2. ~ApplyTransition
  BY DEF ApplyTransition, StageDue
<1>3. ~Update
  <2>1. turn \in Nat /\ TrainingTurns \in Nat
    BY NumbersAreNumbers DEF CourseOK
  <2> QED BY <2>1 DEF Update, CourseOK
<1>4. CASE \/ Begin \/ Submit \/ Deliver \/ WriteLatest \/ RecordTurn \/ PolicyCheckpoint \/ PartnerFails
           \/ UNCHANGED learnVars
  <2>1. mem' = mem
    BY <1>4 DEF Begin, Submit, Deliver, WriteLatest, RecordTurn, PolicyCheckpoint, PartnerFails, learnVars, learning
  <2> QED BY <2>1
<1>5. ~Crash /\ ~Recover
  BY DEF Crash, Recover
<1> QED BY <1>1, <1>2, <1>3, <1>4, <1>5 DEF LearningNext, Turn

---------------------------------------------------------------------------
(* The policy that is named                                                  *)

NoForfeit == \A i \in DOMAIN turns : ~turns[i]

\* Where the last update's answer still names the policy.
Named ==
    \/ pc \in {"write", "checkpoint"}
    \/ pc = "record" /\ turn < TrainingTurns

RefFollows ==
    /\ policies \in Seq([ref : Exports, policy : Exports])
    /\ setting.track \in Updating \ {"hybrid"} /\ NoForfeit /\ Named =>
          policyRef \in {None, ExportPolicy(setting.track, mem)}
    /\ RefNamesPolicy

LEMMA RefFollowsAtFirst ==
    ASSUME LearningInit
    PROVE  RefFollows
BY DEF LearningInit, RefFollows, RefNamesPolicy, Named, Range

\* A turn that is recorded.
LEMMA TurnsGrow ==
    ASSUME CourseOK, NEW b \in BOOLEAN, turns' = Append(turns, b), NoForfeit'
    PROVE  NoForfeit /\ ~b
<1>1. turns \in Seq(BOOLEAN)
  BY DEF CourseOK
<1>2. /\ DOMAIN turns' = 1..(Len(turns) + 1) /\ DOMAIN turns = 1..Len(turns) /\ Len(turns) \in Nat
      /\ turns'[Len(turns) + 1] = b
      /\ \A i \in 1..Len(turns) : turns'[i] = turns[i]
  BY <1>1
<1>3. \A i \in 1..(Len(turns) + 1) : ~turns'[i]
  BY <1>2 DEF NoForfeit
<1>4. ~b
  BY <1>2, <1>3
<1>5. \A i \in 1..Len(turns) : ~turns[i]
  BY <1>2, <1>3
<1> QED BY <1>2, <1>4, <1>5 DEF NoForfeit

\* A step that leaves the policies, the turns and the reference alone.
LEMMA QuietStepNames ==
    ASSUME CourseOK, RefFollows, setting' = setting, policies' = policies, turns' = turns,
           Named' /\ setting.track \in Updating \ {"hybrid"}
             => Named /\ policyRef' \in {None, policyRef} /\ mem' = mem
    PROVE  RefFollows'
<1>1. NoForfeit' = NoForfeit /\ (RefNamesPolicy => RefNamesPolicy')
  BY DEF NoForfeit, RefNamesPolicy
<1>2. policies' \in Seq([ref : Exports, policy : Exports])
  BY DEF RefFollows
<1>3. ASSUME setting'.track \in Updating \ {"hybrid"}, NoForfeit', Named'
      PROVE  policyRef' \in {None, ExportPolicy(setting'.track, mem')}
  BY <1>1, <1>3 DEF RefFollows
<1>4. RefNamesPolicy'
  BY <1>1 DEF RefFollows
<1> QED BY <1>2, <1>3, <1>4 DEF RefFollows

LEMMA RefStillFollows ==
    ASSUME CourseOK, RefFollows, [LearningNext]_learnVars
    PROVE  RefFollows'
<1>0. setting.track \in Tracks /\ mem \in Memories /\ setting' = setting
  BY TrackIsTrack, SettingStays DEF CourseOK
<1>1. CASE ApplyTransition \/ Begin \/ SenderActs \/ Submit \/ Deliver \/ ReceiverReceives \/ ReceiverActs
  <2>1. pc' \notin {"write", "checkpoint", "record"} /\ policies' = policies /\ turns' = turns
    <3>1. CASE ApplyTransition
      BY <3>1 DEF ApplyTransition
    <3>2. CASE Begin
      BY <3>2 DEF Begin, FirstCall
    <3>3. CASE SenderActs
      <4>1. pc' \in {"submit", "act", "forfeit"}
        BY <3>3, SenderStep, CallKeepsTurn DEF SenderActs
      <4> QED BY <3>3, <4>1 DEF SenderActs
    <3>4. CASE Submit
      BY <3>4 DEF Submit
    <3>5. CASE Deliver
      BY <3>5 DEF Deliver
    <3>6. CASE ReceiverReceives
      <4>1. pc' \in {"select", "receive", "forfeit"}
        BY <3>6, ReceiverStep, CallKeepsTurn DEF ReceiverReceives
      <4> QED BY <3>6, <4>1 DEF ReceiverReceives
    <3>7. CASE ReceiverActs
      <4>1. pc' \in {"outcome", "select", "forfeit"}
        BY <3>7, SelectStep, CallKeepsTurn DEF ReceiverActs
      <4> QED BY <3>7, <4>1 DEF ReceiverActs
    <3> QED BY <1>1, <3>1, <3>2, <3>3, <3>4, <3>5, <3>6, <3>7
  <2> QED BY <1>0, <2>1, QuietStepNames DEF Named
<1>2. CASE Outcome
  <2>1. policies' = policies /\ turns' = turns /\ turn' = turn /\ pc = "outcome"
    BY <1>2 DEF Outcome
  <2>2. pc' \in {AfterOutcome, "outcome", "forfeit"}
    BY <2>1, <1>2, OutcomeStep, CallKeepsTurn
  <2>3. turn \in Nat /\ TrainingTurns \in Nat
    BY NumbersAreNumbers DEF CourseOK
  <2>4. setting.track \in Updating /\ turn < TrainingTurns => AfterOutcome = "update"
    BY DEF AfterOutcome, Phase
  <2>5. AfterOutcome \in {"update", "record"}
    BY DEF AfterOutcome
  <2>6. ~(Named' /\ setting.track \in Updating \ {"hybrid"})
    BY <1>0, <2>1, <2>2, <2>4, <2>5 DEF Named
  <2> QED BY <1>0, <2>1, <2>6, QuietStepNames
<1>3. CASE Update
  <2>1. /\ mem' \in Memories /\ policies' = policies /\ turns' = turns
        /\ pc' \in {"write", "update", "forfeit"}
        /\ pc' = "write" => policyRef' = ExportPolicy(setting.track, mem')
    BY <1>3, UpdateStep, CallKeepsTurn DEF Update
  <2>2. CASE pc' = "write"
    <3>1. RefNamesPolicy'
      BY <1>0, <2>1 DEF RefFollows, RefNamesPolicy
    <3> QED BY <1>0, <2>1, <2>2, <3>1 DEF RefFollows
  <2>3. CASE pc' # "write"
    BY <1>0, <2>1, <2>3, QuietStepNames DEF Named
  <2> QED BY <2>2, <2>3
<1>4. CASE WriteLatest
  <2>1. /\ pc = "write" /\ mem' = mem /\ policyRef' = policyRef /\ policies' = policies /\ turns' = turns
    BY <1>4 DEF WriteLatest
  <2> QED BY <1>0, <2>1, QuietStepNames DEF Named
<1>5. CASE RecordTurn
  <2>1. /\ pc \in {"record", "forfeit"} /\ turns' = Append(turns, pc = "forfeit") /\ turn' = turn + 1
        /\ mem' = mem /\ policyRef' = policyRef /\ policies' = policies
        /\ pc' \in {"checkpoint", "done", "begin"}
        /\ pc' = "checkpoint" => turn + 1 = TrainingTurns
    BY <1>5 DEF RecordTurn, learning
  <2>2. NoForfeit' => NoForfeit /\ pc = "record"
    BY <2>1, TurnsGrow
  <2>3. turn \in Nat /\ TrainingTurns \in Nat
    BY NumbersAreNumbers DEF CourseOK
  <2>4. pc' = "checkpoint" => turn < TrainingTurns
    BY <2>1, <2>3
  <2>5. policies' \in Seq([ref : Exports, policy : Exports])
    BY <2>1 DEF RefFollows
  <2>6. RefNamesPolicy'
    BY <1>0, <2>1, <2>2 DEF RefFollows, RefNamesPolicy, NoForfeit
  <2>7. ASSUME setting'.track \in Updating \ {"hybrid"}, NoForfeit', Named'
        PROVE  policyRef' \in {None, ExportPolicy(setting'.track, mem')}
    <3>1. pc' = "checkpoint"
      BY <2>1, <2>7 DEF Named
    <3>2. Named
      BY <2>2, <2>4, <2>7, <3>1 DEF Named
    <3> QED BY <1>0, <2>1, <2>2, <2>7, <3>2 DEF RefFollows
  <2> QED BY <2>5, <2>6, <2>7 DEF RefFollows
<1>6. CASE PolicyCheckpoint
  <2> DEFINE live == ExportPolicy(setting.track, mem)
             p == [ref |-> IF policyRef = None THEN live ELSE policyRef, policy |-> live]
  <2>1. pc = "checkpoint" /\ pc' = "begin" /\ turns' = turns /\ policyRef' = policyRef
        /\ policies' = IF setting.track \notin Updating THEN policies ELSE Append(policies, p)
    BY <1>6 DEF PolicyCheckpoint, learning
  <2>2. live \in Exports /\ policyRef \in {None} \cup Exports
    BY <1>0, ExportDoes DEF CourseOK
  <2>3. p \in [ref : Exports, policy : Exports] /\ p.policy = live
        /\ (policyRef \in {None, live} => p.ref = live)
    BY <2>2
  <2>4. setting.track \in Updating \ {"hybrid"} /\ NoForfeit => policyRef \in {None, live}
    BY <2>1 DEF RefFollows, Named
  <2>5. ~Named'
    BY <2>1 DEF Named
  <2> HIDE DEF live, p
  <2>6. CASE setting.track \notin Updating
    BY <1>0, <2>1, <2>5, <2>6, QuietStepNames
  <2>7. CASE setting.track \in Updating
    <3>1. policies' = Append(policies, p) /\ policies \in Seq([ref : Exports, policy : Exports])
      BY <2>1, <2>7 DEF RefFollows
    <3>2. policies' \in Seq([ref : Exports, policy : Exports])
      BY <2>3, <3>1
    <3>3. Range(policies') = Range(policies) \cup {p}
      BY <2>3, <3>1 DEF Range
    <3>4. ASSUME setting.track # "hybrid", NoForfeit
          PROVE  \A q \in Range(policies') : q.ref = q.policy
      <4>1. p.ref = p.policy
        BY <2>3, <2>4, <2>7, <3>4
      <4>2. \A q \in Range(policies) : q.ref = q.policy
        BY <3>4 DEF RefFollows, RefNamesPolicy, NoForfeit
      <4> QED BY <3>3, <4>1, <4>2
    <3>5. RefNamesPolicy'
      BY <1>0, <2>1, <3>4 DEF RefNamesPolicy, NoForfeit
    <3> QED BY <2>5, <3>2, <3>5 DEF RefFollows
  <2> QED BY <2>6, <2>7
<1>7. CASE PartnerFails
  <2>1. pc' = "forfeit" /\ policies' = policies /\ turns' = turns
    BY <1>7 DEF PartnerFails
  <2> QED BY <1>0, <2>1, QuietStepNames DEF Named
<1>8. CASE Crash
  <2>1. pc' = "down" /\ policies' = policies /\ turns' = turns
    BY <1>8 DEF Crash
  <2> QED BY <1>0, <2>1, QuietStepNames DEF Named
<1>9. CASE Recover
  <2>1. pc' \in {"stuck", "done", "begin"} /\ policies' = policies /\ turns' = turns
    BY <1>9 DEF Recover
  <2> QED BY <1>0, <2>1, QuietStepNames DEF Named
<1>10. CASE UNCHANGED learnVars
  BY <1>0, <1>10, QuietStepNames DEF learnVars, learning, course, Named
<1> QED BY <1>1, <1>2, <1>3, <1>4, <1>5, <1>6, <1>7, <1>8, <1>9, <1>10 DEF LearningNext, Turn

---------------------------------------------------------------------------
(* The stages of a schedule, one after the other                             *)

SetBy(n, k) == {i \in 1..n : k \in Stages[i].knobs}

\* What the first n stages set.
KnobsAfter(n) ==
    [set |-> [k \in Knobs |-> IF SetBy(n, k) = {} THEN 0 ELSE CHOOSE i \in SetBy(n, k) : \A j \in SetBy(n, k) : j <= i],
     consolidating |-> IF n = 0 THEN FALSE ELSE Stages[n].consolidation]

LEMMA BeforeAnyStage == KnobsAfter(0) = Configured
<1>1. \A k \in Knobs : SetBy(0, k) = {}
  BY DEF SetBy
<1>2. [k \in Knobs |-> IF SetBy(0, k) = {} THEN 0 ELSE CHOOSE i \in SetBy(0, k) : \A j \in SetBy(0, k) : j <= i]
        = [k \in Knobs |-> 0]
  BY <1>1
<1> QED BY <1>2 DEF KnobsAfter, Configured

\* One stage more.
LEMMA OneMoreStage ==
    ASSUME NEW n \in Nat, NEW track, NEW m \in Memories, m.knobs = KnobsAfter(n)
    PROVE  ApplyStage(track, m, n + 1).knobs = KnobsAfter(n + 1)
<1> DEFINE f == [k \in Knobs |-> IF k \in Stages[n + 1].knobs THEN n + 1 ELSE m.knobs.set[k]]
           best(S) == IF S = {} THEN 0 ELSE CHOOSE i \in S : \A j \in S : j <= i
<1>1. ApplyStage(track, m, n + 1).knobs = [set |-> f, consolidating |-> Stages[n + 1].consolidation]
  <2>1. ApplyStage(track, m, n + 1) = [m EXCEPT !.knobs = [set |-> f, consolidating |-> Stages[n + 1].consolidation]]
    BY StageSets
  <2> HIDE DEF f
  <2> QED BY <2>1 DEF Memories
<1>2. \A k \in Knobs : m.knobs.set[k] = best(SetBy(n, k))
  BY DEF KnobsAfter
<1>3. ASSUME NEW k \in Knobs PROVE f[k] = best(SetBy(n + 1, k))
  <2>1. 1..(n + 1) = (1..n) \cup {n + 1}
    OBVIOUS
  <2>2. CASE k \in Stages[n + 1].knobs
    <3>1. n + 1 \in SetBy(n + 1, k) /\ SetBy(n + 1, k) \subseteq 1..(n + 1)
      BY <2>1, <2>2 DEF SetBy
    <3> DEFINE S == SetBy(n + 1, k)
    <3>2. \A j \in S : j <= n + 1 /\ j \in Nat
      BY <3>1
    <3> HIDE DEF S
    <3>3. n + 1 \in S /\ \A i \in S : (\A j \in S : j <= i) => i = n + 1
      <4>1. n + 1 \in S
        BY <3>1 DEF S
      <4>2. ASSUME NEW i \in S, \A j \in S : j <= i PROVE i = n + 1
        <5>1. n + 1 <= i /\ i <= n + 1 /\ i \in Nat
          BY <3>2, <4>1, <4>2
        <5> QED BY <5>1
      <4> QED BY <4>1, <4>2
    <3>4. (CHOOSE i \in S : \A j \in S : j <= i) = n + 1
      BY <3>2, <3>3
    <3>5. best(S) = n + 1
      BY <3>3, <3>4
    <3> QED BY <2>2, <3>5 DEF S
  <2>3. CASE k \notin Stages[n + 1].knobs
    <3>1. SetBy(n + 1, k) = SetBy(n, k)
      BY <2>1, <2>3 DEF SetBy
    <3> QED BY <1>2, <2>3, <3>1
  <2> QED BY <2>2, <2>3
<1>4. f = [k \in Knobs |-> best(SetBy(n + 1, k))]
  BY <1>3
<1>5. (IF n + 1 = 0 THEN FALSE ELSE Stages[n + 1].consolidation) = Stages[n + 1].consolidation
  <2>1. n + 1 # 0
    OBVIOUS
  <2> QED BY <2>1, Zenon
<1>6. KnobsAfter(n + 1) = [set |-> [k \in Knobs |-> best(SetBy(n + 1, k))], consolidating |-> Stages[n + 1].consolidation]
  BY <1>5 DEF KnobsAfter
<1> QED BY <1>1, <1>4, <1>6

\* The stages up to a turn are the first ones.
LEMMA StagesOfTurn ==
    ASSUME NEW t \in Nat, NEW n \in Nat, n <= Len(Stages), setting \in Settings, setting.staged,
           \A i \in DOMAIN Stages : Stages[i].start <= t <=> i <= n
    PROVE  KnobsAt(t) = KnobsAfter(n)
<1>1. /\ Stages # <<>> /\ Stages[1].start = 0
      /\ \A i, j \in DOMAIN Stages : i < j => Stages[i].start < Stages[j].start
  BY ScheduleAssumption
<1>2. Len(Stages) \in Nat /\ DOMAIN Stages = 1..Len(Stages) /\ \A i \in DOMAIN Stages : Stages[i].start \in Nat
  BY LearnerAssumption, StagesAreNumbered
<1>3. ASSUME NEW k \in Knobs
      PROVE  {i \in DOMAIN Stages : k \in Stages[i].knobs /\ Stages[i].start <= t} = SetBy(n, k)
  <2>1. \A i : i \in 1..n <=> i \in DOMAIN Stages /\ Stages[i].start <= t
    BY <1>2
  <2> QED BY <2>1 DEF SetBy
<1> DEFINE best(S) == IF S = {} THEN 0 ELSE CHOOSE i \in S : \A j \in S : j <= i
<1>4. KnobsAt(t).set = KnobsAfter(n).set
  <2>1. KnobsAt(t).set = [k \in Knobs |-> best({i \in DOMAIN Stages : k \in Stages[i].knobs /\ Stages[i].start <= t})]
    BY DEF KnobsAt
  <2>2. KnobsAfter(n).set = [k \in Knobs |-> best(SetBy(n, k))]
    BY DEF KnobsAfter
  <2> HIDE DEF best
  <2>3. \A k \in Knobs :
          best({i \in DOMAIN Stages : k \in Stages[i].knobs /\ Stages[i].start <= t}) = best(SetBy(n, k))
    BY <1>3
  <2> QED BY <2>1, <2>2, <2>3
<1>5. StageForTurn(t) = n /\ n # 0
  <2> DEFINE s == StageForTurn(t)
  <2>1. 1 \in DOMAIN Stages
    BY <1>1, StagesAreNumbered
  <2>2. n >= 1 /\ n \in DOMAIN Stages
    BY <1>1, <1>2, <2>1
  <2>3. s \in DOMAIN Stages /\ Stages[s].start <= t
        /\ \A j \in DOMAIN Stages : Stages[j].start <= t => Stages[j].start <= Stages[s].start
    BY <2>2, StageForTurnGoverns
  <2> HIDE DEF s
  <2>4. s <= n /\ s \in Nat
    BY <1>2, <2>3
  <2>5. Stages[n].start <= Stages[s].start
    BY <2>2, <2>3
  <2>6. ~(s < n)
    <3>1. s < n => Stages[s].start < Stages[n].start
      BY <1>1, <2>2, <2>3
    <3>2. Stages[s].start \in Nat /\ Stages[n].start \in Nat
      BY <1>2, <2>2, <2>3
    <3> QED BY <2>5, <3>1, <3>2
  <2>7. s = n
    BY <2>4, <2>6
  <2> QED BY <2>2, <2>7 DEF s
<1>6. KnobsAt(t).consolidating = KnobsAfter(n).consolidating
  BY <1>5 DEF KnobsAt, KnobsAfter
<1> QED BY <1>4, <1>6 DEF KnobsAt, KnobsAfter

---------------------------------------------------------------------------
(* The stage in force                                                        *)

\* A process that was not restarted is under the stages it has recorded, the
\* first of the schedule; in a turn, no other is due.
StagesFollow ==
    setting.staged /\ crashes = 0 =>
        /\ Len(stages) <= Len(Stages)
        /\ \A i \in 1..Len(stages) : stages[i].turn = Stages[i].start /\ Stages[i].start <= turn
        /\ mem.knobs = KnobsAfter(Len(stages))
        /\ pc \notin {"begin", "checkpoint", "done"} =>
              \A j \in 1..Len(Stages) : Len(stages) < j => turn < Stages[j].start

LEMMA StagesFollowAtFirst ==
    ASSUME LearningInit
    PROVE  StagesFollow
<1>1. setting.track \in Tracks /\ stages = <<>> /\ pc = "begin"
  BY LearningAssumption DEF LearningInit
<1>2. mem.knobs = Configured
  <2>1. CASE mem = Fresh
    BY <2>1 DEF Fresh
  <2>2. CASE mem # Fresh
    <3>1. mem = Initialized(ParentPolicy) /\ LoadedFrom(setting.track, ParentPolicy, mem)
      BY <1>1, <2>2, ParentIsPolicy, InitializedDoes DEF LearningInit
    <3> QED BY <3>1 DEF LoadedFrom
  <2> QED BY <2>1, <2>2
<1>3. Len(stages) = 0 /\ 0 <= Len(Stages)
  BY <1>1, StagesAreNumbered
<1> QED BY <1>1, <1>2, <1>3, BeforeAnyStage DEF StagesFollow

\* A step that leaves the stages and what they set alone.
LEMMA QuietStepFollows ==
    ASSUME StagesFollow, setting' = setting, stages' = stages, crashes' = crashes, turn' = turn,
           mem'.knobs = mem.knobs,
           pc \notin {"begin", "checkpoint", "done"} \/ pc' \in {"begin", "checkpoint", "done"}
    PROVE  StagesFollow'
BY DEF StagesFollow

\* What is known of the stages that were recorded.
LEMMA StagesAreCounted ==
    ASSUME CourseOK
    PROVE  /\ Len(stages) \in Nat /\ turn \in Nat
           /\ \A s \in Range(stages) : \E i \in 1..Len(stages) : s = stages[i]
           /\ \A i \in 1..Len(stages) : stages[i] \in Range(stages)
<1>1. stages \in Seq([stage : DOMAIN Stages, turn : Nat])
  BY DEF CourseOK
<1>2. Len(stages) \in Nat /\ DOMAIN stages = 1..Len(stages)
  BY <1>1
<1>3. turn \in Nat
  BY NumbersAreNumbers DEF CourseOK
<1> QED BY <1>2, <1>3 DEF Range

\* The stages that are due are those after the recorded ones.
LEMMA NextStageIsDue ==
    ASSUME CourseOK, StagesFollow, setting.staged, crashes = 0, NEW j \in 1..Len(Stages)
    PROVE  j \in StageDue <=> Len(stages) < j /\ Stages[j].start <= turn
<1>1. /\ \A i, k \in DOMAIN Stages : i < k => Stages[i].start < Stages[k].start
      /\ DOMAIN Stages = 1..Len(Stages) /\ Len(Stages) \in Nat
      /\ \A i \in DOMAIN Stages : Stages[i].start \in Nat
  BY ScheduleAssumption, LearnerAssumption, StagesAreNumbered DEF CourseOK
<1>2. /\ Len(stages) \in Nat /\ Len(stages) <= Len(Stages) /\ turn \in Nat
      /\ \A i \in 1..Len(stages) : stages[i].turn = Stages[i].start /\ i \in DOMAIN Stages
  BY <1>1, StagesAreCounted DEF StagesFollow
<1>3. ASSUME j \in StageDue PROVE Len(stages) < j /\ Stages[j].start <= turn
  <2>1. Stages[j].start <= turn /\ \A s \in Range(stages) : s.turn < Stages[j].start
    BY <1>3 DEF StageDue
  <2>2. ASSUME j <= Len(stages) PROVE FALSE
    <3>1. j \in 1..Len(stages)
      BY <1>1, <1>2, <2>2
    <3>2. stages[j].turn < Stages[j].start /\ stages[j].turn = Stages[j].start
      BY <1>2, <2>1, <3>1, StagesAreCounted
    <3>3. Stages[j].start \in Nat
      BY <1>1
    <3> QED BY <3>2, <3>3
  <2> QED BY <1>1, <1>2, <2>1, <2>2
<1>4. ASSUME Len(stages) < j, Stages[j].start <= turn PROVE j \in StageDue
  <2>1. ASSUME NEW s \in Range(stages) PROVE s.turn < Stages[j].start
    <3>1. PICK i \in 1..Len(stages) : s = stages[i]
      BY StagesAreCounted
    <3>2. i < j /\ i \in DOMAIN Stages /\ j \in DOMAIN Stages /\ s.turn = Stages[i].start
      BY <1>1, <1>2, <1>4, <3>1
    <3> QED BY <1>1, <3>2
  <2> QED BY <1>1, <1>4, <2>1 DEF StageDue
<1> QED BY <1>3, <1>4

LEMMA StagesStillFollow ==
    ASSUME CourseOK, StagesFollow, [LearningNext]_learnVars
    PROVE  StagesFollow'
<1>0. setting.track \in Tracks /\ mem \in Memories /\ setting' = setting /\ turn \in Nat /\ crashes \in Nat
  BY TrackIsTrack, SettingStays, NumbersAreNumbers DEF CourseOK
<1> SUFFICES ASSUME setting.staged, crashes = 0, crashes' = 0 PROVE StagesFollow'
  <2>1. crashes' \in Nat /\ crashes' >= crashes
    BY <1>0 DEF LearningNext, Turn, ApplyTransition, Begin, SenderActs, Submit, Deliver, ReceiverReceives,
       ReceiverActs, Outcome, Update, WriteLatest, RecordTurn, PolicyCheckpoint, PartnerFails, Crash, Recover,
       learnVars
  <2>2. crashes' = 0 => crashes = 0
    BY <1>0, <2>1
  <2> QED BY <1>0, <2>2 DEF StagesFollow
<1>1. CASE ApplyTransition
  <2> DEFINE i == CHOOSE j \in StageDue : \A k \in StageDue : j <= k
             n == Len(stages)
  <2>1. /\ i \in StageDue /\ i \in DOMAIN Stages /\ (\A k \in StageDue : i <= k)
        /\ mem' = ApplyStage(setting.track, mem, i)
        /\ stages' = Append(stages, [stage |-> i, turn |-> Stages[i].start])
    BY <1>1, FirstStage
  <2> HIDE DEF i
  <2>2. /\ DOMAIN Stages = 1..Len(Stages) /\ Len(Stages) \in Nat /\ n \in Nat
        /\ \A j \in DOMAIN Stages : Stages[j].start \in Nat
        /\ \A j, k \in DOMAIN Stages : j < k => Stages[j].start < Stages[k].start
    BY LearnerAssumption, ScheduleAssumption, StagesAreNumbered, StagesAreCounted DEF CourseOK
  <2>3. n < i /\ Stages[i].start <= turn
    BY <2>1, <2>2, NextStageIsDue
  <2>4. n + 1 \in DOMAIN Stages /\ i \in Nat /\ n + 1 <= i
    BY <2>1, <2>2, <2>3
  <2>5. Stages[n + 1].start <= turn
    <3>1. CASE n + 1 = i
      BY <2>3, <3>1
    <3>2. CASE n + 1 # i
      <4>1. n + 1 < i
        BY <2>2, <2>4, <3>2
      <4>2. Stages[n + 1].start < Stages[i].start
        BY <2>1, <2>2, <2>4, <4>1
      <4> QED BY <1>0, <2>1, <2>2, <2>3, <2>4, <4>2
    <3> QED BY <3>1, <3>2
  <2>6. n + 1 \in StageDue
    BY <2>2, <2>4, <2>5, NextStageIsDue
  <2>7. i = n + 1
    BY <2>1, <2>2, <2>4, <2>6
  <2>8. mem'.knobs = KnobsAfter(n + 1)
    BY <1>0, <2>1, <2>2, <2>7, OneMoreStage DEF StagesFollow
  <2>9. Len(stages') = n + 1 /\ (\A j \in 1..n : stages'[j] = stages[j])
        /\ stages'[n + 1] = [stage |-> i, turn |-> Stages[i].start]
    <3>1. stages \in Seq([stage : DOMAIN Stages, turn : Nat])
      BY DEF CourseOK
    <3>2. [stage |-> i, turn |-> Stages[i].start] \in [stage : DOMAIN Stages, turn : Nat]
      BY <2>1, <2>2
    <3> QED BY <2>1, <3>1, <3>2
  <2>10. turn' = turn /\ pc' = "begin"
    BY <1>1 DEF ApplyTransition
  <2>11. \A j \in 1..n : stages[j].turn = Stages[j].start /\ Stages[j].start <= turn
    BY DEF StagesFollow
  <2>12. \A j \in 1..(n + 1) : stages'[j].turn = Stages[j].start /\ Stages[j].start <= turn
    <3> SUFFICES ASSUME NEW j \in 1..(n + 1)
                 PROVE  stages'[j].turn = Stages[j].start /\ Stages[j].start <= turn
      OBVIOUS
    <3>1. CASE j \in 1..n
      BY <2>9, <2>11, <3>1
    <3>2. CASE j \notin 1..n
      <4>1. j = n + 1
        BY <2>2, <3>2
      <4> QED BY <2>5, <2>7, <2>9, <4>1
    <3> QED BY <3>1, <3>2
  <2>13. n + 1 <= Len(Stages)
    BY <2>2, <2>4
  <2> QED BY <2>8, <2>9, <2>10, <2>12, <2>13 DEF StagesFollow
<1>2. CASE Begin
  <2>1. StageDue = {} /\ setting' = setting /\ stages' = stages /\ turn' = turn /\ mem' = mem
    BY <1>2 DEF Begin, learning
  <2>2. \A j \in 1..Len(Stages) : Len(stages) < j => turn < Stages[j].start
    <3> SUFFICES ASSUME NEW j \in 1..Len(Stages), Len(stages) < j PROVE turn < Stages[j].start
      OBVIOUS
    <3>1. ~(Stages[j].start <= turn)
      BY <2>1, NextStageIsDue
    <3>2. Stages[j].start \in Nat
      BY LearnerAssumption, StagesAreNumbered
    <3> QED BY <1>0, <3>1, <3>2
  <2> QED BY <2>1, <2>2 DEF StagesFollow
<1>3. CASE SenderActs
  BY <1>0, <1>3, SenderStep, QuietStepFollows DEF SenderActs, Sent
<1>4. CASE ReceiverReceives
  BY <1>0, <1>4, ReceiverStep, QuietStepFollows DEF ReceiverReceives, Received
<1>5. CASE ReceiverActs
  BY <1>0, <1>5, SelectStep, QuietStepFollows DEF ReceiverActs, Selected
<1>6. CASE Outcome
  <2>1. PICK r \in Results : Answered(setting.track, mem, ledger, turn, r) /\ mem' = r.mem
    BY <1>6, OutcomeStep
  <2>2. turn \in Turns
    BY <1>6, TurnIsTurn DEF Outcome
  <2>3. PICK e \in Entries : AnsweredWith(setting.track, mem, turn, r.mem, e)
    BY <1>0, <2>1, <2>2, AnsweredLeaves
  <2>4. mem'.knobs = mem.knobs
    BY <2>1, <2>3 DEF AnsweredWith
  <2> QED BY <1>0, <1>6, <2>4, QuietStepFollows DEF Outcome
<1>7. CASE Update
  <2>1. mem'.knobs = mem.knobs
    BY <1>7, UpdateStep DEF Updated
  <2> QED BY <1>0, <1>7, <2>1, QuietStepFollows DEF Update
<1>8. CASE Submit \/ Deliver \/ WriteLatest \/ PartnerFails \/ PolicyCheckpoint \/ UNCHANGED learnVars
  <2>1. stages' = stages /\ turn' = turn /\ mem' = mem
        /\ (pc \notin {"begin", "checkpoint", "done"} \/ pc' \in {"begin", "checkpoint", "done"})
    BY <1>8 DEF Submit, Deliver, WriteLatest, PartnerFails, PolicyCheckpoint, learnVars, learning, course
  <2> QED BY <1>0, <2>1, QuietStepFollows
<1>9. CASE RecordTurn
  <2>1. turn' = turn + 1 /\ stages' = stages /\ mem' = mem /\ pc' \in {"begin", "checkpoint", "done"}
    BY <1>9 DEF RecordTurn, learning
  <2>2. \A i \in 1..Len(stages) : Stages[i].start <= turn + 1
    <3> SUFFICES ASSUME NEW i \in 1..Len(stages) PROVE Stages[i].start <= turn + 1
      OBVIOUS
    <3>1. Stages[i].start <= turn /\ i \in DOMAIN Stages
      BY StagesAreNumbered, StagesAreCounted DEF StagesFollow
    <3>2. Stages[i].start \in Nat
      BY <3>1, LearnerAssumption
    <3> QED BY <1>0, <3>1, <3>2
  <2> QED BY <2>1, <2>2 DEF StagesFollow
<1>10. ~Crash
  BY DEF Crash
<1>11. ~Recover
  BY DEF Recover, CourseOK
<1> QED BY <1>1, <1>2, <1>3, <1>4, <1>5, <1>6, <1>7, <1>8, <1>9, <1>10, <1>11 DEF LearningNext, Turn

LEMMA StageIsInForce ==
    ASSUME CourseOK, StagesFollow
    PROVE  StageInForce
<1> SUFFICES ASSUME setting.staged, crashes = 0, pc \notin {"down", "done", "stuck"},
                    pc \notin {"begin", "checkpoint"}
             PROVE  mem.knobs = KnobsAt(turn)
  BY DEF StageInForce, Governed, Alive
<1> DEFINE n == Len(stages)
<1>1. /\ n \in Nat /\ turn \in Nat /\ n <= Len(Stages)
      /\ DOMAIN Stages = 1..Len(Stages) /\ Len(Stages) \in Nat
      /\ \A i \in DOMAIN Stages : Stages[i].start \in Nat
  BY StagesAreNumbered, StagesAreCounted, LearnerAssumption DEF StagesFollow
<1>2. /\ \A i \in 1..n : Stages[i].start <= turn
      /\ mem.knobs = KnobsAfter(n)
      /\ \A j \in 1..Len(Stages) : n < j => turn < Stages[j].start
  BY DEF StagesFollow
<1>3. setting \in Settings
  BY DEF CourseOK
<1> HIDE DEF n
<1>4. \A i \in DOMAIN Stages : Stages[i].start <= turn <=> i <= n
  <2> SUFFICES ASSUME NEW i \in DOMAIN Stages PROVE Stages[i].start <= turn <=> i <= n
    OBVIOUS
  <2>1. i \in Nat /\ 1 <= i /\ Stages[i].start \in Nat
    BY <1>1
  <2>2. i <= n => Stages[i].start <= turn
    BY <1>1, <1>2, <2>1
  <2>3. n < i => turn < Stages[i].start
    BY <1>1, <1>2
  <2> QED BY <1>1, <2>1, <2>2, <2>3
<1> QED BY <1>1, <1>2, <1>3, <1>4, StagesOfTurn

---------------------------------------------------------------------------

LEMMA OrderedIsOnce ==
    ASSUME LearntInOrder, SensedInOrder
    PROVE  LearntOnce
BY DEF LearntInOrder, SensedInOrder, LearntOnce, Ordered

PolicyIsKept == CourseOK /\ LearntInOrder /\ SensedInOrder /\ RefFollows /\ StagesFollow

\* What a learner's policy promises holds for every number of marks, types,
\* turns and stages, whatever was retried, forfeited or restarted: each turn
\* is learnt once, the policy is the one that is announced, it is learnt under
\* the stage in force, and an evaluation leaves it alone (tabular-reinforce.ts
\* onOutcome, updatePolicy, exportPolicy; nursery-runtime.ts #policyCheckpoint,
\* #applyCurriculumTransitions).
THEOREM PoliciesAreKept == LearningSpec => PolicyKept
<1>1. LearningInit => PolicyIsKept
  BY CourseHoldsAtFirst, OrderAtFirst, RefFollowsAtFirst, StagesFollowAtFirst DEF PolicyIsKept
<1>2. PolicyIsKept /\ [LearningNext]_learnVars => PolicyIsKept'
  BY CourseStays, LearntStaysInOrder, SensedStaysInOrder, RefStillFollows, StagesStillFollow DEF PolicyIsKept
<1>3. PolicyIsKept => LearntOnce /\ RefNamesPolicy /\ StageInForce
  BY OrderedIsOnce, StageIsInForce DEF PolicyIsKept, RefFollows
<1>4. PolicyIsKept /\ [LearningNext]_learnVars =>
        [turn >= TrainingTurns /\ pc \notin {"down", "checkpoint"} /\ pc' # "down"
           /\ setting.track \in {"scratch-rl", "self-supervised", "no-learning"} /\ ~setting.staged
         => ExportPolicy(setting.track, mem') = ExportPolicy(setting.track, mem)]_learnVars
  BY EvaluationKeepsPolicy DEF PolicyIsKept, Plain
<1> QED BY <1>1, <1>2, <1>3, <1>4, PTL DEF LearningSpec, PolicyKept, EvaluationFixed
=================================================================================
