-------------------------- MODULE EvidenceWriter --------------------------
(* The evidence writer of one run (packages/evidence/src/writer.ts): the     *)
(* SQLite store that every process on the machine shares, and the writer     *)
(* objects that append to it. A writer serialises its calls with a FIFO      *)
(* mutex, reads the chain heads, awaits a signature (a separate signer       *)
(* process answers it) and inserts the rows in one transaction. The store    *)
(* refuses a second row with the same stream and sequence number; a writer   *)
(* that meets one preserves both entries and blocks itself.                  *)
(*                                                                           *)
(* Hashes. A collision-free hash of an entry is represented by the entry:    *)
(* an entry's `prev' is the entry it chains to. `stamp' stands for the part  *)
(* of the content that differs between two entries made of the same request  *)
(* (the recording time, the blinding nonce).                                 *)
EXTENDS Integers, Sequences, FiniteSets

CONSTANTS
    Writers,            \* writer objects opened on the same database file
    Requests,           \* the requests that the callers make
    Stamps,             \* recording times
    Paths,              \* paths of analysis attachments
    Genesis,            \* GENESIS_HASH
    None,               \* an absent reference or recipient
    MaxLen,             \* bound: a stream this long receives no new request (by stream)
    MaxQueue,           \* bound: calls waiting for one writer's mutex
    MaxManifests,       \* bound: checkpoint manifests
    TailLoss            \* whether the store may lose the tail of a stream

Roles == {"baby-a", "baby-b"}

LedgerOf(role) == IF role = "baby-a" THEN "baby-a-ledger" ELSE "baby-b-ledger"

EventStreams == {"baby-a-ledger", "baby-b-ledger", "channel", "affect",
                 "audit", "turns", "intervention"}

\* Operations whose entry is signed inside the critical section.
SignedOps == {"commitTurn", "commitRejection", "commitControlArtifact",
              "appendLedgerEvent", "appendInterpretation", "appendTurnRecord",
              "appendAuditLedgerEntry", "appendAffectEvent"}

UnsignedOps == {"appendInterventionEvent", "appendAnalysisAttachment"}

RequestType ==
    [op : SignedOps \cup UnsignedOps, role : Roles, to : Roles \cup {None}]

ASSUME RequestsAssumption == Requests \subseteq RequestType
ASSUME NoneAssumption == None \notin Roles
ASSUME BoundsAssumption ==
    /\ MaxLen \in [EventStreams -> Nat]
    /\ {MaxQueue, MaxManifests} \subseteq Nat
ASSUME TailLossAssumption == TailLoss \in BOOLEAN

VARIABLES
    registered,         \* run_metadata has the run's row
    table,              \* stream -> sequence number -> entry, one per stream
    attachments,        \* analysis_attachments: path -> the entry that binds it
    forks,              \* fork_artifacts
    manifests,          \* checkpoint_manifests
    up,                 \* writer process is running
    queue,              \* calls waiting for the writer's mutex
    current,            \* the call that holds the mutex
    rows,               \* its rows: the last one's signature is awaited
    block,              \* integrityBlocks: the findings, empty when writable
    vetted              \* history of the process: "no" before recover() ran,
                        \* "yes" after, "waived" by an acknowledged review

store == <<registered, table, attachments, forks, manifests>>
vars == <<registered, table, attachments, forks, manifests,
          up, queue, current, rows, block, vetted>>

---------------------------------------------------------------------------
(* Chain heads and rows *)

\* SELECT COUNT(*), and the entry hash of the highest sequence number.
Size(chain) == Cardinality(DOMAIN chain)

LastHash(chain) ==
    IF DOMAIN chain = {} THEN Genesis
    ELSE chain[CHOOSE k \in DOMAIN chain : \A j \in DOMAIN chain : j <= k]

\* Mutant of Row: numbers from zero.
RowFromZero(stream, kind, ref, to, stamp) ==
    [stream |-> stream, seq |-> Size(table[stream]),
     prev |-> LastHash(table[stream]),
     kind |-> kind, ref |-> ref, to |-> to, stamp |-> stamp]

Row(stream, kind, ref, to, stamp) ==
    [stream |-> stream, seq |-> Size(table[stream]) + 1,
     prev |-> LastHash(table[stream]),
     kind |-> kind, ref |-> ref, to |-> to, stamp |-> stamp]

Committed(stream) == {table[stream][k] : k \in DOMAIN table[stream]}

\* The stream that the first row of a request belongs to, and its kind.
StreamOf(call) ==
    CASE call.op \in {"commitTurn", "appendLedgerEvent", "appendInterpretation"}
            -> LedgerOf(call.role)
      [] call.op \in {"commitRejection", "commitControlArtifact"} -> "channel"
      [] call.op = "appendTurnRecord" -> "turns"
      [] call.op = "appendAuditLedgerEntry" -> "audit"
      [] call.op = "appendAffectEvent" -> "affect"
      [] OTHER -> "intervention"

KindOf(call) ==
    CASE call.op = "commitTurn" -> "intention"
      [] call.op = "commitRejection" -> "rejected"
      [] call.op = "commitControlArtifact" -> "control"
      [] call.op = "appendInterpretation" -> "interpretation"
      [] call.op = "appendLedgerEvent" -> "native"
      [] call.op = "appendAnalysisAttachment" -> "analysis-attached"
      [] call.op = "acknowledge" -> "governance-decision"
      [] OTHER -> "record"

\* A control artifact is delivered like an accepted message; a rejection and
\* an accepted silence are delivered to nobody.
RecipientOf(call) == IF call.op = "commitControlArtifact" THEN call.to ELSE None

\* Rows of different streams, inserted by one transaction.
Inserted(rs) ==
    [s \in EventStreams |->
        IF \E i \in DOMAIN rs : rs[i].stream = s
        THEN LET r == rs[CHOOSE i \in DOMAIN rs : rs[i].stream = s]
             IN [k \in DOMAIN table[s] \cup {r.seq} |->
                    IF k = r.seq THEN r ELSE table[s][k]]
        ELSE table[s]]

\* PRIMARY KEY (run_id, stream, sequence)
Taken(r) == r.seq \in DOMAIN table[r.stream]

\* Mutant: INSERT OR REPLACE.
NoConflicts(rs) == {}

Conflicts(rs) == {i \in DOMAIN rs : Taken(rs[i])}

Forked(rs) ==
    {i \in Conflicts(rs) : table[rs[i].stream][rs[i].seq] /= rs[i]}

ForkFinding(r) == [what |-> "fork", stream |-> r.stream, seq |-> r.seq]

\* Mutants of CommitRows: each row in a transaction of its own; the stored
\* entry is not preserved next to the one that lost.
CommitRowByRow(w, rs) ==
    /\ table' = Inserted(SelectSeq(rs, LAMBDA r : ~Taken(r)))
    /\ UNCHANGED <<forks, block>>
CommitKeepingOne(w, rs) ==
    IF Forked(rs) = {}
    THEN /\ table' = IF Conflicts(rs) = {} THEN Inserted(rs) ELSE table
         /\ UNCHANGED <<forks, block>>
    ELSE /\ forks' = forks \cup {rs[i] : i \in Forked(rs)}
         /\ block' = [block EXCEPT ![w] = {ForkFinding(rs[i]) : i \in Forked(rs)}]
         /\ UNCHANGED table

\* commitRows: all rows, or none. classifyConflict stops at the first row
\* that differs from the stored one, preserves the two entries, and replaces
\* whatever findings the writer had.
CommitRows(w, rs) ==
    \/ /\ Conflicts(rs) = {}
       /\ table' = Inserted(rs)
       /\ UNCHANGED <<forks, block>>
    \/ /\ Conflicts(rs) /= {}
       /\ Forked(rs) = {}                              \* DuplicateEventError
       /\ UNCHANGED <<table, forks, block>>
    \/ \E i \in Forked(rs) :                           \* ForkDetectedError
       /\ \A j \in Forked(rs) : i <= j
       /\ forks' = forks \cup {table[rs[i].stream][rs[i].seq], rs[i]}
       /\ block' = [block EXCEPT ![w] = {ForkFinding(rs[i])}]
       /\ UNCHANGED table

---------------------------------------------------------------------------
(* What recover() finds *)

\* The walk over the stored rows: dense numbers, linked hashes.
LinkFindings(t) ==
    {[what |-> "chain", stream |-> s, seq |-> k] :
        s \in EventStreams,
        k \in {k \in UNION {DOMAIN t[s] : s \in EventStreams} :
                \E s \in EventStreams :
                    /\ k \in DOMAIN t[s]
                    /\ \/ k > Size(t[s])
                       \/ /\ k = 1
                          /\ t[s][k].prev /= Genesis
                       \/ /\ k - 1 \in DOMAIN t[s]
                          /\ t[s][k].prev /= t[s][k - 1]}}

\* checkpointPrefixViolations: only the highest manifest is compared.
Commits(t, m, s) ==
    m.size[s] > 0 => /\ m.size[s] \in DOMAIN t[s]
                     /\ Size(t[s]) >= m.size[s]
                     /\ t[s][m.size[s]] = m.last[s]

\* Mutant: the length of the stream is compared, the entry is not.
PrefixLengthFindings(t) ==
    IF manifests = <<>> THEN {}
    ELSE {[what |-> "checkpoint", stream |-> s, seq |-> Len(manifests)] :
            s \in {s \in EventStreams :
                    Size(t[s]) < manifests[Len(manifests)].size[s]}}

PrefixFindings(t) ==
    IF manifests = <<>> THEN {}
    ELSE {[what |-> "checkpoint", stream |-> s, seq |-> Len(manifests)] :
            s \in {s \in EventStreams :
                    ~Commits(t, manifests[Len(manifests)], s)}}

\* collectForks
ForkFindings == {ForkFinding(r) : r \in forks}

Findings == LinkFindings(table) \cup PrefixFindings(table) \cup ForkFindings

---------------------------------------------------------------------------
(* Calls. A call joins the queue of its writer's mutex; it enters when the   *)
(* calls before it have settled.                                             *)

Idle(w) == rows[w] = <<>>

NoCall == [op |-> "none", role |-> "baby-a", to |-> None, ref |-> None]

\* The call settles and the mutex passes on.
Leave(w) ==
    /\ rows' = [rows EXCEPT ![w] = <<>>]
    /\ current' = [current EXCEPT ![w] = NoCall]

\* The call in the critical section awaits a signature: others may run. A call
\* that signs nothing keeps its process busy until its transaction is done.
Awaiting(w) == ~Idle(w) /\ current[w].op \in SignedOps
Free(w) == up[w] /\ (Idle(w) \/ Awaiting(w))

Enqueue(w, call) ==
    /\ Free(w)
    /\ Len(queue[w]) < MaxQueue
    /\ queue' = [queue EXCEPT ![w] = Append(@, call)]
    /\ UNCHANGED <<store, up, current, rows, block, vetted>>

\* The references a caller can name: an interpretation echoes the hash of a
\* channel event, an audit entry names a ledger entry of the Baby.
References(req) ==
    CASE req.op = "appendInterpretation" -> Committed("channel")
      [] req.op = "appendAuditLedgerEntry" -> Committed(LedgerOf(req.role))
      [] OTHER -> {None}

Call(w, req) ==
    /\ Size(table[StreamOf(req)]) < MaxLen[StreamOf(req)]
    /\ req.op = "commitTurn" => Size(table["channel"]) < MaxLen["channel"]
    /\ \E ref \in References(req) :
        Enqueue(w, [op |-> req.op, role |-> req.role, to |-> req.to, ref |-> ref])

\* acknowledgeIntegrityReview reads the findings before it asks for the mutex.
CallAcknowledge(w) ==
    /\ registered
    /\ Size(table["intervention"]) < MaxLen["intervention"]
    /\ Enqueue(w, [op |-> "acknowledge", role |-> "baby-a", to |-> None,
                   ref |-> block[w]])

Writable(w) == registered /\ block[w] = {}

\* assertDeliveryBinding, and the check of an audit entry's source.
Bound(call) ==
    CASE call.op = "appendInterpretation" ->
            /\ call.ref \in Committed("channel")
            /\ call.ref.to = call.role
      [] call.op = "appendAuditLedgerEntry" ->
            /\ call.ref \in Committed(LedgerOf(call.role))
            /\ call.ref.kind = "native"
      [] OTHER -> TRUE

Pop(w) == queue' = [queue EXCEPT ![w] = Tail(@)]

\* The call throws before it writes anything; the mutex passes on.
Refuse(w) ==
    /\ up[w] /\ Idle(w) /\ queue[w] /= <<>>
    /\ LET call == Head(queue[w])
       IN /\ call.op /= "acknowledge"
          /\ ~Writable(w) \/ ~Bound(call)
    /\ Pop(w)
    /\ UNCHANGED <<store, up, current, rows, block, vetted>>

\* The first row is built on the chain head and goes to the signer.
EnterSigned(w) ==
    /\ up[w] /\ Idle(w) /\ queue[w] /= <<>>
    /\ LET call == Head(queue[w])
       IN /\ call.op \in SignedOps
          /\ Writable(w)
          /\ Bound(call)
          /\ \E stamp \in Stamps :
                rows' = [rows EXCEPT ![w] =
                    <<Row(StreamOf(call), KindOf(call), call.ref,
                          RecipientOf(call), stamp)>>]
          /\ current' = [current EXCEPT ![w] = call]
    /\ Pop(w)
    /\ UNCHANGED <<store, up, block, vetted>>

\* commitTurn: the ledger row is signed; the channel row that names it is
\* built on the channel head as it is now, and goes to the signer.
SignChannel(w) ==
    /\ up[w]
    /\ current[w].op = "commitTurn"
    /\ Len(rows[w]) = 1
    /\ \E stamp \in Stamps :
        rows' = [rows EXCEPT ![w] =
            <<rows[w][1],
              Row("channel", "accepted", rows[w][1], current[w].to, stamp)>>]
    /\ UNCHANGED <<store, up, queue, current, block, vetted>>

\* The last signature arrives; the rows go into one transaction.
Commit(w) ==
    /\ up[w]
    /\ Len(rows[w]) = IF current[w].op = "commitTurn" THEN 2 ELSE 1
    /\ current[w].op /= "appendAnalysisAttachment"
    /\ CommitRows(w, rows[w])
    /\ Leave(w)
    /\ UNCHANGED <<registered, attachments, manifests, up, queue, vetted>>

\* Mutant: the task that rejected keeps the mutex.
SignFailsUnreleased(w) ==
    /\ up[w] /\ Awaiting(w)
    /\ current' = [current EXCEPT ![w] = NoCall]
    /\ UNCHANGED <<store, up, queue, rows, block, vetted>>

\* The signer refuses, times out or disconnects: the call rejects.
SignFails(w) ==
    /\ up[w] /\ Awaiting(w)
    /\ Leave(w)
    /\ UNCHANGED <<store, up, queue, block, vetted>>

\* The intervention stream is not signed: nothing of this process runs between
\* reading the head and the transaction, but another process may.
EnterUnsigned(w) ==
    /\ up[w] /\ Idle(w) /\ queue[w] /= <<>>
    /\ LET call == Head(queue[w])
       IN /\ call.op \in UnsignedOps
          /\ Writable(w)
          /\ \E stamp \in Stamps :
                rows' = [rows EXCEPT ![w] =
                    <<Row("intervention", KindOf(call), call.ref, None, stamp)>>]
          /\ current' = [current EXCEPT ![w] = call]
    /\ Pop(w)
    /\ UNCHANGED <<store, up, block, vetted>>

\* The block goes first, then the decision is recorded with the findings that
\* were read when the review was submitted.
EnterAcknowledge(w) ==
    /\ up[w] /\ Idle(w) /\ queue[w] /= <<>>
    /\ Head(queue[w]).op = "acknowledge"
    /\ \E stamp \in Stamps :
        rows' = [rows EXCEPT ![w] =
            <<Row("intervention", "governance-decision",
                  Head(queue[w]).ref, None, stamp)>>]
    /\ current' = [current EXCEPT ![w] = Head(queue[w])]
    /\ block' = [block EXCEPT ![w] = {}]
    /\ vetted' = [vetted EXCEPT ![w] = IF @ = "no" THEN "no" ELSE "waived"]
    /\ Pop(w)
    /\ UNCHANGED <<store, up>>

\* An analysis attachment and the event that binds it are inserted together; a
\* path that is taken (PRIMARY KEY (run_id, path)) takes the event back too,
\* and no row conflict explains the error.
\* Mutant: the event stays when the attachment is refused.
CommitEventThenAttachment(w) ==
    /\ up[w] /\ ~Idle(w)
    /\ current[w].op = "appendAnalysisAttachment"
    /\ \E path \in Paths :
        /\ CommitRows(w, rows[w])
        /\ attachments' =
             IF Conflicts(rows[w]) /= {} \/ path \in DOMAIN attachments
             THEN attachments
             ELSE [p \in DOMAIN attachments \cup {path} |->
                     IF p = path THEN rows[w][1] ELSE attachments[p]]
    /\ Leave(w)
    /\ UNCHANGED <<registered, manifests, up, queue, vetted>>

CommitAttachment(w) ==
    /\ up[w] /\ ~Idle(w)
    /\ current[w].op = "appendAnalysisAttachment"
    /\ \E path \in Paths :
        \/ /\ path \in DOMAIN attachments
           /\ Conflicts(rows[w]) = {}
           /\ UNCHANGED <<table, attachments, forks, block>>
        \/ /\ path \notin DOMAIN attachments \/ Conflicts(rows[w]) /= {}
           /\ CommitRows(w, rows[w])
           /\ attachments' =
                IF Conflicts(rows[w]) /= {} THEN attachments
                ELSE [p \in DOMAIN attachments \cup {path} |->
                        IF p = path THEN rows[w][1] ELSE attachments[p]]
    /\ Leave(w)
    /\ UNCHANGED <<registered, manifests, up, queue, vetted>>

---------------------------------------------------------------------------
(* Operations that never wait for the mutex *)

RegisterRun(w) ==
    /\ Free(w) /\ ~registered
    /\ registered' = TRUE
    /\ UNCHANGED <<table, attachments, forks, manifests,
                   up, queue, current, rows, block, vetted>>

\* The checkpoint service has compared the previous manifest with the streams
\* (assertPrefixUnchanged). Inserting a manifest of an earlier cut of the
\* streams gives a state that inserting it at the cut and appending gives too.
InsertCheckpointManifest(w) ==
    /\ Free(w) /\ Writable(w)
    /\ Len(manifests) < MaxManifests
    /\ manifests /= <<>> =>
        \A s \in EventStreams : Commits(table, manifests[Len(manifests)], s)
    /\ manifests' = Append(manifests,
            [size |-> [s \in EventStreams |-> Size(table[s])],
             last |-> [s \in EventStreams |-> LastHash(table[s])]])
    /\ UNCHANGED <<registered, table, attachments, forks,
                   up, queue, current, rows, block, vetted>>

Recover(w) ==
    /\ Free(w) /\ registered
    /\ block' = [block EXCEPT ![w] = Findings]
    /\ vetted' = [vetted EXCEPT ![w] = "yes"]
    /\ UNCHANGED <<store, up, queue, current, rows>>

---------------------------------------------------------------------------
(* Processes and the disk *)

Crash(w) ==
    /\ up[w]
    /\ up' = [up EXCEPT ![w] = FALSE]
    /\ queue' = [queue EXCEPT ![w] = <<>>]
    /\ Leave(w)
    /\ block' = [block EXCEPT ![w] = {}]
    /\ vetted' = [vetted EXCEPT ![w] = "no"]
    /\ UNCHANGED store

Restart(w) ==
    /\ ~up[w]
    /\ up' = [up EXCEPT ![w] = TRUE]
    /\ UNCHANGED <<store, queue, current, rows, block, vetted>>

\* A damaged or restored file: what is left of the stream is a perfect chain.
LoseTail(s) ==
    /\ TailLoss
    /\ \A w \in Writers : ~up[w]
    /\ \E k \in DOMAIN table[s] :
        table' = [table EXCEPT ![s] = [i \in 1..(k - 1) |-> table[s][i]]]
    /\ UNCHANGED <<registered, attachments, forks, manifests,
                   up, queue, current, rows, block, vetted>>

---------------------------------------------------------------------------
Init ==
    /\ registered = FALSE
    /\ table = [s \in EventStreams |-> <<>>]
    /\ attachments = <<>>
    /\ forks = {}
    /\ manifests = <<>>
    /\ up = [w \in Writers |-> TRUE]
    /\ queue = [w \in Writers |-> <<>>]
    /\ current = [w \in Writers |-> NoCall]
    /\ rows = [w \in Writers |-> <<>>]
    /\ block = [w \in Writers |-> {}]
    /\ vetted = [w \in Writers |-> "no"]

\* The steps that settle the calls a writer has accepted.
Serve(w) ==
    \/ Refuse(w)
    \/ EnterSigned(w)
    \/ SignChannel(w)
    \/ Commit(w)
    \/ SignFails(w)
    \/ EnterUnsigned(w)
    \/ EnterAcknowledge(w)
    \/ CommitAttachment(w)

Next ==
    \/ \E w \in Writers :
        \/ RegisterRun(w)
        \/ \E req \in Requests : Call(w, req)
        \/ CallAcknowledge(w)
        \/ Serve(w)
        \/ InsertCheckpointManifest(w)
        \/ Recover(w)
        \/ Crash(w)
        \/ Restart(w)
    \/ \E s \in EventStreams : LoseTail(s)

Spec == Init /\ [][Next]_vars

\* The event loop runs what is ready, and a signer request settles: with a
\* signature, a refusal, or its time limit.
FairSpec == Spec /\ \A w \in Writers : WF_vars(Serve(w))

---------------------------------------------------------------------------
(* Properties *)

\* The variables range over what the code can hold: numbered rows of a stream
\* in its table, at most the two rows of a turn in the critical section, and
\* nothing in memory in a process that is down.
TypeOK ==
    /\ registered \in BOOLEAN
    /\ DOMAIN table = EventStreams
    /\ \A s \in EventStreams : \A k \in DOMAIN table[s] :
            /\ k \in Nat \ {0}
            /\ table[s][k].stream = s
            /\ table[s][k].seq = k
    /\ DOMAIN attachments \subseteq Paths
    /\ \A r \in forks : r.stream \in EventStreams
    /\ up \in [Writers -> BOOLEAN]
    /\ vetted \in [Writers -> {"no", "yes", "waived"}]
    /\ \A w \in Writers :
            /\ Len(rows[w]) <= 2
            /\ \A i \in DOMAIN rows[w] : /\ rows[w][i].stream \in EventStreams
                                         /\ rows[w][i].seq \in Nat \ {0}
            /\ ~up[w] => queue[w] = <<>> /\ rows[w] = <<>> /\ block[w] = {}

\* The sequence numbers of a stream are 1, 2, ... without a gap, and every row
\* names the row before it: whatever two writers on one file do at the same
\* time, no entry is inserted that was built on another head.
ChainLinked ==
    \A s \in EventStreams :
        /\ DOMAIN table[s] = 1..Size(table[s])
        /\ \A k \in DOMAIN table[s] :
                table[s][k].prev = IF k = 1 THEN Genesis ELSE table[s][k - 1]

\* An accepted message and its sender's private intention are committed
\* together or not at all: each channel row names an intention in a ledger,
\* and each intention is named by exactly one channel row.
TurnPairs ==
    ~TailLoss =>
        LET accepted == {r \in Committed("channel") : r.kind = "accepted"}
            intentions == {r \in UNION {Committed(LedgerOf(b)) : b \in Roles} :
                            r.kind = "intention"}
        IN /\ {r.ref : r \in accepted} = intentions
           /\ \A r, q \in accepted : r.ref = q.ref => r = q

\* An interpretation in a Baby's ledger names a channel event that was
\* delivered to that Baby, and an audit entry names a native ledger event.
ReferencesHold ==
    ~TailLoss =>
        /\ \A b \in Roles : \A r \in Committed(LedgerOf(b)) :
                r.kind = "interpretation" =>
                    r.ref \in Committed("channel") /\ r.ref.to = b
        /\ \A r \in Committed("audit") :
                /\ r.ref.kind = "native"
                /\ \E b \in Roles : r.ref \in Committed(LedgerOf(b))

\* A preserved fork shows two different entries for one sequence number, one of
\* them the entry that the stream keeps.
ForkKeepsBoth ==
    \A r \in forks :
        /\ \E q \in forks : q /= r /\ q.stream = r.stream /\ q.seq = r.seq
        /\ ~TailLoss =>
            /\ r.seq \in DOMAIN table[r.stream]
            /\ table[r.stream][r.seq] \in forks

\* Every stored attachment is bound by an event of the intervention stream, and
\* no event announces an attachment that was not stored.
AttachmentsBound ==
    ~TailLoss =>
        {attachments[p] : p \in DOMAIN attachments} =
            {r \in Committed("intervention") : r.kind = "analysis-attached"}

\* While a writer that ran recover() accepts writes, the streams still hold
\* what EVERY stored checkpoint committed, although recover() compares the
\* highest one only, and although the tail of a stream may have been lost and
\* grown again under a process that never ran it.
VettedPrefixIntact ==
    \A w \in Writers :
        up[w] /\ vetted[w] = "yes" /\ block[w] = {} =>
            \A i \in 1..Len(manifests), s \in EventStreams :
                Commits(table, manifests[i], s)

\* The mutex is always passed on: a call that entered the critical section
\* leaves it, also when its signature fails or its rows collide.
MutexReleased == \A w \in Writers : ~Idle(w) ~> Idle(w)

\* The writer implements the abstract log.
Log == INSTANCE EvidenceLog WITH Streams <- EventStreams, log <- table
LogSpec == Log!Spec

---------------------------------------------------------------------------
(* What the repository says of the writer and the code does not do *)

\* A checkpointed sequence number is never handed out a second time, also not
\* after the review of a lost tail. (The writer then continues at the head of
\* what is left, below the checkpoint.)
CheckpointedNumbersStay ==
    [][\A s \in EventStreams : \A k \in DOMAIN table'[s] \ DOMAIN table[s] :
        (\A w \in Writers : up[w] => vetted[w] = "waived") =>
            \A i \in DOMAIN manifests : manifests[i].size[s] < k]_vars

(* A stored event's references and attachments are its own and stored        *)
(* (append, appendAttachment).                                               *)
BindingsHold == ReferencesHold /\ AttachmentsBound
=============================================================================
