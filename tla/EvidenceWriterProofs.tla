------------------------ MODULE EvidenceWriterProofs ------------------------
(* Proofs about EvidenceWriter. The inductive invariant IInv adds to the     *)
(* linked chains what makes them stay linked while calls of several writers  *)
(* are under way: a row that awaits its signature or its transaction was     *)
(* built on a row that is STILL in its table, because tables only lose rows  *)
(* when no process is up. So a row whose number is free is the next one.     *)
(*                                                                           *)
(* What the store keeps besides its chains follows: both sides of every      *)
(* fork, the references and attachments its entries name, and all that the   *)
(* checkpoints committed under a writer that recover() found in order. The   *)
(* last one needs an induction along a chain, although recover() only looks  *)
(* at the newest manifest: an entry names its predecessor, so two chains     *)
(* with one entry in common agree on everything before it. The induction is  *)
(* by LeastNat, a least counterexample.                                      *)
EXTENDS EvidenceWriter, TLAPS, FiniteSetTheorems, WellFoundedInduction, SequenceTheorems

Ledgers == {"baby-a-ledger", "baby-b-ledger"}

Dense(chain) == \E n \in Nat : DOMAIN chain = 1..n

\* A row that follows a row of its stream, or starts it.
Follows(r, chain) ==
    /\ r.seq \in Nat \ {0}
    /\ r.seq = 1 => r.prev = Genesis
    /\ r.seq /= 1 => /\ r.seq - 1 \in DOMAIN chain
                     /\ r.prev = chain[r.seq - 1]

TableOK ==
    /\ DOMAIN table = EventStreams
    /\ \A s \in EventStreams :
        /\ Dense(table[s])
        /\ \A k \in DOMAIN table[s] :
            /\ table[s][k].stream = s
            /\ table[s][k].seq = k
            /\ Follows(table[s][k], table[s])

Fits(r, t) == r.stream \in EventStreams /\ Follows(r, t[r.stream])

OneRow(w) ==
    /\ rows[w] = <<rows[w][1]>>
    /\ Fits(rows[w][1], table)
    /\ rows[w][1].kind /= "accepted"
    /\ current[w].op = "commitTurn" => /\ rows[w][1].stream \in Ledgers
                                       /\ rows[w][1].kind = "intention"
    /\ current[w].op /= "commitTurn" => rows[w][1].kind /= "intention"

TurnRows(w) ==
    /\ rows[w] = <<rows[w][1], rows[w][2]>>
    /\ current[w].op = "commitTurn"
    /\ Fits(rows[w][1], table)
    /\ Fits(rows[w][2], table)
    /\ rows[w][1].stream \in Ledgers
    /\ rows[w][1].kind = "intention"
    /\ rows[w][2].stream = "channel"
    /\ rows[w][2].kind = "accepted"
    /\ rows[w][2].ref = rows[w][1]

RowsOK ==
    /\ DOMAIN rows = Writers
    /\ DOMAIN current = Writers
    /\ up \in [Writers -> BOOLEAN]
    /\ \A w \in Writers :
        /\ ~up[w] => rows[w] = <<>>
        /\ rows[w] = <<>> \/ OneRow(w) \/ TurnRows(w)

IInv == TableOK /\ RowsOK

---------------------------------------------------------------------------
(* Chain heads *)

\* The count of a dense chain is its highest number, and the entry at that
\* number is the head.
LEMMA ChainHead ==
    ASSUME NEW chain, NEW n \in Nat, DOMAIN chain = 1..n
    PROVE  /\ Size(chain) = n
           /\ n = 0 => LastHash(chain) = Genesis
           /\ n > 0 => LastHash(chain) = chain[n]
<1>1. Size(chain) = n
  BY FS_Interval DEF Size
<1>2. n = 0 => LastHash(chain) = Genesis
  BY DEF LastHash
<1>3. ASSUME n > 0 PROVE LastHash(chain) = chain[n]
  <2> DEFINE IsTop(k) == \A j \in DOMAIN chain : j <= k
  <2>1. n \in DOMAIN chain /\ IsTop(n)
    BY <1>3
  <2>2. ASSUME NEW k \in DOMAIN chain, IsTop(k)
        PROVE  k = n
    <3>1. n <= k
      BY <2>1, <2>2
    <3>2. k \in 1..n
      BY <2>2
    <3> QED BY <3>1, <3>2
  <2>3. (CHOOSE k \in DOMAIN chain : IsTop(k)) = n
    <3> HIDE DEF IsTop
    <3> QED BY <2>1, <2>2
  <2> QED BY <1>3, <2>1, <2>3 DEF LastHash
<1> QED BY <1>1, <1>2, <1>3

\* A row built on the present head of its stream follows that head.
LEMMA RowFits ==
    ASSUME TableOK, NEW s \in EventStreams,
           NEW kind, NEW ref, NEW to, NEW stamp
    PROVE  /\ Fits(Row(s, kind, ref, to, stamp), table)
           /\ Row(s, kind, ref, to, stamp).stream = s
           /\ Row(s, kind, ref, to, stamp).kind = kind
           /\ Row(s, kind, ref, to, stamp).ref = ref
<1>1. PICK n \in Nat : DOMAIN table[s] = 1..n
  BY DEF TableOK, Dense
<1>2. /\ Size(table[s]) = n
      /\ n = 0 => LastHash(table[s]) = Genesis
      /\ n > 0 => LastHash(table[s]) = table[s][n]
  BY <1>1, ChainHead
<1> DEFINE r == Row(s, kind, ref, to, stamp)
<1>3. /\ r.stream = s
      /\ r.seq = n + 1
      /\ r.prev = LastHash(table[s])
      /\ r.kind = kind
      /\ r.ref = ref
  BY <1>2 DEF Row
<1>4. Follows(r, table[s])
  <2> HIDE DEF r
  <2> QED BY <1>1, <1>2, <1>3 DEF Follows
<1> QED BY <1>3, <1>4 DEF Fits

\* The first row of a request goes to a stream of the run and is not the
\* channel row of a turn.
LEMMA FirstRow ==
    ASSUME NEW call
    PROVE  /\ StreamOf(call) \in EventStreams
           /\ KindOf(call) /= "accepted"
           /\ call.op = "commitTurn" => /\ StreamOf(call) \in Ledgers
                                        /\ KindOf(call) = "intention"
           /\ call.op /= "commitTurn" => KindOf(call) /= "intention"
BY DEF StreamOf, KindOf, LedgerOf, EventStreams, Ledgers

---------------------------------------------------------------------------
(* The transaction *)

\* The rows under way are of different streams, and each follows its stream.
LEMMA RowsUnderWay ==
    ASSUME NEW w \in Writers, OneRow(w) \/ TurnRows(w)
    PROVE  /\ \A i \in DOMAIN rows[w] : Fits(rows[w][i], table)
           /\ \A i, j \in DOMAIN rows[w] :
                rows[w][i].stream = rows[w][j].stream => i = j
<1>1. CASE OneRow(w)
  <2>1. DOMAIN rows[w] = {1}
    <3>1. DOMAIN <<rows[w][1]>> = {1}
      OBVIOUS
    <3> QED BY <1>1, <3>1 DEF OneRow
  <2> QED BY <1>1, <2>1 DEF OneRow
<1>2. CASE TurnRows(w)
  <2>1. DOMAIN rows[w] = {1, 2}
    <3>1. DOMAIN <<rows[w][1], rows[w][2]>> = {1, 2}
      OBVIOUS
    <3> QED BY <1>2, <3>1 DEF TurnRows
  <2>2. rows[w][1].stream /= rows[w][2].stream
    BY <1>2 DEF TurnRows, Ledgers
  <2> QED BY <1>2, <2>1, <2>2 DEF TurnRows
<1> QED BY <1>1, <1>2

\* The table of s after r was put behind its n rows.
Longer(s, n, r) ==
    /\ DOMAIN table[s] = 1..n
    /\ DOMAIN table'[s] = 1..(n + 1)
    /\ \A k \in 1..n : table'[s][k] = table[s][k]
    /\ table'[s][n + 1] = r
    /\ r.seq = n + 1
    /\ n = 0 => r.prev = Genesis
    /\ n > 0 => r.prev = table[s][n]

\* Rows that fit and whose numbers are free are put behind their streams.
LEMMA InsertedRow ==
    ASSUME TableOK, NEW rs, NEW i \in DOMAIN rs, NEW s \in EventStreams,
           rs[i].stream = s, Fits(rs[i], table), i \notin Conflicts(rs),
           \A j \in DOMAIN rs : rs[j].stream = s => j = i,
           table' = Inserted(rs)
    PROVE  \E n \in Nat : Longer(s, n, rs[i])
<1> DEFINE r == rs[i]
<1>1. PICK n \in Nat : DOMAIN table[s] = 1..n
  BY DEF TableOK, Dense
<1>2. r.seq \notin DOMAIN table[s]
  BY DEF Conflicts, Taken
<1>3. r.seq \in Nat \ {0} /\ (r.seq /= 1 => r.seq - 1 \in DOMAIN table[s])
  BY DEF Fits, Follows
<1>4. r.seq = n + 1
  BY <1>1, <1>2, <1>3
<1>5. (CHOOSE j \in DOMAIN rs : rs[j].stream = s) = i
  OBVIOUS
<1>6. table'[s] = [k \in DOMAIN table[s] \cup {r.seq} |->
                    IF k = r.seq THEN r ELSE table[s][k]]
  BY <1>5 DEF Inserted
<1>7. DOMAIN table'[s] = 1..(n + 1)
  BY <1>1, <1>4, <1>6
<1>8. \A k \in 1..n : table'[s][k] = table[s][k]
  BY <1>1, <1>4, <1>6
<1>9. table'[s][n + 1] = r
  BY <1>4, <1>6
<1>10. /\ n = 0 => r.prev = Genesis
       /\ n > 0 => r.prev = table[s][n]
  BY <1>4 DEF Fits, Follows
<1> HIDE DEF r
<1>11. Longer(s, n, r)
  BY <1>1, <1>4, <1>7, <1>8, <1>9, <1>10 DEF Longer
<1> QED BY <1>11 DEF r

LEMMA NoRowInserted ==
    ASSUME NEW rs, NEW s \in EventStreams, table' = Inserted(rs),
           \A i \in DOMAIN rs : rs[i].stream /= s
    PROVE  table'[s] = table[s]
BY DEF Inserted

\* What a commit of w does to every stream.
LEMMA CommitGrows ==
    ASSUME IInv, NEW w \in Writers, ~Idle(w), CommitRows(w, rows[w]),
           NEW s \in EventStreams
    PROVE  \/ table'[s] = table[s]
           \/ \E i \in DOMAIN rows[w], n \in Nat :
                /\ Conflicts(rows[w]) = {}
                /\ table' = Inserted(rows[w])
                /\ rows[w][i].stream = s
                /\ Longer(s, n, rows[w][i])
<1>1. OneRow(w) \/ TurnRows(w)
  BY DEF IInv, RowsOK, Idle
<1>2. /\ \A i \in DOMAIN rows[w] : Fits(rows[w][i], table)
      /\ \A i, j \in DOMAIN rows[w] :
            rows[w][i].stream = rows[w][j].stream => i = j
  BY <1>1, RowsUnderWay
<1>3. CASE Conflicts(rows[w]) = {} /\ table' = Inserted(rows[w])
  <2>1. CASE \A i \in DOMAIN rows[w] : rows[w][i].stream /= s
    BY <1>3, <2>1, NoRowInserted
  <2>2. ASSUME NEW i \in DOMAIN rows[w], rows[w][i].stream = s
        PROVE  \E n \in Nat : Longer(s, n, rows[w][i])
    <3>1. /\ TableOK
          /\ Fits(rows[w][i], table)
          /\ i \notin Conflicts(rows[w])
          /\ \A j \in DOMAIN rows[w] : rows[w][j].stream = s => j = i
      BY <1>2, <1>3, <2>2 DEF IInv
    <3> QED BY <1>3, <2>2, <3>1, InsertedRow
  <2> QED BY <1>3, <2>1, <2>2
<1>4. CASE UNCHANGED table
  BY <1>4
<1> QED BY <1>3, <1>4 DEF CommitRows

---------------------------------------------------------------------------
(* The inductive invariant *)

\* t grows to u: rows are added and none is changed.
Grows(t, u) ==
    \A s \in EventStreams : \A k \in DOMAIN t[s] :
        k \in DOMAIN u[s] /\ u[s][k] = t[s][k]

LEMMA FitsStable ==
    ASSUME NEW r, NEW t, NEW u, Grows(t, u), Fits(r, t)
    PROVE  Fits(r, u)
BY DEF Grows, Fits, Follows

LEMMA CommitKeepsTable ==
    ASSUME IInv, NEW w \in Writers, ~Idle(w), CommitRows(w, rows[w])
    PROVE  TableOK' /\ Grows(table, table')
<1>1. DOMAIN table' = EventStreams
  BY DEF IInv, TableOK, CommitRows, Inserted
<1>2. ASSUME NEW s \in EventStreams
      PROVE  /\ Dense(table'[s])
             /\ \A k \in DOMAIN table'[s] :
                    /\ table'[s][k].stream = s
                    /\ table'[s][k].seq = k
                    /\ Follows(table'[s][k], table'[s])
             /\ \A k \in DOMAIN table[s] :
                    k \in DOMAIN table'[s] /\ table'[s][k] = table[s][k]
  <2>1. CASE table'[s] = table[s]
    BY <2>1 DEF IInv, TableOK
  <2>2. ASSUME NEW i \in DOMAIN rows[w], NEW n \in Nat,
               rows[w][i].stream = s, Longer(s, n, rows[w][i])
        PROVE  /\ Dense(table'[s])
               /\ \A k \in DOMAIN table'[s] :
                    /\ table'[s][k].stream = s
                    /\ table'[s][k].seq = k
                    /\ Follows(table'[s][k], table'[s])
               /\ \A k \in DOMAIN table[s] :
                    k \in DOMAIN table'[s] /\ table'[s][k] = table[s][k]
    <3> DEFINE r == rows[w][i]
    <3>1. /\ DOMAIN table[s] = 1..n
          /\ DOMAIN table'[s] = 1..(n + 1)
          /\ \A k \in 1..n : table'[s][k] = table[s][k]
          /\ table'[s][n + 1] = r
          /\ r.seq = n + 1
          /\ n = 0 => r.prev = Genesis
          /\ n > 0 => r.prev = table[s][n]
          /\ r.stream = s
      BY <2>2 DEF Longer
    <3> HIDE DEF r
    <3>2. Dense(table'[s])
      BY <3>1 DEF Dense
    <3>3. Follows(r, table'[s])
      BY <3>1 DEF Follows
    <3>4. ASSUME NEW k \in 1..n
          PROVE  /\ table'[s][k].stream = s
                 /\ table'[s][k].seq = k
                 /\ Follows(table'[s][k], table'[s])
      <4>1. /\ table[s][k].stream = s
            /\ table[s][k].seq = k
            /\ Follows(table[s][k], table[s])
        BY <3>1 DEF IInv, TableOK
      <4>2. table'[s][k] = table[s][k]
        BY <3>1
      <4> QED BY <3>1, <4>1, <4>2 DEF Follows
    <3>5. \A k \in DOMAIN table'[s] : k \in 1..n \/ k = n + 1
      BY <3>1
    <3> QED BY <3>1, <3>2, <3>3, <3>4, <3>5
  <2> QED BY <2>1, <2>2, CommitGrows
<1> QED BY <1>1, <1>2 DEF TableOK, Grows

\* The calls of the writers that a step does not serve stay well formed.
LEMMA OthersKept ==
    ASSUME IInv, Grows(table, table'), NEW v \in Writers,
           rows'[v] = rows[v], current'[v] = current[v]
    PROVE  (rows[v] = <<>> \/ OneRow(v) \/ TurnRows(v))'
<1>1. CASE rows[v] = <<>>
  BY <1>1
<1>2. CASE OneRow(v)
  <2>1. Fits(rows[v][1], table')
    BY <1>2, FitsStable DEF OneRow
  <2> QED BY <1>2, <2>1 DEF OneRow
<1>3. CASE TurnRows(v)
  <2>1. Fits(rows[v][1], table') /\ Fits(rows[v][2], table')
    BY <1>3, FitsStable DEF TurnRows
  <2> QED BY <1>3, <2>1 DEF TurnRows
<1> QED BY <1>1, <1>2, <1>3 DEF IInv, RowsOK

\* A step of w that keeps the table or lets it grow, and leaves w with rows
\* that are well formed, keeps the invariant.
LEMMA StepOfOne ==
    ASSUME IInv, TableOK', Grows(table, table'), NEW w \in Writers,
           DOMAIN rows' = Writers, DOMAIN current' = Writers,
           up' \in [Writers -> BOOLEAN],
           \A v \in Writers \ {w} : /\ rows'[v] = rows[v]
                                    /\ current'[v] = current[v]
                                    /\ up'[v] = up[v],
           ~up'[w] => rows'[w] = <<>>,
           (rows[w] = <<>> \/ OneRow(w) \/ TurnRows(w))'
    PROVE  IInv'
<1>1. ASSUME NEW v \in Writers
      PROVE  /\ (~up[v] => rows[v] = <<>>)'
             /\ (rows[v] = <<>> \/ OneRow(v) \/ TurnRows(v))'
  <2>1. CASE v = w
    BY <2>1
  <2>2. CASE v /= w
    <3>1. rows'[v] = rows[v] /\ current'[v] = current[v] /\ up'[v] = up[v]
      BY <2>2
    <3>2. (~up[v] => rows[v] = <<>>)'
      BY <3>1 DEF IInv, RowsOK
    <3> QED BY <3>1, <3>2, OthersKept
  <2> QED BY <2>1, <2>2
<1>2. RowsOK'
  BY <1>1 DEF RowsOK
<1> QED BY <1>2 DEF IInv

\* The steps that touch neither a table nor a call in a critical section.
LEMMA QuietStep ==
    ASSUME IInv, UNCHANGED <<table, rows, current, up>>
    PROVE  IInv'
BY DEF IInv, TableOK, RowsOK, OneRow, TurnRows, Fits, Follows, Dense

\* The steps that keep the tables and give w new rows, or none.
LEMMA MemoryStep ==
    ASSUME IInv, UNCHANGED <<table, up>>, NEW w \in Writers, up[w],
           NEW rs, NEW call,
           rows' = [rows EXCEPT ![w] = rs],
           current' = [current EXCEPT ![w] = call],
           (rows[w] = <<>> \/ OneRow(w) \/ TurnRows(w))'
    PROVE  IInv'
<1>1. TableOK' /\ Grows(table, table')
  BY DEF IInv, TableOK, Dense, Follows, Grows
<1>2. /\ DOMAIN rows' = Writers
      /\ DOMAIN current' = Writers
      /\ up' \in [Writers -> BOOLEAN]
      /\ ~up'[w] => rows'[w] = <<>>
      /\ \A v \in Writers \ {w} : /\ rows'[v] = rows[v]
                                  /\ current'[v] = current[v]
                                  /\ up'[v] = up[v]
  BY DEF IInv, RowsOK
<1> QED BY <1>1, <1>2, StepOfOne

\* A call enters the critical section with one row on the head of its stream.
LEMMA EnterStep ==
    ASSUME IInv, UNCHANGED <<table, up>>, NEW w \in Writers, up[w],
           NEW call, NEW kind, NEW ref, NEW to, NEW stamp,
           NEW s \in EventStreams,
           kind /= "accepted",
           call.op = "commitTurn" => s \in Ledgers /\ kind = "intention",
           call.op /= "commitTurn" => kind /= "intention",
           rows' = [rows EXCEPT ![w] = <<Row(s, kind, ref, to, stamp)>>],
           current' = [current EXCEPT ![w] = call]
    PROVE  IInv'
<1> DEFINE r == Row(s, kind, ref, to, stamp)
<1>1. /\ Fits(r, table)
      /\ r.stream = s
      /\ r.kind = kind
  BY RowFits DEF IInv
<1>2. rows'[w] = <<r>> /\ current'[w] = call
  BY DEF IInv, RowsOK
<1> HIDE DEF r
<1>3. rows'[w][1] = r
  BY <1>2
<1>4. OneRow(w)'
  BY <1>1, <1>2, <1>3 DEF OneRow
<1>5. rows' = [rows EXCEPT ![w] = <<r>>]
  BY DEF r
<1> QED BY <1>4, <1>5, MemoryStep

\* A call leaves the critical section; the tables have grown, or not.
LEMMA LeaveStep ==
    ASSUME IInv, TableOK', Grows(table, table'), NEW w \in Writers, Leave(w),
           up' \in [Writers -> BOOLEAN],
           \A v \in Writers \ {w} : up'[v] = up[v]
    PROVE  IInv'
<1>1. /\ DOMAIN rows' = Writers
      /\ DOMAIN current' = Writers
      /\ rows'[w] = <<>>
      /\ \A v \in Writers \ {w} : /\ rows'[v] = rows[v]
                                  /\ current'[v] = current[v]
  BY DEF IInv, RowsOK, Leave
<1> QED BY <1>1, StepOfOne

\* What is left of a chain whose tail was lost is a chain.
LEMMA TailLossStep ==
    ASSUME IInv, NEW s \in EventStreams, LoseTail(s)
    PROVE  IInv'
<1>1. PICK k \in DOMAIN table[s] :
        table' = [table EXCEPT ![s] = [i \in 1..(k - 1) |-> table[s][i]]]
  BY DEF LoseTail
<1>2. PICK n \in Nat : DOMAIN table[s] = 1..n
  BY DEF IInv, TableOK, Dense
<1>3. /\ k \in 1..n
      /\ DOMAIN table' = EventStreams
      /\ table'[s] = [i \in 1..(k - 1) |-> table[s][i]]
      /\ \A q \in EventStreams \ {s} : table'[q] = table[q]
  BY <1>1, <1>2 DEF IInv, TableOK
<1>4. /\ Dense(table'[s])
      /\ \A i \in DOMAIN table'[s] :
            /\ table'[s][i].stream = s
            /\ table'[s][i].seq = i
            /\ Follows(table'[s][i], table'[s])
  <2>1. Dense(table'[s])
    BY <1>3 DEF Dense
  <2>2. ASSUME NEW i \in DOMAIN table'[s]
        PROVE  /\ table'[s][i].stream = s
               /\ table'[s][i].seq = i
               /\ Follows(table'[s][i], table'[s])
    <3>1. i \in 1..(k - 1) /\ i \in DOMAIN table[s] /\ table'[s][i] = table[s][i]
      BY <1>2, <1>3
    <3>2. /\ table[s][i].stream = s
          /\ table[s][i].seq = i
          /\ Follows(table[s][i], table[s])
      BY <3>1 DEF IInv, TableOK
    <3>3. i /= 1 => /\ i - 1 \in 1..(k - 1)
                    /\ table'[s][i - 1] = table[s][i - 1]
      BY <1>2, <1>3, <3>1
    <3> QED BY <1>3, <3>1, <3>2, <3>3 DEF Follows
  <2> QED BY <2>1, <2>2
<1>5. TableOK'
  BY <1>3, <1>4, SMTT(30) DEF IInv, TableOK
<1>6. \A w \in Writers : rows[w] = <<>>
  BY DEF IInv, RowsOK, LoseTail
<1>7. RowsOK'
  BY <1>6 DEF IInv, RowsOK, LoseTail
<1> QED BY <1>5, <1>7 DEF IInv

LEMMA InitIInv == Init => IInv
<1> SUFFICES ASSUME Init PROVE IInv
  OBVIOUS
<1>1. \A s \in EventStreams : DOMAIN table[s] = 1..0
  BY DEF Init
<1>2. TableOK
  BY <1>1 DEF Init, TableOK, Dense
<1>3. RowsOK
  BY DEF Init, RowsOK
<1> QED BY <1>2, <1>3 DEF IInv

LEMMA NextIInv == IInv /\ [Next]_vars => IInv'
<1> SUFFICES ASSUME IInv, [Next]_vars PROVE IInv'
  OBVIOUS
<1> USE DEF store
<1>1. CASE UNCHANGED vars
  BY <1>1, QuietStep DEF vars
<1>2. ASSUME NEW w \in Writers, RegisterRun(w) PROVE IInv'
  BY <1>2, QuietStep DEF RegisterRun
<1>3. ASSUME NEW w \in Writers, NEW req \in Requests, Call(w, req) PROVE IInv'
  BY <1>3, QuietStep DEF Call, Enqueue
<1>4. ASSUME NEW w \in Writers, CallAcknowledge(w) PROVE IInv'
  BY <1>4, QuietStep DEF CallAcknowledge, Enqueue
<1>5. ASSUME NEW w \in Writers, Refuse(w) PROVE IInv'
  BY <1>5, QuietStep DEF Refuse
<1>6. ASSUME NEW w \in Writers, EnterSigned(w) PROVE IInv'
  <2> DEFINE call == Head(queue[w])
  <2>1. PICK stamp \in Stamps :
          rows' = [rows EXCEPT ![w] =
            <<Row(StreamOf(call), KindOf(call), call.ref, RecipientOf(call), stamp)>>]
    BY <1>6 DEF EnterSigned
  <2>2. current' = [current EXCEPT ![w] = call] /\ UNCHANGED <<table, up>> /\ up[w]
    BY <1>6 DEF EnterSigned
  <2> HIDE DEF call
  <2> QED BY <2>1, <2>2, FirstRow, EnterStep
<1>7. ASSUME NEW w \in Writers, EnterUnsigned(w) PROVE IInv'
  <2> DEFINE call == Head(queue[w])
  <2>1. PICK stamp \in Stamps :
          rows' = [rows EXCEPT ![w] =
            <<Row("intervention", KindOf(call), call.ref, None, stamp)>>]
    BY <1>7 DEF EnterUnsigned
  <2>2. /\ current' = [current EXCEPT ![w] = call]
        /\ UNCHANGED <<table, up>>
        /\ up[w]
        /\ call.op /= "commitTurn"
    BY <1>7 DEF EnterUnsigned, UnsignedOps
  <2>3. "intervention" \in EventStreams
    BY DEF EventStreams
  <2> HIDE DEF call
  <2> QED BY <2>1, <2>2, <2>3, FirstRow, EnterStep
<1>8. ASSUME NEW w \in Writers, EnterAcknowledge(w) PROVE IInv'
  <2> DEFINE call == Head(queue[w])
  <2>1. PICK stamp \in Stamps :
          rows' = [rows EXCEPT ![w] =
            <<Row("intervention", "governance-decision", call.ref, None, stamp)>>]
    BY <1>8 DEF EnterAcknowledge
  <2>2. /\ current' = [current EXCEPT ![w] = call]
        /\ UNCHANGED <<table, up>>
        /\ up[w]
        /\ call.op /= "commitTurn"
    BY <1>8 DEF EnterAcknowledge
  <2>3. "intervention" \in EventStreams
    BY DEF EventStreams
  <2> HIDE DEF call
  <2> QED BY <2>1, <2>2, <2>3, EnterStep
<1>9. ASSUME NEW w \in Writers, SignChannel(w) PROVE IInv'
  <2>1. PICK stamp \in Stamps :
          rows' = [rows EXCEPT ![w] =
            <<rows[w][1],
              Row("channel", "accepted", rows[w][1], current[w].to, stamp)>>]
    BY <1>9 DEF SignChannel
  <2> DEFINE r == Row("channel", "accepted", rows[w][1], current[w].to, stamp)
  <2>2. /\ Fits(r, table)
        /\ r.stream = "channel"
        /\ r.kind = "accepted"
        /\ r.ref = rows[w][1]
    BY RowFits DEF IInv, EventStreams
  <2>3. /\ current[w].op = "commitTurn"
        /\ UNCHANGED <<table, up, current>>
        /\ up[w]
        /\ Len(rows[w]) = 1
    BY <1>9 DEF SignChannel
  <2>4. OneRow(w)
    <3>1. rows[w] /= <<>>
      BY <2>3, SMTT(30)
    <3>2. ~TurnRows(w)
      <4>1. Len(<<rows[w][1], rows[w][2]>>) = 2
        OBVIOUS
      <4> QED BY <2>3, <4>1 DEF TurnRows
    <3> QED BY <3>1, <3>2 DEF IInv, RowsOK
  <2>5. rows'[w] = <<rows[w][1], r>>
    BY <2>1 DEF IInv, RowsOK
  <2>6. /\ TableOK' /\ Grows(table, table')
        /\ DOMAIN rows' = Writers
        /\ \A v \in Writers \ {w} : rows'[v] = rows[v]
    BY <2>1, <2>3 DEF IInv, TableOK, Dense, Follows, Grows, RowsOK
  <2> HIDE DEF r
  <2>7. rows'[w][1] = rows[w][1] /\ rows'[w][2] = r
    BY <2>5
  <2>8. TurnRows(w)'
    BY <2>2, <2>3, <2>4, <2>5, <2>7 DEF TurnRows, OneRow
  <2> QED BY <2>3, <2>6, <2>8, StepOfOne DEF IInv, RowsOK
<1>10. ASSUME NEW w \in Writers, Commit(w) PROVE IInv'
  <2>1. ~Idle(w) /\ CommitRows(w, rows[w]) /\ Leave(w) /\ up' = up
    BY <1>10 DEF Commit, Idle
  <2>2. TableOK' /\ Grows(table, table')
    BY <2>1, CommitKeepsTable
  <2> QED BY <2>1, <2>2, LeaveStep DEF IInv, RowsOK
<1>11. ASSUME NEW w \in Writers, SignFails(w) PROVE IInv'
  <2>1. Leave(w) /\ UNCHANGED <<table, up>>
    BY <1>11 DEF SignFails
  <2>2. TableOK' /\ Grows(table, table')
    BY <2>1 DEF IInv, TableOK, Dense, Follows, Grows
  <2> QED BY <2>1, <2>2, LeaveStep DEF IInv, RowsOK
<1>12. ASSUME NEW w \in Writers, CommitAttachment(w) PROVE IInv'
  <2>1. ~Idle(w) /\ Leave(w) /\ up' = up
    BY <1>12 DEF CommitAttachment
  <2>2. CASE UNCHANGED table
    <3>1. TableOK' /\ Grows(table, table')
      BY <2>2 DEF IInv, TableOK, Dense, Follows, Grows
    <3> QED BY <2>1, <3>1, LeaveStep DEF IInv, RowsOK
  <2>3. CASE CommitRows(w, rows[w])
    <3>1. TableOK' /\ Grows(table, table')
      BY <2>1, <2>3, CommitKeepsTable
    <3> QED BY <2>1, <3>1, LeaveStep DEF IInv, RowsOK
  <2> QED BY <1>12, <2>2, <2>3 DEF CommitAttachment
<1>13. ASSUME NEW w \in Writers, InsertCheckpointManifest(w) PROVE IInv'
  BY <1>13, QuietStep DEF InsertCheckpointManifest
<1>14. ASSUME NEW w \in Writers, Recover(w) PROVE IInv'
  BY <1>14, QuietStep DEF Recover
<1>15. ASSUME NEW w \in Writers, Crash(w) PROVE IInv'
  <2>1. Leave(w) /\ UNCHANGED table /\ up' = [up EXCEPT ![w] = FALSE]
    BY <1>15 DEF Crash
  <2>2. TableOK' /\ Grows(table, table')
    BY <2>1 DEF IInv, TableOK, Dense, Follows, Grows
  <2>3. up' \in [Writers -> BOOLEAN] /\ \A v \in Writers \ {w} : up'[v] = up[v]
    BY <2>1 DEF IInv, RowsOK
  <2> QED BY <2>1, <2>2, <2>3, LeaveStep
<1>16. ASSUME NEW w \in Writers, Restart(w) PROVE IInv'
  <2>1. /\ UNCHANGED <<table, rows, current>>
        /\ up' = [up EXCEPT ![w] = TRUE]
        /\ ~up[w]
    BY <1>16 DEF Restart
  <2>2. TableOK' /\ Grows(table, table')
    BY <2>1 DEF IInv, TableOK, Dense, Follows, Grows
  <2>3. /\ up' \in [Writers -> BOOLEAN]
        /\ \A v \in Writers \ {w} : up'[v] = up[v]
        /\ rows'[w] = <<>>
    BY <2>1 DEF IInv, RowsOK
  <2> QED BY <2>1, <2>2, <2>3, StepOfOne DEF IInv, RowsOK
<1>17. ASSUME NEW s \in EventStreams, LoseTail(s) PROVE IInv'
  BY <1>17, TailLossStep
<1> QED
  BY <1>1, <1>2, <1>3, <1>4, <1>5, <1>6, <1>7, <1>8, <1>9, <1>10, <1>11,
     <1>12, <1>13, <1>14, <1>15, <1>16, <1>17
  DEF Next, Serve

\* The inductive invariant holds in every reachable state.
THEOREM Invariance == Spec => []IInv
BY InitIInv, NextIInv, PTL DEF Spec

\* Every stream of a run is always a gapless chain from genesis, for any number
\* of writers on the file, whatever crashes, signatures that fail and tails
\* that are lost come in between.
THEOREM ChainsLinked == Spec => []ChainLinked
<1>1. IInv => ChainLinked
  <2> SUFFICES ASSUME IInv, NEW s \in EventStreams
               PROVE  /\ DOMAIN table[s] = 1..Size(table[s])
                      /\ \A k \in DOMAIN table[s] :
                            table[s][k].prev =
                                IF k = 1 THEN Genesis ELSE table[s][k - 1]
    BY DEF ChainLinked
  <2>1. PICK n \in Nat : DOMAIN table[s] = 1..n
    BY DEF IInv, TableOK, Dense
  <2>2. DOMAIN table[s] = 1..Size(table[s])
    BY <2>1, ChainHead
  <2>3. ASSUME NEW k \in DOMAIN table[s]
        PROVE  table[s][k].prev = IF k = 1 THEN Genesis ELSE table[s][k - 1]
    BY DEF IInv, TableOK, Follows
  <2> QED BY <2>2, <2>3
<1> QED BY <1>1, Invariance, PTL

---------------------------------------------------------------------------
(* The writer implements the log *)

\* The rows that a commit of w adds: the entry behind n entries of s is one of
\* them, and if it is the channel row of a turn, the ledger row it names is
\* added in the same step.
LEMMA AddedEntry ==
    ASSUME IInv, NEW w \in Writers, ~Idle(w), CommitRows(w, rows[w]),
           NEW s \in EventStreams, NEW k \in DOMAIN table'[s],
           k \notin DOMAIN table[s]
    PROVE  /\ Conflicts(rows[w]) = {}
           /\ \E i \in DOMAIN rows[w] : table'[s][k] = rows[w][i]
           /\ table'[s][k].kind = "accepted" =>
                /\ TurnRows(w)
                /\ table'[s][k].ref = rows[w][1]
                /\ \E n \in Nat : Longer(rows[w][1].stream, n, rows[w][1])
<1>1. PICK i \in DOMAIN rows[w], n \in Nat :
        /\ Conflicts(rows[w]) = {}
        /\ table' = Inserted(rows[w])
        /\ rows[w][i].stream = s
        /\ Longer(s, n, rows[w][i])
  BY CommitGrows
<1>2. k = n + 1 /\ table'[s][k] = rows[w][i]
  BY <1>1 DEF Longer
<1>3. ASSUME rows[w][i].kind = "accepted"
      PROVE  /\ TurnRows(w)
             /\ rows[w][i].ref = rows[w][1]
             /\ \E m \in Nat : Longer(rows[w][1].stream, m, rows[w][1])
  <2>1. CASE OneRow(w)
    <3>1. DOMAIN <<rows[w][1]>> = {1}
      OBVIOUS
    <3>2. i = 1
      BY <2>1, <3>1 DEF OneRow
    <3> QED BY <1>3, <2>1, <3>2 DEF OneRow
  <2>2. CASE TurnRows(w)
    <3>1. DOMAIN <<rows[w][1], rows[w][2]>> = {1, 2}
      OBVIOUS
    <3>2. DOMAIN rows[w] = {1, 2}
      BY <2>2, <3>1 DEF TurnRows
    <3>3. i = 2
      BY <1>3, <2>2, <3>2 DEF TurnRows
    <3>4. /\ Fits(rows[w][1], table)
          /\ rows[w][1].stream \in EventStreams
          /\ 1 \in DOMAIN rows[w]
          /\ 1 \notin Conflicts(rows[w])
          /\ \A j \in DOMAIN rows[w] :
                rows[w][j].stream = rows[w][1].stream => j = 1
      BY <1>1, <2>2, <3>2, RowsUnderWay DEF TurnRows, Fits
    <3>5. \E m \in Nat : Longer(rows[w][1].stream, m, rows[w][1])
      BY <1>1, <3>4, InsertedRow DEF IInv
    <3> QED BY <2>2, <3>3, <3>5 DEF TurnRows
  <2> QED BY <2>1, <2>2 DEF IInv, RowsOK, Idle
<1> QED BY <1>1, <1>2, <1>3

LEMMA CommitAppends ==
    ASSUME IInv, NEW w \in Writers, ~Idle(w), CommitRows(w, rows[w])
    PROVE  Log!Append
<1>1. ASSUME NEW s \in EventStreams
      PROVE  table'[s] = table[s] \/ Log!GrowsByOne(table[s], table'[s])
  <2>1. ASSUME NEW n \in Nat, NEW r, Longer(s, n, r)
        PROVE  Log!GrowsByOne(table[s], table'[s])
    <3>1. n \in {0} \cup DOMAIN table[s]
      BY <2>1 DEF Longer
    <3> QED BY <2>1, <3>1 DEF Longer, Log!GrowsByOne, Log!HashAt
  <2> QED BY <2>1, CommitGrows
<1>2. ASSUME NEW s \in EventStreams, NEW k \in DOMAIN table'[s],
             k \notin DOMAIN table[s], table'[s][k].kind = "accepted"
      PROVE  \E q \in EventStreams : \E j \in DOMAIN table'[q] :
                /\ table'[q][j] = table'[s][k].ref
                /\ table'[s][k].ref.kind = "intention"
                /\ j \notin DOMAIN table[q]
  <2>1. /\ TurnRows(w)
        /\ table'[s][k].ref = rows[w][1]
        /\ \E n \in Nat : Longer(rows[w][1].stream, n, rows[w][1])
    BY <1>2, AddedEntry
  <2>2. PICK n \in Nat : Longer(rows[w][1].stream, n, rows[w][1])
    BY <2>1
  <2>3. /\ n + 1 \in DOMAIN table'[rows[w][1].stream]
        /\ n + 1 \notin DOMAIN table[rows[w][1].stream]
        /\ table'[rows[w][1].stream][n + 1] = rows[w][1]
    BY <2>2 DEF Longer
  <2>4. rows[w][1].stream \in EventStreams /\ rows[w][1].kind = "intention"
    BY <2>1 DEF TurnRows, Fits
  <2> QED BY <2>1, <2>3, <2>4
<1> QED BY <1>1, <1>2 DEF Log!Append, Log!PairedIn

\* The writer implements the abstract log: a step of any writer appends at most
\* one linked entry to each stream, with the two rows of a turn together, or
\* leaves every stream as it is; only the loss of a tail shortens one.
THEOREM Implements == Spec => LogSpec
<1>1. Init => Log!Init
  BY DEF Init, Log!Init
<1>2. IInv /\ [Next]_vars => [Log!Next]_table
  <2> SUFFICES ASSUME IInv, [Next]_vars, table' /= table
               PROVE  Log!Next
    OBVIOUS
  <2> USE DEF store
  <2>1. ASSUME NEW w \in Writers, Commit(w) PROVE Log!Append
    BY <2>1, CommitAppends DEF Commit, Idle
  <2>2. ASSUME NEW w \in Writers, CommitAttachment(w) PROVE Log!Append
    BY <2>2, CommitAppends DEF CommitAttachment
  <2>3. ASSUME NEW s \in EventStreams, LoseTail(s) PROVE Log!Lose
    BY <2>3 DEF LoseTail, Log!Lose
  <2> QED
    BY <2>1, <2>2, <2>3
    DEF Next, Serve, vars, RegisterRun, Call, CallAcknowledge, Enqueue, Refuse,
        EnterSigned, EnterUnsigned, EnterAcknowledge, SignChannel, SignFails,
        InsertCheckpointManifest, Recover, Crash, Restart, Log!Next
<1> QED BY <1>1, <1>2, Invariance, PTL DEF Spec, LogSpec, Log!Spec

---------------------------------------------------------------------------
(* Type correctness *)

\* What TypeOK says of the variables that IInv does not mention.
MemoryOK ==
    /\ registered \in BOOLEAN
    /\ DOMAIN attachments \subseteq Paths
    /\ \A r \in forks : r.stream \in EventStreams
    /\ vetted \in [Writers -> {"no", "yes", "waived"}]
    /\ DOMAIN queue = Writers
    /\ DOMAIN block = Writers
    /\ \A w \in Writers : ~up[w] => queue[w] = <<>> /\ block[w] = {}

LEMMA CommitKeepsForks ==
    ASSUME IInv, MemoryOK, NEW w \in Writers, ~Idle(w), up[w],
           CommitRows(w, rows[w])
    PROVE  /\ \A r \in forks' : r.stream \in EventStreams
           /\ DOMAIN block' = Writers
           /\ \A v \in Writers \ {w} : block'[v] = block[v]
<1>1. ASSUME NEW i \in Forked(rows[w])
      PROVE  /\ rows[w][i].stream \in EventStreams
             /\ table[rows[w][i].stream][rows[w][i].seq].stream \in EventStreams
  <2>1. i \in DOMAIN rows[w] /\ rows[w][i].seq \in DOMAIN table[rows[w][i].stream]
    BY DEF Forked, Conflicts, Taken
  <2>2. rows[w][i].stream \in EventStreams
    BY <2>1, RowsUnderWay DEF IInv, RowsOK, Idle, Fits
  <2> QED BY <2>1, <2>2 DEF IInv, TableOK
<1> QED BY <1>1 DEF CommitRows, MemoryOK

LEMMA InitMemory == Init => MemoryOK
<1> SUFFICES ASSUME Init PROVE MemoryOK
  OBVIOUS
<1>1. DOMAIN attachments = {} /\ forks = {} /\ registered = FALSE
  BY DEF Init
<1>2. /\ vetted \in [Writers -> {"no", "yes", "waived"}]
      /\ DOMAIN queue = Writers
      /\ DOMAIN block = Writers
      /\ \A w \in Writers : up[w]
  BY DEF Init
<1> QED BY <1>1, <1>2 DEF MemoryOK

LEMMA MemoryInvariance ==
    IInv /\ MemoryOK /\ [Next]_vars => MemoryOK'
<1> SUFFICES ASSUME IInv, MemoryOK, [Next]_vars PROVE MemoryOK'
  OBVIOUS
<1> USE DEF store, MemoryOK
<1>1. CASE UNCHANGED vars
  BY <1>1 DEF vars
<1>2. ASSUME NEW w \in Writers, RegisterRun(w) PROVE MemoryOK'
  BY <1>2 DEF RegisterRun
<1>3. ASSUME NEW w \in Writers, NEW call, Enqueue(w, call) PROVE MemoryOK'
  <2>1. up[w] /\ queue' = [queue EXCEPT ![w] = Append(@, call)]
    BY <1>3 DEF Enqueue, Free
  <2> QED BY <1>3, <2>1 DEF Enqueue
<1>4. ASSUME NEW w \in Writers, NEW req \in Requests, Call(w, req) PROVE MemoryOK'
  BY <1>3, <1>4 DEF Call
<1>5. ASSUME NEW w \in Writers, CallAcknowledge(w) PROVE MemoryOK'
  BY <1>3, <1>5 DEF CallAcknowledge
<1>6. ASSUME NEW w \in Writers,
             \/ Refuse(w)
             \/ EnterSigned(w)
             \/ EnterUnsigned(w)
             \/ EnterAcknowledge(w)
             \/ SignChannel(w)
             \/ SignFails(w)
      PROVE MemoryOK'
  <2>1. CASE EnterAcknowledge(w)
    BY <2>1 DEF EnterAcknowledge, Pop
  <2>2. CASE SignFails(w)
    BY <2>2 DEF SignFails
  <2>3. CASE SignChannel(w)
    BY <2>3 DEF SignChannel
  <2>4. CASE Refuse(w) \/ EnterSigned(w) \/ EnterUnsigned(w)
    <3>1. /\ up[w]
          /\ queue' = [queue EXCEPT ![w] = Tail(@)]
          /\ UNCHANGED <<store, up, block, vetted>>
      BY <2>4 DEF Refuse, EnterSigned, EnterUnsigned, Pop
    <3> QED BY <3>1
  <2> QED BY <1>6, <2>1, <2>2, <2>3, <2>4
<1>7. ASSUME NEW w \in Writers, Commit(w) PROVE MemoryOK'
  <2>1. /\ up[w] /\ ~Idle(w) /\ CommitRows(w, rows[w])
        /\ UNCHANGED <<registered, attachments, manifests, up, queue, vetted>>
    BY <1>7 DEF Commit, Idle
  <2> QED BY <2>1, CommitKeepsForks
<1>8. ASSUME NEW w \in Writers, CommitAttachment(w) PROVE MemoryOK'
  <2>1. /\ up[w] /\ ~Idle(w)
        /\ UNCHANGED <<registered, up, queue, vetted>>
    BY <1>8 DEF CommitAttachment
  <2>2. DOMAIN attachments' \subseteq Paths
    BY <1>8 DEF CommitAttachment
  <2>3. CASE UNCHANGED <<table, attachments, forks, block>>
    BY <2>1, <2>3
  <2>4. CASE CommitRows(w, rows[w])
    BY <2>1, <2>2, <2>4, CommitKeepsForks
  <2> QED BY <1>8, <2>3, <2>4 DEF CommitAttachment
<1>9. ASSUME NEW w \in Writers, InsertCheckpointManifest(w) PROVE MemoryOK'
  BY <1>9 DEF InsertCheckpointManifest
<1>10. ASSUME NEW w \in Writers, Recover(w) PROVE MemoryOK'
  BY <1>10 DEF Recover, Free
<1>11. ASSUME NEW w \in Writers, Crash(w) PROVE MemoryOK'
  BY <1>11 DEF Crash, IInv, RowsOK
<1>12. ASSUME NEW w \in Writers, Restart(w) PROVE MemoryOK'
  BY <1>12 DEF Restart, IInv, RowsOK
<1>13. ASSUME NEW s \in EventStreams, LoseTail(s) PROVE MemoryOK'
  BY <1>13 DEF LoseTail
<1> QED
  BY <1>1, <1>2, <1>4, <1>5, <1>6, <1>7, <1>8, <1>9, <1>10, <1>11, <1>12, <1>13
  DEF Next, Serve

\* The variables keep their types for every number of writers and requests.
THEOREM TypeCorrect == Spec => []TypeOK
<1>1. IInv /\ MemoryOK => TypeOK
  <2> SUFFICES ASSUME IInv, MemoryOK PROVE TypeOK
    OBVIOUS
  <2>1. ASSUME NEW s \in EventStreams, NEW k \in DOMAIN table[s]
        PROVE  /\ k \in Nat \ {0}
               /\ table[s][k].stream = s
               /\ table[s][k].seq = k
    BY DEF IInv, TableOK, Dense
  <2>2. ASSUME NEW w \in Writers
        PROVE  /\ Len(rows[w]) <= 2
               /\ \A i \in DOMAIN rows[w] : /\ rows[w][i].stream \in EventStreams
                                            /\ rows[w][i].seq \in Nat \ {0}
    <3>1. CASE rows[w] = <<>>
      BY <3>1
    <3>2. CASE OneRow(w) \/ TurnRows(w)
      <4>1. \A i \in DOMAIN rows[w] : Fits(rows[w][i], table)
        BY <3>2, RowsUnderWay
      <4>2. ASSUME OneRow(w) PROVE Len(rows[w]) = 1
        <5>1. Len(<<rows[w][1]>>) = 1
          OBVIOUS
        <5> QED BY <4>2, <5>1, Zenon DEF OneRow
      <4>3. ASSUME TurnRows(w) PROVE Len(rows[w]) = 2
        <5>1. Len(<<rows[w][1], rows[w][2]>>) = 2
          OBVIOUS
        <5> QED BY <4>3, <5>1, Zenon DEF TurnRows
      <4>4. Len(rows[w]) <= 2
        <5>1. Len(rows[w]) = 1 \/ Len(rows[w]) = 2
          BY <3>2, <4>2, <4>3, Zenon
        <5>2. \A l : l = 1 \/ l = 2 => l <= 2
          OBVIOUS
        <5> QED BY <5>1, <5>2, Zenon
      <4>5. \A i \in DOMAIN rows[w] : /\ rows[w][i].stream \in EventStreams
                                      /\ rows[w][i].seq \in Nat \ {0}
        BY <4>1 DEF Fits, Follows
      <4> QED BY <4>4, <4>5
    <3> QED BY <3>1, <3>2 DEF IInv, RowsOK
  <2>3. ASSUME NEW w \in Writers, ~up[w]
        PROVE  queue[w] = <<>> /\ rows[w] = <<>> /\ block[w] = {}
    BY <2>3 DEF IInv, RowsOK, MemoryOK
  <2> QED BY <2>1, <2>2, <2>3 DEF TypeOK, MemoryOK, IInv, TableOK, RowsOK
<1> QED BY <1>1, InitIInv, NextIInv, InitMemory, MemoryInvariance, PTL DEF Spec

---------------------------------------------------------------------------
(* The two rows of a turn *)

Accepted(r) == r.kind = "accepted"
Intended(r) == r.kind = "intention"

PairInv ==
    /\ \A r \in Committed("channel") : Accepted(r) =>
            Intended(r.ref) /\ \E l \in Ledgers : r.ref \in Committed(l)
    /\ \A l \in Ledgers : \A r \in Committed(l) : Intended(r) =>
            \E q \in Committed("channel") : Accepted(q) /\ q.ref = r
    /\ \A r, q \in Committed("channel") :
            Accepted(r) /\ Accepted(q) /\ r.ref = q.ref => r = q

\* An entry that a commit of w adds to s is one of its rows, and if it is an
\* accepted message, it names the intention that is added with it.
LEMMA NewlyCommitted ==
    ASSUME IInv, NEW w \in Writers, ~Idle(w), CommitRows(w, rows[w]),
           NEW s \in EventStreams, NEW r \in Committed(s)', r \notin Committed(s)
    PROVE  /\ Conflicts(rows[w]) = {}
           /\ \E i \in DOMAIN rows[w] : r = rows[w][i]
           /\ Accepted(r) =>
                /\ TurnRows(w)
                /\ r.ref = rows[w][1]
                /\ \E n \in Nat : Longer(rows[w][1].stream, n, rows[w][1])
<1>1. Grows(table, table')
  BY CommitKeepsTable
<1>2. PICK k \in DOMAIN table'[s] : r = table'[s][k]
  BY DEF Committed
<1>3. k \notin DOMAIN table[s]
  BY <1>1, <1>2 DEF Grows, Committed
<1> QED BY <1>2, <1>3, AddedEntry DEF Accepted

LEMMA CommittedGrows ==
    ASSUME Grows(table, table'), NEW s \in EventStreams, NEW r \in Committed(s)
    PROVE  r \in Committed(s)'
BY DEF Grows, Committed

\* The message of a committed turn is in the channel.
LEMMA TurnLands ==
    ASSUME IInv, NEW w \in Writers, TurnRows(w), CommitRows(w, rows[w]),
           Conflicts(rows[w]) = {}
    PROVE  rows[w][2] \in Committed("channel")'
<1>1. DOMAIN <<rows[w][1], rows[w][2]>> = {1, 2}
  OBVIOUS
<1>2. DOMAIN rows[w] = {1, 2}
  BY <1>1, Zenon DEF TurnRows
<1>3. table' = Inserted(rows[w])
  BY DEF CommitRows, Forked
<1>4. /\ Fits(rows[w][2], table)
      /\ rows[w][2].stream = "channel"
      /\ 2 \in DOMAIN rows[w]
      /\ 2 \notin Conflicts(rows[w])
      /\ \A j \in DOMAIN rows[w] : rows[w][j].stream = "channel" => j = 2
      /\ "channel" \in EventStreams
  BY <1>2, RowsUnderWay DEF TurnRows, EventStreams
<1>5. PICK n \in Nat : Longer("channel", n, rows[w][2])
  BY <1>3, <1>4, InsertedRow DEF IInv
<1>6. n + 1 \in DOMAIN table'["channel"] /\ table'["channel"][n + 1] = rows[w][2]
  BY <1>5 DEF Longer
<1> QED BY <1>6 DEF Committed

LEMMA CommitKeepsPairs ==
    ASSUME IInv, PairInv, NEW w \in Writers, ~Idle(w), CommitRows(w, rows[w]),
           OneRow(w) => current[w].op /= "commitTurn"
    PROVE  PairInv'
<1>1. Grows(table, table')
  BY CommitKeepsTable
<1>2. "channel" \in EventStreams /\ Ledgers \subseteq EventStreams
  BY DEF EventStreams, Ledgers
<1>3. ASSUME NEW r \in Committed("channel")', Accepted(r)
      PROVE  Intended(r.ref) /\ \E l \in Ledgers : r.ref \in Committed(l)'
  <2>1. CASE r \in Committed("channel")
    <3>1. PICK l \in Ledgers : r.ref \in Committed(l)
      BY <1>3, <2>1 DEF PairInv
    <3>2. r.ref \in Committed(l)'
      BY <1>1, <1>2, <3>1, CommittedGrows
    <3> QED BY <1>3, <2>1, <3>2 DEF PairInv
  <2>2. CASE r \notin Committed("channel")
    <3>1. /\ TurnRows(w)
          /\ r.ref = rows[w][1]
          /\ \E n \in Nat : Longer(rows[w][1].stream, n, rows[w][1])
      BY <1>2, <1>3, <2>2, NewlyCommitted
    <3>2. PICK n \in Nat : Longer(rows[w][1].stream, n, rows[w][1])
      BY <3>1
    <3>3. /\ n + 1 \in DOMAIN table'[rows[w][1].stream]
          /\ table'[rows[w][1].stream][n + 1] = rows[w][1]
      BY <3>2 DEF Longer
    <3>4. PICK l \in Ledgers : rows[w][1].stream = l
      BY <3>1 DEF TurnRows
    <3>5. r.ref \in Committed(l)'
      BY <3>1, <3>3, <3>4 DEF Committed
    <3>6. Intended(r.ref)
      BY <3>1 DEF TurnRows, Intended
    <3> QED BY <3>5, <3>6
  <2> QED BY <2>1, <2>2
<1>4. ASSUME NEW l \in Ledgers, NEW r \in Committed(l)', Intended(r)
      PROVE  \E q \in Committed("channel")' : Accepted(q) /\ q.ref = r
  <2>1. CASE r \in Committed(l)
    <3>1. PICK q \in Committed("channel") : Accepted(q) /\ q.ref = r
      BY <1>4, <2>1 DEF PairInv
    <3>2. q \in Committed("channel")'
      BY <1>1, <1>2, CommittedGrows
    <3> QED BY <3>1, <3>2
  <2>2. CASE r \notin Committed(l)
    <3>1. PICK i \in DOMAIN rows[w] : r = rows[w][i]
      BY <1>2, <2>2, NewlyCommitted
    <3>2. Conflicts(rows[w]) = {}
      BY <1>2, <2>2, NewlyCommitted
    <3>3. CASE OneRow(w)
      <4>1. DOMAIN <<rows[w][1]>> = {1}
        OBVIOUS
      <4>2. i = 1
        BY <3>1, <3>3, <4>1 DEF OneRow
      <4> QED BY <1>4, <3>1, <3>3, <4>2 DEF OneRow, Intended
    <3>4. CASE TurnRows(w)
      <4>1. DOMAIN <<rows[w][1], rows[w][2]>> = {1, 2}
        OBVIOUS
      <4>2. i \in {1, 2}
        BY <3>1, <3>4, <4>1 DEF TurnRows
      <4>3. i = 1
        BY <1>4, <3>1, <3>4, <4>2 DEF TurnRows, Intended
      <4> QED BY <3>1, <3>2, <3>4, <4>3, TurnLands DEF TurnRows, Accepted
    <3> QED BY <3>3, <3>4 DEF IInv, RowsOK, Idle
  <2> QED BY <2>1, <2>2
<1>5. ASSUME NEW r \in Committed("channel")', NEW q \in Committed("channel"),
             Accepted(r), Accepted(q), r.ref = q.ref
      PROVE  r \in Committed("channel")
  <2> SUFFICES ASSUME r \notin Committed("channel") PROVE FALSE
    OBVIOUS
  <2>1. /\ TurnRows(w)
        /\ r.ref = rows[w][1]
        /\ \E n \in Nat : Longer(rows[w][1].stream, n, rows[w][1])
    BY <1>2, <1>5, NewlyCommitted
  <2>2. PICK n \in Nat : Longer(rows[w][1].stream, n, rows[w][1])
    BY <2>1
  <2>3. PICK l \in Ledgers : q.ref \in Committed(l)
    BY <1>5 DEF PairInv
  <2>4. PICK k \in DOMAIN table[l] : q.ref = table[l][k]
    BY <2>3 DEF Committed
  <2>5. table[l][k].stream = l /\ table[l][k].seq = k
    BY <1>2, <2>4 DEF IInv, TableOK
  <2>6. rows[w][1].stream = l /\ rows[w][1].seq = k
    BY <1>5, <2>1, <2>4, <2>5
  <2> QED BY <2>2, <2>4, <2>6 DEF Longer
<1>6. ASSUME NEW r \in Committed("channel")', NEW q \in Committed("channel")',
             Accepted(r), Accepted(q), r.ref = q.ref
      PROVE  r = q
  <2>1. CASE r \in Committed("channel") /\ q \in Committed("channel")
    BY <1>6, <2>1 DEF PairInv
  <2>2. CASE r \notin Committed("channel") /\ q \notin Committed("channel")
    <3>1. ASSUME NEW e \in {r, q}
          PROVE  e = rows[w][2]
      <4>1. /\ TurnRows(w)
            /\ \E i \in DOMAIN rows[w] : e = rows[w][i]
        BY <1>2, <1>6, <2>2, NewlyCommitted
      <4>2. DOMAIN <<rows[w][1], rows[w][2]>> = {1, 2}
        OBVIOUS
      <4>3. DOMAIN rows[w] = {1, 2}
        BY <4>1, <4>2, Zenon DEF TurnRows
      <4> QED BY <1>6, <4>1, <4>3 DEF TurnRows, Accepted
    <3> QED BY <3>1
  <2>3. CASE r \notin Committed("channel") /\ q \in Committed("channel")
    BY <1>5, <1>6, <2>3
  <2>4. CASE r \in Committed("channel") /\ q \notin Committed("channel")
    BY <1>5, <1>6, <2>4
  <2> QED BY <2>1, <2>2, <2>3, <2>4
<1> QED BY <1>3, <1>4, <1>6 DEF PairInv

\* As long as no tail is lost, each accepted message and its sender's private
\* intention are in the store together, one for one, whichever of several
\* writers committed them and whatever failed on the way.
THEOREM TurnsArePaired == Spec => []TurnPairs
<1>1. TailLoss \/ Init => TailLoss \/ PairInv
  BY DEF Init, PairInv, Committed, EventStreams, Ledgers
<1>2. IInv /\ (TailLoss \/ PairInv) /\ [Next]_vars => (TailLoss \/ PairInv)'
  <2> SUFFICES ASSUME IInv, PairInv, [Next]_vars, ~TailLoss PROVE PairInv'
    OBVIOUS
  <2> USE DEF store
  <2>1. CASE UNCHANGED table
    BY <2>1 DEF PairInv, Committed, Accepted, Intended
  <2>2. ASSUME NEW w \in Writers, Commit(w) PROVE PairInv'
    <3>1. Len(<<rows[w][1]>>) = 1
      OBVIOUS
    <3>2. OneRow(w) => Len(rows[w]) = 1
      BY <3>1, Zenon DEF OneRow
    <3>3. OneRow(w) => current[w].op /= "commitTurn"
      BY <2>2, <3>2 DEF Commit
    <3> QED BY <2>2, <3>3, CommitKeepsPairs DEF Commit, Idle
  <2>3. ASSUME NEW w \in Writers, CommitAttachment(w) PROVE PairInv'
    BY <2>1, <2>3, CommitKeepsPairs DEF CommitAttachment
  <2>4. ASSUME NEW s \in EventStreams, LoseTail(s) PROVE PairInv'
    BY <2>4 DEF LoseTail
  <2> QED
    BY <2>1, <2>2, <2>3, <2>4
    DEF Next, Serve, vars, RegisterRun, Call, CallAcknowledge, Enqueue, Refuse,
        EnterSigned, EnterUnsigned, EnterAcknowledge, SignChannel, SignFails,
        InsertCheckpointManifest, Recover, Crash, Restart
<1>3. PairInv => TurnPairs
  <2>1. {LedgerOf(b) : b \in Roles} = Ledgers
    BY DEF LedgerOf, Roles, Ledgers
  <2>2. ASSUME NEW r
        PROVE  r \in UNION {Committed(LedgerOf(b)) : b \in Roles} <=>
                    \E l \in Ledgers : r \in Committed(l)
    BY <2>1
  <2> QED BY <2>2 DEF PairInv, TurnPairs, Accepted, Intended
<1> QED BY <1>1, <1>2, <1>3, Invariance, TailLossAssumption, PTL DEF Spec, TurnPairs

---------------------------------------------------------------------------
(* What the store keeps *)

\* Every set of natural numbers with an element has a least one.
LEMMA LeastNat ==
    ASSUME NEW T, T \subseteq Nat, T # {}
    PROVE  \E x \in T : \A y \in T : x <= y
<1> DEFINE R == OpToRel(<, Nat)
<1>1. IsWellFoundedOn(R, Nat)
  BY NatLessThanWellFounded
<1>2. \A x, y \in Nat : x < y => <<x, y>> \in R
  BY DEF OpToRel
<1> HIDE DEF R
<1>3. PICK x \in T : \A y \in T : ~ (<<y, x>> \in R)
  BY <1>1, WFMin
<1>4. ASSUME NEW y \in T PROVE x <= y
  <2>1. ~ (y < x)
    BY <1>2, <1>3
  <2> QED BY <2>1
<1> QED BY <1>4

---------------------------------------------------------------------------
(* Chains *)

Chain(t) == Dense(t) /\ \A k \in DOMAIN t : t[k].seq = k /\ Follows(t[k], t)

LEMMA TablesAreChains ==
    ASSUME TableOK, NEW s \in EventStreams
    PROVE  Chain(table[s])
BY DEF TableOK, Chain

\* Two chains with the same k-th entry are the same up to it.
LEMMA SharedEntry ==
    ASSUME NEW t, NEW u, Chain(t), Chain(u),
           NEW k \in DOMAIN t, k \in DOMAIN u, t[k] = u[k]
    PROVE  \A j \in 1..k : j \in DOMAIN t /\ j \in DOMAIN u /\ t[j] = u[j]
<1>1. PICK m \in Nat : DOMAIN t = 1..m
  BY DEF Chain, Dense
<1>2. PICK n \in Nat : DOMAIN u = 1..n
  BY DEF Chain, Dense
<1>3. \A j \in 1..k : j \in DOMAIN t /\ j \in DOMAIN u
  BY <1>1, <1>2
<1> DEFINE Differ == {d \in 0..(k - 1) : t[k - d] # u[k - d]}
<1>4. CASE Differ = {}
  <2>1. ASSUME NEW j \in 1..k PROVE t[j] = u[j]
    <3>1. k - j \in 0..(k - 1) /\ k - (k - j) = j
      BY <1>1
    <3> QED BY <1>4, <3>1
  <2> QED BY <1>3, <2>1
<1>5. CASE Differ # {}
  <2>0. Differ \subseteq Nat
    BY <1>1
  <2>1. PICK d \in Differ : \A e \in Differ : d <= e
    <3> HIDE DEF Differ
    <3> QED BY <1>5, <2>0, LeastNat
  <2>2. d # 0
    BY <1>1
  <2>3. d - 1 \in 0..(k - 1) /\ d - 1 \notin Differ
    BY <1>1, <2>1, <2>2
  <2> DEFINE i == k - d + 1
  <2>4. i \in 2..k /\ i = k - (d - 1) /\ i - 1 = k - d
    BY <1>1, <2>1, <2>2
  <2>5. t[i] = u[i]
    BY <2>3, <2>4
  <2>6. t[i].seq = i /\ t[i].prev = t[i - 1]
    BY <1>3, <2>4 DEF Chain, Follows
  <2>7. u[i].seq = i /\ u[i].prev = u[i - 1]
    BY <1>3, <2>4 DEF Chain, Follows
  <2> QED BY <2>1, <2>4, <2>5, <2>6, <2>7
<1> QED BY <1>4, <1>5

---------------------------------------------------------------------------
(* Checkpoints under a writer that recover() found in order *)

Newest == manifests[Len(manifests)]

\* What manifest m commits of stream s is in the chain t.
Keeps(t, m, s) ==
    m.size[s] > 0 => m.size[s] \in DOMAIN t /\ t[m.size[s]] = m.last[s]

\* Each manifest was cut from chains that kept all that the ones before it
\* had committed.
ManifestsOK ==
    /\ \E S : manifests \in Seq(S)
    /\ \A j \in 1..Len(manifests), s \in EventStreams :
        /\ manifests[j].size[s] \in Nat
        /\ \E t : /\ Chain(t)
                  /\ DOMAIN t = 1..manifests[j].size[s]
                  /\ \A i \in 1..j : Keeps(t, manifests[i], s)

VettedInv ==
    \A w \in Writers :
        /\ ~up[w] => vetted[w] /= "yes"
        /\ vetted[w] = "yes" /\ block[w] = {} /\ manifests /= <<>> =>
            \A s \in EventStreams : Keeps(table[s], Newest, s)

\* Commits compares the length too, which says nothing more of a dense chain.
LEMMA CommitsIsKeeps ==
    ASSUME TableOK, NEW m, NEW s \in EventStreams, m.size[s] \in Nat
    PROVE  Commits(table, m, s) <=> Keeps(table[s], m, s)
<1>1. PICK n \in Nat : DOMAIN table[s] = 1..n
  BY DEF TableOK, Dense
<1>2. Size(table[s]) = n
  BY <1>1, ChainHead
<1> QED BY <1>1, <1>2 DEF Commits, Keeps

\* A chain that keeps what the newest manifest commits keeps what every one
\* does.
LEMMA NewestIsEnough ==
    ASSUME TableOK, ManifestsOK, NEW s \in EventStreams, manifests /= <<>>,
           Keeps(table[s], Newest, s), NEW j \in 1..Len(manifests)
    PROVE  Keeps(table[s], manifests[j], s)
<1>1. Len(manifests) \in 1..Len(manifests)
  BY DEF ManifestsOK
<1> DEFINE n == Newest.size[s]
           k == manifests[j].size[s]
<1>2. n \in Nat /\ k \in Nat
  BY <1>1 DEF ManifestsOK, Newest
<1>3. PICK t : /\ Chain(t)
               /\ DOMAIN t = 1..n
               /\ \A i \in 1..Len(manifests) : Keeps(t, manifests[i], s)
  BY <1>1 DEF ManifestsOK, Newest
<1>4. SUFFICES ASSUME k > 0
               PROVE  k \in DOMAIN table[s] /\ table[s][k] = manifests[j].last[s]
  BY DEF Keeps
<1>5. k \in 1..n /\ t[k] = manifests[j].last[s]
  BY <1>3, <1>4 DEF Keeps
<1>6. n > 0 /\ n \in DOMAIN t /\ t[n] = Newest.last[s]
  BY <1>1, <1>2, <1>3, <1>5 DEF Keeps, Newest
<1>7. n \in DOMAIN table[s] /\ table[s][n] = t[n]
  BY <1>6 DEF Keeps
<1>8. Chain(table[s])
  BY TablesAreChains
<1>9. \A i \in 1..n : i \in DOMAIN table[s] /\ table[s][i] = t[i]
  <2> HIDE DEF n
  <2> QED BY <1>3, <1>6, <1>7, <1>8, SharedEntry
<1> QED BY <1>5, <1>9

LEMMA KeepsStable ==
    ASSUME Grows(table, table'), NEW m, NEW s \in EventStreams,
           Keeps(table[s], m, s)
    PROVE  Keeps(table'[s], m, s)
BY DEF Grows, Keeps

\* The manifest of the present heads.
LEMMA ManifestStep ==
    ASSUME IInv, ManifestsOK, NEW w \in Writers, InsertCheckpointManifest(w)
    PROVE  /\ ManifestsOK'
           /\ manifests' /= <<>>
           /\ \A s \in EventStreams : Keeps(table[s], Newest', s)
<1> DEFINE m == [size |-> [s \in EventStreams |-> Size(table[s])],
                 last |-> [s \in EventStreams |-> LastHash(table[s])]]
<1>1. manifests' = Append(manifests, m) /\ table' = table
  BY DEF InsertCheckpointManifest
<1>2. PICK S : manifests \in Seq(S)
  BY DEF ManifestsOK
<1>3. /\ manifests \in Seq(S \cup {m})
      /\ manifests' \in Seq(S \cup {m})
      /\ Len(manifests') = Len(manifests) + 1
      /\ Len(manifests) \in Nat
      /\ manifests'[Len(manifests) + 1] = m
      /\ \A i \in 1..Len(manifests) : manifests'[i] = manifests[i]
  BY <1>1, <1>2
<1>4. Newest' = m
  BY <1>3 DEF Newest
<1>5. \A s \in EventStreams : m.size[s] = Size(table[s]) /\ m.last[s] = LastHash(table[s])
  OBVIOUS
<1> HIDE DEF m
<1>6. ASSUME NEW s \in EventStreams
      PROVE  /\ m.size[s] \in Nat
             /\ DOMAIN table[s] = 1..m.size[s]
             /\ Keeps(table[s], m, s)
  <2>1. PICK n \in Nat : DOMAIN table[s] = 1..n
    BY DEF IInv, TableOK, Dense
  <2>2. Size(table[s]) = n /\ (n > 0 => LastHash(table[s]) = table[s][n])
    BY <2>1, ChainHead
  <2> QED BY <1>5, <2>1, <2>2 DEF Keeps
<1>7. ASSUME NEW s \in EventStreams, NEW i \in 1..Len(manifests)
      PROVE  Keeps(table[s], manifests[i], s)
  <2>1. manifests /= <<>>
    BY <1>2
  <2>2. Len(manifests) \in 1..Len(manifests)
    BY <1>3
  <2>3. Newest.size[s] \in Nat
    BY <2>2 DEF ManifestsOK, Newest
  <2>4. Commits(table, Newest, s)
    BY <2>1 DEF InsertCheckpointManifest, Newest
  <2>5. Keeps(table[s], Newest, s)
    BY <2>3, <2>4, CommitsIsKeeps DEF IInv
  <2> QED BY <2>1, <2>5, NewestIsEnough DEF IInv
<1>8. ASSUME NEW j \in 1..Len(manifests'), NEW s \in EventStreams
      PROVE  /\ manifests'[j].size[s] \in Nat
             /\ \E t : /\ Chain(t)
                       /\ DOMAIN t = 1..manifests'[j].size[s]
                       /\ \A i \in 1..j : Keeps(t, manifests'[i], s)
  <2>1. CASE j \in 1..Len(manifests)
    <3>1. \A i \in 1..j : manifests'[i] = manifests[i]
      BY <1>3, <2>1
    <3>2. manifests'[j] = manifests[j]
      BY <1>3, <2>1
    <3> QED BY <2>1, <3>1, <3>2 DEF ManifestsOK
  <2>2. CASE j = Len(manifests) + 1
    <3>1. manifests'[j] = m
      BY <1>3, <2>2
    <3>2. \A i \in 1..j : Keeps(table[s], manifests'[i], s)
      BY <1>3, <1>6, <1>7, <2>2
    <3>3. Chain(table[s])
      BY TablesAreChains DEF IInv
    <3> QED BY <1>6, <3>1, <3>2, <3>3
  <2> QED BY <1>3, <2>1, <2>2
<1>9. ManifestsOK'
  BY <1>3, <1>8 DEF ManifestsOK
<1> QED BY <1>3, <1>4, <1>6, <1>9

\* A commit of w keeps what the manifests are compared with: it lets the
\* tables grow, or it blocks w and changes none.
LEMMA CommitKeepsVetted ==
    ASSUME IInv, MemoryOK, VettedInv, NEW w \in Writers, ~Idle(w),
           CommitRows(w, rows[w]), UNCHANGED <<manifests, up, vetted>>
    PROVE  VettedInv'
<1>1. Grows(table, table')
  BY CommitKeepsTable
<1>2. \A v \in Writers : block'[v] = {} => block[v] = {}
  BY DEF CommitRows, MemoryOK
<1>3. ASSUME NEW v \in Writers, vetted'[v] = "yes", block'[v] = {},
             manifests' /= <<>>, NEW s \in EventStreams
      PROVE  Keeps(table'[s], Newest', s)
  <2>1. Keeps(table[s], Newest, s)
    BY <1>2, <1>3 DEF VettedInv
  <2>2. Newest' = Newest
    BY DEF Newest
  <2> QED BY <1>1, <2>1, <2>2, KeepsStable
<1> QED BY <1>3 DEF VettedInv

LEMMA VettedInvariance ==
    IInv /\ MemoryOK /\ ManifestsOK /\ VettedInv /\ [Next]_vars
        => ManifestsOK' /\ VettedInv'
<1> SUFFICES ASSUME IInv, MemoryOK, ManifestsOK, VettedInv, [Next]_vars
             PROVE  ManifestsOK' /\ VettedInv'
  OBVIOUS
<1> USE DEF store
<1>1. ASSUME UNCHANGED manifests PROVE ManifestsOK'
  BY <1>1 DEF ManifestsOK
<1>2. CASE UNCHANGED <<table, manifests, up, block, vetted>>
  BY <1>1, <1>2 DEF VettedInv, Newest
<1>3. ASSUME NEW w \in Writers, Commit(w) PROVE ManifestsOK' /\ VettedInv'
  BY <1>1, <1>3, CommitKeepsVetted DEF Commit, Idle
<1>4. ASSUME NEW w \in Writers, CommitAttachment(w)
      PROVE  ManifestsOK' /\ VettedInv'
  BY <1>1, <1>2, <1>4, CommitKeepsVetted DEF CommitAttachment
<1>5. ASSUME NEW w \in Writers, EnterAcknowledge(w)
      PROVE  ManifestsOK' /\ VettedInv'
  <2>1. /\ UNCHANGED <<table, manifests, up>>
        /\ up[w]
        /\ vetted' = [vetted EXCEPT ![w] = IF @ = "no" THEN "no" ELSE "waived"]
        /\ block' = [block EXCEPT ![w] = {}]
    BY <1>5 DEF EnterAcknowledge
  <2>2. vetted'[w] /= "yes" /\ \A v \in Writers \ {w} : vetted'[v] = vetted[v]
                                                    /\ block'[v] = block[v]
    BY <2>1 DEF MemoryOK
  <2> QED BY <1>1, <2>1, <2>2 DEF VettedInv, Newest
<1>6. ASSUME NEW w \in Writers, InsertCheckpointManifest(w)
      PROVE  ManifestsOK' /\ VettedInv'
  <2>1. /\ ManifestsOK'
        /\ manifests' /= <<>>
        /\ \A s \in EventStreams : Keeps(table[s], Newest', s)
    BY <1>6, ManifestStep
  <2>2. UNCHANGED <<table, up, block, vetted>>
    BY <1>6 DEF InsertCheckpointManifest
  <2> QED BY <2>1, <2>2 DEF VettedInv
<1>7. ASSUME NEW w \in Writers, Recover(w) PROVE ManifestsOK' /\ VettedInv'
  <2>1. /\ UNCHANGED <<table, manifests, up>>
        /\ up[w]
        /\ vetted' = [vetted EXCEPT ![w] = "yes"]
        /\ block' = [block EXCEPT ![w] = Findings]
    BY <1>7 DEF Recover, Free
  <2>2. ASSUME Findings = {}, manifests /= <<>>, NEW s \in EventStreams
        PROVE  Keeps(table[s], Newest, s)
    <3>1. Commits(table, Newest, s)
      BY <2>2 DEF Findings, PrefixFindings, Newest
    <3>2. Len(manifests) \in 1..Len(manifests)
      BY <2>2 DEF ManifestsOK
    <3>3. Newest.size[s] \in Nat
      BY <3>2 DEF ManifestsOK, Newest
    <3> QED BY <3>1, <3>3, CommitsIsKeeps DEF IInv
  <2>3. ASSUME NEW v \in Writers, vetted'[v] = "yes", block'[v] = {},
               manifests /= <<>>, NEW s \in EventStreams
        PROVE  Keeps(table[s], Newest, s)
    <3>1. CASE v = w
      BY <2>1, <2>2, <2>3, <3>1 DEF MemoryOK
    <3>2. CASE v /= w
      BY <2>1, <2>3, <3>2 DEF VettedInv, MemoryOK
    <3> QED BY <3>1, <3>2
  <2>4. \A v \in Writers : ~up'[v] => vetted'[v] /= "yes"
    BY <2>1 DEF VettedInv, MemoryOK
  <2>5. Newest' = Newest
    BY <2>1 DEF Newest
  <2> QED BY <1>1, <2>1, <2>3, <2>4, <2>5 DEF VettedInv
<1>8. ASSUME NEW w \in Writers, Crash(w) PROVE ManifestsOK' /\ VettedInv'
  <2>1. /\ UNCHANGED <<table, manifests>>
        /\ up' = [up EXCEPT ![w] = FALSE]
        /\ vetted' = [vetted EXCEPT ![w] = "no"]
        /\ block' = [block EXCEPT ![w] = {}]
    BY <1>8 DEF Crash
  <2>2. /\ vetted'[w] /= "yes"
        /\ \A v \in Writers \ {w} : /\ vetted'[v] = vetted[v]
                                    /\ block'[v] = block[v]
                                    /\ up'[v] = up[v]
    BY <2>1 DEF MemoryOK, IInv, RowsOK
  <2> QED BY <1>1, <2>1, <2>2 DEF VettedInv, Newest
<1>9. ASSUME NEW w \in Writers, Restart(w) PROVE ManifestsOK' /\ VettedInv'
  <2>1. /\ UNCHANGED <<table, manifests, block, vetted>>
        /\ up' = [up EXCEPT ![w] = TRUE]
    BY <1>9 DEF Restart
  <2>2. \A v \in Writers : ~up'[v] => ~up[v]
    BY <2>1 DEF IInv, RowsOK
  <2> QED BY <1>1, <2>1, <2>2 DEF VettedInv, Newest
<1>10. ASSUME NEW s \in EventStreams, LoseTail(s)
       PROVE  ManifestsOK' /\ VettedInv'
  <2>1. /\ UNCHANGED <<manifests, up, block, vetted>>
        /\ \A w \in Writers : ~up[w]
    BY <1>10 DEF LoseTail
  <2> QED BY <1>1, <2>1 DEF VettedInv
<1> QED
  BY <1>2, <1>3, <1>4, <1>5, <1>6, <1>7, <1>8, <1>9, <1>10
  DEF Next, Serve, vars, RegisterRun, Call, CallAcknowledge, Enqueue, Refuse,
      EnterSigned, EnterUnsigned, SignChannel, SignFails

\* While a writer that ran recover() accepts writes, the streams hold what
\* every stored checkpoint committed, although recover() and the checkpoint
\* service only ever compare the newest one, and although tails may have been
\* lost, and have grown again, under processes that did not run it.
THEOREM VettedIsIntact == Spec => []VettedPrefixIntact
<1>1. Init => ManifestsOK /\ VettedInv
  <2> SUFFICES ASSUME Init PROVE ManifestsOK /\ VettedInv
    OBVIOUS
  <2>1. manifests \in Seq({}) /\ Len(manifests) = 0
    BY DEF Init
  <2>2. ManifestsOK
    BY <2>1 DEF ManifestsOK
  <2> QED BY <2>2 DEF Init, VettedInv
<1>2. IInv /\ ManifestsOK /\ VettedInv => VettedPrefixIntact
  <2> SUFFICES ASSUME IInv, ManifestsOK, VettedInv, NEW w \in Writers,
                      up[w], vetted[w] = "yes", block[w] = {},
                      NEW i \in 1..Len(manifests), NEW s \in EventStreams
               PROVE  Commits(table, manifests[i], s)
    BY DEF VettedPrefixIntact
  <2>1. manifests /= <<>>
    BY DEF ManifestsOK
  <2>2. Keeps(table[s], Newest, s)
    BY <2>1 DEF VettedInv
  <2>3. Keeps(table[s], manifests[i], s)
    BY <2>1, <2>2, NewestIsEnough DEF IInv
  <2> QED BY <2>3, CommitsIsKeeps DEF IInv, ManifestsOK
<1> QED
  BY <1>1, <1>2, InitIInv, NextIInv, InitMemory, MemoryInvariance,
     VettedInvariance, PTL DEF Spec

---------------------------------------------------------------------------
(* Forks *)

\* A fork that a commit of w meets shows the stored entry and the other one.
LEMMA CommitKeepsBoth ==
    ASSUME IInv, MemoryOK, ForkKeepsBoth, NEW w \in Writers, ~Idle(w), up[w],
           CommitRows(w, rows[w])
    PROVE  ForkKeepsBoth'
<1>1. Grows(table, table')
  BY CommitKeepsTable
<1>2. ASSUME UNCHANGED forks PROVE ForkKeepsBoth'
  <2>1. \A r \in forks : r.stream \in EventStreams
    BY DEF MemoryOK
  <2> QED BY <1>1, <1>2, <2>1 DEF ForkKeepsBoth, Grows
<1>3. ASSUME NEW i \in Forked(rows[w]),
             forks' = forks \cup {table[rows[w][i].stream][rows[w][i].seq],
                                  rows[w][i]},
             UNCHANGED table
      PROVE  ForkKeepsBoth'
  <2> DEFINE r == rows[w][i]
             e == table[r.stream][r.seq]
  <2>1. i \in DOMAIN rows[w] /\ r.seq \in DOMAIN table[r.stream] /\ e /= r
    BY DEF Forked, Conflicts, Taken
  <2>2. r.stream \in EventStreams
    BY <2>1, RowsUnderWay DEF IInv, RowsOK, Idle, Fits
  <2>3. e.stream = r.stream /\ e.seq = r.seq
    BY <2>1, <2>2 DEF IInv, TableOK
  <2>4. forks' = forks \cup {e, r}
    BY <1>3
  <2> HIDE DEF e, r
  <2>5. table[e.stream][e.seq] = e /\ table[r.stream][r.seq] = e
    BY <2>3 DEF e
  <2> QED BY <1>3, <2>1, <2>3, <2>4, <2>5, ZenonT(60) DEF ForkKeepsBoth
<1> QED BY <1>2, <1>3 DEF CommitRows

\* A preserved fork shows two different entries for one sequence number, and
\* while no tail is lost, one of them is the entry that the stream keeps.
THEOREM ForksAreKept == Spec => []ForkKeepsBoth
<1>1. Init => ForkKeepsBoth
  BY DEF Init, ForkKeepsBoth
<1>2. IInv /\ MemoryOK /\ ForkKeepsBoth /\ [Next]_vars => ForkKeepsBoth'
  <2> SUFFICES ASSUME IInv, MemoryOK, ForkKeepsBoth, [Next]_vars
               PROVE  ForkKeepsBoth'
    OBVIOUS
  <2> USE DEF store
  <2>1. CASE UNCHANGED <<table, forks>>
    BY <2>1 DEF ForkKeepsBoth
  <2>2. ASSUME NEW w \in Writers, Commit(w) PROVE ForkKeepsBoth'
    BY <2>2, CommitKeepsBoth DEF Commit, Idle
  <2>3. ASSUME NEW w \in Writers, CommitAttachment(w) PROVE ForkKeepsBoth'
    BY <2>1, <2>3, CommitKeepsBoth DEF CommitAttachment
  <2>4. ASSUME NEW s \in EventStreams, LoseTail(s) PROVE ForkKeepsBoth'
    BY <2>4 DEF LoseTail, ForkKeepsBoth
  <2> QED
    BY <2>1, <2>2, <2>3, <2>4
    DEF Next, Serve, vars, RegisterRun, Call, CallAcknowledge, Enqueue, Refuse,
        EnterSigned, EnterUnsigned, EnterAcknowledge, SignChannel, SignFails,
        InsertCheckpointManifest, Recover, Crash, Restart
<1> QED
  BY <1>1, <1>2, InitIInv, NextIInv, InitMemory, MemoryInvariance, PTL DEF Spec

---------------------------------------------------------------------------
(* References and attachments *)

\* Every call that waits is a call of one of the Babies.
QueueOK ==
    \A w \in Writers :
        \E S : queue[w] \in Seq(S) /\ \A call \in S : call.role \in Roles

\* What an entry names is stored.
Refers(r) ==
    /\ r.kind = "interpretation" => \A b \in Roles :
            r.stream = LedgerOf(b) =>
                r.ref \in Committed("channel") /\ r.ref.to = b
    /\ r.stream = "audit" =>
            /\ r.ref.kind = "native"
            /\ \E b \in Roles : r.ref \in Committed(LedgerOf(b))

Announces(r) == r.stream = "intervention" /\ r.kind = "analysis-attached"

Stored == {attachments[p] : p \in DOMAIN attachments}

RowsBound(w) ==
    \A i \in DOMAIN rows[w] :
        /\ Refers(rows[w][i])
        /\ Announces(rows[w][i]) <=> current[w].op = "appendAnalysisAttachment"

BindInv ==
    /\ \A s \in EventStreams : \A r \in Committed(s) : Refers(r)
    /\ \A w \in Writers : RowsBound(w)
    /\ Stored = {r \in Committed("intervention") : Announces(r)}

LEMMA LedgersAreStreams ==
    /\ \A b \in Roles : LedgerOf(b) \in EventStreams \ {"audit", "channel", "intervention"}
    /\ \A b, c \in Roles : LedgerOf(b) = LedgerOf(c) => b = c
    /\ {"audit", "channel", "intervention"} \subseteq EventStreams
BY DEF Roles, LedgerOf, EventStreams

LEMMA RefersStable ==
    ASSUME Grows(table, table'), NEW r, Refers(r)
    PROVE  Refers(r)'
<1>1. \A s \in EventStreams : \A q \in Committed(s) : q \in Committed(s)'
  BY CommittedGrows
<1> QED BY <1>1, LedgersAreStreams DEF Refers

\* The first row of a call that passed Bound names what is stored, and
\* announces an attachment only if the call stores one.
LEMMA BoundRow ==
    ASSUME NEW call, call.role \in Roles, Bound(call), call.op /= "acknowledge",
           NEW r, r.stream = StreamOf(call), r.kind = KindOf(call),
           r.ref = call.ref
    PROVE  /\ Refers(r)
           /\ Announces(r) <=> call.op = "appendAnalysisAttachment"
<1>1. CASE call.op = "appendInterpretation"
  <2>1. /\ r.stream = LedgerOf(call.role)
        /\ r.kind = "interpretation"
        /\ r.ref \in Committed("channel")
        /\ r.ref.to = call.role
    BY <1>1 DEF StreamOf, KindOf, Bound
  <2> QED BY <1>1, <2>1, LedgersAreStreams DEF Refers, Announces
<1>2. CASE call.op = "appendAuditLedgerEntry"
  <2>1. /\ r.stream = "audit"
        /\ r.kind = "record"
        /\ r.ref.kind = "native"
        /\ r.ref \in Committed(LedgerOf(call.role))
    BY <1>2 DEF StreamOf, KindOf, Bound
  <2> QED BY <1>2, <2>1 DEF Refers, Announces
<1>3. CASE call.op \notin {"appendInterpretation", "appendAuditLedgerEntry"}
  <2>1. r.kind /= "interpretation" /\ r.stream /= "audit"
    BY <1>3 DEF StreamOf, KindOf, LedgerOf
  <2>2. Announces(r) <=> call.op = "appendAnalysisAttachment"
    BY <1>3 DEF StreamOf, KindOf, LedgerOf, Announces
  <2> QED BY <2>1, <2>2 DEF Refers
<1> QED BY <1>1, <1>2, <1>3

LEMMA QueueInvariance ==
    IInv /\ MemoryOK /\ QueueOK /\ [Next]_vars => QueueOK'
<1> SUFFICES ASSUME IInv, MemoryOK, QueueOK, [Next]_vars PROVE QueueOK'
  OBVIOUS
<1> USE DEF store
<1>1. CASE UNCHANGED queue
  BY <1>1 DEF QueueOK
<1>2. ASSUME NEW w \in Writers, NEW call, Enqueue(w, call), call.role \in Roles
      PROVE  QueueOK'
  <2>1. /\ queue'[w] = Append(queue[w], call)
        /\ \A v \in Writers \ {w} : queue'[v] = queue[v]
    BY <1>2 DEF Enqueue, MemoryOK
  <2>2. PICK S : queue[w] \in Seq(S) /\ \A c \in S : c.role \in Roles
    BY DEF QueueOK
  <2> DEFINE T == S \cup {call}
  <2>3. queue'[w] \in Seq(T)
    BY <2>1, <2>2
  <2>4. \A c \in T : c.role \in Roles
    BY <1>2, <2>2
  <2> HIDE DEF T
  <2> QED BY <2>1, <2>3, <2>4 DEF QueueOK
<1>3. ASSUME NEW w \in Writers, NEW req \in Requests, Call(w, req) PROVE QueueOK'
  <2>1. req.role \in Roles
    BY RequestsAssumption DEF RequestType
  <2>2. PICK ref : Enqueue(w, [op |-> req.op, role |-> req.role, to |-> req.to,
                               ref |-> ref])
    BY <1>3 DEF Call
  <2> QED BY <1>2, <2>1, <2>2
<1>4. ASSUME NEW w \in Writers, CallAcknowledge(w) PROVE QueueOK'
  BY <1>2, <1>4 DEF CallAcknowledge, Roles
<1>5. ASSUME NEW w \in Writers, queue[w] /= <<>>, Pop(w) PROVE QueueOK'
  <2>1. /\ queue'[w] = Tail(queue[w])
        /\ \A v \in Writers \ {w} : queue'[v] = queue[v]
    BY <1>5 DEF Pop, MemoryOK
  <2>2. PICK S : queue[w] \in Seq(S) /\ \A c \in S : c.role \in Roles
    BY DEF QueueOK
  <2>3. queue'[w] \in Seq(S)
    BY <1>5, <2>1, <2>2
  <2> QED BY <2>1, <2>2, <2>3 DEF QueueOK
<1>6. ASSUME NEW w \in Writers, Crash(w) PROVE QueueOK'
  <2>1. /\ queue'[w] = <<>>
        /\ \A v \in Writers \ {w} : queue'[v] = queue[v]
    BY <1>6 DEF Crash, MemoryOK
  <2>2. \E S : queue'[w] \in Seq(S) /\ \A c \in S : c.role \in Roles
    <3>1. queue'[w] \in Seq({}) /\ \A c \in {} : c.role \in Roles
      BY <2>1
    <3> QED BY <3>1
  <2> QED BY <2>1, <2>2 DEF QueueOK
<1> QED
  BY <1>1, <1>3, <1>4, <1>5, <1>6
  DEF Next, Serve, vars, RegisterRun, Refuse, EnterSigned, EnterUnsigned,
      EnterAcknowledge, SignChannel, SignFails, Commit, CommitAttachment,
      InsertCheckpointManifest, Recover, Restart, LoseTail

\* The steps that touch neither the store nor the rows under way.
LEMMA QuietBinding ==
    ASSUME BindInv, UNCHANGED <<table, attachments, rows, current>>
    PROVE  BindInv'
BY DEF BindInv, RowsBound, Refers, Announces, Stored, Committed

\* Rows that name what is stored and announce what their call stores may come
\* under way.
LEMMA MemoryBinding ==
    ASSUME IInv, BindInv, UNCHANGED <<table, attachments>>, NEW w \in Writers,
           \A v \in Writers \ {w} : /\ rows'[v] = rows[v]
                                    /\ current'[v] = current[v],
           NEW rs, NEW call, rows'[w] = rs, current'[w] = call,
           \A i \in DOMAIN rs :
                /\ Refers(rs[i])
                /\ Announces(rs[i]) <=> call.op = "appendAnalysisAttachment"
    PROVE  BindInv'
<1>1. \A r : Refers(r)' <=> Refers(r)
  BY DEF Refers, Committed
<1>2. \A s \in EventStreams : Committed(s)' = Committed(s)
  BY DEF Committed
<1>3. ASSUME NEW v \in Writers PROVE RowsBound(v)'
  <2>1. CASE v = w
    BY <1>1, <2>1 DEF RowsBound, Announces
  <2>2. CASE v /= w
    <3>1. rows'[v] = rows[v] /\ current'[v] = current[v]
      BY <2>2
    <3> QED BY <1>1, <3>1 DEF RowsBound, BindInv, Announces
  <2> QED BY <2>1, <2>2
<1>4. Stored' = Stored
  BY DEF Stored
<1> QED BY <1>1, <1>2, <1>3, <1>4, LedgersAreStreams DEF BindInv, Announces

\* A call enters with one row.
LEMMA EnterBinding ==
    ASSUME IInv, BindInv, UNCHANGED <<table, attachments>>, NEW w \in Writers,
           NEW call, NEW r, Refers(r),
           Announces(r) <=> call.op = "appendAnalysisAttachment",
           rows' = [rows EXCEPT ![w] = <<r>>],
           current' = [current EXCEPT ![w] = call]
    PROVE  BindInv'
<1>1. DOMAIN <<r>> = {1} /\ <<r>>[1] = r
  OBVIOUS
<1>2. \A i \in DOMAIN <<r>> :
        /\ Refers(<<r>>[i])
        /\ Announces(<<r>>[i]) <=> call.op = "appendAnalysisAttachment"
  BY <1>1, Zenon
<1>3. /\ rows'[w] = <<r>>
      /\ current'[w] = call
      /\ \A v \in Writers \ {w} : /\ rows'[v] = rows[v]
                                  /\ current'[v] = current[v]
  BY DEF IInv, RowsOK
<1> QED BY <1>2, <1>3, MemoryBinding

\* A call leaves without a row.
LEMMA LeaveBinding ==
    ASSUME IInv, BindInv, UNCHANGED <<table, attachments>>, NEW w \in Writers,
           Leave(w)
    PROVE  BindInv'
<1>1. /\ rows'[w] = <<>>
      /\ current'[w] = NoCall
      /\ \A v \in Writers \ {w} : /\ rows'[v] = rows[v]
                                  /\ current'[v] = current[v]
  BY DEF Leave, IInv, RowsOK
<1>2. DOMAIN <<>> = {}
  OBVIOUS
<1> QED BY <1>1, <1>2, MemoryBinding

\* A call leaves: the tables have grown by its rows, or not at all, and the
\* attachments by the row that announces one.
LEMMA CommitBinding ==
    ASSUME IInv, BindInv, NEW w \in Writers, ~Idle(w), CommitRows(w, rows[w]),
           Leave(w),
           Stored' \cup {r \in Committed("intervention") : Announces(r)} =
                {r \in Committed("intervention")' : Announces(r)},
           Stored \subseteq Stored'
    PROVE  BindInv'
<1>1. Grows(table, table')
  BY CommitKeepsTable
<1>2. ASSUME NEW s \in EventStreams, NEW r \in Committed(s)'
      PROVE  Refers(r)'
  <2>1. Refers(r)
    <3>1. CASE r \in Committed(s)
      BY <3>1 DEF BindInv
    <3>2. CASE r \notin Committed(s)
      BY <3>2, NewlyCommitted DEF BindInv, RowsBound
    <3> QED BY <3>1, <3>2
  <2> QED BY <1>1, <2>1, RefersStable
<1>3. ASSUME NEW v \in Writers PROVE RowsBound(v)'
  <2>1. CASE v = w
    <3>1. rows'[v] = <<>>
      BY <2>1 DEF Leave, IInv, RowsOK
    <3>2. DOMAIN rows'[v] = {}
      BY <3>1
    <3> QED BY <3>2 DEF RowsBound
  <2>2. CASE v /= w
    <3>1. rows'[v] = rows[v] /\ current'[v] = current[v]
      BY <2>2 DEF Leave, IInv, RowsOK
    <3>2. ASSUME NEW r, Refers(r) PROVE Refers(r)'
      BY <1>1, <3>2, RefersStable
    <3>3. ASSUME NEW i \in DOMAIN rows[v] PROVE Refers(rows[v][i])'
      <4>1. Refers(rows[v][i])
        BY DEF BindInv, RowsBound
      <4>2. PICK r : r = rows[v][i]
        OBVIOUS
      <4> QED BY <3>1, <3>2, <4>1, <4>2
    <3> QED BY <3>1, <3>3 DEF RowsBound, BindInv, Announces
  <2> QED BY <2>1, <2>2
<1>4. Stored' = {r \in Committed("intervention")' : Announces(r)}
  BY DEF BindInv
<1> QED BY <1>2, <1>3, <1>4 DEF BindInv, Announces

LEMMA CommitStepBinding ==
    ASSUME IInv, BindInv, NEW w \in Writers, Commit(w)
    PROVE  BindInv'
<1>1. /\ ~Idle(w) /\ CommitRows(w, rows[w]) /\ Leave(w)
      /\ attachments' = attachments
      /\ current[w].op /= "appendAnalysisAttachment"
  BY DEF Commit, Idle
<1>2. ASSUME NEW r \in Committed("intervention")', Announces(r)
      PROVE  r \in Committed("intervention")
  <2> SUFFICES ASSUME r \notin Committed("intervention") PROVE FALSE
    OBVIOUS
  <2>1. PICK i \in DOMAIN rows[w] : r = rows[w][i]
    BY <1>1, NewlyCommitted, LedgersAreStreams
  <2> QED BY <1>1, <1>2, <2>1 DEF BindInv, RowsBound
<1>3. \A r \in Committed("intervention") : r \in Committed("intervention")'
  BY <1>1, CommitKeepsTable, CommittedGrows, LedgersAreStreams
<1>4. {r \in Committed("intervention")' : Announces(r)} =
      {r \in Committed("intervention") : Announces(r)}
  BY <1>2, <1>3
<1>5. Stored' = Stored
  BY <1>1 DEF Stored
<1>6. Stored = {r \in Committed("intervention") : Announces(r)}
  BY DEF BindInv
<1> QED BY <1>1, <1>4, <1>5, <1>6, CommitBinding

LEMMA AttachmentStepBinding ==
    ASSUME IInv, BindInv, NEW w \in Writers, CommitAttachment(w)
    PROVE  BindInv'
<1>1. /\ ~Idle(w) /\ Leave(w)
      /\ current[w].op = "appendAnalysisAttachment"
  BY DEF CommitAttachment
<1>2. CASE UNCHANGED <<table, attachments>>
  BY <1>1, <1>2, LeaveBinding
<1>3. ASSUME CommitRows(w, rows[w]), Conflicts(rows[w]) /= {},
             attachments' = attachments
      PROVE  BindInv'
  <2>1. UNCHANGED table
    BY <1>3 DEF CommitRows
  <2> QED BY <1>2, <1>3, <2>1
<1>4. ASSUME NEW path \in Paths, path \notin DOMAIN attachments,
             CommitRows(w, rows[w]), Conflicts(rows[w]) = {},
             attachments' = [p \in DOMAIN attachments \cup {path} |->
                                IF p = path THEN rows[w][1] ELSE attachments[p]]
      PROVE  BindInv'
  <2> DEFINE r == rows[w][1]
  <2>1. OneRow(w)
    BY <1>1 DEF IInv, RowsOK, Idle, TurnRows
  <2>2. DOMAIN rows[w] = {1}
    <3>1. DOMAIN <<rows[w][1]>> = {1}
      OBVIOUS
    <3> QED BY <2>1, <3>1 DEF OneRow
  <2>3. Announces(r)
    BY <1>1, <2>2 DEF BindInv, RowsBound
  <2>4. table' = Inserted(rows[w])
    BY <1>4 DEF CommitRows, Forked
  <2>5. /\ r.stream = "intervention"
        /\ Fits(r, table)
        /\ 1 \notin Conflicts(rows[w])
    BY <1>4, <2>1, <2>3 DEF OneRow, Announces
  <2>6. PICK n \in Nat : Longer("intervention", n, r)
    BY <2>2, <2>4, <2>5, InsertedRow, LedgersAreStreams DEF IInv
  <2>7. r \in Committed("intervention")'
    <3>1. n + 1 \in DOMAIN table'["intervention"] /\ table'["intervention"][n + 1] = r
      BY <2>6 DEF Longer
    <3> QED BY <3>1 DEF Committed
  <2>8. ASSUME NEW e \in Committed("intervention")'
        PROVE  e = r \/ e \in Committed("intervention")
    BY <1>1, <1>4, <2>2, NewlyCommitted, LedgersAreStreams
  <2>9. \A e \in Committed("intervention") : e \in Committed("intervention")'
    BY <1>1, <1>4, CommitKeepsTable, CommittedGrows, LedgersAreStreams
  <2>10. Stored' = Stored \cup {r}
    <3>1. /\ DOMAIN attachments' = DOMAIN attachments \cup {path}
          /\ attachments'[path] = r
          /\ \A p \in DOMAIN attachments : attachments'[p] = attachments[p]
      BY <1>4
    <3> HIDE DEF r
    <3> QED BY <3>1 DEF Stored
  <2>11. Stored = {e \in Committed("intervention") : Announces(e)}
    BY DEF BindInv
  <2> HIDE DEF r
  <2>12. Stored' = {e \in Committed("intervention")' : Announces(e)}
    BY <2>3, <2>7, <2>8, <2>9, <2>10, <2>11
  <2>13. Stored' \cup {e \in Committed("intervention") : Announces(e)} =
            {e \in Committed("intervention")' : Announces(e)}
    BY <2>9, <2>12
  <2> QED BY <1>1, <1>4, <2>10, <2>13, CommitBinding
<1> QED BY <1>1, <1>2, <1>3, <1>4 DEF CommitAttachment

LEMMA BindInvariance ==
    IInv /\ MemoryOK /\ QueueOK /\ BindInv /\ ~TailLoss /\ [Next]_vars => BindInv'
<1> SUFFICES ASSUME IInv, MemoryOK, QueueOK, BindInv, ~TailLoss, [Next]_vars
             PROVE  BindInv'
  OBVIOUS
<1> USE DEF store
<1>1. CASE UNCHANGED <<table, attachments, rows, current>>
  BY <1>1, QuietBinding
<1>2. ASSUME NEW w \in Writers, queue[w] /= <<>>
      PROVE  Head(queue[w]).role \in Roles
  <2>1. PICK S : queue[w] \in Seq(S) /\ \A call \in S : call.role \in Roles
    BY DEF QueueOK
  <2>2. Head(queue[w]) \in S
    BY <1>2, <2>1
  <2> QED BY <2>1, <2>2
<1>3. ASSUME NEW w \in Writers, EnterSigned(w) PROVE BindInv'
  <2> DEFINE call == Head(queue[w])
  <2>1. PICK stamp \in Stamps :
          rows' = [rows EXCEPT ![w] =
            <<Row(StreamOf(call), KindOf(call), call.ref, RecipientOf(call), stamp)>>]
    BY <1>3 DEF EnterSigned
  <2>2. /\ current' = [current EXCEPT ![w] = call]
        /\ UNCHANGED <<table, attachments>>
        /\ Bound(call)
        /\ call.role \in Roles
        /\ call.op /= "acknowledge"
    BY <1>2, <1>3 DEF EnterSigned, SignedOps
  <2> HIDE DEF call
  <2> DEFINE r == Row(StreamOf(call), KindOf(call), call.ref, RecipientOf(call), stamp)
  <2>3. /\ r.stream = StreamOf(call)
        /\ r.kind = KindOf(call)
        /\ r.ref = call.ref
    BY DEF Row
  <2>4. rows' = [rows EXCEPT ![w] = <<r>>]
    BY <2>1
  <2> HIDE DEF r
  <2>5. Refers(r) /\ (Announces(r) <=> call.op = "appendAnalysisAttachment")
    BY <2>2, <2>3, BoundRow
  <2> QED BY <2>2, <2>4, <2>5, EnterBinding
<1>4. ASSUME NEW w \in Writers, EnterUnsigned(w) PROVE BindInv'
  <2> DEFINE call == Head(queue[w])
  <2>1. PICK stamp \in Stamps :
          rows' = [rows EXCEPT ![w] =
            <<Row("intervention", KindOf(call), call.ref, None, stamp)>>]
    BY <1>4 DEF EnterUnsigned
  <2>2. /\ current' = [current EXCEPT ![w] = call]
        /\ UNCHANGED <<table, attachments>>
        /\ call.op \in UnsignedOps
        /\ call.role \in Roles
    BY <1>2, <1>4 DEF EnterUnsigned
  <2> HIDE DEF call
  <2> DEFINE r == Row("intervention", KindOf(call), call.ref, None, stamp)
  <2>3. /\ r.stream = StreamOf(call)
        /\ r.kind = KindOf(call)
        /\ r.ref = call.ref
        /\ Bound(call)
        /\ call.op /= "acknowledge"
    BY <2>2 DEF Row, UnsignedOps, StreamOf, Bound
  <2>4. rows' = [rows EXCEPT ![w] = <<r>>]
    BY <2>1
  <2> HIDE DEF r
  <2>5. Refers(r) /\ (Announces(r) <=> call.op = "appendAnalysisAttachment")
    BY <2>2, <2>3, BoundRow
  <2> QED BY <2>2, <2>4, <2>5, EnterBinding
<1>5. ASSUME NEW w \in Writers, EnterAcknowledge(w) PROVE BindInv'
  <2> DEFINE call == Head(queue[w])
  <2>1. PICK stamp \in Stamps :
          rows' = [rows EXCEPT ![w] =
            <<Row("intervention", "governance-decision", call.ref, None, stamp)>>]
    BY <1>5 DEF EnterAcknowledge
  <2>2. /\ current' = [current EXCEPT ![w] = call]
        /\ UNCHANGED <<table, attachments>>
        /\ call.op = "acknowledge"
    BY <1>5 DEF EnterAcknowledge
  <2> HIDE DEF call
  <2> DEFINE r == Row("intervention", "governance-decision", call.ref, None, stamp)
  <2>3. r.stream = "intervention" /\ r.kind = "governance-decision"
    BY DEF Row
  <2>4. rows' = [rows EXCEPT ![w] = <<r>>]
    BY <2>1
  <2> HIDE DEF r
  <2>5. Refers(r) /\ ~Announces(r)
    BY <2>3 DEF Refers, Announces
  <2> QED BY <2>2, <2>4, <2>5, EnterBinding
<1>6. ASSUME NEW w \in Writers, SignChannel(w) PROVE BindInv'
  <2>1. PICK stamp \in Stamps :
          rows' = [rows EXCEPT ![w] =
            <<rows[w][1],
              Row("channel", "accepted", rows[w][1], current[w].to, stamp)>>]
    BY <1>6 DEF SignChannel
  <2> DEFINE r == Row("channel", "accepted", rows[w][1], current[w].to, stamp)
             rs == <<rows[w][1], r>>
  <2>2. r.stream = "channel" /\ r.kind = "accepted"
    BY DEF Row
  <2>3. /\ rows'[w] = rs
        /\ current'[w] = current[w]
        /\ current[w].op = "commitTurn"
        /\ Len(rows[w]) = 1
        /\ UNCHANGED <<table, attachments>>
        /\ \A v \in Writers \ {w} : /\ rows'[v] = rows[v]
                                    /\ current'[v] = current[v]
    BY <1>6, <2>1 DEF SignChannel, IInv, RowsOK
  <2>4. 1 \in DOMAIN rows[w]
    <3>1. rows[w] /= <<>>
      BY <2>3
    <3>2. DOMAIN <<rows[w][1]>> = {1} /\ DOMAIN <<rows[w][1], rows[w][2]>> = {1, 2}
      OBVIOUS
    <3>3. DOMAIN rows[w] = {1} \/ DOMAIN rows[w] = {1, 2}
      BY <3>1, <3>2, Zenon DEF IInv, RowsOK, OneRow, TurnRows
    <3> QED BY <3>3
  <2>5. Refers(rows[w][1]) /\ ~Announces(rows[w][1])
    BY <2>3, <2>4 DEF BindInv, RowsBound
  <2> HIDE DEF r
  <2>6. Refers(r) /\ ~Announces(r)
    BY <2>2 DEF Refers, Announces
  <2>7. \A i \in DOMAIN rs : rs[i] = rows[w][1] \/ rs[i] = r
    OBVIOUS
  <2> HIDE DEF rs
  <2>8. \A i \in DOMAIN rs :
            /\ Refers(rs[i])
            /\ Announces(rs[i]) <=> current[w].op = "appendAnalysisAttachment"
    BY <2>3, <2>5, <2>6, <2>7
  <2> QED BY <2>3, <2>8, MemoryBinding
<1>7. ASSUME NEW w \in Writers, SignFails(w) \/ Crash(w) PROVE BindInv'
  BY <1>7, LeaveBinding DEF SignFails, Crash
<1>8. ASSUME NEW w \in Writers, Commit(w) PROVE BindInv'
  BY <1>8, CommitStepBinding
<1>9. ASSUME NEW w \in Writers, CommitAttachment(w) PROVE BindInv'
  BY <1>9, AttachmentStepBinding
<1>10. ASSUME NEW s \in EventStreams, LoseTail(s) PROVE BindInv'
  BY <1>10 DEF LoseTail
<1> QED
  BY <1>1, <1>3, <1>4, <1>5, <1>6, <1>7, <1>8, <1>9, <1>10
  DEF Next, Serve, vars, RegisterRun, Call, CallAcknowledge, Enqueue, Refuse,
      InsertCheckpointManifest, Recover, Restart

\* As long as no tail is lost: an interpretation names a message that was
\* delivered to the Baby in whose ledger it is, an audit entry names a native
\* ledger event, and the stored attachments are those that the intervention
\* stream announces, whichever writers wrote them and whatever failed between
\* the check of a reference and the transaction that stores it.
THEOREM BindingsAreKept == Spec => []BindingsHold
<1>1. Init => QueueOK /\ (TailLoss \/ BindInv)
  <2> SUFFICES ASSUME Init PROVE QueueOK /\ BindInv
    OBVIOUS
  <2>1. \A w \in Writers : queue[w] \in Seq({}) /\ DOMAIN rows[w] = {}
    BY DEF Init
  <2>2. \A s \in EventStreams : Committed(s) = {}
    BY DEF Init, Committed
  <2>3. Stored = {}
    BY DEF Init, Stored
  <2>4. QueueOK
    <3>1. \A call \in {} : call.role \in Roles
      OBVIOUS
    <3> QED BY <2>1, <3>1 DEF QueueOK
  <2> QED BY <2>1, <2>2, <2>3, <2>4, LedgersAreStreams DEF BindInv, RowsBound
<1>2. IInv /\ MemoryOK /\ QueueOK /\ (TailLoss \/ BindInv) /\ [Next]_vars
        => QueueOK' /\ (TailLoss \/ BindInv)'
  BY QueueInvariance, BindInvariance
<1>3. IInv /\ (TailLoss \/ BindInv) => BindingsHold
  <2> SUFFICES ASSUME IInv, BindInv PROVE ReferencesHold /\ AttachmentsBound
    BY DEF BindingsHold, ReferencesHold, AttachmentsBound
  <2>1. ASSUME NEW s \in EventStreams, NEW r \in Committed(s)
        PROVE  Refers(r) /\ r.stream = s
    BY DEF BindInv, IInv, TableOK, Committed
  <2>2. ASSUME NEW b \in Roles, NEW r \in Committed(LedgerOf(b)),
               r.kind = "interpretation"
        PROVE  r.ref \in Committed("channel") /\ r.ref.to = b
    BY <2>1, <2>2, LedgersAreStreams DEF Refers
  <2>3. ASSUME NEW r \in Committed("audit")
        PROVE  /\ r.ref.kind = "native"
               /\ \E b \in Roles : r.ref \in Committed(LedgerOf(b))
    BY <2>1, LedgersAreStreams DEF Refers
  <2>4. ReferencesHold
    BY <2>2, <2>3 DEF ReferencesHold
  <2>5. \A r \in Committed("intervention") :
            Announces(r) <=> r.kind = "analysis-attached"
    BY <2>1, LedgersAreStreams DEF Announces
  <2>6. AttachmentsBound
    BY <2>5 DEF AttachmentsBound, BindInv, Stored
  <2> QED BY <2>4, <2>6
<1> QED
  BY <1>1, <1>2, <1>3, InitIInv, NextIInv, InitMemory, MemoryInvariance,
     TailLossAssumption, PTL DEF Spec
=============================================================================
