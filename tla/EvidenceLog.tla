---------------------------- MODULE EvidenceLog ----------------------------
(* What the evidence store promises its readers, with no word about writers, *)
(* locks, signatures or processes: every stream of a run is a hash chain     *)
(* that only ever grows at its end, the two rows of a committed turn appear  *)
(* in the same step, and the one thing that can go wrong underneath is that  *)
(* the tail of a stream is lost while nobody is writing.                     *)
(*                                                                           *)
(* EvidenceWriter.tla implements this specification.                         *)
EXTENDS Integers

CONSTANTS Streams,      \* the names of the event streams
          Genesis       \* the previous hash of the first entry of a stream

VARIABLE log            \* stream -> sequence number -> entry

\* The hash that the next entry of a chain of n entries has to name.
HashAt(chain, n) == IF n = 0 THEN Genesis ELSE chain[n]

\* One more entry, numbered and linked, and nothing else touched.
GrowsByOne(old, new) ==
    \E n \in {0} \cup DOMAIN old :
        /\ DOMAIN old = 1..n
        /\ DOMAIN new = 1..(n + 1)
        /\ \A k \in 1..n : new[k] = old[k]
        /\ new[n + 1].seq = n + 1
        /\ new[n + 1].prev = HashAt(old, n)

\* A channel entry of an accepted turn names a ledger entry; both are new.
PairedIn(entry) ==
    entry.kind = "accepted" =>
        \E s \in Streams : \E k \in DOMAIN log'[s] :
            /\ log'[s][k] = entry.ref
            /\ entry.ref.kind = "intention"
            /\ k \notin DOMAIN log[s]

Append ==
    /\ \A s \in Streams : \/ log'[s] = log[s]
                          \/ GrowsByOne(log[s], log'[s])
    /\ \A s \in Streams : \A k \in DOMAIN log'[s] :
            k \notin DOMAIN log[s] => PairedIn(log'[s][k])

Lose ==
    \E s \in Streams : \E k \in DOMAIN log[s] :
        log' = [log EXCEPT ![s] = [i \in 1..(k - 1) |-> log[s][i]]]

Init == log = [s \in Streams |-> <<>>]

Next == Append \/ Lose

Spec == Init /\ [][Next]_log
=============================================================================
