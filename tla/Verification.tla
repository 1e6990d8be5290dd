---------------------------- MODULE Verification ----------------------------
(* The independent verification of an exported evidence bundle: the checks   *)
(* of packages/verifier/src, each a predicate on a bundle, and the exit code *)
(* they add up to. Only the code an operator reads matters here, never the   *)
(* wording of the report.                                                    *)
(*                                                                           *)
(* A line of a stream file is the event it discloses: its number in the      *)
(* stream, "whole" when its bytes still rebuild its entry hash and verify    *)
(* under the signer's key, and what the cross-bindings read of it. Events    *)
(* are never written twice, so two whole lines of one stream with the same   *)
(* number are the same line: an entry hash is that number.                   *)
EXTENDS Integers, Sequences, FiniteSets, SequencesExt, FiniteSetsExt

Ledgers == {"baby-a-ledger", "baby-b-ledger"}

\* REQUIRED_STREAMS: exported for every run, empty file included.
Streams == Ledgers \cup {"channel", "turns", "intervention"}

\* The ledger of the Baby that sends in a turn: roles are exchanged every turn.
LedgerOfSender(turn) == IF turn % 2 = 0 THEN "baby-a-ledger" ELSE "baby-b-ledger"

LedgerOfReceiver(turn) == CHOOSE l \in Ledgers : l # LedgerOfSender(turn)

Entries(b, s) == ToSet(b.lines[s])

Kind(b, s, kind) == {e \in Entries(b, s) : e.kind = kind}

---------------------------------------------------------------------------
(* run-manifest.json and the streams it declares *)

\* A field that repeats one of the run's configuration is compared with it; a
\* field with no second copy (the build, the time of export) is not.
ManifestHolds(b) == b.manifest \in {"exported", "redated"}

\* validateChain: numbered from 1, linked to the line before, hash and signature rebuilt.
ChainHolds(lines) == \A i \in DOMAIN lines : lines[i].whole /\ lines[i].seq = i

StreamsHold(b) == b.lost = {} /\ \A s \in Streams : ChainHolds(b.lines[s])

---------------------------------------------------------------------------
(* What the streams say of each other *)

\* An accepted event names the intention it delivered.
DeliveriesBound(b) ==
    \A e \in Kind(b, "channel", "accepted") :
        \E i \in Kind(b, LedgerOfSender(e.turn), "intention") : i.seq = e.ref

\* An interpretation names an event delivered to the Baby that interprets it,
\* of the same turn (ledgerLagTurns is 0).
InterpretationsBound(b) ==
    \A l \in Ledgers : \A i \in Kind(b, l, "interpretation") :
        \E e \in Kind(b, "channel", "accepted") :
            e.seq = i.ref /\ e.turn = i.turn /\ LedgerOfReceiver(e.turn) = l

\* A turn record names the channel event of its own turn, if any.
TurnsBound(b) ==
    \A t \in Kind(b, "turns", "turn") :
        t.ref # 0 => \E e \in Entries(b, "channel") : e.seq = t.ref /\ e.turn = t.turn

AppliedProbes(b) == {p.turn : p \in Kind(b, "intervention", "probe-applied")}

\* A record with a probe was evaluating, was probed, and delivered what the
\* probe made; an applied probe has such a record.
ProbesBound(b) ==
    /\ \A t \in Kind(b, "turns", "turn") :
          t.ref # 0 /\ t.probed =>
             /\ t.phase = "evaluating"
             /\ t.turn \in AppliedProbes(b)
             /\ t.delivered = "accepted"
    /\ \A p \in AppliedProbes(b) :
          \E t \in Kind(b, "turns", "turn") : t.ref # 0 /\ t.probed /\ t.turn = p

Repairs(b) == Kind(b, "intervention", "repair-turn")

\* A repeated turn was scheduled, for that turn, after one that failed in the same phase; a scheduled one was played.
RepairsBound(b) ==
    /\ \A t \in Kind(b, "turns", "turn") :
          t.repairs # 0 =>
             /\ \E r \in Repairs(b) : r.ref = t.repairs /\ r.turn = t.turn
             /\ \E o \in Kind(b, "turns", "turn") :
                   o.turn + 1 = t.repairs /\ o.phase = t.phase /\ o.failed
    /\ \A r, q \in Repairs(b) : r.ref = q.ref => r.seq = q.seq
    /\ \A r \in Repairs(b) : \E t \in Kind(b, "turns", "turn") : t.repairs = r.ref

CrossBindingsHold(b) ==
    /\ DeliveriesBound(b) /\ InterpretationsBound(b) /\ TurnsBound(b)
    /\ ProbesBound(b) /\ RepairsBound(b)

---------------------------------------------------------------------------
(* Checkpoints and proofs *)

\* The disclosed prefix rebuilds the root the witness signed.
TreeHolds(b, size, s) ==
    /\ size <= Len(b.lines[s])
    /\ \A i \in 1..size : b.lines[s][i].whole /\ b.lines[s][i].seq = i

\* Numbered from 0 without a gap, each hash naming the one before; sizes never
\* shrink. An auxiliary tree that is left out is the empty one.
CheckpointsHold(b) ==
    /\ b.cuts # <<>>
    /\ \A c \in DOMAIN b.cuts :
          /\ b.cuts[c].number = c - 1 /\ b.cuts[c].whole
          /\ \A s \in Streams : TreeHolds(b, b.cuts[c].sizes[s], s)
          /\ \A d \in 1..(c - 1), s \in Streams : b.cuts[d].sizes[s] <= b.cuts[c].sizes[s]

\* A proof of a checkpoint the bundle does not hold is a failure, no proof is none.
ProofsHold(b) == b.proofs.whole /\ b.proofs.cuts <= Len(b.cuts)

\* The learners were attested first of all, under checkpoint 0.
InitializationHolds(b) ==
    \A e \in Kind(b, "intervention", "initialization") :
        /\ e.seq = 1
        /\ \E c \in DOMAIN b.cuts : b.cuts[c].number = 0 /\ b.cuts[c].sizes["intervention"] >= 1

---------------------------------------------------------------------------
(* Anchors *)

\* A receipt is of a checkpoint of this bundle, of the network and finality of
\* the run, and its calldata is the digest.
ReceiptHolds(b, r) == r.whole /\ \E c \in DOMAIN b.cuts : b.cuts[c].number = r.number

\* The names of the checkpoints, 0 being the placeholder for none.
Known(b) == {b.cuts[c].number + 1 : c \in DOMAIN b.cuts}

FinalCheckpoint(b) == IF b.cuts = <<>> THEN 0 ELSE Last(b.cuts).number + 1

\* A checkpoint counts as anchored by a confirmed receipt, how deep it is or not.
Anchored(b) ==
    {r.number + 1 : r \in {r \in b.receipts : ReceiptHolds(b, r) /\ r.status = "confirmed"}}

AnchoredThrough(b) == Max({0} \cup Anchored(b))

AnchorsHold(b, strict) ==
    /\ \A r \in b.receipts : ReceiptHolds(b, r)
    /\ strict => /\ \A r \in b.receipts : r.status = "confirmed" /\ r.deep
                 /\ b.cuts # <<>> /\ AnchoredThrough(b) = FinalCheckpoint(b)

CommittedSize(b, s) ==
    IF AnchoredThrough(b) \in Known(b)
    THEN b.cuts[CHOOSE c \in DOMAIN b.cuts : b.cuts[c].number + 1 = AnchoredThrough(b)].sizes[s]
    ELSE 0

\* reportUnanchoredTail
UnanchoredTail(b) == {s \in Streams : Len(b.lines[s]) > CommittedSize(b, s)}

---------------------------------------------------------------------------
(* Prompts, lineage, attachments and the experiment record *)

\* A derived run is read against its parent's export, which is verified on its
\* own, with no parent of its own to be read against.
LineageHolds(b) == b.generation > 0 => b.parent = "sound" /\ b.generation = 1

\* A listed attachment has its file and the event that bound it; no other file is there.
AttachmentsHold(b) ==
    /\ ~b.stray
    /\ \A a \in b.attachments :
          a.whole /\ \E e \in Kind(b, "intervention", "analysis-attached") : e.seq = a.event

Listed(b) == {a.event : a \in b.attachments}

\* The versions name checkpoints, receipts and attachments of this bundle; the
\* current one links every attachment and names the final checkpoint, or none.
RecordHolds(b) ==
    b.records # <<>> =>
      /\ \A i \in DOMAIN b.records :
            /\ b.records[i].checkpoint \in {0} \cup Known(b)
            /\ b.records[i].anchored => \E r \in b.receipts : r.number + 1 = b.records[i].checkpoint
            /\ b.records[i].linked \subseteq Listed(b)
      /\ Listed(b) \subseteq Last(b.records).linked
      /\ Last(b.records).checkpoint \in {0, FinalCheckpoint(b)}

---------------------------------------------------------------------------

\* Mutant: a tail is reported and never counted.
PassesWithTail(b, strict) ==
    /\ ManifestHolds(b) /\ StreamsHold(b) /\ CrossBindingsHold(b)
    /\ CheckpointsHold(b) /\ InitializationHolds(b) /\ LineageHolds(b) /\ ProofsHold(b)
    /\ b.prompts = "exported" /\ AnchorsHold(b, strict)
    /\ AttachmentsHold(b) /\ RecordHolds(b)

\* verifyBundleDetailed exits 0. Without "strict" (--allow-unanchored) what no
\* anchor covers is reported and nothing more.
Passes(b, strict) ==
    /\ ManifestHolds(b) /\ StreamsHold(b) /\ CrossBindingsHold(b)
    /\ CheckpointsHold(b) /\ InitializationHolds(b) /\ LineageHolds(b) /\ ProofsHold(b)
    /\ b.prompts = "exported" /\ AnchorsHold(b, strict)
    /\ strict => UnanchoredTail(b) = {}
    /\ AttachmentsHold(b) /\ RecordHolds(b)
=============================================================================
