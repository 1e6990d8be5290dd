----------------------------- MODULE Anchoring -----------------------------
(* Anchoring the final checkpoints of several runs on one public chain       *)
(* (packages/anchor/src/publisher.ts, pending.ts, viem-transport.ts). Every  *)
(* run has a publisher process of its own; all of them sign with the one     *)
(* anchor wallet. A submit looks for a stored receipt, a reservation in      *)
(* memory and one in the pending file, and sends a transaction only when all *)
(* three are missing; a confirmation polls the chain and stores the one      *)
(* receipt row. The runtime calls both over a socket and may time out while  *)
(* the publisher goes on.                                                    *)
(*                                                                           *)
(* A transaction is [of, nonce, life]: the digest it carries, its nonce, and *)
(* the life of the publisher process that signed it, which stands for the    *)
(* fees of that moment. The node and the chain are external.                 *)
EXTENDS Integers, Sequences, FiniteSets

CONSTANTS
    Checkpoints,        \* one final checkpoint, hence one publisher, per run
    SendAttempts,       \* retry.attempts
    PollAttempts,       \* confirmationPoll.attempts
    RequiredDepth,      \* requiredConfirmations
    MaxBlocks,          \* bound: blocks
    MaxSubmits,         \* bound: calls of submit by each runtime
    MaxLosses,          \* bound: RPC answers of the node that are lost
    MaxDeaths           \* bound: times each publisher process ends

ASSUME AttemptsAssumption ==
    /\ SendAttempts \in Nat \ {0}
    /\ PollAttempts \in Nat \ {0}
    /\ RequiredDepth \in Nat \ {0}
ASSUME AnchorBoundsAssumption ==
    /\ MaxBlocks \in Nat /\ MaxLosses \in Nat
    /\ MaxSubmits \in [Checkpoints -> Nat]
    /\ MaxDeaths \in [Checkpoints -> Nat]

VARIABLES
    mempool,            \* transactions the node holds
    blocks,             \* the chain: a sequence of blocks of at most one of them
    receipts,           \* anchor_receipts: the rows of all runs
    pendingFile,        \* checkpoint -> the submissions in its publisher's sidecar,
                        \* which never holds two of one checkpoint
    reservations,       \* checkpoint -> the submission reserved in memory
    pinned,             \* checkpoint -> the transaction signed in this life
    sending,            \* checkpoint -> its submitOnce, joined by all its submits
    confirming,         \* checkpoint -> its confirmOnce
    runtime,            \* checkpoint -> what the run's controller waits for
    told,               \* history: checkpoint -> the transactions submit returned
    lives,              \* checkpoint -> processes its publisher has had
    orphaned,           \* history: checkpoint -> times a submit lost sight of
                        \* a transaction that the node has
    losses              \* lost answers so far

anVars == <<mempool, blocks, receipts, pendingFile, reservations, pinned, sending,
            confirming, runtime, told, lives, orphaned,
            losses>>

node == <<mempool, blocks>>

NoTx == [of |-> "none", nonce |-> -1, life |-> 0]

Transactions ==
    [of : Checkpoints, nonce : Nat, life : Nat]

Asleep == [at |-> "idle", left |-> 0, tx |-> NoTx, seen |-> 0]

BlockType == [tx : Transactions \cup {NoTx}, status : {"success", "reverted"}]
ReceiptType == [tx : Transactions, status : {"confirmed", "failed"}]

\* The phases of submitOnce and of confirmOnce.
SendType ==
    [at : {"idle", "lookup", "stored", "unstored", "sign", "broadcast", "exists", "sent"},
     left : Nat, tx : Transactions \cup {NoTx}, seen : Nat]
ConfirmType ==
    [at : {"idle", "poll", "head", "again", "decided", "stored"},
     left : Nat, tx : Transactions \cup {NoTx}, seen : Nat]
CallerType ==
    [at : {"idle", "submit", "submitted", "confirm"},
     left : Nat, tx : Transactions \cup {NoTx}]

---------------------------------------------------------------------------
(* The chain *)

Mined == {blocks[i].tx : i \in DOMAIN blocks} \ {NoTx}

Known == mempool \cup Mined

BlockOf(tx) == CHOOSE i \in DOMAIN blocks : blocks[i].tx = tx

\* eth_getTransactionCount of the pending pool: mined and waiting alike.
PendingNonce == Cardinality(Known)

\* The node takes a transaction whose nonce is free; one it has already is an
\* error for the sender, and no transaction replaces another with its nonce.
Takes(tx) == \A other \in Known : other.nonce # tx.nonce

\* A block with one transaction, which may revert, or with none. The wallet's
\* transactions are mined in the order of their nonces.
Mine ==
    /\ Len(blocks) < MaxBlocks
    /\ \/ \E tx \in mempool, status \in {"success", "reverted"} :
            /\ tx.nonce = Cardinality(Mined)
            /\ mempool' = mempool \ {tx}
            /\ blocks' = Append(blocks, [tx |-> tx, status |-> status])
       \/ /\ blocks' = Append(blocks, [tx |-> NoTx, status |-> "success"])
          /\ UNCHANGED mempool
    /\ UNCHANGED <<receipts, pendingFile, reservations, pinned, sending, confirming,
                   runtime, told, lives, orphaned, losses>>

---------------------------------------------------------------------------
(* submit *)

Stored(c) == {r \in receipts : r.tx.of = c}

\* nursery-runtime.ts calls submit, also to retry a seal; a second call joins
\* the one in flight.
Submit(c) ==
    /\ runtime[c].at = "idle"
    /\ runtime[c].left > 0
    /\ runtime' = [runtime EXCEPT ![c].at = "submit", ![c].left = @ - 1]
    /\ IF sending[c].at = "idle"
       THEN sending' = [sending EXCEPT ![c] = [Asleep EXCEPT !.at = "lookup"]]
       ELSE UNCHANGED sending
    /\ UNCHANGED <<node, receipts, pendingFile, reservations, pinned, confirming,
                   told, lives, orphaned, losses>>

\* The evidence service answers readAnchorReceipts.
LookUp(c) ==
    /\ sending[c].at = "lookup"
    /\ IF Stored(c) # {}
       THEN \E r \in Stored(c) :
                sending' = [sending EXCEPT ![c] =
                    [Asleep EXCEPT !.at = "stored", !.tx = r.tx]]
       ELSE sending' = [sending EXCEPT ![c].at = "unstored"]
    /\ UNCHANGED <<node, receipts, pendingFile, reservations, pinned, confirming,
                   runtime, told, lives, orphaned, losses>>

\* submit returns tx to whoever still waits for it.
Answer(c, tx) ==
    /\ sending' = [sending EXCEPT ![c] = Asleep]
    /\ told' = [told EXCEPT ![c] = @ \cup {tx}]
    /\ runtime' = IF runtime[c].at = "submit"
                  THEN [runtime EXCEPT ![c].at = "submitted", ![c].tx = tx]
                  ELSE runtime

AnswerStored(c) ==
    /\ sending[c].at = "stored"
    /\ Answer(c, sending[c].tx)
    /\ UNCHANGED <<node, receipts, pendingFile, reservations, pinned, confirming,
                   lives, orphaned, losses>>

\* Mutant: only the memory is looked at.
ReservedInMemory(c) == reservations[c]

\* reservedSubmission: memory first, then the file.
Reserved(c) ==
    IF reservations[c] # NoTx THEN reservations[c]
    ELSE IF pendingFile[c] # {} THEN CHOOSE tx \in pendingFile[c] : TRUE ELSE NoTx

\* Synchronous code after the receipts were read.
AnswerReserved(c) ==
    /\ sending[c].at = "unstored"
    /\ IF Reserved(c) # NoTx
       THEN Answer(c, Reserved(c))
       ELSE /\ sending' = [sending EXCEPT ![c] =
                                [Asleep EXCEPT !.at = "sign", !.left = SendAttempts]]
            /\ UNCHANGED <<told, runtime>>
    /\ UNCHANGED <<node, receipts, pendingFile, reservations, pinned, confirming,
                   lives, orphaned, losses>>

\* pinnedSubmission: signed at most once in the life of the process.
Sign(c) ==
    /\ sending[c].at = "sign"
    /\ LET tx == IF pinned[c] # NoTx THEN pinned[c]
                 ELSE [of |-> c, nonce |-> PendingNonce, life |-> lives[c]]
       IN /\ pinned' = [pinned EXCEPT ![c] = tx]
          /\ sending' = [sending EXCEPT ![c].at = "broadcast", ![c].tx = tx]
    /\ UNCHANGED <<node, receipts, pendingFile, reservations, confirming, runtime,
                   told, lives, orphaned, losses>>

\* eth_sendRawTransaction: taken or refused; the answer may be lost either way.
Broadcast(c) ==
    LET tx == sending[c].tx IN
    /\ sending[c].at = "broadcast"
    /\ mempool' = IF Takes(tx) THEN mempool \cup {tx} ELSE mempool
    /\ \/ /\ Takes(tx)
          /\ sending' = [sending EXCEPT ![c].at = "sent"]
          /\ UNCHANGED losses
       \/ /\ ~Takes(tx)
          /\ sending' = [sending EXCEPT ![c].at = "exists"]
          /\ UNCHANGED losses
       \/ /\ losses < MaxLosses
          /\ losses' = losses + 1
          /\ sending' = [sending EXCEPT ![c].at = "exists"]
    /\ UNCHANGED <<blocks, receipts, pendingFile, reservations, pinned, confirming,
                   runtime, told, lives, orphaned>>

\* sendWithRetry: the next attempt, or AnchorSubmissionFailedError.
Retry(c) ==
    IF sending[c].left > 1
    THEN /\ sending' = [sending EXCEPT ![c].at = "sign", ![c].left = @ - 1]
         /\ UNCHANGED runtime
    ELSE /\ sending' = [sending EXCEPT ![c] = Asleep]
         /\ runtime' = IF runtime[c].at = "submit"
                       THEN [runtime EXCEPT ![c].at = "idle"] ELSE runtime

\* Reading the nonce or the fees fails: nothing is pinned.
SignFails(c) ==
    /\ sending[c].at = "sign"
    /\ pinned[c] = NoTx
    /\ losses < MaxLosses
    /\ losses' = losses + 1
    /\ Retry(c)
    /\ UNCHANGED <<node, receipts, pendingFile, reservations, pinned, confirming,
                   told, lives, orphaned>>

\* transactionExists; a lookup that fails counts as "no".
Exists(c) ==
    /\ sending[c].at = "exists"
    /\ \/ /\ sending[c].tx \in Known
          /\ sending' = [sending EXCEPT ![c].at = "sent"]
          /\ UNCHANGED <<runtime, losses>>
       \/ /\ sending[c].tx \notin Known
          /\ Retry(c)
          /\ UNCHANGED losses
       \/ /\ losses < MaxLosses
          /\ losses' = losses + 1
          /\ Retry(c)
    /\ UNCHANGED <<node, receipts, pendingFile, reservations, pinned, confirming,
                   told, lives, orphaned>>

\* The transport has returned: reserve in memory, then in the file, then answer.
Reserve(c) ==
    LET tx == sending[c].tx IN
    /\ sending[c].at = "sent"
    /\ reservations' = [reservations EXCEPT ![c] = tx]
    /\ pendingFile' = [pendingFile EXCEPT ![c] = @ \cup {tx}]
    /\ Answer(c, tx)
    /\ UNCHANGED <<node, receipts, pinned, confirming, lives, orphaned, losses>>

---------------------------------------------------------------------------
(* awaitConfirmation *)

\* The runtime goes on with the receipt it was given; a call for a transaction
\* that is being confirmed joins it.
AwaitConfirmation(c) ==
    LET tx == runtime[c].tx IN
    /\ runtime[c].at = "submitted"
    /\ runtime' = [runtime EXCEPT ![c].at = "confirm"]
    /\ IF confirming[c].at = "idle"
       THEN confirming' = [confirming EXCEPT ![c] =
                [Asleep EXCEPT !.at = "poll", !.tx = tx, !.left = PollAttempts]]
       ELSE /\ confirming[c].tx = tx
            /\ UNCHANGED confirming
    /\ UNCHANGED <<node, receipts, pendingFile, reservations, pinned, sending, told,
                   lives, orphaned, losses>>

Returned(c) ==
    /\ confirming' = [confirming EXCEPT ![c] = Asleep]
    /\ runtime' = IF runtime[c].at = "confirm"
                  THEN [runtime EXCEPT ![c].at = "idle"] ELSE runtime

\* getTransactionReceipt: the block, or nothing yet.
Poll(c) ==
    LET tx == confirming[c].tx IN
    /\ confirming[c].at = "poll"
    /\ IF tx \in Mined
       THEN confirming' = [confirming EXCEPT ![c].at = "head", ![c].seen = BlockOf(tx)]
       ELSE confirming' = [confirming EXCEPT ![c].at = "again"]
    /\ UNCHANGED <<node, receipts, pendingFile, reservations, pinned, sending,
                   runtime, told, lives, orphaned, losses>>

\* latestBlockNumber, and the decision.
ReadHead(c) ==
    LET seen == confirming[c].seen IN
    /\ confirming[c].at = "head"
    /\ IF \/ blocks[seen].status = "reverted"
          \/ Len(blocks) - seen + 1 >= RequiredDepth
       THEN confirming' = [confirming EXCEPT ![c].at = "decided"]
       ELSE confirming' = [confirming EXCEPT ![c].at = "again"]
    /\ UNCHANGED <<node, receipts, pendingFile, reservations, pinned, sending,
                   runtime, told, lives, orphaned, losses>>

\* Sleep, or giveUp: no row, and the pending entry stays.
PollAgain(c) ==
    /\ confirming[c].at = "again"
    /\ IF confirming[c].left > 1
       THEN /\ confirming' = [confirming EXCEPT ![c].at = "poll", ![c].left = @ - 1]
            /\ UNCHANGED runtime
       ELSE Returned(c)
    /\ UNCHANGED <<node, receipts, pendingFile, reservations, pinned, sending,
                   told, lives, orphaned, losses>>

Status(tx) == IF blocks[BlockOf(tx)].status = "reverted" THEN "failed" ELSE "confirmed"

\* finalize: a stored row is returned as it is; otherwise one is inserted.
StoreReceipt(c) ==
    LET tx == confirming[c].tx IN
    /\ confirming[c].at = "decided"
    /\ IF \E r \in receipts : r.tx = tx
       THEN Returned(c) /\ UNCHANGED receipts
       ELSE /\ receipts' = receipts \cup {[tx |-> tx, status |-> Status(tx)]}
            /\ confirming' = [confirming EXCEPT ![c].at = "stored"]
            /\ UNCHANGED runtime
    /\ UNCHANGED <<node, pendingFile, reservations, pinned, sending, told, lives, orphaned, losses>>

\* The insert is confirmed: the reservation and the pending entry are dropped. A
\* submit that read the receipts before the insert finds neither; only bytes
\* signed in the same life keep it from a second transaction.
Release(c) ==
    LET tx == confirming[c].tx IN
    /\ confirming[c].at = "stored"
    /\ reservations' = [reservations EXCEPT ![c] = NoTx]
    /\ pendingFile' = [pendingFile EXCEPT ![c] = @ \ {tx}]
    /\ orphaned' = IF sending[c].at = "unstored" /\ pinned[c] # tx
                   THEN [orphaned EXCEPT ![c] = @ + 1] ELSE orphaned
    /\ Returned(c)
    /\ UNCHANGED <<node, receipts, pinned, sending, told, lives, losses>>

\* An RPC of the poll fails, or the evidence service refuses the insert.
ConfirmationFails(c) ==
    /\ confirming[c].at \in {"poll", "head", "decided"}
    /\ losses < MaxLosses
    /\ losses' = losses + 1
    /\ Returned(c)
    /\ UNCHANGED <<node, receipts, pendingFile, reservations, pinned, sending, told, lives, orphaned>>

---------------------------------------------------------------------------
(* Timeouts and restarts *)

\* The runtime's call times out. A submission it holds is forgotten.
RuntimeTimesOut(c) ==
    /\ runtime[c].at \in {"submit", "confirm"}
    /\ runtime[c].left > 0
    /\ runtime' = [runtime EXCEPT ![c].at = "idle", ![c].tx = NoTx]
    /\ UNCHANGED <<node, receipts, pendingFile, reservations, pinned, sending,
                   confirming, told, lives, orphaned, losses>>

\* What a restarted publisher of c finds.
Kept(c) == {r.tx : r \in receipts} \cup pendingFile[c]

\* The publisher process ends and is started again; the file stays. The
\* runtime keeps a receipt it was already given.
PublisherDies(c) ==
    /\ lives[c] <= MaxDeaths[c]
    /\ lives' = [lives EXCEPT ![c] = @ + 1]
    /\ orphaned' = IF pinned[c] \in Known \ Kept(c)
                   THEN [orphaned EXCEPT ![c] = @ + 1] ELSE orphaned
    /\ reservations' = [reservations EXCEPT ![c] = NoTx]
    /\ pinned' = [pinned EXCEPT ![c] = NoTx]
    /\ sending' = [sending EXCEPT ![c] = Asleep]
    /\ confirming' = [confirming EXCEPT ![c] = Asleep]
    /\ runtime' = IF runtime[c].at \in {"submit", "confirm"}
                  THEN [runtime EXCEPT ![c].at = "idle"] ELSE runtime
    /\ UNCHANGED <<node, receipts, pendingFile, told, losses>>

---------------------------------------------------------------------------

AnchoringInit ==
    /\ mempool = {}
    /\ blocks = <<>>
    /\ receipts = {}
    /\ pendingFile = [c \in Checkpoints |-> {}]
    /\ reservations = [c \in Checkpoints |-> NoTx]
    /\ pinned = [c \in Checkpoints |-> NoTx]
    /\ sending = [c \in Checkpoints |-> Asleep]
    /\ confirming = [c \in Checkpoints |-> Asleep]
    /\ runtime = [c \in Checkpoints |-> [at |-> "idle", tx |-> NoTx, left |-> MaxSubmits[c]]]
    /\ told = [c \in Checkpoints |-> {}]
    /\ lives = [c \in Checkpoints |-> 1]
    /\ orphaned = [c \in Checkpoints |-> 0]
    /\ losses = 0

SubmitStep(c) ==
    \/ LookUp(c) \/ AnswerStored(c) \/ AnswerReserved(c) \/ Sign(c) \/ SignFails(c)
    \/ Broadcast(c) \/ Exists(c) \/ Reserve(c)

ConfirmStep(c) ==
    \/ Poll(c) \/ ReadHead(c) \/ PollAgain(c) \/ StoreReceipt(c) \/ Release(c)
    \/ ConfirmationFails(c)

AnchoringNext ==
    \/ Mine
    \/ \E c \in Checkpoints :
        \/ Submit(c) \/ AwaitConfirmation(c) \/ RuntimeTimesOut(c) \/ PublisherDies(c)
        \/ SubmitStep(c) \/ ConfirmStep(c)

AnchoringSpec == AnchoringInit /\ [][AnchoringNext]_anVars

---------------------------------------------------------------------------
(* Properties *)

\* The variables stay in their types.
AnchoringTypeOK ==
    /\ mempool \subseteq Transactions /\ IsFiniteSet(mempool)
    /\ blocks \in Seq(BlockType)
    /\ receipts \subseteq ReceiptType
    /\ pendingFile \in [Checkpoints -> SUBSET Transactions]
    /\ reservations \in [Checkpoints -> Transactions \cup {NoTx}]
    /\ pinned \in [Checkpoints -> Transactions \cup {NoTx}]
    /\ sending \in [Checkpoints -> SendType]
    /\ confirming \in [Checkpoints -> ConfirmType]
    /\ runtime \in [Checkpoints -> CallerType]
    /\ told \in [Checkpoints -> SUBSET Transactions]
    /\ lives \in [Checkpoints -> Nat]
    /\ orphaned \in [Checkpoints -> Nat]
    /\ losses \in Nat

\* A checkpoint is paid for once, whatever is lost, retried, reverted or timed
\* out, plus once for each death between a send and its reservation and each
\* submit that a confirmation overtakes in a later life (publisher.ts, 1).
PaidOnce ==
    \A c \in Checkpoints :
        Cardinality({tx \in Known : tx.of = c}) <= 1 + orphaned[c]

\* A submit returns only transactions that the chain has: a reservation is never
\* made for one that did not arrive (viem-transport.ts, sendAnchorTransaction).
ToldAreKnown == \A c \in Checkpoints : told[c] \subseteq Known

\* All the answers for a checkpoint name one transaction, and one receipt row at
\* most is stored for it, but for those same occasions.
OneAnswer ==
    \A c \in Checkpoints :
        /\ Cardinality(told[c]) <= 1 + orphaned[c]
        /\ Cardinality(Stored(c)) <= 1 + orphaned[c]

\* A stored receipt agrees with the chain: a confirmed one is deep enough in a
\* block where it succeeded, and no transaction has two rows.
ReceiptsTrue ==
    \A r \in receipts :
        /\ r.tx \in Mined
        /\ r.status = Status(r.tx)
        /\ r.status = "confirmed" => Len(blocks) - BlockOf(r.tx) + 1 >= RequiredDepth
        /\ \A q \in receipts : q.tx = r.tx => q = r

\* Until its row is stored, a submission that was promised stays in the file.
PromisesAreDurable ==
    \A c \in Checkpoints : \A tx \in told[c] :
        \/ tx \in pendingFile[c]
        \/ \E r \in receipts : r.tx = tx

\* "Exactly one submission per checkpoint per chain": no checkpoint has two
\* transactions (publisher.ts, header, 1).
OneSubmission ==
    \A c \in Checkpoints : Cardinality({tx \in Known : tx.of = c}) <= 1

(* What the publisher promises of transactions, receipts and answers.        *)
AnchoringSafe ==
    /\ AnchoringTypeOK /\ PaidOnce /\ ToldAreKnown /\ OneAnswer /\ ReceiptsTrue
    /\ PromisesAreDurable
=============================================================================
