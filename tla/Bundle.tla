------------------------------- MODULE Bundle -------------------------------
(* One run's evidence from its turns to the verdict on its bundle: what each *)
(* turn leaves in the streams, the seal that commits, anchors, exports and   *)
(* verifies it, the copies and notes of operators beside it, and what may    *)
(* become of the exported files (orchestrator/src/nursery-runtime.ts,        *)
(* evidence/src/export.ts, checkpoint/src, verifier/src).                    *)
(*                                                                           *)
(* Lifecycle interleavings are NurseryRun's subject. Here the calls of the   *)
(* driver run to their end except where evidence can be seen half-way, an    *)
(* abort comes at a turn boundary, and a crash before the seal.              *)
EXTENDS Verification

CONSTANTS
    Settings,   \* the runs looked at: [interventions, anchoring, generation, and bounds]
    Training,   \* turns of the training budget
    Evaluation  \* turns of the evaluation budget

ASSUME BundleAssumption ==
    /\ Settings \subseteq [interventions : {"none", "probes", "repair"},
                           anchoring : {"publisher", "skip"},
                           generation : 0..2,
                           intervals : BOOLEAN,
                           mishaps : Nat, calls : Nat, damage : Nat, reads : Nat \ {0}]
    /\ {Training, Evaluation} \subseteq Nat \ {0}

VARIABLES
    setting,    \* the run's configuration, and the bounds on what happens to it
    log,        \* events of each stream, in commit order
    cuts,       \* checkpoints
    receipts,   \* anchor receipts
    records,    \* versions of the experiment record
    turn,       \* the turn in progress
    run,        \* the driver: where it is, budgets used, pending repair, final checkpoint
    note,       \* the operator's annotation in progress
    exports,    \* [at, draft] of the run's own export and of an operator's copy
    bundles,    \* the bundles on disk: "run" the run's own, "copy" the operator's
    happened    \* bounded events so far, and what an auditor would ask about

bunVars == <<setting, log, cuts, receipts, records, turn, run, note, exports, bundles, happened>>

evidence == <<log, cuts, receipts, records>>

NoTurn == [at |-> "none", phase |-> "running", event |-> 0, probed |-> FALSE,
           delivered |-> "none", failed |-> FALSE, pauses |-> FALSE, broken |-> FALSE,
           repairs |-> 0]

\* An event, of a turn when it is of one and naming another when it does.
Event(kind, number, ref) ==
    [kind |-> kind, turn |-> number, ref |-> ref, seq |-> 0, whole |-> TRUE]

\* An event takes the next number of its stream.
Put(l, s, e) == [l EXCEPT ![s] = Append(@, [e EXCEPT !.seq = Len(l[s]) + 1])]

PutBoth(l, kind) ==
    Put(Put(l, "baby-a-ledger", Event(kind, 0, 0)), "baby-b-ledger", Event(kind, 0, 0))

Audit(kind) == Put(log, "intervention", Event(kind, 0, 0))

CutOf(l) == [number |-> Len(cuts), whole |-> TRUE, sizes |-> [s \in Streams |-> Len(l[s])]]

Write(l) == log' = l
WriteAndCut(l) == log' = l /\ cuts' = Append(cuts, CutOf(l))

\* #appendExperimentRecord: every attachment in the store is linked.
Attached(l) == {e.seq : e \in {e \in ToSet(l["intervention"]) : e.kind = "analysis-attached"}}

Version(disposition, checkpoint, anchored, l) ==
    [disposition |-> disposition, checkpoint |-> checkpoint, anchored |-> anchored,
     linked |-> Attached(l)]

Mishap(what) ==
    /\ happened.mishaps < setting.mishaps
    /\ happened' = [happened EXCEPT !.mishaps = @ + 1, !.what = @ \cup {what}]

Called(what) ==
    /\ happened.calls < setting.calls
    /\ happened' = [happened EXCEPT !.calls = @ + 1,
                                    !.what = IF run.final = 0 THEN @ ELSE @ \cup {what}]

Terminal == run.at \in {"sealed", "aborted"}

BundleInit ==
    /\ setting \in Settings
    /\ log = Put([s \in Streams |-> <<>>], "intervention", Event("initialization", 0, 0))
    /\ cuts = <<[number |-> 0, whole |-> TRUE,
                 sizes |-> [s \in Streams |-> IF s = "intervention" THEN 1 ELSE 0]]>>
    /\ receipts = {}
    /\ records = <<[disposition |-> "invalid", checkpoint |-> 0, anchored |-> FALSE, linked |-> {}]>>
    /\ turn = NoTurn
    /\ run = [at |-> "turns", phase |-> "running", turn |-> 0, training |-> 0,
              evaluation |-> 0, repair |-> 0, paused |-> FALSE, final |-> 0,
              aborted |-> FALSE, anchored |-> FALSE, exit |-> 1]
    /\ note = [at |-> "none", checkpoint |-> 0]
    /\ exports = [by \in {"run", "copy"} |-> [at |-> "none", draft |-> <<>>]]
    /\ bundles = [by \in {"run", "copy"} |-> <<>>]
    /\ happened = [mishaps |-> 0, calls |-> 0, damage |-> 0, what |-> {}]

---------------------------------------------------------------------------
(* A turn *)

BeginTurn ==
    /\ run.at = "turns" /\ turn.at = "none" /\ ~run.paused
    /\ turn' = [NoTurn EXCEPT !.at = "sender", !.phase = run.phase, !.repairs = run.repair]
    /\ UNCHANGED <<setting, evidence, run, note, exports, bundles, happened>>

Probes == setting.interventions = "probes" /\ turn.phase = "evaluating"

\* The intention and the delivery are committed together; the channel event is of the mark as delivered.
SenderAccepted ==
    /\ turn.at = "sender"
    /\ LET ledger == LedgerOfSender(run.turn)
           intended == Put(log, ledger, Event("intention", run.turn, 0))
       IN Write(Put(intended, "channel",
                    Event("accepted", run.turn, Len(intended[ledger]))))
    /\ turn' = [turn EXCEPT !.at = IF Probes THEN "probe" ELSE "receive",
                            !.event = Len(log["channel"]) + 1, !.delivered = "accepted"]
    /\ UNCHANGED <<setting, cuts, receipts, records, run, note, exports, bundles, happened>>

Rejected == Put(log, "channel", Event("rejected", run.turn, 0))

SenderRejected ==
    /\ turn.at = "sender"
    /\ Mishap("rejection")
    /\ Write(Rejected)
    /\ turn' = [turn EXCEPT !.at = IF Probes THEN "probe" ELSE "outcome",
                            !.event = Len(log["channel"]) + 1, !.failed = TRUE]
    /\ UNCHANGED <<setting, cuts, receipts, records, run, note, exports, bundles>>

\* #recordProbeApplication: a probe the mark could not carry is recorded as skipped.
RecordProbe ==
    /\ turn.at = "probe"
    /\ \E applied \in {turn.delivered = "accepted", FALSE} :
          /\ Write(Put(log, "intervention",
                       Event(IF applied THEN "probe-applied" ELSE "probe-skipped", run.turn, 0)))
          /\ turn' = [turn EXCEPT !.probed = applied,
                                  !.at = IF turn.delivered = "accepted" THEN "receive" ELSE "outcome"]
    /\ UNCHANGED <<setting, cuts, receipts, records, run, note, exports, bundles, happened>>

Interpret ==
    /\ turn.at = "receive"
    /\ Write(Put(log, LedgerOfReceiver(run.turn),
                 Event("interpretation", run.turn, turn.event)))
    /\ turn' = [turn EXCEPT !.at = "act"]
    /\ UNCHANGED <<setting, cuts, receipts, records, run, note, exports, bundles, happened>>

\* A rejected interpretation forfeits the turn; its record keeps the delivery.
InterpretationRejected ==
    /\ turn.at = "receive"
    /\ Mishap("rejection")
    /\ Write(Rejected)
    /\ turn' = [turn EXCEPT !.at = "outcome", !.failed = TRUE]
    /\ UNCHANGED <<setting, cuts, receipts, records, run, note, exports, bundles>>

\* Whether a turn fails matters to what a repair repeats only.
Act ==
    /\ turn.at = "act"
    /\ \E failed \in {FALSE, setting.interventions = "repair"} : turn' = [turn EXCEPT !.at = "outcome", !.failed = failed]
    /\ UNCHANGED <<setting, evidence, run, note, exports, bundles, happened>>

OutcomeTold ==
    /\ turn.at = "outcome"
    /\ turn' = [turn EXCEPT !.at = "record"]
    /\ UNCHANGED <<setting, evidence, run, note, exports, bundles, happened>>

\* rejectForTimeout: the turn's channel event and delivered mark become the
\* rejection's. What the probe did is not forgotten. A boundary that
\* quarantines its adapter pauses the run.
DeadlineExceeded ==
    /\ turn.at \in {"sender", "receive", "act", "outcome"}
    /\ Mishap(IF turn.probed THEN "deadline after a probe" ELSE "deadline")
    /\ Write(Rejected)
    /\ \E pauses \in BOOLEAN :
          turn' = [turn EXCEPT !.at = "attest", !.event = Len(log["channel"]) + 1,
                               !.delivered = "rejection", !.failed = TRUE, !.pauses = pauses]
    /\ UNCHANGED <<setting, cuts, receipts, records, run, note, exports, bundles>>

AdapterFails ==
    /\ turn.at \in {"sender", "receive", "act", "outcome"}
    /\ Mishap("adapter failure")
    /\ turn' = [turn EXCEPT !.at = "attest", !.failed = TRUE, !.broken = TRUE, !.pauses = TRUE]
    /\ UNCHANGED <<setting, evidence, run, note, exports, bundles>>

Attest ==
    /\ turn.at = "attest"
    /\ Write(Audit(IF turn.broken THEN "safety-trigger" ELSE "runtime-attestation"))
    /\ turn' = [turn EXCEPT !.at = "record"]
    /\ UNCHANGED <<setting, cuts, receipts, records, run, note, exports, bundles, happened>>

TurnRecord ==
    [kind |-> "turn", turn |-> run.turn, phase |-> turn.phase, ref |-> turn.event,
     probed |-> turn.probed, delivered |-> turn.delivered, repairs |-> turn.repairs,
     failed |-> turn.failed, seq |-> 0, whole |-> TRUE]

Repairable ==
    setting.interventions = "repair" /\ turn.repairs = 0 /\ turn.failed
        /\ ~turn.broken /\ ~turn.pauses

RecordTurn ==
    /\ turn.at = "record"
    /\ Write(Put(log, "turns", TurnRecord))
    /\ run' = [run EXCEPT !.turn = @ + 1, !.repair = 0,
                          !.training = IF turn.phase = "running" /\ turn.repairs = 0 THEN @ + 1 ELSE @,
                          !.evaluation = IF turn.phase = "evaluating" /\ turn.repairs = 0 THEN @ + 1 ELSE @]
    /\ turn' = [turn EXCEPT !.at = IF Repairable THEN "repair" ELSE "end"]
    /\ UNCHANGED <<setting, cuts, receipts, records, note, exports, bundles, happened>>

\* The turn that has just been recorded, counted from 1.
ScheduleRepair ==
    /\ turn.at = "repair"
    /\ Write(Put(log, "intervention", Event("repair-turn", run.turn, run.turn)))
    /\ run' = [run EXCEPT !.repair = run.turn]
    /\ turn' = [turn EXCEPT !.at = "end"]
    /\ UNCHANGED <<setting, cuts, receipts, records, note, exports, bundles, happened>>

\* #applyStageTransitions: the schedule of probes is frozen and the policies
\* are committed before the first evaluation turn.
StageOf(r, l) ==
    IF r.phase = "running" /\ r.training >= Training /\ r.repair = 0
    THEN [run |-> [r EXCEPT !.phase = "evaluating"],
          log |-> PutBoth(IF setting.interventions = "probes"
                          THEN Put(l, "intervention", Event("probe-schedule", 0, 0)) ELSE l,
                          "policy.checkpointed"),
          cut |-> TRUE]
    ELSE IF r.phase = "evaluating" /\ r.evaluation >= Evaluation /\ r.repair = 0
    THEN [run |-> [r EXCEPT !.at = "seal"], log |-> l, cut |-> FALSE]
    ELSE [run |-> r, log |-> l, cut |-> FALSE]

\* The rest of the step: a checkpoint if the event interval is crossed, which with
\* short intervals every turn does and with long ones none; then the pause or the next stage.
EndTurn ==
    /\ turn.at = "end"
    /\ turn' = NoTurn
    /\ IF turn.pauses
       THEN run' = [run EXCEPT !.paused = TRUE] /\ WriteAndCut(Audit("pause"))
       ELSE LET next == StageOf(run, log) IN
            /\ run' = next.run
            /\ IF setting.intervals \/ next.cut THEN WriteAndCut(next.log)
                                               ELSE Write(next.log) /\ UNCHANGED cuts
    /\ UNCHANGED <<setting, receipts, records, note, exports, bundles, happened>>

Resume ==
    /\ run.at = "turns" /\ run.paused
    /\ LET next == StageOf([run EXCEPT !.paused = FALSE], Audit("resume")) IN
       run' = next.run /\ WriteAndCut(next.log)
    /\ UNCHANGED <<setting, receipts, records, turn, note, exports, bundles, happened>>

\* Turns that reached the channel and have no record.
Incomplete == {e.turn : e \in ToSet(log["channel"])} \ {t.turn : t \in ToSet(log["turns"])}

\* Repairs that were scheduled and not played, as the evidence tells them.
OpenRepairs == {r.ref : r \in {r \in ToSet(log["intervention"]) : r.kind = "repair-turn"}}
                  \ {t.repairs : t \in ToSet(log["turns"])}

\* The process ends and recovers: the turn in progress is gone. A turn without
\* its record ends the run but for an abort.
Crash ==
    /\ run.at = "turns" /\ turn.at \notin {"none", "sender"} /\ note.at = "none"
    /\ Mishap("crash")
    /\ turn' = NoTurn
    /\ exports' = [exports EXCEPT !["copy"] = [at |-> "none", draft |-> <<>>]]
    /\ IF Incomplete # {}
       THEN run' = [run EXCEPT !.at = "incomplete"] /\ UNCHANGED <<log, cuts>>
       ELSE LET next == StageOf([run EXCEPT !.repair = Max({0} \cup OpenRepairs)],
                                Audit("recovery"))
            IN run' = next.run /\ WriteAndCut(next.log)
    /\ UNCHANGED <<setting, receipts, records, note, bundles>>

---------------------------------------------------------------------------
(* The seal *)

SealPolicies ==
    /\ run.at = "seal"
    /\ WriteAndCut(PutBoth(log, "policy.checkpointed"))
    /\ run' = [run EXCEPT !.at = "run.sealed"]
    /\ UNCHANGED <<setting, receipts, records, turn, note, exports, bundles, happened>>

RunSealed ==
    /\ run.at = "run.sealed"
    /\ Write(PutBoth(log, "run.sealed"))
    /\ run' = [run EXCEPT !.at = "final"]
    /\ UNCHANGED <<setting, cuts, receipts, records, turn, note, exports, bundles, happened>>

FinalCut ==
    /\ run.at = "final"
    /\ WriteAndCut(log)
    /\ run' = [run EXCEPT !.at = "anchor", !.final = Len(cuts) + 1]
    /\ UNCHANGED <<setting, receipts, records, turn, note, exports, bundles, happened>>

Receipt(status) == [number |-> run.final - 1, status |-> status, deep |-> TRUE, whole |-> TRUE]

\* #anchor: a receipt the store holds already is the answer; a transaction that
\* is not final in time is none. Skipping the anchor is audited.
Anchor ==
    /\ run.at = "anchor"
    /\ \/ /\ setting.anchoring = "publisher" /\ Receipt("failed") \notin receipts
          /\ receipts' = receipts \cup {Receipt("confirmed")}
          /\ run' = [run EXCEPT !.at = "record", !.anchored = TRUE]
          /\ UNCHANGED <<log, happened>>
       \/ /\ setting.anchoring = "publisher" /\ Receipt("failed") \notin receipts
          /\ Mishap("no anchor")
          /\ run' = [run EXCEPT !.at = "blocked-record"]
          /\ UNCHANGED <<log, receipts>>
       \/ /\ setting.anchoring = "publisher" /\ Receipt("failed") \notin receipts
          /\ Mishap("no anchor")
          /\ receipts' = receipts \cup {Receipt("failed")}
          /\ run' = [run EXCEPT !.at = "blocked-record"]
          /\ UNCHANGED log
       \/ /\ setting.anchoring = "publisher" /\ Receipt("failed") \in receipts
          /\ run' = [run EXCEPT !.at = "blocked-record"]
          /\ UNCHANGED <<log, receipts, happened>>
       \/ /\ setting.anchoring = "skip"
          /\ Write(Audit("governance-decision"))
          /\ run' = [run EXCEPT !.at = "record"]
          /\ UNCHANGED <<receipts, happened>>
    /\ UNCHANGED <<setting, cuts, records, turn, note, exports, bundles>>

Open == IF run.aborted THEN "aborted" ELSE "invalid"

OldProofs(by) == IF bundles[by] = <<>> THEN [whole |-> TRUE, cuts |-> 0] ELSE bundles[by][1].proofs

\* An export of which nothing is read yet; "unread" are the streams it still waits for.
Blank(by) ==
    [manifest |-> "exported", lost |-> {}, lines |-> [s \in Streams |-> <<>>],
     prompts |-> "exported", proofs |-> OldProofs(by), stray |-> FALSE,
     generation |-> setting.generation, parent |-> "sound",
     terminal |-> Terminal, state |-> <<>>, unread |-> Streams, reads |-> 0,
     cuts |-> <<>>, receipts |-> {}, records |-> <<>>, attachments |-> {}, raced |-> FALSE]

BeginExport(by) == exports' = [exports EXCEPT ![by] = [at |-> "streams", draft |-> Blank(by)]]

PendingRecord ==
    /\ run.at \in {"record", "blocked-record"}
    /\ records' = Append(records, Version(Open, run.final, run.anchored, log))
    /\ run' = [run EXCEPT !.at = IF @ = "record" THEN "export" ELSE "blocked-export"]
    /\ BeginExport("run")
    /\ UNCHANGED <<setting, log, cuts, receipts, turn, note, bundles, happened>>

\* writeProofFiles, from the store as it is now.
WriteProofs ==
    /\ run.at = "export" /\ exports["run"].at = "none"
    /\ bundles' = [bundles EXCEPT !["run"] =
          <<[@[1] EXCEPT !.proofs = [whole |-> TRUE, cuts |-> Len(cuts)]]>>]
    /\ run' = [run EXCEPT !.at = "verify"]
    /\ UNCHANGED <<setting, evidence, turn, note, exports, happened>>

\* The deployments that anchor verify without --allow-unanchored. A failed verification is a safety trigger.
Strict == setting.anchoring = "publisher"

VerifyBundle ==
    /\ run.at = "verify"
    /\ IF Passes(bundles["run"][1], Strict)
       THEN run' = [run EXCEPT !.at = "verdict", !.exit = 0] /\ UNCHANGED log
       ELSE run' = [run EXCEPT !.at = "verdict", !.exit = 1] /\ Write(Audit("safety-trigger"))
    /\ UNCHANGED <<setting, cuts, receipts, records, turn, note, exports, bundles, happened>>

\* Mutant: the verdict does not ask for the verifier's exit code.
AnchoredIsValid == IF run.aborted THEN "aborted" ELSE IF run.anchored THEN "valid" ELSE "invalid"

Disposition ==
    IF run.aborted THEN "aborted"
    ELSE IF run.anchored /\ run.exit = 0 THEN "valid" ELSE "invalid"

\* #writeExperimentRecordFile
WithRecordFile(history) ==
    [bundles EXCEPT !["run"] = <<[@[1] EXCEPT !.records = history]>>]

Verdict ==
    /\ run.at = "verdict"
    /\ LET history == Append(records, Version(Disposition, run.final, run.anchored, log)) IN
       /\ records' = history
       /\ bundles' = WithRecordFile(history)
    /\ run' = [run EXCEPT !.at = IF run.aborted \/ ~run.anchored THEN "aborted" ELSE "sealed"]
    /\ IF run.aborted THEN Write(Audit("governance-decision")) ELSE UNCHANGED log
    /\ UNCHANGED <<setting, cuts, receipts, turn, note, exports, happened>>

Blocked ==
    /\ run.at = "blocked-export" /\ exports["run"].at = "none"
    /\ bundles' = WithRecordFile(records)
    /\ run' = [run EXCEPT !.at = "blocked"]
    /\ UNCHANGED <<setting, evidence, turn, note, exports, happened>>

RetrySeal ==
    /\ run.at = "blocked"
    /\ Called("retried")
    /\ Write(Audit("recovery"))
    /\ run' = [run EXCEPT !.at = "anchor"]
    /\ UNCHANGED <<setting, cuts, receipts, records, turn, note, exports, bundles>>

\* abandonSeal and abort share their last steps: the record, the export, the file.
AbandonSeal ==
    /\ run.at = "blocked"
    /\ Write(Audit("governance-decision"))
    /\ records' = Append(records, Version("invalid", run.final, run.anchored, log))
    /\ run' = [run EXCEPT !.at = "last-export"]
    /\ BeginExport("run")
    /\ UNCHANGED <<setting, cuts, receipts, turn, note, bundles, happened>>

Abort ==
    /\ run.at \in {"turns", "incomplete"} /\ turn.at = "none"
    /\ Called("abort")
    /\ log' = PutBoth(Audit("abort"), "run.sealed")
    /\ cuts' = Append(cuts, CutOf(log'))
    /\ run' = [run EXCEPT !.at = "abort-anchor", !.aborted = TRUE, !.final = Len(cuts) + 1]
    /\ UNCHANGED <<setting, receipts, records, turn, note, exports, bundles>>

\* Its anchor attempt, then record and export; without a verification.
AbortAnchor ==
    /\ run.at = "abort-anchor"
    /\ \E anchored \in {setting.anchoring = "publisher", FALSE} :
          /\ receipts' = receipts \cup (IF anchored THEN {Receipt("confirmed")} ELSE {})
          /\ log' = IF setting.anchoring = "skip" THEN Audit("governance-decision") ELSE log
          /\ records' = Append(records, Version("aborted", run.final, anchored, log))
          /\ run' = [run EXCEPT !.anchored = anchored,
                        !.at = IF setting.anchoring = "publisher" /\ ~anchored
                               THEN "blocked-export" ELSE "last-export"]
    /\ BeginExport("run")
    /\ UNCHANGED <<setting, cuts, turn, note, bundles, happened>>

LastExport ==
    /\ run.at = "last-export" /\ exports["run"].at = "none"
    /\ bundles' = WithRecordFile(records)
    /\ run' = [run EXCEPT !.at = "aborted"]
    /\ UNCHANGED <<setting, evidence, turn, note, exports, happened>>

---------------------------------------------------------------------------
(* Operators beside the driver *)

Alive == ~Terminal

\* annotate: the event; then, if the run has no final checkpoint yet, a
\* checkpoint and a version of the record that names it.
Annotate ==
    /\ Alive /\ note.at = "none"
    /\ Called("noted")
    /\ Write(Audit("annotate"))
    /\ note' = [note EXCEPT !.at = "check"]
    /\ UNCHANGED <<setting, cuts, receipts, records, turn, run, exports, bundles>>

AnnotateCheck ==
    /\ note.at = "check"
    /\ note' = [note EXCEPT !.at = IF run.final = 0 THEN "cut" ELSE "none"]
    /\ UNCHANGED <<setting, evidence, turn, run, exports, bundles, happened>>

\* What an operator's call writes when the final checkpoint exists already.
Late(what) ==
    happened' = [happened EXCEPT !.what = IF run.final = 0 THEN @ ELSE @ \cup {what}]

AnnotateCut ==
    /\ note.at = "cut"
    /\ cuts' = Append(cuts, CutOf(log))
    /\ note' = [at |-> "record", checkpoint |-> Len(cuts) + 1]
    /\ Late("noted")
    /\ UNCHANGED <<setting, log, receipts, records, turn, run, exports, bundles>>

AnnotateRecord ==
    /\ note.at = "record"
    /\ records' = Append(records, Version("invalid", note.checkpoint, FALSE, log))
    /\ note' = [at |-> "none", checkpoint |-> 0]
    /\ Late("noted")
    /\ UNCHANGED <<setting, log, cuts, receipts, turn, run, exports, bundles>>

\* recordHumanView: in every state, without a checkpoint.
HumanView ==
    /\ Called("viewed")
    /\ Write(Audit("human-view"))
    /\ UNCHANGED <<setting, cuts, receipts, records, turn, run, note, exports, bundles>>

\* attachAnalysis: of a running run only; the event with the attachment, then a checkpoint.
AttachAnalysis ==
    /\ run.at = "turns" /\ run.phase = "running" /\ ~run.paused
    /\ Called("attached")
    /\ WriteAndCut(Audit("analysis-attached"))
    /\ UNCHANGED <<setting, receipts, records, turn, run, note, exports, bundles>>

\* Bound: one copy.
CopyBundle ==
    /\ exports["copy"].at = "none" /\ bundles["copy"] = <<>>
    /\ Called("copied")
    /\ BeginExport("copy")
    /\ UNCHANGED <<setting, evidence, turn, run, note, bundles>>

---------------------------------------------------------------------------
(* The export: each table is read after the one before, while writers go on *)

\* The reads of the streams are sent together and answered one by one, in any
\* order; those that are answered with nothing written between them are one
\* step. Bound: setting.reads, the instants at which an export's streams are
\* read. "raced" says whether the lines are of no single instant: something was
\* written to a stream, once read, before the last one was.
ExportStreams(by) ==
    /\ exports[by].at = "streams"
    /\ \E some \in SUBSET exports[by].draft.unread \ {{}} :
          LET d == exports[by].draft
              done == some = d.unread
          IN /\ done \/ d.reads + 1 < setting.reads
             /\ exports' = [exports EXCEPT ![by] =
                   [at |-> IF done THEN "checkpoints" ELSE "streams",
                    draft |-> [d EXCEPT
                        !.lines = [s \in Streams |-> IF s \in some THEN log[s] ELSE @[s]],
                        !.unread = @ \ some, !.reads = @ + 1,
                        !.state = IF done THEN <<Len(cuts), Len(records), receipts>> ELSE <<>>,
                        !.raced = done /\ \E s \in Streams \ d.unread : d.lines[s] # log[s]]]]
    /\ UNCHANGED <<setting, evidence, turn, run, note, bundles, happened>>

\* The table read at a place of the export, which goes on at the next.
Reads(by, place, draft, next) ==
    /\ exports[by].at = place
    /\ exports' = [exports EXCEPT ![by] = [at |-> next, draft |-> draft]]
    /\ UNCHANGED <<setting, evidence, turn, run, note, bundles, happened>>

ExportCheckpoints(by) ==
    Reads(by, "checkpoints", [exports[by].draft EXCEPT !.cuts = cuts], "receipts")

ExportReceipts(by) ==
    Reads(by, "receipts", [exports[by].draft EXCEPT !.receipts = receipts], "attachments")

ExportAttachments(by) ==
    Reads(by, "attachments",
          [exports[by].draft EXCEPT !.attachments = {[event |-> e, whole |-> TRUE] : e \in Attached(log)}],
          "record")

\* The experiment record, the last file. "raced" says now also whether a checkpoint,
\* a version or a receipt was written since the last stream was read.
ExportRecord(by) ==
    /\ exports[by].at = "record"
    /\ bundles' = [bundles EXCEPT ![by] = <<
          [exports[by].draft EXCEPT
              !.records = records,
              !.raced = @ \/ exports[by].draft.state # <<Len(cuts), Len(records), receipts>>]>>]
    /\ exports' = [exports EXCEPT ![by] = [at |-> "none", draft |-> <<>>]]
    /\ UNCHANGED <<setting, evidence, turn, run, note, happened>>

---------------------------------------------------------------------------
(* What may become of the files *)

WithLines(b, s, lines) == [b EXCEPT !.lines[s] = lines]

\* A line lost, repeated or unreadable; a file cut short or gone.
DamagedStreams(b) ==
    UNION {
        {WithLines(b, s, RemoveAt(b.lines[s], i)) : i \in DOMAIN b.lines[s]}
        \cup {WithLines(b, s, InsertAt(b.lines[s], i, b.lines[s][i])) : i \in DOMAIN b.lines[s]}
        \cup {[b EXCEPT !.lines[s][i].whole = FALSE] : i \in DOMAIN b.lines[s]}
        \cup {WithLines(b, s, SubSeq(b.lines[s], 1, n)) : n \in 0..(Len(b.lines[s]) - 1)}
        \cup {[WithLines(b, s, <<>>) EXCEPT !.lost = @ \cup {s}]} : s \in Streams}

DamagedWitness(b) ==
    {[b EXCEPT !.cuts = RemoveAt(@, c)] : c \in DOMAIN b.cuts}
    \cup {[b EXCEPT !.cuts[c].whole = FALSE] : c \in DOMAIN b.cuts}
    \cup {[b EXCEPT !.receipts = @ \ {r}] : r \in b.receipts}
    \cup {[b EXCEPT !.receipts = (@ \ {r}) \cup {[r EXCEPT !.whole = FALSE]}] : r \in b.receipts}

DamagedRest(b) ==
    {[b EXCEPT !.manifest = m] : m \in {"redated", "altered", "lost"}}
    \cup {[b EXCEPT !.prompts = "altered"], [b EXCEPT !.parent = "lost"], [b EXCEPT !.stray = TRUE]}
    \cup {[b EXCEPT !.proofs = [whole |-> TRUE, cuts |-> 0]], [b EXCEPT !.proofs.whole = FALSE]}
    \cup {[b EXCEPT !.records = SubSeq(@, 1, n)] : n \in 0..(Len(b.records) - 1)}
    \cup {[b EXCEPT !.attachments = (@ \ {a}) \cup {[a EXCEPT !.whole = FALSE]}] : a \in b.attachments}

\* An older state of the directory: everything up to a checkpoint.
RolledBack(b) ==
    {[b EXCEPT !.cuts = SubSeq(@, 1, c),
               !.lines = [s \in Streams |-> SubSeq(@[s], 1, Min({Len(@[s]), b.cuts[c].sizes[s]}))],
               !.receipts = {r \in @ : r.number < c},
               !.records = SelectSeq(@, LAMBDA v : v.checkpoint <= c)] : c \in DOMAIN b.cuts}

Damage ==
    /\ Terminal /\ bundles["run"] # <<>>
    /\ happened.damage < setting.damage
    /\ \E b \in DamagedStreams(bundles["run"][1]) \cup DamagedWitness(bundles["run"][1])
                 \cup DamagedRest(bundles["run"][1]) \cup RolledBack(bundles["run"][1]) :
          bundles' = [bundles EXCEPT !["run"] = <<b>>]
    /\ happened' = [happened EXCEPT !.damage = @ + 1]
    /\ UNCHANGED <<setting, evidence, turn, run, note, exports>>

---------------------------------------------------------------------------

Turn ==
    \/ BeginTurn \/ SenderAccepted \/ SenderRejected \/ RecordProbe
    \/ Interpret \/ InterpretationRejected \/ Act \/ OutcomeTold
    \/ DeadlineExceeded \/ AdapterFails \/ Attest \/ RecordTurn \/ ScheduleRepair
    \/ EndTurn \/ Resume

Seal ==
    \/ SealPolicies \/ RunSealed \/ FinalCut \/ Anchor \/ PendingRecord \/ WriteProofs
    \/ VerifyBundle \/ Verdict \/ Blocked \/ RetrySeal \/ AbandonSeal
    \/ Abort \/ AbortAnchor \/ LastExport

Operator ==
    \/ Annotate \/ AnnotateCheck \/ AnnotateCut \/ AnnotateRecord
    \/ HumanView \/ AttachAnalysis \/ CopyBundle

BundleNext ==
    \/ Turn \/ Crash \/ Seal \/ Operator \/ Damage
    \/ \E by \in {"run", "copy"} :
          \/ ExportStreams(by) \/ ExportCheckpoints(by) \/ ExportReceipts(by)
          \/ ExportAttachments(by) \/ ExportRecord(by)

BundleSpec == BundleInit /\ [][BundleNext]_bunVars

---------------------------------------------------------------------------
(* Properties *)

\* The evidence is numbered without gaps, checkpoints grow and lie within it,
\* versions of the record name checkpoints that exist (the store's own order).
BundleTypeOK ==
    /\ \A s \in Streams : ChainHolds(log[s])
    /\ \A c \in DOMAIN cuts :
          /\ cuts[c].number = c - 1
          /\ \A s \in Streams :
                /\ cuts[c].sizes[s] <= Len(log[s])
                /\ c > 1 => cuts[c - 1].sizes[s] <= cuts[c].sizes[s]
    /\ \A i \in DOMAIN records : records[i].checkpoint \in 0..Len(cuts)
    /\ \A r \in receipts : r.number + 1 \in DOMAIN cuts

Prefix(b, c) == \A s \in Streams : b.lines[s] = SubSeq(log[s], 1, cuts[c].sizes[s])

\* Whatever happened to the files, a bundle the strict verifier accepts holds
\* exactly what one checkpoint committed, and that checkpoint was anchored: no
\* line lost, repeated, reordered or changed, and nothing after it.
AcceptedIsCommitted ==
    bundles["run"] # <<>> /\ Passes(bundles["run"][1], TRUE) =>
        \E c \in DOMAIN cuts :
            /\ \E r \in receipts : r.number + 1 = c /\ r.status = "confirmed"
            /\ Prefix(bundles["run"][1], c)

\* A bundle's checkpoints are the run's first ones, its streams are prefixes of
\* the run's and reach at least to the last checkpoint it holds.
IsPrefixOfRun(b) ==
    /\ b.cuts # <<>>
    /\ \A c \in DOMAIN b.cuts : c \in DOMAIN cuts /\ b.cuts[c] = cuts[c]
    /\ \A s \in Streams :
          /\ IsPrefix(b.lines[s], log[s])
          /\ Len(b.lines[s]) >= Last(b.cuts).sizes[s]

\* A bundle accepted without its anchor is still a prefix of what the witness
\* has seen of the run: the run's own, whatever happened to its files, and an
\* operator's copy, whatever was written while its tables were read.
AllowedIsPrefix ==
    \A by \in {"run", "copy"} :
        bundles[by] # <<>> /\ ~IsPrefixOfRun(bundles[by][1]) => ~Passes(bundles[by][1], FALSE)

\* What the driver writes in its turns, whatever was rejected, failed or
\* crashed on the way, verifies: a run that is sealed with its anchor is valid,
\* unless a deadline passed after a probe was applied, an operator wrote or
\* retried after the final checkpoint, or the parent is itself a derived run.
SealedRunsAreValid ==
    run.at = "sealed" =>
        \/ Last(records).disposition = "valid"
        \/ happened.what \cap {"deadline after a probe", "retried", "noted", "viewed"} # {}
        \/ setting.generation = 2

\* The record that says "valid" is in the bundle and did not invalidate it:
\* whoever verifies the directory afterwards, or an operator's later copy, is
\* given the same answer. A note that overlaps the seal is the exception.
ValidStaysVerifiable ==
    Last(records).disposition = "valid" /\ "noted" \notin happened.what =>
        /\ happened.damage = 0 =>
              Passes(bundles["run"][1], TRUE) /\ Last(bundles["run"][1].records) = Last(records)
        /\ bundles["copy"] # <<>> /\ bundles["copy"][1].terminal =>
              Passes(bundles["copy"][1], FALSE)

\* A copy of a run that goes on can fail verification although nothing is
\* wrong: an event was written between the reads of two of its streams, so
\* that they are of no single instant; a checkpoint, a receipt or a version of
\* the record was written between the reads of its tables; a probed or
\* repeated turn was still open; or the record had not caught up. There is no
\* other reason.
LiveCopiesPass ==
    bundles["copy"] # <<>> /\ ~bundles["copy"][1].raced =>
        LET b == bundles["copy"][1] IN
        \/ b.generation = 2 \/ "deadline after a probe" \in happened.what
        \/ AppliedProbes(b) \ {t.turn : t \in Entries(b, "turns")} # {}
        \/ {r.ref : r \in Repairs(b)} \ {t.repairs : t \in Entries(b, "turns")} # {}
        \/ Listed(b) # Last(b.records).linked
        \/ Last(b.records).checkpoint \notin {0, FinalCheckpoint(b)}
        \/ Passes(b, FALSE)

\* Not so: a blocked seal that is retried and then anchored ends valid, as the
\* runtime's own tests have it. The recovery event comes after the final
\* checkpoint, and the verifier finds it in no anchored prefix.
RetriedSealIsValid ==
    run.at = "sealed" /\ happened.what \cap {"noted", "viewed", "deadline after a probe"} = {} =>
        Last(records).disposition = "valid"

\* Not so: a note is recorded without a checkpoint once the run has its final
\* one, so that the bundle of a valid run is the one that was verified. The
\* check and the checkpoint are two awaits, and the seal may run between them.
ValidBundlesVerify ==
    Last(records).disposition = "valid" => Passes(bundles["run"][1], TRUE)

\* Not so: a turn record that names the probe applied in its turn delivered
\* what the probe made. A deadline that passes later in the turn replaces the
\* delivered mark by the rejection's and keeps the probe.
ProbeBindsItsDelivery ==
    \A t \in ToSet(log["turns"]) : t.probed => t.delivered = "accepted"

(* What the verifier accepts is a prefix of what was committed (verify-      *)
(* bundle.ts).                                                               *)
AcceptanceIsSound == BundleTypeOK /\ AcceptedIsCommitted /\ AllowedIsPrefix

(* What was sealed valid verifies, now and whatever is exported later.       *)
SealedVerifies == SealedRunsAreValid /\ ValidStaysVerifiable /\ LiveCopiesPass
=============================================================================
