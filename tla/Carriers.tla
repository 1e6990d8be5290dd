------------------------------ MODULE Carriers ------------------------------
(* What crosses the channel in one turn: a model's completion becomes a      *)
(* proposal (packages/learners/src/llm-prompt.ts), the Gateway judges it by  *)
(* the run's carrier (packages/gateway/src/carrier-modules.ts, carriers/,    *)
(* inspect.ts, symbol-gateway.ts), the communication condition replaces what *)
(* is delivered, and a probe may change one mark of it.                      *)
EXTENDS Integers, Sequences, FiniteSets, SequencesExt

CONSTANTS
    CarrierModes,       \* carriers of the runs that are looked at
    Marks,              \* the declared inventory, or two valid elements of a form
    MaxMarks,           \* maxSymbolsFor, maxStrokesFor, MAX_TONES
    MaxRepeats,         \* maxSymbolRepeats
    BitCount            \* BITMAP_BIT_COUNT

\* The elements of a list that are not marks: a token of no inventory, prose, something that
\* is neither text nor an object, an unknown field, a value out of range.
BadElements == {"foreign", "prose", "scalar", "extra", "range"}

ASSUME CarriersAssumption ==
    /\ CarrierModes \subseteq {"token", "glyph", "bitmap", "canvas", "tone"}
    /\ IsFiniteSet(Marks) /\ Cardinality(Marks) >= 2 /\ Marks \cap BadElements = {}
    /\ {MaxMarks, MaxRepeats, BitCount} \subseteq Nat \ {0}

VARIABLES
    carrier,            \* carrierMode
    completion,         \* the completion of a model, or of none
    envelope,           \* the proposal at the Gateway
    verdict,            \* "ok" or the reason code
    artifact,           \* what is delivered, <<>> for nothing
    probe,              \* the probe and what became of it
    stage               \* "propose", "judge", "deliver", "probe" or "done"

carVars == <<carrier, completion, envelope, verdict, artifact, probe, stage>>

Nobody == [nothing |-> TRUE]

Symbolic(c) == c \in {"token", "glyph"}

KindOf == [token |-> "emit_symbols", glyph |-> "emit_glyphs", bitmap |-> "emit_bitmap",
           canvas |-> "emit_canvas", tone |-> "emit_tones"]

Offered == {KindOf["token"], "select_object"}
KnownKinds == {KindOf[c] : c \in DOMAIN KindOf} \cup {"select_object", "perform_action", "submit_affect"}

Strings(seq) == {"foreign", "prose"} \cap Range(seq)

-----------------------------------------------------------------------------
(* The validators. A rule is a condition and the code that is given where    *)
(* it is the first one that holds.                                           *)

FirstOf(rules) ==
    LET hit == {i \in DOMAIN rules : rules[i][1]}
    IN IF hit = {} THEN "ok" ELSE rules[CHOOSE i \in hit : \A j \in hit : i <= j][2]

\* An unknown field says what is in it.
ExtraFieldFailure(extra) == IF extra = "text" THEN "free-text-present" ELSE "unexpected-artifact-field"

\* The longest run of equal marks.
LongestRun(seq) ==
    LET lengths == {n \in DOMAIN seq :
            \E from \in DOMAIN seq :
                /\ from + n - 1 \in DOMAIN seq
                /\ \A k \in from..(from + n - 1) : seq[k] = seq[from]}
    IN Cardinality(lengths)

ElementFailure(c, e) ==
    CASE Symbolic(c) /\ e = "foreign" -> "not-in-inventory"
      [] Symbolic(c) /\ e = "prose"   -> "free-text-present"
      [] c = "bitmap"                 -> "bitmap-value-invalid"
      [] e = "range" /\ ~Symbolic(c)  -> "out-of-range"
      [] e = "extra" /\ ~Symbolic(c)  -> "unexpected-artifact-field"
      [] OTHER                        -> "invalid-envelope"

ListFailure(c, seq) ==
    LET bad == {i \in DOMAIN seq : seq[i] \notin Marks}
    IN IF bad = {} THEN "ok" ELSE ElementFailure(c, seq[CHOOSE i \in bad : \A j \in bad : i <= j])

\* carrierModule.validate, whose order is that of the rules.
Validate(c, p) ==
    LET list == p.value
        text == ~Symbolic(c) /\ Strings(list) # {}
    IN FirstOf(<<
        <<p.extraTop # "none", ExtraFieldFailure(p.extraTop)>>,
        <<p.shape = "no-artifact", "invalid-envelope">>,
        <<p.extra # "none", ExtraFieldFailure(p.extra)>>,
        <<p.shape = "no-list" /\ ~text, "invalid-envelope">>,
        <<text, "free-text-present">>,
        <<Len(list) = 0 /\ c # "bitmap", "empty-message">>,
        <<Len(list) > MaxMarks /\ c # "bitmap", "message-too-long">>,
        <<Len(list) # BitCount /\ c = "bitmap", "bitmap-size-invalid">>,
        <<ListFailure(c, list) # "ok", ListFailure(c, list)>>,
        <<Symbolic(c) /\ LongestRun(list) > MaxRepeats, "symbol-repeat-limit">> >>)

\* A proposal as the Gateway's own code makes it.
Clean(c, list) ==
    [kind |-> KindOf[c], flaws |-> {}, extraTop |-> "none", extra |-> "none", shape |-> "list", value |-> list]

\* validateProposal: the envelope, then the draft, then the carrier.
ValidateProposal(c, p) ==
    FirstOf(<<
        <<"shape" \in p.flaws, "invalid-envelope">>,
        <<"complex" \in p.flaws, "payload-too-complex">>,
        <<"trusted" \in p.flaws, "trusted-metadata-present">>,
        <<"draft" \in p.flaws, "missing-intention">>,
        <<p.kind # KindOf[c], "carrier-mismatch">>,
        <<TRUE, Validate(c, p)>> >>)

-----------------------------------------------------------------------------
(* Proposals.                                                                *)

Lists == (UNION {[1..n -> Marks \cup BadElements] : n \in 0..2})
            \cup (UNION {[1..n -> Marks] : n \in 3..(MaxMarks + 1)})

\* A flaw of the envelope, or the kind of another carrier.
Flawed(c) ==
    {[Clean(c, <<m>>) EXCEPT !.flaws = f] : m \in Marks, f \in SUBSET {"shape", "complex", "trusted", "draft"}}
Misnamed(c) == {[Clean(c, <<m>>) EXCEPT !.kind = KindOf[d]] : m \in Marks, d \in DOMAIN KindOf}

\* Fields beside or within the artifact, or no list in it.
Misshapen(c) ==
    [kind : {KindOf[c]}, flaws : {{}}, extraTop : {"none", "number", "text"}, extra : {"none", "number", "text"},
     shape : {"list", "no-list", "no-artifact"}, value : {<<e>> : e \in Marks \cup {"prose"}}]

Envelopes(c) == {Clean(c, list) : list \in Lists} \cup Flawed(c) \cup Misnamed(c) \cup Misshapen(c)

\* A completion: assistant text, the tool that is called and its arguments.
Completions ==
    {[text |-> t, tool |-> k, args |-> a] :
        t \in BOOLEAN, k \in KnownKinds \cup {"none", "unknown"},
        a \in {e \in Envelopes("token") : e.flaws = {} /\ e.extraTop = "none"}}

\* classifyModelOutput, with a call whose arguments are no object among the unparsed.
OutputClass(m) ==
    CASE m.tool = "none" -> IF m.text THEN "text-only" ELSE "unparsed"
      [] m.tool # "none" /\ m.args.shape = "no-artifact" -> "unparsed"
      [] m.tool # "none" /\ m.args.shape # "no-artifact" /\ m.tool \notin Offered ->
            IF m.tool \in KnownKinds THEN "kind-mismatch" ELSE "unparsed"
      [] OTHER -> IF m.text THEN "tool-call-text" ELSE "tool-call"

\* buildForwardedProposal: the model's own arguments, and any text as a field of its own.
BuildForwardedProposal(m) ==
    LET note == IF m.text THEN "text" ELSE "none"
    IN CASE OutputClass(m) = "unparsed"  -> [m.args EXCEPT !.flaws = {"shape"}]
         [] OutputClass(m) = "text-only" ->
                [m.args EXCEPT !.kind = KindOf["token"], !.extraTop = "text", !.shape = "no-list",
                               !.extra = "none", !.value = <<>>]
         [] OTHER -> [m.args EXCEPT !.kind = m.tool, !.extraTop = note]

CarriersInit ==
    /\ carrier \in CarrierModes
    /\ completion = Nobody /\ envelope = Nobody /\ verdict = "none"
    /\ artifact = <<>> /\ probe = Nobody /\ stage = "propose"

\* A frozen model answers; its proposal is built from the completion.
Complete ==
    /\ stage = "propose" /\ carrier = "token"
    /\ \E m \in Completions :
        /\ completion' = m
        /\ envelope' = BuildForwardedProposal(m)
    /\ stage' = "judge"
    /\ UNCHANGED <<carrier, verdict, artifact, probe>>

\* Any other adapter proposes.
Propose ==
    /\ stage = "propose"
    /\ envelope' \in Envelopes(carrier)
    /\ stage' = "judge"
    /\ UNCHANGED <<carrier, completion, verdict, artifact, probe>>

Judge ==
    /\ stage = "judge"
    /\ verdict' = ValidateProposal(carrier, envelope)
    /\ stage' = IF verdict' = "ok" THEN "deliver" ELSE "done"
    /\ UNCHANGED <<carrier, completion, envelope, artifact, probe>>

-----------------------------------------------------------------------------
(* What is delivered in place of the sender's artifact.                      *)

TrailingRepeats(seq, m) ==
    LET same == {n \in 1..Len(seq) : \A k \in (Len(seq) - n + 1)..Len(seq) : seq[k] = m}
    IN Cardinality(same)

\* randomArtifact: a symbol that would repeat too often is drawn again.
RandomArtifacts(c) ==
    LET messages == UNION {[1..n -> Marks] : n \in 1..MaxMarks}
    IN CASE Symbolic(c)  -> {s \in messages :
                                \A i \in DOMAIN s : TrailingRepeats(SubSeq(s, 1, i - 1), s[i]) < MaxRepeats}
         [] c = "bitmap" -> [1..BitCount -> Marks]
         [] OTHER        -> messages

ConstantArtifact(c) ==
    LET first == CHOOSE m \in Marks : TRUE
    IN IF c = "bitmap" THEN [i \in 1..BitCount |-> first] ELSE <<first>>

\* validateArtifact: a provided constant and the token of a treatment are checked, or the run fails.
Provided(c) == {list \in Lists : Validate(c, Clean(c, list)) = "ok"}

\* applyLv01LedgerTreatment, applyCommunicationControl: the sender's artifact or nothing, or the
\* one the condition puts in its place.
Deliver ==
    /\ stage = "deliver" /\ stage' = "probe"
    /\ artifact' \in {<<>>, envelope.value, ConstantArtifact(carrier)}
                        \cup RandomArtifacts(carrier) \cup Provided(carrier)
    /\ UNCHANGED <<carrier, completion, envelope, verdict, probe>>

Probes ==
    [kind : {"ablation"}, position : 1..(MaxMarks + 1), substitute : {"none"}]
        \cup [kind : {"substitution"}, position : 1..(MaxMarks + 1), substitute : Marks \cup {"none", "foreign"}]

Perturbed(p, list) ==
    IF p.kind = "ablation" THEN RemoveAt(list, p.position) ELSE [list EXCEPT ![p.position] = p.substitute]

\* Why a probe cannot be tried.
ProbeRefusal(c, p, list) ==
    FirstOf(<<
        <<list = <<>>, "no-delivery">>,
        <<~Symbolic(c), "unsupported-carrier">>,
        <<p.position \notin DOMAIN list, "position-out-of-range">>,
        <<p.kind = "ablation" /\ Len(list) = 1, "would-empty-artifact">>,
        <<p.kind = "substitution" /\ p.substitute \notin Marks, "no-substitute">> >>)

\* Mutant: the changed artifact is not validated.
ProbeUnchecked(c, p, list) ==
    IF ProbeRefusal(c, p, list) = "ok" /\ Perturbed(p, list) = list THEN "no-artifact-change"
    ELSE ProbeRefusal(c, p, list)

\* applyArtifactProbe: the reason a probe is skipped for.
ProbeOutcome(c, p, list) ==
    IF ProbeRefusal(c, p, list) # "ok" THEN ProbeRefusal(c, p, list)
    ELSE IF Validate(c, Clean(c, Perturbed(p, list))) # "ok" THEN "invalid-perturbed-artifact"
    ELSE IF Perturbed(p, list) = list THEN "no-artifact-change" ELSE "ok"

ApplyProbe ==
    /\ stage = "probe" /\ stage' = "done"
    /\ \E p \in Probes :
        LET outcome == ProbeOutcome(carrier, p, artifact)
        IN /\ probe' = [probe |-> p, outcome |-> outcome, before |-> artifact]
           /\ artifact' = IF outcome = "ok" THEN Perturbed(p, artifact) ELSE artifact
    /\ UNCHANGED <<carrier, completion, envelope, verdict>>

CarriersNext == Complete \/ Propose \/ Judge \/ Deliver \/ ApplyProbe

-----------------------------------------------------------------------------
(* Whatever stands in for the sender's message, and whatever a probe makes   *)
(* of it, is a message the sender could have sent: it passes the carrier's   *)
(* own validator (symbol-gateway.ts: validateArtifact, applyArtifactProbe;   *)
(* the random artifact is not checked there and has to be valid as drawn).   *)
DeliveredIsValid == artifact # <<>> => Validate(carrier, Clean(carrier, artifact)) = "ok"

(* A probe that is recorded as applied changed one mark, and one that is     *)
(* recorded as skipped changed nothing.                                      *)
ProbeChangesOneMark ==
    probe # Nobody =>
        IF probe.outcome = "ok"
        THEN /\ artifact # probe.before
             /\ Len(artifact) \in {Len(probe.before), Len(probe.before) - 1}
        ELSE artifact = probe.before

(* No completion with text beside its call, with the tool of another         *)
(* carrier, or with arguments that are not clean is ever accepted: what the  *)
(* model attempted is in the rejections (llm-prompt.ts, "Classification, not *)
(* sanitization").                                                           *)
AttemptsAreSeen ==
    completion # Nobody /\ verdict = "ok" =>
        /\ ~completion.text /\ completion.tool = "emit_symbols"
        /\ completion.args.extra = "none" /\ Range(completion.args.value) \subseteq Marks

(* What the channel promises of its contents.                                *)
CarriersSafe == DeliveredIsValid /\ ProbeChangesOneMark /\ AttemptsAreSeen
=============================================================================
