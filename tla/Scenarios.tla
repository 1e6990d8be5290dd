----------------------------- MODULE Scenarios -----------------------------
(* The referential scenario engine (referential-engine.ts): what a config    *)
(* may ask for, how the target, the candidates, their two orders and the     *)
(* utilities of an episode are drawn, which rows each Baby is shown, how a   *)
(* selection is judged, the oracle's code - and the hygiene filter           *)
(* (hygiene.ts) an observation passes or is blocked by (observation.ts).     *)
(* The seeded generator is a free choice among the values it may return.     *)
EXTENDS Integers, Sequences, FiniteSets, SequencesExt, FiniteSetsExt

CONSTANTS
    ConfigInputs,       \* configs a caller may construct an engine from, each
                        \* with the run's id, as the filter sees it
    Splits,             \* "train", "validation", "held-out", "evaluation"
    FrozenConfig,       \* the config LV01 cases require
    PartitionCases,     \* cases of each LV01 partition and receiver role
    MaxUtility,         \* utilities are 1 .. MaxUtility
    MidReservations,    \* reservations of the conflicting profile
    MaxSymbols          \* symbols a message may carry

ASSUME ScenariosAssumption ==
    /\ MaxUtility \in Nat \ {0} /\ MaxSymbols \in Nat \ {0}
    /\ MidReservations # {} /\ Splits # {}

Babies == {"baby-a", "baby-b"}
Other(role) == CHOOSE r \in Babies : r # role
Negotiations == {"semi-cooperative-negotiation", "conflicting-negotiation", "no-agreement-control"}
Partitions == DOMAIN PartitionCases

VARIABLES
    engine,             \* the config of the engine, or None
    episode,            \* what was drawn for the episode, or None
    truth,              \* its ground truth, or None
    shown,              \* per Baby: "none", or its observation "delivered" or "blocked"
    audited             \* the errors handed to the audit sink

scenVars == <<engine, episode, truth, shown, audited>>

None == [nothing |-> TRUE]

---------------------------------------------------------------------------
(* The config *)

TypeCodeCount(c) == c.values ^ c.attrs
TypeCodes(c) == 0 .. TypeCodeCount(c) - 1

\* The fewest inventory symbols that tell every type code apart.
SymbolWidth(c) == CHOOSE w \in 1 .. TypeCodeCount(c) :
    /\ Len(c.inventory) ^ w >= TypeCodeCount(c)
    /\ \A v \in 1 .. w - 1 : Len(c.inventory) ^ v < TypeCodeCount(c)

\* The constructor's checks.
Admissible(c) ==
    /\ c.attrs >= 1 /\ c.values >= 2 /\ c.cands >= 2
    /\ c.cands <= TypeCodeCount(c)
    /\ Len(c.inventory) >= 2 /\ IsInjective(c.inventory)
    /\ c.held \subseteq TypeCodes(c)
    /\ TypeCodeCount(c) - Cardinality(c.held) >= c.cands
    /\ SymbolWidth(c) <= MaxSymbols

Construct(c) ==
    /\ engine = None
    /\ Admissible(c)
    /\ engine' = c
    /\ UNCHANGED <<episode, truth, shown, audited>>

TrainTargetPool == TypeCodes(engine) \ engine.held
HeldOutTargetPool == IF engine.held = {} THEN TypeCodes(engine) ELSE engine.held

TargetPool(split) ==
    CASE split \in {"train", "validation"} -> TrainTargetPool
      [] split = "held-out" -> HeldOutTargetPool
      [] OTHER -> TypeCodes(engine)

CandidatePool(split) ==
    IF split \in {"train", "validation"} THEN TrainTargetPool ELSE TypeCodes(engine)

---------------------------------------------------------------------------
(* Generation *)

\* The attribute codes of a type code, most significant first.
AttributeCodesFor(code) ==
    [p \in 1 .. engine.attrs |-> (code \div (engine.values ^ (engine.attrs - p))) % engine.values]

\* A target with its distractors, in two orders drawn apart.
Drawn(split, sender, target, pool) ==
    /\ \E distractors \in kSubset(engine.cands - 1, pool \ {target}) :
       \E senderOrder, receiverOrder \in SetToSeqs({target} \cup distractors) :
          episode' = [split |-> split, sender |-> sender, target |-> target,
                      senderOrder |-> senderOrder, receiverOrder |-> receiverOrder]
    /\ UNCHANGED <<engine, truth, shown, audited>>

\* generate: an episode of one of the four splits.
Generate(split, sender) ==
    /\ engine # None /\ episode = None
    /\ \E target \in TargetPool(split) : Drawn(split, sender, target, CandidatePool(split))

\* generateLv01Case: the target of a scheduled case goes round the eligible
\* types; only the frozen config has such cases.
GenerateLv01Case(partition, sender, caseIndex) ==
    /\ engine = FrozenConfig /\ episode = None
    /\ caseIndex < PartitionCases[partition]
    /\ LET eligible == TypeCodes(engine) \ engine.held
           codes == SetToSortSeq(eligible, <)
           target == codes[(caseIndex % Len(codes)) + 1] IN
       Drawn(IF partition = "training" THEN "train" ELSE "validation", sender, target, eligible)

Candidates == Range(episode.receiverOrder)

Clamp(v) == Max({1, Min({MaxUtility, v})})

\* The utilities of both Babies: drawn apart, or against each other.
UtilityDraws ==
    {u \in [Babies -> [Candidates -> 1 .. MaxUtility]] :
        engine.mode = "conflicting-negotiation" =>
            \A code \in Candidates : \E noise \in -1 .. 1 :
                u["baby-b"][code] = Clamp(MaxUtility + 1 - u["baby-a"][code] + noise)}

\* The reservations: at or below the utilities of one anchor, mid-range, or
\* one of them above every utility of its Baby.
ReservationDraws(u) ==
    CASE engine.mode = "semi-cooperative-negotiation" ->
            {r \in [Babies -> 1 .. MaxUtility] :
                \E anchor \in Candidates : \A b \in Babies : r[b] <= u[b][anchor]}
      [] engine.mode = "conflicting-negotiation" -> [Babies -> MidReservations]
      [] OTHER ->
            {r \in [Babies -> 1 .. MaxUtility + 1] : \E blocked \in Babies :
                /\ r[blocked] = Max({u[blocked][code] : code \in Candidates}) + 1
                /\ r[Other(blocked)] <= MaxUtility}

Acceptable(t, code) == \A b \in Babies : t.utilities[b][code] >= t.reservations[b]

\* zoneOfPossibleAgreement: every candidate when nothing was reserved.
ZoneOf(t) ==
    IF t.utilities = <<>> THEN Range(t.receiverOrder)
    ELSE {code \in Range(t.receiverOrder) : Acceptable(t, code)}

GroundTruth(u, r) ==
    [target |-> episode.target, sender |-> episode.sender, split |-> episode.split,
     senderOrder |-> episode.senderOrder, receiverOrder |-> episode.receiverOrder,
     utilities |-> u, reservations |-> r]

\* The end of generateFromPrng: the negotiation state, or none.
Commit ==
    /\ episode # None /\ truth = None
    /\ IF engine.mode \in Negotiations
       THEN \E u \in UtilityDraws : \E r \in ReservationDraws(u) : truth' = GroundTruth(u, r)
       ELSE truth' = GroundTruth(<<>>, <<>>)
    /\ UNCHANGED <<engine, episode, shown, audited>>

---------------------------------------------------------------------------
(* Observations *)

VisibleAttributes == IF engine.mode = "asymmetric-information" THEN 1 ELSE engine.attrs

UtilityColumns(t, role, code) ==
    IF t.utilities = <<>> THEN <<>> ELSE <<t.utilities[role][code], t.reservations[role]>>

\* Mutant: a row of the receiver's has the sender's utilities.
PayloadOfSender(t, role) ==
    IF role = t.sender
    THEN [i \in DOMAIN t.senderOrder |->
            LET code == t.senderOrder[i] IN
            AttributeCodesFor(code) \o <<IF code = t.target THEN 1 ELSE 0>> \o UtilityColumns(t, role, code)]
    ELSE [i \in DOMAIN t.receiverOrder |->
            LET code == t.receiverOrder[i] IN
            SubSeq(AttributeCodesFor(code), 1, VisibleAttributes) \o UtilityColumns(t, t.sender, code)]

\* buildObservationPayloads: the sender's rows carry the target's flag, the
\* receiver's only what it may see, each the utilities of its own.
Payload(t, role) ==
    IF role = t.sender
    THEN [i \in DOMAIN t.senderOrder |->
            LET code == t.senderOrder[i] IN
            AttributeCodesFor(code) \o <<IF code = t.target THEN 1 ELSE 0>> \o UtilityColumns(t, role, code)]
    ELSE [i \in DOMAIN t.receiverOrder |->
            LET code == t.receiverOrder[i] IN
            SubSeq(AttributeCodesFor(code), 1, VisibleAttributes) \o UtilityColumns(t, role, code)]

\* A string that reads as a sentence: long, of two words or more, with a
\* function word; in a well-formed id a single letter is none.
LooksLikeProse(text) ==
    /\ text.long /\ text.words >= 2
    /\ (text.function = "word" \/ (text.function = "letter" /\ ~text.form))

ClassifyString(text) ==
    {e \in {"human-language-token", "prose-string", "pictographic"} :
        \/ e = "human-language-token" /\ text.token
        \/ e = "prose-string" /\ LooksLikeProse(text)
        \/ e = "pictographic" /\ text.picto}

\* hygieneErrors, of what this program's builder can hand it: a payload of
\* numbers in rows, and the run's id.
HygieneErrors(payload) ==
    ClassifyString(engine.runId)
    \cup {e \in {"run-id-format", "ragged-payload"} :
            \/ e = "run-id-format" /\ ~engine.runId.form
            \/ e = "ragged-payload" /\ \E i, j \in DOMAIN payload : Len(payload[i]) # Len(payload[j])}

\* observationFor: built field by field, then filtered; what is blocked is
\* told to the audit sink whole.
ObservationFor(role) ==
    /\ truth # None /\ shown[role] = "none"
    /\ LET errors == HygieneErrors(Payload(truth, role)) IN
       /\ shown' = [shown EXCEPT ![role] = IF errors = {} THEN "delivered" ELSE "blocked"]
       /\ audited' = audited \cup errors
    /\ UNCHANGED <<engine, episode, truth>>

---------------------------------------------------------------------------
(* Judgement *)

\* Fixed-width positional encoding of a type code into inventory symbols.
EncodeTypeCode(code) ==
    LET base == Len(engine.inventory)
        width == SymbolWidth(engine) IN
    [p \in 1 .. width |-> engine.inventory[((code \div (base ^ (width - p))) % base) + 1]]

\* decodeTypeCode; the symbols are of the inventory.
DecodeTypeCode(symbols) ==
    LET base == Len(engine.inventory) IN
    FoldLeft(LAMBDA code, s : code * base + SelectInSeq(engine.inventory, LAMBDA x : x = s) - 1, 0, symbols)

\* oracleAction: the candidate that carries the decoded type.
OracleAction(symbols) ==
    LET code == DecodeTypeCode(symbols) IN
    IF Len(symbols) = SymbolWidth(engine) /\ code \in Range(truth.receiverOrder)
    THEN SelectInSeq(truth.receiverOrder, LAMBDA x : x = code)
    ELSE 0

\* evaluate: the reference at a receiver's position selects its type.
Evaluate(position) ==
    /\ position \in DOMAIN truth.receiverOrder
    /\ LET code == truth.receiverOrder[position] IN
       IF truth.utilities = <<>> THEN code = truth.target ELSE Acceptable(truth, code)

---------------------------------------------------------------------------

ScenariosInit ==
    /\ engine = None /\ episode = None /\ truth = None
    /\ shown = [r \in Babies |-> "none"] /\ audited = {}

ScenariosNext ==
    \/ \E c \in ConfigInputs : Construct(c)
    \/ \E split \in Splits, sender \in Babies : Generate(split, sender)
    \/ \E partition \in Partitions, sender \in Babies :
         \E i \in 0 .. PartitionCases[partition] - 1 : GenerateLv01Case(partition, sender, i)
    \/ Commit
    \/ \E role \in Babies : ObservationFor(role)

---------------------------------------------------------------------------
(* Properties *)

Ready == truth # None

\* No held-out type is among the candidates of a training or a validation
\* episode, be it drawn or scheduled, and the target always is among them
\* (candidatePool, generateLv01Case).
HeldOutUnseen ==
    Ready =>
        /\ truth.target \in Range(truth.receiverOrder)
        /\ truth.split \in {"train", "validation"} => Range(truth.receiverOrder) \cap engine.held = {}

\* The zone of possible agreement is what the profile promises for every
\* draw: never empty in the semi-cooperative one, always empty in the
\* no-agreement control (assertZopaInvariant never throws), and a selection
\* agrees exactly when it is of the zone.
ZoneIsAsPromised ==
    Ready /\ engine.mode \in Negotiations =>
        /\ engine.mode = "semi-cooperative-negotiation" => ZoneOf(truth) # {}
        /\ engine.mode = "no-agreement-control" => ZoneOf(truth) = {}
        /\ \A i \in DOMAIN truth.receiverOrder : Evaluate(i) = (truth.receiverOrder[i] \in ZoneOf(truth))

\* The oracle's message names the target to any receiver: decoded and looked
\* up among the candidates, whatever their order, it selects the target.
OracleReachesTarget ==
    Ready =>
        LET chosen == OracleAction(EncodeTypeCode(truth.target)) IN
        /\ chosen # 0 /\ truth.receiverOrder[chosen] = truth.target
        /\ engine.mode \notin Negotiations => Evaluate(chosen)

\* What a Baby is shown does not depend on what it may not know: the
\* receiver's rows are the same whichever candidate is the target, and
\* neither Baby's depend on the other's utilities or reservation.
OwnRowsOnly ==
    Ready =>
        /\ \A code \in Range(truth.receiverOrder) :
              LET other == Other(truth.sender) IN
              Payload([truth EXCEPT !.target = code], other) = Payload(truth, other)
        /\ truth.utilities # <<>> =>
              \A role \in Babies :
                 LET blind == [truth EXCEPT !.utilities[Other(role)] =
                                              [c \in Range(truth.receiverOrder) |-> 1],
                                            !.reservations[Other(role)] = 1] IN
                 Payload(blind, role) = Payload(truth, role)

(* What the scenario engine promises of its episodes and observations.       *)
ScenariosSafe ==
    /\ HeldOutUnseen /\ ZoneIsAsPromised /\ OracleReachesTarget /\ OwnRowsOnly
=============================================================================
