------------------------------- MODULE Forms -------------------------------
(* The forms a learner invents, takes over from its partner and varies       *)
(* (packages/learners/src/carrier-support.ts): a fixed number of slots that  *)
(* are replaced in turn, an index from marks to slots, the deliveries that   *)
(* wait for their turn to be recorded, and the state a policy carries.       *)
EXTENDS Integers, Sequences, FiniteSets, SequencesExt

CONSTANTS
    FormCount,          \* slots
    Variants,           \* forms of the same number of strokes
    MaxStrokesOf,       \* [parent, child]: maxStrokes of the run and of a run derived from it
    FormTurns           \* bound: turns

ASSUME FormsAssumption ==
    /\ FormCount \in Nat \ {0, 1} /\ FormTurns \in Nat
    /\ DOMAIN MaxStrokesOf = {"parent", "child"} /\ MaxStrokesOf["child"] <= MaxStrokesOf["parent"]

VARIABLES
    slots,              \* artifacts, origins, introducedTurns, parentMarkHashes
    index,              \* indexByMarkHash
    next,               \* nextReplacementSlot
    pending,            \* pendingObserved: turn -> forms
    inRun,              \* the run the learner is in
    exported,           \* the learning state of the last policy
    restored            \* what became of the last restore

formVars == <<slots, index, next, pending, inRun, exported, restored>>

\* A mark stands for its artifact; its hash names it.
FormMarks == [strokes : 1..MaxStrokesOf["parent"], variant : Variants]
Unmarked == [strokes |-> 0]

Slot(m, origin, turn, parent) == [mark |-> m, origin |-> origin, turn |-> turn, parent |-> parent]

\* inventForms: distinct forms within the run's cap, the same for every process of the run.
FormsInit ==
    /\ \E m \in {f \in [1..FormCount -> FormMarks] : IsInjective(f)} :
        /\ slots = [i \in 1..FormCount |-> Slot(m[i], "initialized", 0, Unmarked)]
        /\ index = [f \in Range(m) |-> CHOOSE i \in 1..FormCount : m[i] = f]
    /\ next = 1 /\ pending = <<>> /\ inRun = "parent"
    /\ exported = [slots |-> <<>>] /\ restored = "none"

Staged == UNION {Range(pending[t]) : t \in DOMAIN pending}

\* observeDelivery: the partner's form is staged unless it is known or staged.
ObserveDelivery ==
    /\ Len(pending) < FormTurns /\ inRun = "parent"
    /\ \E m \in FormMarks :
        pending' = Append(pending,
            IF m \in DOMAIN index \cup Staged THEN <<>> ELSE <<m>>)
    /\ UNCHANGED <<slots, index, next, inRun, exported, restored>>

ReplaceNextSlot(r, m, origin, turn, parent) ==
    LET old == r.slots[r.next].mark
        kept == {f \in DOMAIN r.index : f # old \/ r.index[f] # r.next}
    IN [slots |-> [r.slots EXCEPT ![r.next] = Slot(m, origin, turn, parent)],
        index |-> [f \in kept \cup {m} |-> IF f = m THEN r.next ELSE r.index[f]],
        next |-> (r.next % FormCount) + 1]

Registry == [slots |-> slots, index |-> index, next |-> next]

Acquired(r, m, turn) ==
    IF m \in DOMAIN r.index THEN r ELSE ReplaceNextSlot(r, m, "acquired", turn, Unmarked)

\* modifyArtifact changes one coordinate of one stroke: another form of as many strokes.
VariantsOf(r, m) == {f \in FormMarks : f.strokes = m.strokes /\ f # m} \ DOMAIN r.index

Become(r) == slots' = r.slots /\ index' = r.index /\ next' = r.next

\* commitObservedForms for a turn: the staged form, then a variant of it; where no variant is
\* new, it throws with the form acquired and still staged.
CommitObservedForms ==
    /\ \E t \in DOMAIN pending :
        /\ pending[t] # <<>>
        /\ LET m == pending[t][1]
               r == Acquired(Registry, m, t)
           IN IF VariantsOf(r, m) = {}
              THEN Become(r) /\ UNCHANGED pending
              ELSE /\ \E v \in VariantsOf(r, m) : Become(ReplaceNextSlot(r, v, "modified", t, m))
                   /\ pending' = [pending EXCEPT ![t] = <<>>]
    /\ UNCHANGED <<inRun, exported, restored>>

ExportLearningState ==
    /\ inRun = "parent"
    /\ exported' = [slots |-> slots, next |-> next]
    /\ UNCHANGED <<slots, index, next, pending, inRun, restored>>

\* restoreLearningState: the checks, all of them before anything is changed.
Accepts(state, run) ==
    /\ IsInjective([i \in 1..FormCount |-> state[i].mark])
    /\ \A i \in 1..FormCount :
        /\ (state[i].origin = "modified") <=> (state[i].parent # Unmarked)
        /\ state[i].mark.strokes <= MaxStrokesOf[run]

\* A process of the run, or of a run derived from it, restores the policy's forms, or does not
\* start: the forms that waited for their turn are gone.
RestoreLearningState ==
    /\ exported.slots # <<>> /\ inRun = "parent"
    /\ \E run \in {"parent", "child"} :
        IF Accepts(exported.slots, run)
        THEN /\ slots' = exported.slots /\ next' = exported.next
             /\ index' = [f \in {exported.slots[i].mark : i \in 1..FormCount} |->
                             CHOOSE i \in 1..FormCount : exported.slots[i].mark = f]
             /\ inRun' = run /\ restored' = "accepted " \o run /\ pending' = <<>>
        ELSE restored' = "refused " \o run /\ UNCHANGED <<slots, index, next, pending, inRun>>
    /\ UNCHANGED exported

FormsNext == ObserveDelivery \/ CommitObservedForms \/ ExportLearningState \/ RestoreLearningState

-----------------------------------------------------------------------------
(* The index names every form of the registry at its slot and nothing else,  *)
(* after any sequence of acquisitions, variants that replace one another,    *)
(* failed commits and restores: a delivery is never taken for a form whose   *)
(* slot now holds another one (indexByMarkHash).                             *)
IndexFindsForms ==
    /\ DOMAIN index = {slots[i].mark : i \in 1..FormCount}
    /\ \A i \in 1..FormCount : index[slots[i].mark] = i

(* The state a policy carries is one its own run restores                    *)
(* (exportLearningState, restoreLearningState).                              *)
SavedRestores == restored # "refused parent"

(* Every form a learner may emit passes the cap on strokes of the run it is  *)
(* in, also when it came from a run with a larger one: the Gateway would     *)
(* reject it on every turn it is chosen.                                     *)
OwnFormsPass == \A i \in 1..FormCount : slots[i].mark.strokes <= MaxStrokesOf[inRun]

(* What a learner's forms promise.                                           *)
FormsSafe == IndexFindsForms /\ SavedRestores /\ OwnFormsPass
=============================================================================
