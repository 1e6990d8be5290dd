----------------------------- MODULE MCLearning -----------------------------
(* Instances for TLC of one Baby's learner: a learner of every track under   *)
(* the runtime, the forms a learner keeps, and the frozen model's adapter    *)
(* with its memory. A behaviour is of one of them; they share no state.      *)
EXTENDS Learning, Forms, FrozenLlm, TLC

CONSTANT Parts          \* the parts a run looks at

VARIABLE part           \* the part of this behaviour

babyVars == <<part, learnVars, formVars, llmVars>>

\* The first stage sets one knob; the second another, and consolidates.
TwoStages ==
    <<[start |-> 0, knobs |-> {"learningRate"}, consolidation |-> FALSE],
      [start |-> 1, knobs |-> {"temperature"}, consolidation |-> TRUE]>>

Of(track, condition, staged, derived) ==
    [track |-> track, condition |-> condition, staged |-> staged, derived |-> derived]

EveryTrack ==
    {Of("scratch-rl", "normal", FALSE, TRUE), Of("scratch-rl", "disabled", FALSE, FALSE),
     Of("self-supervised", "normal", TRUE, FALSE), Of("self-supervised", "disabled", FALSE, FALSE),
     Of("hybrid", "normal", TRUE, FALSE), Of("frozen-llm", "normal", FALSE, FALSE),
     Of("no-learning", "normal", FALSE, FALSE)}

MCMaxStrokes == [parent |-> 2, child |-> 1]

\* The marks are alike: nothing but the draws tells them apart.
AnyMark == Permutations(Marks)

\* A part that is not looked at is in one of its initial states.
Init ==
    /\ part \in Parts
    /\ LearningInit /\ FrozenLlmInit
    /\ part # "learning" => setting = CHOOSE s \in Settings : TRUE
    /\ IF part = "forms" THEN FormsInit
       ELSE /\ slots = <<>> /\ index = <<>> /\ next = 1 /\ pending = <<>> /\ inRun = "parent"
            /\ exported = [slots |-> <<>>] /\ restored = "none"

Next ==
    \/ part = "learning" /\ LearningNext /\ UNCHANGED <<part, formVars, llmVars>>
    \/ part = "forms" /\ FormsNext /\ UNCHANGED <<part, learnVars, llmVars>>
    \/ part = "frozen-llm" /\ FrozenLlmNext /\ UNCHANGED <<part, learnVars, formVars>>

Spec == Init /\ [][Next]_babyVars

(* What a learner keeps besides its policy: the forms of its carrier, and a  *)
(* frozen model's memory.                                                    *)
MemorySafe == (part = "forms" => FormsSafe) /\ FrozenLlmSafe
=============================================================================
