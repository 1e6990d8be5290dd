---------------------------- MODULE MCNurseryRun ----------------------------
(* Instances of NurseryRun for TLC: one training turn, and one held-out turn *)
(* or none.                                                                  *)
EXTENDS NurseryRun

Plain == [training |-> 1, evaluation |-> 1, evaluationOnly |-> FALSE,
          repair |-> FALSE, publisher |-> TRUE, disabled |-> FALSE]

\* A run whose evaluation budget is zero is sealed soonest.
CaptureOnly == [Plain EXCEPT !.evaluation = 0]

Frozen == [Plain EXCEPT !.evaluationOnly = TRUE]

Repaired == [Plain EXCEPT !.repair = TRUE]

\* Without messages.
Unanchored == [Plain EXCEPT !.publisher = FALSE, !.disabled = TRUE]

OnePlain == {Plain}
OneCaptureOnly == {CaptureOnly}
AllPlain == {Plain, Frozen, CaptureOnly}
CallConfigurations == {Plain, Frozen}
RestConfigurations == {Repaired, Unanchored}
AnyConfiguration == AllPlain \cup RestConfigurations
=============================================================================
