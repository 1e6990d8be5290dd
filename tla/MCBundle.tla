------------------------------ MODULE MCBundle ------------------------------
(* Instances of Bundle for TLC: each setting bounds what happens to its run. *)
EXTENDS Bundle

Plain == [interventions |-> "none", anchoring |-> "publisher", generation |-> 0, intervals |-> FALSE,
          mishaps |-> 0, calls |-> 0, damage |-> 0, reads |-> 1]

\* Two things go wrong in a run.
Troubled == {[Plain EXCEPT !.interventions = i, !.mishaps = 2] : i \in {"none", "probes", "repair"}}

\* Operators act beside a run, with short checkpoint intervals, and beside one
\* in which something goes wrong.
Attended ==
    {[Plain EXCEPT !.calls = 1, !.interventions = i, !.intervals = TRUE] : i \in {"none", "probes", "repair"}}
    \cup {[Plain EXCEPT !.calls = 2], [Plain EXCEPT !.calls = 1, !.mishaps = 1]}

\* A run without a publisher, and a derived run of each generation.
Others == {[Plain EXCEPT !.anchoring = "skip", !.calls = 1],
           [Plain EXCEPT !.generation = 1], [Plain EXCEPT !.generation = 2]}

\* Two things are done to the files of a run.
Damaged == {[Plain EXCEPT !.damage = 2], [Plain EXCEPT !.interventions = "probes", !.damage = 1],
            [Plain EXCEPT !.calls = 1, !.damage = 1]}

\* A run whose exports read the streams at two instants.
Torn == {[Plain EXCEPT !.calls = 1, !.reads = 2]}

SomeSettings == Troubled \cup Attended \cup Others \cup Damaged \cup Torn
=============================================================================
