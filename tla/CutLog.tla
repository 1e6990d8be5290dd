------------------------------ MODULE CutLog ------------------------------
(* What the checkpoints of a run are promised to be: a sequence of cuts, one *)
(* prefix of every stream each, in which every cut extends the one before.   *)
(* A cut is never changed and never taken back.                              *)
EXTENDS Sequences, Naturals

CONSTANTS
    Streams,            \* the hash-chained streams of a run
    Event               \* what they hold

VARIABLE cuts

Cut == [Streams -> Seq(Event)]

Extends(cut, earlier) ==
    \A s \in Streams :
        /\ Len(earlier[s]) <= Len(cut[s])
        /\ \A i \in 1 .. Len(earlier[s]) : cut[s][i] = earlier[s][i]

Init == cuts = <<>>

Take(cut) ==
    /\ cuts # <<>> => Extends(cut, cuts[Len(cuts)])
    /\ cuts' = Append(cuts, cut)

Next == \E cut \in Cut : Take(cut)

\* For TLC, which cannot enumerate Cut: the new cut is read off the next state.
NextRead ==
    /\ Len(cuts') = Len(cuts) + 1
    /\ Take(cuts'[Len(cuts')])

Spec == Init /\ [][Next]_cuts
SpecRead == Init /\ [][NextRead]_cuts
=============================================================================
