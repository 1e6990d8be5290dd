------------------------------- MODULE Affect -------------------------------
(* The affect channel of one run (packages/gateway/src/affect.ts,            *)
(* affect-windows.ts): after the outcome of some turns a window opens for    *)
(* one answer of the Baby that acted, which the Gateway records as an affect *)
(* event, or refuses with a rejection. The windows are in memory, the oldest *)
(* are forgotten; the appends of concurrent submissions are in flight        *)
(* together and reach the writer in the order they were made.                *)
EXTENDS Integers, Sequences, FiniteSets, SequencesExt

CONSTANTS
    AffectModes,        \* affectMode of the runs that are looked at
    Period,             \* everyTurns of the schedule
    WindowHistory,      \* WINDOW_HISTORY_LIMIT: windows that are remembered
    AffectTurns,        \* bound: turns
    MaxSubmissions      \* bound: submissions

ASSUME AffectAssumption ==
    /\ AffectModes \subseteq {"declared", "derived", "emergent"}
    /\ {Period, WindowHistory} \subseteq Nat \ {0} /\ {AffectTurns, MaxSubmissions} \subseteq Nat

VARIABLES
    mode,               \* affectMode
    clock,              \* the last turn whose outcome is known
    windows,            \* remembered windows [turn, status], oldest first
    measured,           \* turns whose private measurement is retained, oldest first
    submissions,        \* made so far
    inFlight,           \* appends on their way to the writer
    affectLog           \* affect events and rejections of the run

affVars == <<mode, clock, windows, measured, submissions, inFlight, affectLog>>

Status(turn) ==
    IF \E w \in Range(windows) : w.turn = turn
    THEN (CHOOSE w \in Range(windows) : w.turn = turn).status ELSE "unknown"

Due(turn) == turn # 0 /\ turn % Period = 0

Consumed(turn) ==
    [i \in DOMAIN windows |->
        IF windows[i].turn = turn THEN [windows[i] EXCEPT !.status = "consumed"] ELSE windows[i]]

Evicted(seq) ==
    IF Len(seq) > WindowHistory THEN SubSeq(seq, Len(seq) - WindowHistory + 1, Len(seq)) ELSE seq

Outcome ==
    /\ clock < AffectTurns
    /\ clock' = clock + 1
    /\ UNCHANGED <<mode, windows, measured, submissions, inFlight, affectLog>>

\* A Baby that did not answer in its window has no second chance at it.
CloseAll == [i \in DOMAIN windows |-> [windows[i] EXCEPT !.status = "consumed"]]

\* The window of the turn whose outcome is known, when the schedule allows it.
OpenWindow ==
    /\ Due(clock) /\ Status(clock) = "unknown"
    /\ windows' = Evicted(Append(CloseAll, [turn |-> clock, status |-> "open"]))
    /\ UNCHANGED <<mode, clock, measured, submissions, inFlight, affectLog>>

Submits(turn, kind, inWindow) ==
    /\ submissions < MaxSubmissions
    /\ submissions' = submissions + 1
    /\ inFlight' = Append(inFlight, [kind |-> kind, turn |-> turn, inWindow |-> inWindow])
    /\ UNCHANGED <<mode, clock, affectLog>>

\* Outside an open window, or in a mode without submissions, the answer is
\* refused and the window stays as it is.
SubmitOutside(turn) ==
    /\ mode \in {"derived", "emergent"} \/ Status(turn) # "open"
    /\ Submits(turn, "rejected", FALSE)
    /\ UNCHANGED <<windows, measured>>

\* In its window an answer spends it, whether it is accepted or not, before
\* the append is made.
SubmitAffect(turn) ==
    /\ mode = "declared" /\ Status(turn) = "open"
    /\ \E kind \in {"affect", "rejected"} : Submits(turn, kind, TRUE)
    /\ windows' = Consumed(turn)
    /\ UNCHANGED measured

\* The Gateway maps a private measurement in place of an answer.
RecordDerivedAffect(turn) ==
    /\ mode = "derived" /\ Status(turn) = "open"
    /\ \E kind \in {"affect", "rejected"} :
        /\ Submits(turn, kind, TRUE)
        /\ measured' = IF kind = "affect" THEN Evicted(Append(measured, turn)) ELSE measured
    /\ windows' = Consumed(turn)

\* The writer commits the append, or refuses it.
AppendArrives ==
    /\ inFlight # <<>>
    /\ inFlight' = Tail(inFlight)
    /\ affectLog' \in {affectLog, Append(affectLog, Head(inFlight))}
    /\ UNCHANGED <<mode, clock, windows, measured, submissions>>

TakePrivateMeasurements ==
    /\ measured # <<>>
    /\ measured' = <<>>
    /\ UNCHANGED <<mode, clock, windows, submissions, inFlight, affectLog>>

AffectInit ==
    /\ mode \in AffectModes
    /\ clock = 0 /\ submissions = 0
    /\ windows = <<>> /\ inFlight = <<>> /\ affectLog = <<>> /\ measured = <<>>

Submission ==
    \E turn \in 0..clock :
        SubmitOutside(turn) \/ SubmitAffect(turn) \/ RecordDerivedAffect(turn)

AffectNext ==
    Outcome \/ OpenWindow \/ Submission \/ AppendArrives \/ TakePrivateMeasurements

AffectSpec == AffectInit /\ [][AffectNext]_affVars

---------------------------------------------------------------------------
(* Properties *)

AnswersMade == affectLog \o inFlight

\* Every window is answered at most once, accepted or not, and never after a
\* later window: the answers, those still on their way included, have strictly
\* increasing turns that the schedule allows, however submissions overlap and
\* although the oldest windows are forgotten (affect.ts openWindow,
\* submitAffectFrom).
AnswersFollowWindows ==
    \A i \in DOMAIN AnswersMade :
        AnswersMade[i].inWindow =>
            /\ Due(AnswersMade[i].turn)
            /\ \A j \in DOMAIN AnswersMade :
                  i < j /\ AnswersMade[j].inWindow => AnswersMade[i].turn < AnswersMade[j].turn
=============================================================================
