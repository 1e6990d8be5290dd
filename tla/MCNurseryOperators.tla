------------------------- MODULE MCNurseryOperators -------------------------
(* NurseryRun in the hands of its operator, in three instances: four calls   *)
(* around a seal that blocks, two calls that overlap a step or a seal, or    *)
(* one call and a crash under fair scheduling.                               *)
EXTENDS MCNurseryRun

Retries == INSTANCE NurseryRun WITH
    Configurations <- OneCaptureOnly,
    Operations <- {"pause", "resume", "annotate", "abort", "retrySeal", "abandonSeal"},
    Overlap <- FALSE, MaxCalls <- 4, Mishaps <- {}, MaxMishaps <- 0

Overlaps == INSTANCE NurseryRun WITH
    Configurations <- OneCaptureOnly,
    Operations <- {"pause", "resume", "abort"},
    Overlap <- TRUE, MaxCalls <- 2, Mishaps <- {}, MaxMishaps <- 0

Rests == INSTANCE NurseryRun WITH
    Configurations <- RestConfigurations,
    Operations <- {"pause", "resume", "abort"},
    Overlap <- FALSE, MaxCalls <- 1, Mishaps <- {"crash"}, MaxMishaps <- 1

VARIABLE setting

OperatorSpec ==
    /\ setting \in {"retries", "overlaps", "rests"}
    /\ Init
    /\ [][ /\ CASE setting = "retries" -> Retries!Next
                [] setting = "overlaps" -> Overlaps!Next
                [] setting = "rests" -> Rests!Next
           /\ UNCHANGED setting ]_<<vars, setting>>

\* FairSpec, in the one setting that is fair.
FairOperatorSpec ==
    /\ OperatorSpec
    /\ \A c \in Callers : WF_vars(setting = "rests" /\ Rests!Proceed(c))
    /\ WF_vars(setting = "rests" /\ (Rests!StartStep \/ Rests!StartSeal \/ (~loaded /\ Rests!StartRecover)))

\* Under fair scheduling every run comes to rest: it ends, or it waits for the
\* operator, or an uncertain write or a turn without its record stops it
\* (runToCompletion, seal).
FairRunRests ==
    <>[](setting = "rests" /\ Registered =>
            /\ task["driver"].at = "idle"
            /\ \/ IsTerminal(state)
               \/ state \in {"paused", "sealing-blocked"}
               \/ quarantined \/ mem.incomplete)
=============================================================================
