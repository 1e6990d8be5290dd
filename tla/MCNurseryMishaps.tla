-------------------------- MODULE MCNurseryMishaps --------------------------
(* NurseryRun where things go wrong, in two instances: a crash among the     *)
(* operator's calls, or several mishaps of every kind once the training is   *)
(* over.                                                                     *)
EXTENDS MCNurseryRun

Calls == INSTANCE NurseryRun WITH
    Configurations <- CallConfigurations,
    Operations <- {"pause", "resume", "abort", "retrySeal",
                   "abandonSeal", "recover"},
    Overlap <- FALSE, MaxCalls <- 2, Mishaps <- {"crash", "lost"}, MaxMishaps <- 1

Faults == INSTANCE NurseryRun WITH
    Configurations <- OneCaptureOnly,
    Operations <- {"abort", "retrySeal", "recover"},
    Overlap <- FALSE, MaxCalls <- 1,
    Mishaps <- {"crash", "fault", "signers", "fork"}, MaxMishaps <- 2

VARIABLE setting

\* Bound: the mishaps of the second instance come around the seal.
MishapsAreLate == used'.mishaps /= used.mishaps => state \notin {"preregistered", "running"}

MishapSpec ==
    /\ setting \in {"calls", "faults"}
    /\ Init
    /\ [][ /\ IF setting = "calls" THEN Calls!Next ELSE Faults!Next /\ MishapsAreLate
           /\ UNCHANGED setting ]_<<vars, setting>>
=============================================================================
