----------------------------- MODULE MCServices -----------------------------
(* Instances for TLC of the services a turn passes through, side by side: a  *)
(* behaviour is of one of them, and leaves the others' variables as they     *)
(* are. The Gateway and the controller's turn, the boundary of a learner,    *)
(* its framing, the affect channel, the carriers of what is said and the     *)
(* glyphs they may draw on share no state.                                   *)
EXTENDS Gateway, Isolation, Affect, Frames, Carriers, Glyphs

CONSTANTS Parts         \* the services that are looked at

VARIABLE part

serviceVars == <<part, gwVars, isoVars, affVars, frmVars, carVars, glyphVars>>

\* The host's schedule is looked at without the relay.
SomeBoundaries ==
    [link : {"direct", "relayed"}, timing : {"normalized", "plain"}]
        \ {[link |-> "relayed", timing |-> "normalized"]}

\* A line of one cell, drawn.
NoLine ==
    /\ from = [x |-> 0, y |-> 0] /\ to = from /\ at = from /\ deviation = 0 /\ pen = "draw"
    /\ bits = {} /\ filled = {} /\ stack = <<>> /\ components = 0

\* A remote Gateway is looked at in ordinary runs only; a service that is not
\* looked at is in one of its initial states.
Init ==
    /\ part \in Parts
    /\ GatewayInit /\ IsolationInit /\ AffectInit /\ FramesInit
    /\ CarriersInit
    /\ IF part = "glyphs" THEN GlyphsInit ELSE NoLine
    /\ setting.hosting = "remote" => setting.condition = "normal"
    /\ part # "gateway" =>
            /\ setting.condition = "normal"
            /\ setting.hosting = CHOOSE h \in Hostings : TRUE
            /\ \A n \in 1..BatchSize :
                  setting.permutations[n] = CHOOSE p \in Deranged(n) : TRUE
    /\ part # "isolation" => boundary = CHOOSE b \in Boundaries : TRUE
    /\ part # "carriers" => carrier = CHOOSE c \in CarrierModes : TRUE
    /\ part # "affect" => mode = CHOOSE m \in AffectModes : TRUE

Next ==
    \/ part = "gateway" /\ GatewayNext /\ UNCHANGED <<part, isoVars, affVars, frmVars, carVars, glyphVars>>
    \/ part = "isolation" /\ IsolationNext /\ UNCHANGED <<part, gwVars, affVars, frmVars, carVars, glyphVars>>
    \/ part = "affect" /\ AffectNext /\ UNCHANGED <<part, gwVars, isoVars, frmVars, carVars, glyphVars>>
    \/ part = "frames" /\ FramesNext /\ UNCHANGED <<part, gwVars, isoVars, affVars, carVars, glyphVars>>
    \/ part = "carriers" /\ CarriersNext /\ UNCHANGED <<part, gwVars, isoVars, affVars, frmVars, glyphVars>>
    \/ part = "glyphs" /\ GlyphsNext /\ UNCHANGED <<part, gwVars, isoVars, affVars, frmVars, carVars>>

Spec == Init /\ [][Next]_serviceVars

FairSpec ==
    /\ Spec
    /\ WF_gwVars(part = "gateway" /\ GatewayMoves)
    /\ WF_isoVars(part = "isolation" /\ TimerSteps)

(* What the affect channel and the carriers promise of what a Baby says.     *)
ChannelsSafe == AnswersFollowWindows /\ CarriersSafe

(* What the framing of a message and the drawing of a glyph compute.         *)
CodecsSafe == FramesSafe /\ GlyphsSafe

(* Under fair timers and a fair controller, a turn ends and a call returns.  *)
ServicesLive == TurnsEnd /\ CallsReturn
=============================================================================
