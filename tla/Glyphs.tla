------------------------------- MODULE Glyphs -------------------------------
(* The strokes of a glyph and the audit of its components                    *)
(* (packages/gateway/src/carriers/glyph-bundle.ts, glyph-audit.ts): the      *)
(* loop that draws a line on the grid has no bound of its own, and the       *)
(* flood fill works on the cells' numbers, row after row.                    *)
EXTENDS Integers, Sequences, FiniteSets, SequencesExt

CONSTANTS
    Width, Height,      \* of the grid
    InkRows             \* bound: rows with ink where components are counted

ASSUME GlyphsAssumption == {Width, Height} \subseteq Nat \ {0} /\ InkRows \in Nat

VARIABLES
    from, to,           \* the ends of the stroke
    at,                 \* where the pen is
    deviation,          \* `error` of drawStroke
    bits,               \* cells with ink
    pen,                \* "draw", "fill" or "done"
    filled,             \* `seen` of countComponents
    stack,              \* cells to visit
    components          \* counted so far

glyphVars == <<from, to, at, deviation, bits, pen, filled, stack, components>>

Cells == [x : 0..(Width - 1), y : 0..(Height - 1)]
Number(c) == c.y * Width + c.x
Gap(a, b) == IF a > b THEN a - b ELSE b - a
Dx == Gap(from.x, to.x)
Dy == Gap(from.y, to.y)
StepX == IF from.x < to.x THEN 1 ELSE -1
StepY == IF from.y < to.y THEN 1 ELSE -1

\* A stroke begins, or the strokes of a glyph are drawn.
GlyphsInit ==
    /\ from \in Cells /\ to \in Cells
    /\ at = from /\ deviation = Dx - Dy
    /\ \/ pen = "draw" /\ bits = {}
       \/ pen = "fill" /\ from = to /\ Number(from) = 0 /\ bits \in SUBSET {c \in Cells : c.y < InkRows}
    /\ filled = {} /\ stack = <<>> /\ components = 0

\* One turn of the loop of drawStroke: both tests read the same doubled error.
Move(e) ==
    LET sideways == 2 * e > -Dy
        upwards == 2 * e < Dx
    IN [x |-> at.x + (IF sideways THEN StepX ELSE 0), y |-> at.y + (IF upwards THEN StepY ELSE 0),
        error |-> e - (IF sideways THEN Dy ELSE 0) + (IF upwards THEN Dx ELSE 0)]

DrawStroke ==
    /\ pen = "draw"
    /\ bits' = bits \cup {at}
    /\ IF at = to
       THEN pen' = "fill" /\ UNCHANGED <<at, deviation>>
       ELSE /\ at' = [x |-> Move(deviation).x, y |-> Move(deviation).y]
            /\ deviation' = Move(deviation).error
            /\ UNCHANGED pen
    /\ UNCHANGED <<from, to, filled, stack, components>>

\* The neighbours that lie on the grid, in any order: the stack's order does not matter.
Neighbours(c) == {d \in Cells : <<Gap(d.x, c.x), Gap(d.y, c.y)>> \in {<<0, 1>>, <<1, 0>>}}

Unseen == bits \ filled
InOrder(cells) == SetToSortSeq(cells, LAMBDA c, d : Number(c) < Number(d))

\* The next cell with ink that was not seen starts a component.
StartComponent ==
    /\ pen = "fill" /\ stack = <<>> /\ Unseen # {}
    /\ LET first == CHOOSE c \in Unseen : \A d \in Unseen : Number(c) <= Number(d)
       IN /\ stack' = <<first>> /\ filled' = filled \cup {first}
    /\ components' = components + 1
    /\ UNCHANGED <<from, to, at, deviation, bits, pen>>

Visit ==
    /\ pen = "fill" /\ stack # <<>>
    /\ LET cell == stack[Len(stack)]
           new == Neighbours(cell) \cap Unseen
       IN /\ stack' = SubSeq(stack, 1, Len(stack) - 1) \o InOrder(new)
          /\ filled' = filled \cup new
    /\ UNCHANGED <<from, to, at, deviation, bits, pen, components>>

CountIsDone ==
    /\ pen = "fill" /\ stack = <<>> /\ Unseen = {}
    /\ pen' = "done"
    /\ UNCHANGED <<from, to, at, deviation, bits, filled, stack, components>>

GlyphsNext == DrawStroke \/ StartComponent \/ Visit \/ CountIsDone

-----------------------------------------------------------------------------
\* Cells of the ink that reach each other by common sides.
Reach[n \in Nat, c \in Cells] ==
    IF n = 0 THEN {c}
    ELSE LET r == Reach[n - 1, c]
         IN r \cup {d \in bits : \E e \in r : Gap(d.x, e.x) + Gap(d.y, e.y) = 1}

(* Each turn of the loop of drawStroke inks one cell and takes the pen one   *)
(* step along the longer side of the stroke, within the stroke's box: the    *)
(* loop, which has no bound, ends with its stroke, and never writes beyond a *)
(* row, where the next row would get the ink (glyph-bundle.ts: `for (;;)`).  *)
StrokeReachesItsEnd ==
    pen = "draw" =>
        /\ at \in Cells /\ Gap(at.x, from.x) <= Dx /\ Gap(at.y, from.y) <= Dy
        /\ Cardinality(bits) = IF Dx > Dy THEN Gap(at.x, from.x) ELSE Gap(at.y, from.y)

(* The number of components is the number of classes of cells that are       *)
(* connected by their sides, whatever the order of the visits; a line that   *)
(* leaves a row at its end does not join the next row (glyph-audit.ts).      *)
ComponentsAreClasses ==
    pen = "done" =>
        components = Cardinality({Reach[Cardinality(bits), c] : c \in bits})

(* What the drawing and the audit of glyphs compute.                         *)
GlyphsSafe == StrokeReachesItsEnd /\ ComponentsAreClasses
=============================================================================
