------------------------------- MODULE Motion -------------------------------
(***************************************************************************)
(* Did it move?  src/server/src/analytics/motion.rs: a background that     *)
(* follows the picture slowly, cell by cell, in integers of 1/Unit of a    *)
(* level; a frame moved when enough cells are far from the background, and *)
(* is another scene when most are.                                         *)
(*                                                                         *)
(* The grid is one line of cells, each given at once: the average over a   *)
(* cell's pixels, and the rectangle reported, are left out.                *)
(***************************************************************************)
EXTENDS Naturals, Integers, FiniteSets, Sequences

CONSTANTS
    Grids,          \* the numbers of cells the grid may have
    Levels,         \* the lumas a cell may have
    Top,            \* 255: the highest of them
    Unit,           \* 256: the background is kept in this fraction of a level
    Alpha,          \* BG_ALPHA: how much of the difference it takes, of 256
    Delta,          \* cell_delta
    Threshold,      \* threshold, in hundredths of the grid
    Scene,          \* scene, in hundredths of the grid
    MaxGap,         \* max_gap_ms
    Gaps,           \* the times between frames
    Left,           \* how far from a still picture the background may be at each frame of it
    MaxFrames       \* bound: frames

\* A background at any distance comes near enough to a picture for its cells
\* not to have moved: within as many frames as Left has places.
MotionAssumption ==
    /\ Grids \subseteq Nat \ {0} /\ Top \in Nat /\ Levels \subseteq 0..Top
    /\ Unit \in Nat \ {0} /\ Alpha \in 1..Unit /\ Delta \in Nat \ {0}
    /\ Threshold \in Nat \ {0} /\ Scene \in Nat /\ Threshold < Scene
    /\ Left \in Seq(Nat) /\ Left # <<>> /\ Left[1] = Top * Unit
    /\ \A n \in 1..(Len(Left) - 1) : Left[n + 1] = Left[n] - (Left[n] * Alpha) \div Unit
    /\ Left[Len(Left)] <= (Delta - 1) * Unit

VARIABLES
    grid,       \* gw * gh
    background, \* bg, while has_bg
    known,      \* has_bg
    shown,      \* the last frame
    verdict,    \* MotionResult: still, moved or scene
    same,       \* how many frames in a row have shown this picture
    frames      \* frames so far, for the bound

mvars == <<grid, background, known, shown, verdict, same, frames>>

Cells == 1..grid
Blank(g) == [c \in 1..g |-> 0]

MotionInit ==
    /\ grid \in Grids
    /\ background = Blank(grid) /\ known = FALSE
    /\ shown = Blank(grid) /\ verdict = "still" /\ same = 0 /\ frames = 0

\* seed_background.
Seed(f) == [c \in Cells |-> f[c] * Unit]

\* An arithmetic shift rounds down, a division toward zero.
Quotient(a, b) == IF a >= 0 THEN a \div b ELSE -((-a) \div b)
Abs(x) == IF x < 0 THEN -x ELSE x

Moved(f) == {c \in Cells : Abs(f[c] - background[c] \div Unit) >= Delta}

\* Wrong on purpose: what moves is never learnt.
FollowsTimidly(f) ==
    [c \in Cells |-> IF c \in Moved(f) THEN background[c]
                     ELSE background[c] + Quotient((f[c] * Unit - background[c]) * Alpha, Unit)]

\* The background goes part of the way to the frame.
Follows(f) ==
    [c \in Cells |->
        background[c] + Quotient((f[c] * Unit - background[c]) * Alpha, Unit)]

\* feed: no reference, or a hole in time, and the frame is the reference.
Feed(f, gap) ==
    /\ frames < MaxFrames /\ frames' = frames + 1
    /\ LET share == 100 * Cardinality(Moved(f))
           fresh == ~known \/ (same > 0 /\ gap > MaxGap)
       IN  /\ verdict' = IF fresh \/ share < Threshold * grid THEN "still"
                         ELSE IF share >= Scene * grid THEN "scene" ELSE "moved"
           /\ background' = IF fresh \/ share >= Scene * grid THEN Seed(f) ELSE Follows(f)
    /\ known' = TRUE
    /\ shown' = f /\ same' = IF f = shown THEN same + 1 ELSE 1
    /\ UNCHANGED grid

\* reset.
Reset ==
    /\ known /\ known' = FALSE /\ same' = 0
    /\ UNCHANGED <<grid, background, shown, verdict, frames>>

\* ajustar: another grid has another background.
Regrid(g) ==
    /\ g # grid /\ grid' = g
    /\ known' = FALSE /\ same' = 0
    /\ background' = Blank(g) /\ shown' = Blank(g)
    /\ UNCHANGED <<verdict, frames>>

MotionNext ==
    \/ \E f \in [Cells -> Levels], gap \in Gaps : Feed(f, gap)
    \/ Reset
    \/ \E g \in Grids : Regrid(g)

Spec == MotionInit /\ [][MotionNext]_mvars

(* A picture that stays as it is stops being motion: the background        *)
(* reaches it, for all its integers that round toward where they come      *)
(* from, and neither a light that stays on nor a car that parks is told    *)
(* for ever (FrameDiffMotionDetector::feed).                               *)
StillSettles == same >= Len(Left) => verdict = "still"
=============================================================================
