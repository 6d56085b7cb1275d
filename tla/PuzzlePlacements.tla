--------------------------- MODULE PuzzlePlacements ----------------------------
(* Where pieces can be on a board, and where a block can be put: the geometry that    *)
(* PuzzleUserLayer (ModPuzzleUser.tjs) and PuzzleAICore (PuzzleAI.cpp) share.  A board *)
(* is the set of its occupied cells; row 0 is above the visible part.                 *)
EXTENDS Integers, FiniteSetsExt

CONSTANTS Width, Height  \* gridWidth, gridHeight

ASSUME SizeAssumption == {Width, Height} \subseteq Nat \ 0..3

Columns == 0..Width - 1
Rows == 0..Height - 1
Cell == Columns \X Rows
entryGridPosX == Width \div 2
entryGridPosY == 1
Entry == <<entryGridPosX, entryGridPosY>>

V_UP == "V_UP"
V_DOWN == "V_DOWN"
H_LEFT == "H_LEFT"
H_RIGHT == "H_RIGHT"
Direction == {V_UP, V_DOWN, H_LEFT, H_RIGHT}

\* The cell that lies in a direction.
Dx == [V_UP |-> 0, V_DOWN |-> 0, H_LEFT |-> -1, H_RIGHT |-> 1]
Dy == [V_UP |-> -1, V_DOWN |-> 1, H_LEFT |-> 0, H_RIGHT |-> 0]
Beside(c, dir) == <<c[1] + Dx[dir], c[2] + Dy[dir]>>
Neighbours(c) == {Beside(c, dir) : dir \in Direction} \cap Cell

\* A plausible slip in DoMove: row 1 is taken for a row above the board.
DoMoveFromRowTwo(board, c) == c[1] \in Columns /\ c[2] < Height /\ (c[2] <= 1 \/ c \notin board)

\* doMove: whether a piece can move to a cell; above row 1 it always can.
DoMove(board, c) == c[1] \in Columns /\ c[2] < Height /\ (c[2] <= 0 \/ c \notin board)

\* Where a piece falls to: getFallPos.
FallPos(board, c) ==
    <<c[1], Max({y \in c[2]..Height - 1 : \A z \in c[2] + 1..y : DoMove(board, <<c[1], z>>)})>>

\* checkGameOver
GameOver(board) == ~DoMove(board, Entry)

----------------------------------------------------------------------------
(* The placements CalcNextStep tries.                                              *)

\* The lowest empty cell of a column, from row 1; 0 if there is none.
Floor(board, x) == Max({0} \cup {y \in Rows \ {0} : <<x, y>> \notin board})

\* Columns are tried as far as none beside the entry is filled up to row 1.
Open(board, x) ==
    \A z \in Columns \ {entryGridPosX} :
        <<z, 1>> \in board => ~(x <= z /\ z < entryGridPosX) /\ ~(entryGridPosX < z /\ z <= x)

\* A plausible slip in Placements: the other piece lies as high as the axis.
PlacementsLevel(board, dir, x) ==
    LET y == Floor(board, x)
        axis == IF dir = V_DOWN THEN <<x, y - 1>> ELSE <<x, y>>
        other == Beside(axis, dir)
    IN  IF Open(board, x) /\ axis[2] > 0 /\ other[2] > 0 /\ other[1] \in Columns
          THEN {[top |-> other, bottom |-> axis, dir |-> dir]}
          ELSE {}

\* Where the pieces of a block come to lie that is dropped on column x: the axis, and
\* the other piece in a direction from it.  Nothing may end in row 0.
Placements(board, dir, x) ==
    LET y == Floor(board, x)
        axis == IF dir = V_DOWN THEN <<x, y - 1>> ELSE <<x, y>>
        side == Beside(axis, dir)
        other == IF dir \in {H_LEFT, H_RIGHT} THEN <<side[1], Floor(board, side[1])>> ELSE side
    IN  IF Open(board, x) /\ axis[2] > 0 /\ other[2] > 0 /\ other[1] \in Columns
          THEN {[top |-> other, bottom |-> axis, dir |-> dir]}
          ELSE {}
================================================================================
