------------------------- MODULE PuzzleBlockLayer_proof ------------------------
(* Proofs about the block that moves over the board, for boards of every size.        *)
EXTENDS PuzzleBlockLayer, TLAPS, WellFoundedInduction

(* What updatePieceGridPos does to a board on which the block is and nothing else     *)
(* changed: the block is elsewhere, or deployPiece threw.                              *)
LEMMA UpdateKeepsBoard ==
    ASSUME NEW axis, NEW dir,
           settled \cap PiecesOnMap(bottomPiece, direction) = {},
           map = settled \cup PiecesOnMap(bottomPiece, direction),
           UNCHANGED settled,
           UpdatePieceGridPos(axis, dir)
    PROVE  /\ BoardUntouched'
           /\ thrown' <=> settled \cap PiecesOnMap(axis, dir) # {}
           /\ ~thrown' => bottomPiece' = axis /\ direction' = dir
<1>1. Others = settled
  BY DEF Others
<1>2. CASE PiecesOnMap(axis, dir) \cap settled = {}
  <2>1. /\ map' = settled \cup PiecesOnMap(axis, dir)
        /\ bottomPiece' = axis /\ direction' = dir /\ thrown' = FALSE
    BY <1>1, <1>2 DEF UpdatePieceGridPos
  <2>2. PiecesOnMap(bottomPiece, direction)' = PiecesOnMap(axis, dir)
    BY <2>1 DEF PiecesOnMap, Pieces, Beside, OnMap
  <2> QED
    BY <1>2, <2>1, <2>2 DEF BoardUntouched
<1>3. CASE PiecesOnMap(axis, dir) \cap settled # {}
  <2>1. thrown' = TRUE
    BY <1>1, <1>3 DEF UpdatePieceGridPos
  <2> QED
    BY <1>3, <2>1 DEF BoardUntouched
<1> QED
  BY <1>2, <1>3

LEMMA StayKeepsBoard ==
    ASSUME BoardUntouched, ~decideBlockCalled, ~thrown, UNCHANGED settled, Stay
    PROVE  BoardUntouched'
<1>1. UNCHANGED <<settled, map, bottomPiece, direction, thrown>>
  BY DEF Stay, block
<1>2. PiecesOnMap(bottomPiece, direction)' = PiecesOnMap(bottomPiece, direction)
  BY <1>1 DEF PiecesOnMap, Pieces, Beside, OnMap
<1> QED
  BY <1>1, <1>2 DEF BoardUntouched

(* The block is dealt on a board with room for it. *)
LEMMA DealtOnFreeCells == Init => BoardUntouched
<1> SUFFICES ASSUME Init PROVE BoardUntouched
  OBVIOUS
<1>1. PICK height \in [Columns -> 0..Height] :
          height[entryGridPosX] <= Height - 2 /\ settled = Board(height)
  BY DEF Init
<1>2. Height \in Nat /\ Height > 3
  BY SizeAssumption
<1>3. bottomPiece = Entry /\ direction = "V_UP" /\ map = settled \cup Pieces(Entry, V_UP)
  BY DEF Init, V_UP
<1>4. Entry = <<entryGridPosX, 1>>
  BY DEF Entry, entryGridPosY
<1>5. Beside(Entry, V_UP) = <<entryGridPosX, 0>>
  BY <1>2, <1>4, SizeAssumption DEF Beside, V_UP, Dx, Dy, entryGridPosX
<1>6. PiecesOnMap(Entry, V_UP) = {<<entryGridPosX, 1>>, <<entryGridPosX, 0>>}
  BY <1>4, <1>5 DEF PiecesOnMap, Pieces, OnMap
<1>7. Pieces(Entry, V_UP) = {<<entryGridPosX, 1>>, <<entryGridPosX, 0>>}
  BY <1>4, <1>5 DEF Pieces
<1>8. ASSUME NEW y \in {0, 1}, <<entryGridPosX, y>> \in settled PROVE FALSE
  <2>1. <<entryGridPosX, y>> \in Cell /\ y >= Height - height[entryGridPosX]
    BY <1>1, <1>8 DEF Board
  <2>2. height[entryGridPosX] \in 0..Height
    BY <1>1, <2>1 DEF Cell
  <2> QED
    BY <1>1, <1>2, <2>1, <2>2
<1> QED
  BY <1>3, <1>6, <1>7, <1>8 DEF BoardUntouched, V_UP

LEMMA TurnKeepsBoard ==
    ASSUME BoardUntouched, ~decideBlockCalled, ~thrown, UNCHANGED settled,
           NEW next, Turn(next)
    PROVE  BoardUntouched'
<1>1. \/ \E axis, dir : UpdatePieceGridPos(axis, dir)
      \/ Stay
  <2>1. CASE Lift
    BY <2>1 DEF Lift
  <2> QED
    BY <2>1 DEF Turn
<1> QED
  BY <1>1, UpdateKeepsBoard, StayKeepsBoard DEF BoardUntouched

LEMMA MoveKeepsBoard ==
    ASSUME BoardUntouched, ~decideBlockCalled, ~thrown, UNCHANGED settled,
           MoveLeft \/ MoveRight \/ MoveDown
    PROVE  BoardUntouched'
<1>1. CASE MoveLeft
  BY <1>1, UpdateKeepsBoard, StayKeepsBoard DEF MoveLeft, MoveSide, BoardUntouched
<1>2. CASE MoveRight
  BY <1>2, UpdateKeepsBoard, StayKeepsBoard DEF MoveRight, MoveSide, BoardUntouched
<1>3. CASE MoveDown
  <2>1. CASE CanShift(0, 1)
    BY <1>3, <2>1, UpdateKeepsBoard DEF MoveDown, BoardUntouched
  <2>2. CASE ~CanShift(0, 1)
    BY <1>3, <2>2 DEF MoveDown, DecideBlock, BoardUntouched
  <2> QED
    BY <2>1, <2>2
<1> QED
  BY <1>1, <1>2, <1>3

LEMMA StepKeepsBoard == BoardUntouched /\ [Next]_vars => BoardUntouched'
<1> SUFFICES ASSUME BoardUntouched, [Next]_vars PROVE BoardUntouched'
  OBVIOUS
<1>1. CASE UNCHANGED vars
  <2>1. UNCHANGED <<settled, map, bottomPiece, direction, thrown, decideBlockCalled>>
    BY <1>1 DEF vars, block
  <2>2. PiecesOnMap(bottomPiece, direction)' = PiecesOnMap(bottomPiece, direction)
    BY <2>1 DEF PiecesOnMap, Pieces, Beside, OnMap
  <2> QED
    BY <2>1, <2>2 DEF BoardUntouched
<1>2. CASE Next
  <2>1. ~decideBlockCalled /\ ~thrown /\ UNCHANGED settled
    BY <1>2 DEF Next, OnKeyDown, OnIntervalTimer, OnAITimer, Playing
  <2>2. MoveLeft \/ MoveRight \/ MoveDown \/ \E next : Turn(next)
    BY <1>2 DEF Next, OnKeyDown, OnIntervalTimer, OnAITimer, TurnLeft, TurnRight
  <2> QED
    BY <2>1, <2>2, MoveKeepsBoard, TurnKeepsBoard
<1> QED
  BY <1>1, <1>2

(* While a block moves, what lay on the board stays where it was: for boards of every  *)
(* size and both players, although a row above the board is another row of the map.     *)
THEOREM BoardStaysUntouched == Spec => []BoardUntouched
  BY DealtOnFreeCells, StepKeepsBoard, PTL DEF Spec

----------------------------------------------------------------------------
(* The computer's block.  What it is led by: the board has no gaps and nothing lies in *)
(* row 0; the block is lifted only to be turned down, where it is to come down; and a  *)
(* block that is to stand upright is never turned.                                     *)
Supported == \E height \in [Columns -> 0..Height - 1] : settled = Board(height)

Inside ==
    /\ bottomPiece \in Cell
    /\ Beside(bottomPiece, direction)[1] \in Columns
    /\ Beside(bottomPiece, direction)[2] < Height
    /\ direction \in Direction

Led ==
    /\ plan.dir \in Direction
    /\ bottomPiece[2] = 0 =>
          direction = V_DOWN /\ plan.dir = V_DOWN /\ plan.bottom[1] = bottomPiece[1]
    /\ plan.dir = V_UP => direction = V_UP

ComputerInv ==
    player = "computer" => ~thrown /\ Supported /\ (~decideBlockCalled => Inside /\ Led)

(* A block is on the map where its pieces are, if none of them is above row 0. *)
LEMMA RowsOnMap ==
    ASSUME NEW axis \in Cell, NEW dir \in Direction, axis[2] >= 1 \/ dir # V_UP
    PROVE  /\ PiecesOnMap(axis, dir) = {axis, Beside(axis, dir)}
           /\ Beside(axis, dir)[1] \in Int /\ Beside(axis, dir)[2] \in Nat
<1>1. axis[1] \in Int /\ axis[2] \in Nat
  BY SizeAssumption DEF Cell, Columns, Rows
<1>2. Dx[dir] \in Int /\ Dy[dir] \in Int /\ (dir # V_UP => Dy[dir] >= 0) /\ Dy[dir] >= -1
  BY DEF Dx, Dy, Direction, V_UP, V_DOWN, H_LEFT, H_RIGHT
<1>3. Beside(axis, dir)[1] = axis[1] + Dx[dir] /\ Beside(axis, dir)[2] = axis[2] + Dy[dir]
  BY DEF Beside
<1>4. Beside(axis, dir)[2] \in Nat /\ Beside(axis, dir)[1] \in Int
  BY <1>1, <1>2, <1>3
<1>5. OnMap(axis) = axis /\ OnMap(Beside(axis, dir)) = Beside(axis, dir)
  BY <1>1, <1>4 DEF OnMap
<1> QED
  BY <1>4, <1>5 DEF PiecesOnMap, Pieces

(* An update of the computer's block that gets it into cells where nothing lies. *)
LEMMA FreeUpdate ==
    ASSUME BoardUntouched, ~decideBlockCalled, ~thrown, UNCHANGED settled, Supported,
           NEW axis \in Cell, NEW dir \in Direction, axis[2] >= 1 \/ dir # V_UP,
           axis \notin settled, Beside(axis, dir) \notin settled,
           Beside(axis, dir)[1] \in Columns, Beside(axis, dir)[2] < Height,
           UpdatePieceGridPos(axis, dir)
    PROVE  ~thrown' /\ Supported' /\ Inside' /\ bottomPiece' = axis /\ direction' = dir
<1>1. settled \cap PiecesOnMap(axis, dir) = {}
  BY RowsOnMap
<1>2. ~thrown' /\ bottomPiece' = axis /\ direction' = dir
  BY <1>1, UpdateKeepsBoard DEF BoardUntouched
<1>3. Supported'
  BY DEF Supported
<1>4. Beside(bottomPiece, direction)' = Beside(axis, dir)
  BY <1>2 DEF Beside
<1>5. Inside'
  BY <1>2, <1>4 DEF Inside
<1> QED
  BY <1>2, <1>3, <1>5

(* The cells of a block that is shifted by a column or a row. *)
LEMMA ShiftedPieces ==
    ASSUME Inside, NEW dx \in Int, NEW dy \in Int
    PROVE  Shifted(Beside(bottomPiece, direction), dx, dy) = Beside(Shifted(bottomPiece, dx, dy), direction)
<1>1. bottomPiece[1] \in Int /\ bottomPiece[2] \in Int
  BY SizeAssumption DEF Inside, Cell, Columns, Rows
<1>2. Dx[direction] \in Int /\ Dy[direction] \in Int
  BY DEF Inside, Dx, Dy, Direction, V_UP, V_DOWN, H_LEFT, H_RIGHT
<1> QED
  BY <1>1, <1>2 DEF Beside, Shifted

LEMMA NoGaps ==
    ASSUME Supported, NEW c \in settled
    PROVE  /\ c \in Cell /\ c[2] >= 1
           /\ c[2] + 1 < Height => <<c[1], c[2] + 1>> \in settled
<1> USE SizeAssumption
<1>1. PICK height \in [Columns -> 0..Height - 1] : settled = Board(height)
  BY DEF Supported
<1>2. c \in Cell /\ c[2] >= Height - height[c[1]]
  BY <1>1 DEF Board
<1>3. c[1] \in Columns /\ c[2] \in Rows /\ c[2] \in Int
  BY <1>2 DEF Cell, Rows
<1>4. height[c[1]] \in Int /\ height[c[1]] < Height
  BY <1>1, <1>3
<1>5. ASSUME c[2] + 1 < Height PROVE <<c[1], c[2] + 1>> \in settled
  <2>1. c[2] + 1 \in Rows /\ c[2] + 1 >= Height - height[c[1]]
    BY <1>2, <1>3, <1>4, <1>5 DEF Rows
  <2>2. <<c[1], c[2] + 1>> \in Cell
    BY <1>3, <2>1 DEF Cell
  <2> QED
    BY <1>1, <2>1, <2>2 DEF Board
<1> QED
  BY <1>2, <1>3, <1>4, <1>5

LEMMA NothingInRowZero ==
    ASSUME Supported, NEW c, c[2] <= 0
    PROVE  c \notin settled
<1>1. ASSUME c \in settled PROVE FALSE
  <2>1. c \in Cell /\ c[2] >= 1
    BY <1>1, NoGaps
  <2>2. c[2] \in Int
    BY <2>1, SizeAssumption DEF Cell, Rows, Columns
  <2> QED
    BY <2>1, <2>2
<1> QED
  BY <1>1

(* A block that may be shifted gets into cells where nothing lies. *)
LEMMA ShiftIsFree ==
    ASSUME BoardUntouched, ~decideBlockCalled, ~thrown, Supported, Inside,
           bottomPiece[2] >= 1 \/ direction # V_UP,
           NEW dx \in {-1, 0, 1}, NEW dy \in {0, 1}, CanShift(dx, dy)
    PROVE  /\ Shifted(bottomPiece, dx, dy) \in Cell
           /\ Shifted(bottomPiece, dx, dy) \notin settled
           /\ Beside(Shifted(bottomPiece, dx, dy), direction) \notin settled
           /\ Beside(Shifted(bottomPiece, dx, dy), direction)[1] \in Columns
           /\ Beside(Shifted(bottomPiece, dx, dy), direction)[2] < Height
<1> DEFINE other == Beside(bottomPiece, direction)
<1>1. PiecesOnMap(bottomPiece, direction) = {bottomPiece, other}
  BY RowsOnMap DEF Inside
<1>2. map = settled \cup {bottomPiece, other} /\ settled \cap {bottomPiece, other} = {}
  BY <1>1 DEF BoardUntouched
<1>3. ASSUME NEW p \in {bottomPiece, other}
      PROVE  /\ Shifted(p, dx, dy)[1] \in Columns /\ Shifted(p, dx, dy)[2] < Height
             /\ Shifted(p, dx, dy) \notin settled
  <2>1. CASE Shifted(p, dx, dy) \in {bottomPiece, other}
    <3>1. bottomPiece[1] \in Columns /\ bottomPiece[2] < Height
      BY SizeAssumption DEF Inside, Cell, Rows
    <3> QED
      BY <1>2, <2>1, <3>1 DEF Inside
  <2>2. CASE Shifted(p, dx, dy) \notin {bottomPiece, other}
    <3>1. DoMove(map, Shifted(p, dx, dy))
      BY <2>2 DEF CanShift, Pieces
    <3>2. Shifted(p, dx, dy)[2] <= 0 => Shifted(p, dx, dy) \notin settled
      BY NothingInRowZero
    <3> QED
      BY <1>2, <3>1, <3>2 DEF DoMove
  <2> QED
    BY <2>1, <2>2
<1>4. Shifted(bottomPiece, dx, dy) \in Cell
  <2>1. Shifted(bottomPiece, dx, dy) = <<bottomPiece[1] + dx, bottomPiece[2] + dy>>
    BY DEF Shifted
  <2>2. bottomPiece[2] + dy \in Rows /\ bottomPiece[1] + dx \in Columns
    BY <1>3, <2>1, SizeAssumption DEF Inside, Cell, Rows, Columns
  <2> QED
    BY <2>1, <2>2 DEF Cell
<1>5. Shifted(other, dx, dy) = Beside(Shifted(bottomPiece, dx, dy), direction)
  BY ShiftedPieces
<1> QED
  BY <1>3, <1>4, <1>5

LEMMA ComputerMovesSideways ==
    ASSUME ComputerInv, BoardUntouched, Playing("computer"),
           plan.bottom[1] # bottomPiece[1], MoveLeft \/ MoveRight
    PROVE  ComputerInv'
<1> USE DEF Playing
<1>1. ~thrown /\ Supported /\ Inside /\ Led
  BY DEF ComputerInv
<1>2. bottomPiece[1] \in Int /\ bottomPiece[2] \in Nat /\ bottomPiece[2] >= 1
  BY <1>1, SizeAssumption DEF Led, Inside, Cell, Rows, Columns
<1>3. PICK dx \in {-1, 1} : MoveSide(dx)
  BY DEF MoveLeft, MoveRight
<1>4. CASE CanShift(dx, 0)
  <2> DEFINE axis == Shifted(bottomPiece, dx, 0)
  <2>1. axis[2] >= 1
    BY <1>2 DEF Shifted
  <2>2. UpdatePieceGridPos(axis, direction)
    BY <1>3, <1>4 DEF MoveSide
  <2>3. /\ axis \in Cell /\ axis \notin settled
        /\ Beside(axis, direction) \notin settled
        /\ Beside(axis, direction)[1] \in Columns
        /\ Beside(axis, direction)[2] < Height
    BY <1>1, <1>2, <1>4, ShiftIsFree
  <2>4. ~thrown' /\ Supported' /\ Inside' /\ bottomPiece' = axis /\ direction' = direction
    <3> HIDE DEF axis
    <3> QED
      BY <1>1, <2>1, <2>2, <2>3, FreeUpdate DEF Inside
  <2>5. Led'
    <3> HIDE DEF axis
    <3>1. axis[2] # 0
      BY <2>1, <2>3, SizeAssumption DEF Cell, Rows
    <3> QED
      BY <1>1, <2>4, <3>1 DEF Led
  <2> QED
    BY <2>4, <2>5 DEF ComputerInv
<1>5. CASE ~CanShift(dx, 0)
  <2>1. UNCHANGED <<settled, map, bottomPiece, direction, thrown, plan, player, decideBlockCalled>>
    BY <1>3, <1>5 DEF MoveSide, Stay, block
  <2> QED
    BY <1>1, <2>1 DEF ComputerInv, Supported, Inside, Led, Beside
<1> QED
  BY <1>4, <1>5

LEMMA ComputerMovesDown ==
    ASSUME ComputerInv, BoardUntouched, Playing("computer"),
           plan.bottom[1] = bottomPiece[1], plan.dir = direction, MoveDown
    PROVE  ComputerInv'
<1> USE DEF Playing
<1>1. ~thrown /\ Supported /\ Inside /\ Led
  BY DEF ComputerInv
<1>2. bottomPiece[1] \in Int /\ bottomPiece[2] \in Nat
  BY <1>1, SizeAssumption DEF Inside, Cell, Rows, Columns
<1>3. bottomPiece[2] >= 1 \/ direction # V_UP
  BY <1>1, <1>2 DEF Led, V_UP, V_DOWN
<1>4. CASE CanShift(0, 1)
  <2> DEFINE axis == Shifted(bottomPiece, 0, 1)
  <2>1. axis[2] >= 1 /\ axis[2] # 0
    BY <1>2 DEF Shifted
  <2>2. UpdatePieceGridPos(axis, direction)
    BY <1>4 DEF MoveDown
  <2>3. /\ axis \in Cell /\ axis \notin settled
        /\ Beside(axis, direction) \notin settled
        /\ Beside(axis, direction)[1] \in Columns
        /\ Beside(axis, direction)[2] < Height
    BY <1>1, <1>3, <1>4, ShiftIsFree
  <2>4. ~thrown' /\ Supported' /\ Inside' /\ bottomPiece' = axis /\ direction' = direction
    <3> HIDE DEF axis
    <3> QED
      BY <1>1, <2>1, <2>2, <2>3, FreeUpdate DEF Inside
  <2>5. Led'
    <3> HIDE DEF axis
    <3> QED
      BY <1>1, <2>1, <2>4 DEF Led
  <2> QED
    BY <2>4, <2>5 DEF ComputerInv
<1>5. CASE ~CanShift(0, 1)
  BY <1>1, <1>5 DEF MoveDown, DecideBlock, ComputerInv, Supported
<1> QED
  BY <1>4, <1>5

LEMMA FreeAbove ==
    ASSUME Supported, NEW x, NEW y \in Nat, y < Height, <<x, y>> \notin settled
    PROVE  <<x, y - 1>> \notin settled
<1> SUFFICES ASSUME <<x, y - 1>> \in settled PROVE FALSE
  OBVIOUS
<1>1. (y - 1) + 1 < Height => <<x, (y - 1) + 1>> \in settled
  BY NoGaps
<1> QED
  BY <1>1, SizeAssumption

(* The block that is lifted has room above: what is above a free cell is free. *)
LEMMA LiftIsFree ==
    ASSUME BoardUntouched, ~decideBlockCalled, ~thrown, Supported, Inside, UNCHANGED settled,
           bottomPiece[2] >= 1, direction \in {H_LEFT, H_RIGHT}, Lift
    PROVE  /\ ~thrown' /\ Supported' /\ Inside'
           /\ bottomPiece' = <<bottomPiece[1], bottomPiece[2] - 1>> /\ direction' = V_DOWN
<1> DEFINE up == Beside(bottomPiece, V_UP)
           other == Beside(bottomPiece, direction)
<1>1. bottomPiece[1] \in Columns /\ bottomPiece[1] \in Int /\ bottomPiece[2] \in Nat /\ bottomPiece[2] < Height
  BY SizeAssumption DEF Inside, Cell, Rows, Columns
<1>2. bottomPiece = <<bottomPiece[1], bottomPiece[2]>>
  BY DEF Inside, Cell
<1>3. up = <<bottomPiece[1], bottomPiece[2] - 1>>
  BY <1>1 DEF Beside, Dx, Dy, V_UP
<1>4. up \in Cell
  BY <1>1, <1>3, SizeAssumption DEF Cell, Rows
<1>5. PiecesOnMap(bottomPiece, direction) = {bottomPiece, other}
  BY RowsOnMap DEF Inside
<1>6. bottomPiece \notin settled /\ other \notin settled /\ Others = settled
  BY <1>5 DEF BoardUntouched, Others
<1>7. Dx[direction] \in Int /\ Dy[direction] = 0
  BY DEF Dx, Dy, H_LEFT, H_RIGHT
<1>8. other = <<bottomPiece[1] + Dx[direction], bottomPiece[2]>>
  BY <1>1, <1>7 DEF Beside
<1>9. Beside(up, direction) = <<bottomPiece[1] + Dx[direction], bottomPiece[2] - 1>>
  BY <1>1, <1>3, <1>7 DEF Beside
<1>10. ASSUME NEW x, <<x, bottomPiece[2]>> \notin settled
       PROVE  <<x, bottomPiece[2] - 1>> \notin settled
  BY <1>1, <1>10, FreeAbove
<1>11. up \notin settled /\ Beside(up, direction) \notin settled
  BY <1>2, <1>3, <1>6, <1>8, <1>9, <1>10
<1>12. direction \in Direction /\ direction # V_UP
  BY DEF Direction, V_UP, H_LEFT, H_RIGHT
<1>13. PiecesOnMap(up, direction) = {up, Beside(up, direction)}
  BY <1>4, <1>12, RowsOnMap
<1>14. UpdatePieceGridPos(up, V_DOWN)
  BY <1>6, <1>11, <1>13 DEF Lift
<1>15. Beside(up, V_DOWN) = bottomPiece
  BY <1>1, <1>2, <1>3 DEF Beside, Dx, Dy, V_DOWN
<1>16. V_DOWN \in Direction /\ V_DOWN # V_UP
  BY DEF Direction, V_DOWN, V_UP
<1>17. ~thrown' /\ Supported' /\ Inside' /\ bottomPiece' = up /\ direction' = V_DOWN
  <2> HIDE DEF up
  <2> QED
    BY <1>1, <1>4, <1>6, <1>11, <1>14, <1>15, <1>16, FreeUpdate
<1> QED
  BY <1>3, <1>17

(* A block that turns to a direction it can turn to. *)
LEMMA TurnIsFree ==
    ASSUME BoardUntouched, ~decideBlockCalled, ~thrown, Supported, Inside, UNCHANGED settled,
           bottomPiece[2] >= 1, NEW dir \in Direction, CanTurn(dir),
           UpdatePieceGridPos(bottomPiece, dir)
    PROVE  ~thrown' /\ Supported' /\ Inside' /\ bottomPiece' = bottomPiece
<1>1. bottomPiece \in Cell /\ bottomPiece \notin settled /\ map = settled \cup PiecesOnMap(bottomPiece, direction)
  BY RowsOnMap DEF Inside, BoardUntouched
<1>2. Beside(bottomPiece, dir)[1] \in Columns /\ Beside(bottomPiece, dir)[2] < Height
  BY DEF CanTurn, DoMove
<1>3. Beside(bottomPiece, dir) \notin settled
  BY <1>1, NothingInRowZero DEF CanTurn, DoMove
<1> QED
  BY <1>1, <1>2, <1>3, FreeUpdate

LEMMA ComputerTurns ==
    ASSUME ComputerInv, BoardUntouched, Playing("computer"), plan.bottom[1] = bottomPiece[1],
           plan.dir # direction,
           NEW next, next = IF plan.dir \in {H_RIGHT, V_DOWN} THEN Right ELSE Left,
           Turn(next)
    PROVE  ComputerInv'
<1> USE DEF Playing
<1>1. ~thrown /\ Supported /\ Inside /\ Led
  BY DEF ComputerInv
<1>2. bottomPiece[2] \in Nat /\ bottomPiece[2] >= 1
  BY <1>1, SizeAssumption DEF Led, Inside, Cell, Rows, Columns
<1>3. plan.dir # V_UP /\ plan.dir \in Direction /\ direction \in Direction
  BY <1>1 DEF Led, Inside
<1>4. \A dir \in Direction : next[dir] \in Direction
  BY DEF Left, Right, Direction, V_UP, V_DOWN, H_LEFT, H_RIGHT
<1>5. CASE Lift /\ next[direction] = V_DOWN
  <2>1. direction = H_RIGHT /\ plan.dir = V_DOWN
    BY <1>3, <1>5 DEF Left, Right, Direction, V_UP, V_DOWN, H_LEFT, H_RIGHT
  <2>2. /\ ~thrown' /\ Supported' /\ Inside'
        /\ bottomPiece' = <<bottomPiece[1], bottomPiece[2] - 1>> /\ direction' = V_DOWN
    BY <1>1, <1>2, <1>5, <2>1, LiftIsFree
  <2>3. Led'
    BY <1>3, <2>1, <2>2 DEF Led
  <2> QED
    BY <2>2, <2>3 DEF ComputerInv
<1>6. CASE \E dir \in Direction : CanTurn(dir) /\ UpdatePieceGridPos(bottomPiece, dir)
  <2>1. ~thrown' /\ Supported' /\ Inside' /\ bottomPiece' = bottomPiece
    BY <1>1, <1>2, <1>6, TurnIsFree
  <2>2. Led'
    BY <1>2, <1>3, <2>1 DEF Led
  <2> QED
    BY <2>1, <2>2 DEF ComputerInv
<1>7. CASE Stay /\ UNCHANGED decideBlockCalled
  <2>1. UNCHANGED <<settled, map, bottomPiece, direction, thrown, plan, player, decideBlockCalled>>
    BY <1>7 DEF Stay, block
  <2> QED
    BY <1>1, <2>1 DEF ComputerInv, Supported, Inside, Led, Beside
<1>8. /\ next[direction] \in Direction /\ next[next[direction]] \in Direction
      /\ next[next[next[direction]]] \in Direction
  BY <1>3, <1>4
<1> QED
  BY <1>5, <1>6, <1>7, <1>8 DEF Turn

(* The placements the computer chooses from name a direction. *)
LEMMA PlansNameDirections ==
    ASSUME NEW board, NEW p \in Plans(board)
    PROVE  p.dir \in Direction
<1>1. CASE p = Straight(board)
  BY <1>1 DEF Straight, Direction
<1>2. CASE \E dir \in Direction, x \in Columns : p \in Placements(board, dir, x)
  BY <1>2 DEF Placements
<1> QED
  BY <1>1, <1>2 DEF Plans

LEMMA DealtToComputer == Init => ComputerInv
<1> SUFFICES ASSUME Init, player = "computer" PROVE ComputerInv
  BY DEF ComputerInv
<1> USE SizeAssumption
<1>1. PICK height \in [Columns -> 0..Height] :
          height \in [Columns -> 0..Height - 1] /\ settled = Board(height)
  <2>1. PICK height \in [Columns -> 0..Height] :
            (\A x \in Columns : height[x] < Height) /\ settled = Board(height)
    BY DEF Init
  <2>2. height \in [Columns -> 0..Height - 1]
    BY <2>1
  <2> QED
    BY <2>1, <2>2
<1>2. ~thrown /\ bottomPiece = Entry /\ direction = V_UP /\ plan.dir \in Direction
  BY PlansNameDirections DEF Init
<1>3. Entry = <<entryGridPosX, 1>> /\ entryGridPosX \in Columns /\ 1 \in Rows
  BY DEF Entry, entryGridPosY, entryGridPosX, Columns, Rows
<1>4. Entry \in Cell /\ Entry[2] = 1 /\ Entry[1] \in Columns
  BY <1>3 DEF Cell
<1>5. Beside(Entry, V_UP) = <<entryGridPosX, 0>>
  BY <1>3 DEF Beside, Dx, Dy, V_UP, Columns
<1>6. Inside
  BY <1>2, <1>3, <1>4, <1>5 DEF Inside, Direction
<1>7. Led
  BY <1>2, <1>4 DEF Led
<1>8. Supported
  BY <1>1 DEF Supported
<1> QED
  BY <1>2, <1>6, <1>7, <1>8 DEF ComputerInv

LEMMA StepKeepsComputerInv == BoardUntouched /\ ComputerInv /\ [Next]_vars => ComputerInv'
<1> SUFFICES ASSUME BoardUntouched, ComputerInv, [Next]_vars PROVE ComputerInv'
  OBVIOUS
<1>1. CASE UNCHANGED vars
  BY <1>1 DEF vars, block, ComputerInv, Supported, Inside, Led, Beside
<1>2. CASE OnIntervalTimer \/ OnKeyDown
  BY <1>2 DEF OnIntervalTimer, OnKeyDown, Playing, ComputerInv
<1>3. CASE OnAITimer
  <2>1. Playing("computer")
    BY <1>3 DEF OnAITimer
  <2>2. ComputerInv => ~thrown /\ Inside /\ Led
    BY <2>1 DEF ComputerInv, Playing
  <2>3. bottomPiece[1] \in Int
    BY <2>2, SizeAssumption DEF Inside, Cell, Columns
  <2>4. CASE plan.bottom[1] # bottomPiece[1] /\ (MoveLeft \/ MoveRight)
    BY <2>1, <2>4, ComputerMovesSideways
  <2>5. CASE /\ plan.bottom[1] = bottomPiece[1] /\ plan.dir # direction
             /\ IF plan.dir \in {H_RIGHT, V_DOWN} THEN TurnRight ELSE TurnLeft
    BY <2>1, <2>5, ComputerTurns DEF TurnRight, TurnLeft
  <2>6. CASE plan.bottom[1] = bottomPiece[1] /\ plan.dir = direction /\ MoveDown
    BY <2>1, <2>6, ComputerMovesDown
  <2> QED
    BY <1>3, <2>3, <2>4, <2>5, <2>6 DEF OnAITimer
<1> QED
  BY <1>1, <1>2, <1>3 DEF Next

(* The computer never moves its block into another piece, whatever placement it follows *)
(* and however high the board is filled: for boards of every size.                       *)
THEOREM ComputerNeverThrows == Spec => []ComputerThrowsNothing
<1>1. Init => ComputerInv /\ BoardUntouched
  BY DealtToComputer, DealtOnFreeCells
<1>2. ComputerInv /\ BoardUntouched /\ [Next]_vars => (ComputerInv /\ BoardUntouched)'
  BY StepKeepsComputerInv, StepKeepsBoard
<1>3. ComputerInv => ComputerThrowsNothing
  BY DEF ComputerInv, ComputerThrowsNothing
<1> QED
  BY <1>1, <1>2, <1>3, PTL DEF Spec

----------------------------------------------------------------------------
(* Where the computer's pieces end: a column without gaps is free down to its floor,    *)
(* where both the search and the board let a piece lie.                                *)
LEMMA MaxIs ==
    ASSUME NEW S, NEW m \in S, S \subseteq Int, \A y \in S : m >= y
    PROVE  Max(S) = m
<1>1. \A x \in S : (\A y \in S : x >= y) => x = m
  OBVIOUS
<1>2. (CHOOSE x \in S : \A y \in S : x >= y) \in S
      /\ \A y \in S : (CHOOSE x \in S : \A z \in S : x >= z) >= y
  OBVIOUS
<1> QED
  BY <1>1, <1>2 DEF Max

LEMMA FloorIs ==
    ASSUME Supported, NEW x \in Columns
    PROVE  /\ Floor(settled, x) \in Rows
           /\ \A y \in Rows : <<x, y>> \in settled <=> y > Floor(settled, x)
<1> USE SizeAssumption
<1>1. PICK height \in [Columns -> 0..Height - 1] : settled = Board(height)
  BY DEF Supported
<1> DEFINE floor == Height - 1 - height[x]
           free == {0} \cup {y \in Rows \ {0} : <<x, y>> \notin settled}
<1>2. height[x] \in 0..Height - 1
  BY <1>1
<1>3. floor \in Rows
  BY <1>2 DEF Rows
<1>4. \A y \in Rows : <<x, y>> \in settled <=> y > floor
  BY <1>1, <1>2 DEF Board, Cell, Rows
<1>5. free \subseteq Int /\ floor \in free /\ \A y \in free : floor >= y
  BY <1>2, <1>3, <1>4 DEF Rows
<1>6. Max(free) = floor
  <2> HIDE DEF free, floor
  <2> QED
    BY <1>5, MaxIs
<1> QED
  BY <1>3, <1>4, <1>6 DEF Floor

LEMMA FallsTo ==
    ASSUME NEW board, NEW x \in Columns, NEW y \in Nat, NEW k \in y..Height - 1,
           \A z \in y + 1..k : <<x, z>> \notin board,
           k + 1 = Height \/ <<x, k + 1>> \in board
    PROVE  FallPos(board, <<x, y>>) = <<x, k>>
<1> USE SizeAssumption
<1> DEFINE reached == {w \in y..Height - 1 : \A z \in y + 1..w : DoMove(board, <<x, z>>)}
<1>1. k \in reached
  BY DEF DoMove
<1>2. ASSUME NEW w \in reached PROVE k >= w
  <2> SUFFICES ASSUME w > k PROVE FALSE
    OBVIOUS
  <2>1. k + 1 \in y + 1..w /\ k + 1 > 0 /\ k + 1 # Height
    OBVIOUS
  <2>2. DoMove(board, <<x, k + 1>>)
    BY <2>1
  <2> QED
    BY <2>1, <2>2 DEF DoMove
<1>3. Max(reached) = k
  <2>1. reached \subseteq Int
    OBVIOUS
  <2> HIDE DEF reached
  <2> QED
    BY <1>1, <1>2, <2>1, MaxIs
<1> QED
  BY <1>3 DEF FallPos

LEMMA Lies ==
    ASSUME NEW board, NEW x \in Columns, NEW y \in Rows, y + 1 = Height \/ <<x, y + 1>> \in board
    PROVE  FallPos(board, <<x, y>>) = <<x, y>>
<1>1. y \in Nat /\ y \in y..Height - 1 /\ y + 1..y = {}
  BY SizeAssumption DEF Rows
<1> QED
  BY <1>1, FallsTo

(* What a placement says, in terms of the floors of its columns. *)
Aimed ==
    LET x == plan.bottom[1]
        beside == x + Dx[plan.dir]
    IN  /\ plan.dir \in Direction
        /\ x \in Columns /\ beside \in Columns
        /\ plan.dir = V_UP =>
              plan.bottom = <<x, Floor(settled, x)>> /\ plan.top = <<x, Floor(settled, x) - 1>>
        /\ plan.dir = V_DOWN =>
              plan.bottom = <<x, Floor(settled, x) - 1>> /\ plan.top = <<x, Floor(settled, x)>>
        /\ plan.dir \in {H_LEFT, H_RIGHT} =>
              plan.bottom = <<x, Floor(settled, x)>> /\ plan.top = <<beside, Floor(settled, beside)>>

LEMMA PlannedOnFloors == Init /\ player = "computer" => Aimed
<1> SUFFICES ASSUME Init, player = "computer" PROVE Aimed
  OBVIOUS
<1> USE SizeAssumption DEF V_UP, V_DOWN, H_LEFT, H_RIGHT
<1>1. Supported /\ plan \in Plans(settled)
  BY DealtToComputer DEF ComputerInv, Init
<1>2. CASE plan = Straight(settled)
  <2>1. entryGridPosX \in Columns /\ Entry = <<entryGridPosX, 1>> /\ entryGridPosX + 0 = entryGridPosX
    BY DEF Entry, entryGridPosY, entryGridPosX, Columns
  <2>2. <<entryGridPosX, 1>> \notin settled /\ 1 \in Rows
    BY <2>1, DealtOnFreeCells, RowsOnMap DEF Init, BoardUntouched, Cell, Rows, Direction
  <2>3. Floor(settled, entryGridPosX) \in 1..Height - 1
    BY <1>1, <2>1, <2>2, FloorIs DEF Rows
  <2>4. FallPos(settled, <<entryGridPosX, 1>>) = <<entryGridPosX, Floor(settled, entryGridPosX)>>
    <3>1. \A z \in 1 + 1..Floor(settled, entryGridPosX) : <<entryGridPosX, z>> \notin settled
      BY <1>1, <2>1, <2>3, FloorIs DEF Rows
    <3>2. \/ Floor(settled, entryGridPosX) + 1 = Height
          \/ <<entryGridPosX, Floor(settled, entryGridPosX) + 1>> \in settled
      BY <1>1, <2>1, <2>3, FloorIs DEF Rows
    <3> QED
      BY <2>1, <2>3, <3>1, <3>2, FallsTo
  <2>5. plan = [top |-> <<entryGridPosX, Floor(settled, entryGridPosX) - 1>>,
                bottom |-> <<entryGridPosX, Floor(settled, entryGridPosX)>>, dir |-> V_UP]
    BY <1>2, <2>1, <2>3, <2>4 DEF Straight, Beside, Dx, Dy
  <2> QED
    BY <2>1, <2>3, <2>5 DEF Aimed, Direction, Dx
<1>3. CASE \E dir \in Direction, x \in Columns : plan \in Placements(settled, dir, x)
  <2>1. PICK dir \in Direction, x \in Columns : plan \in Placements(settled, dir, x)
    BY <1>3
  <2>2. x \in Int /\ Floor(settled, x) \in Int
    BY <1>1, FloorIs DEF Columns, Rows
  <2>3. CASE dir = V_UP
    <3>1. plan = [top |-> <<x, Floor(settled, x) - 1>>, bottom |-> <<x, Floor(settled, x)>>, dir |-> dir]
      BY <2>1, <2>2, <2>3 DEF Placements, Beside, Dx, Dy
    <3> QED
      BY <2>2, <2>3, <3>1 DEF Aimed, Direction, Dx
  <2>4. CASE dir = V_DOWN
    <3>1. plan = [top |-> <<x, Floor(settled, x)>>, bottom |-> <<x, Floor(settled, x) - 1>>, dir |-> dir]
      BY <2>1, <2>2, <2>4 DEF Placements, Beside, Dx, Dy
    <3> QED
      BY <2>2, <2>4, <3>1 DEF Aimed, Direction, Dx
  <2>5. CASE dir \in {H_LEFT, H_RIGHT}
    <3>1. /\ x + Dx[dir] \in Columns
          /\ plan = [top |-> <<x + Dx[dir], Floor(settled, x + Dx[dir])>>,
                     bottom |-> <<x, Floor(settled, x)>>, dir |-> dir]
      BY <2>1, <2>2, <2>5 DEF Placements, Beside
    <3> QED
      BY <2>2, <2>5, <3>1 DEF Aimed, Direction
  <2> QED
    BY <2>3, <2>4, <2>5 DEF Direction
<1> QED
  BY <1>1, <1>2, <1>3 DEF Plans

(* A piece that lies in a free cell and cannot go down lies on the floor. *)
LEMMA FreeIsAboveFloor ==
    ASSUME Supported, NEW x \in Columns, NEW y \in Rows, <<x, y>> \notin settled
    PROVE  /\ y <= Floor(settled, x)
           /\ y + 1 = Height \/ <<x, y + 1>> \in settled => y = Floor(settled, x)
<1> USE SizeAssumption
<1>1. /\ Floor(settled, x) \in Rows
      /\ \A z \in Rows : <<x, z>> \in settled <=> z > Floor(settled, x)
  BY FloorIs
<1>2. y <= Floor(settled, x)
  BY <1>1 DEF Rows
<1>3. CASE y + 1 = Height
  BY <1>1, <1>2, <1>3 DEF Rows
<1>4. CASE <<x, y + 1>> \in settled
  <2>1. y + 1 \in Rows
    BY <1>4, NoGaps DEF Cell
  <2> QED
    BY <1>1, <1>2, <1>4, <2>1 DEF Rows
<1> QED
  BY <1>2, <1>3, <1>4

LEMMA DecidedWhereAimed ==
    ASSUME BoardUntouched, ~decideBlockCalled, ~thrown, Supported, Inside, Led, Aimed,
           plan.bottom[1] = bottomPiece[1], plan.dir = direction, ~CanShift(0, 1), DecideBlock
    PROVE  map' = settled \cup {plan.top, plan.bottom}
<1> USE SizeAssumption DEF V_UP, V_DOWN, H_LEFT, H_RIGHT
<1> DEFINE x == bottomPiece[1]
           y == bottomPiece[2]
           other == Beside(bottomPiece, direction)
           a == x + Dx[direction]
           b == y + Dy[direction]
<1>1. x \in Columns /\ x \in Int /\ y \in Rows /\ y \in Nat /\ bottomPiece = <<x, y>>
  BY DEF Inside, Cell, Rows, Columns
<1>2. other = <<a, b>> /\ a \in Columns /\ b < Height
  BY DEF Inside, Beside
<1>3. y >= 1 \/ direction # V_UP
  BY <1>1 DEF Led
<1>4. b \in Rows /\ PiecesOnMap(bottomPiece, direction) = {<<x, y>>, <<a, b>>}
  <2>1. /\ PiecesOnMap(bottomPiece, direction) = {bottomPiece, other}
        /\ other[2] \in Nat
    BY <1>1, <1>3, RowsOnMap DEF Inside
  <2> QED
    BY <1>1, <1>2, <2>1 DEF Rows
<1>5. map = settled \cup {<<x, y>>, <<a, b>>} /\ <<x, y>> \notin settled /\ <<a, b>> \notin settled
  BY <1>4 DEF BoardUntouched
<1>6. OnMap(other) = <<a, b>>
  BY <1>2, <1>4 DEF OnMap, Rows
<1>7. /\ Floor(settled, x) \in Rows
      /\ \A z \in Rows : <<x, z>> \in settled <=> z > Floor(settled, x)
      /\ Floor(settled, a) \in Rows
      /\ \A z \in Rows : <<a, z>> \in settled <=> z > Floor(settled, a)
  BY <1>1, <1>2, FloorIs
<1>8. \/ /\ <<x, y + 1>> # <<a, b>>
         /\ y + 1 = Height \/ <<x, y + 1>> \in settled
      \/ /\ <<a, b + 1>> # <<x, y>>
         /\ b + 1 = Height \/ <<a, b + 1>> \in settled
  <2>1. PICK p \in {<<x, y>>, <<a, b>>} :
            /\ Shifted(p, 0, 1) \notin {<<x, y>>, <<a, b>>}
            /\ ~DoMove(map, Shifted(p, 0, 1))
    BY <1>1, <1>2 DEF CanShift, Pieces
  <2>2. p[1] \in Columns /\ p[2] \in Rows /\ p = <<p[1], p[2]>>
    BY <1>1, <1>2, <1>4
  <2>3. Shifted(p, 0, 1) = <<p[1], p[2] + 1>>
    BY <2>2 DEF Shifted, Columns
  <2>4. p[2] + 1 = Height \/ <<p[1], p[2] + 1>> \in settled
    BY <1>5, <2>1, <2>2, <2>3 DEF DoMove, Rows
  <2> QED
    BY <2>1, <2>3, <2>4
<1>9. Floor(settled, x) + 1 = Height \/ <<x, Floor(settled, x) + 1>> \in settled
  BY <1>7 DEF Rows
<1>10. Floor(settled, a) + 1 = Height \/ <<a, Floor(settled, a) + 1>> \in settled
  BY <1>7 DEF Rows
<1>11. y <= Floor(settled, x) /\ b <= Floor(settled, a)
  BY <1>1, <1>2, <1>4, <1>5, FreeIsAboveFloor
<1>12. /\ y + 1 = Height \/ <<x, y + 1>> \in settled => y = Floor(settled, x)
       /\ b + 1 = Height \/ <<a, b + 1>> \in settled => b = Floor(settled, a)
  BY <1>1, <1>2, <1>4, <1>5, FreeIsAboveFloor
<1>13. map' = LET board == (map \ {<<a, b>>}) \cup {FallPos(map, <<a, b>>)}
              IN  (board \ {<<x, y>>}) \cup {FallPos(board, <<x, y>>)}
  BY <1>1, <1>2, <1>6 DEF DecideBlock
<1>14. direction \in {V_UP, V_DOWN, H_LEFT, H_RIGHT}
  BY DEF Inside, Direction
<1> HIDE DEF x, y, other, a, b
<1>15. CASE direction = V_UP
  <2>1. a = x /\ b = y - 1 /\ y >= 1
    BY <1>1, <1>3, <1>15 DEF a, b, Dx, Dy
  <2>2. y = Floor(settled, x)
    BY <1>1, <1>8, <1>12, <2>1
  <2>3. FallPos(map, <<a, b>>) = <<a, b>>
    BY <1>1, <1>2, <1>4, <1>5, <2>1, Lies
  <2>4. FallPos(map, <<x, y>>) = <<x, y>>
    BY <1>1, <1>5, <1>9, <2>2, Lies
  <2>5. map' = map
    BY <1>5, <1>13, <2>3, <2>4
  <2>6. plan.bottom = <<x, y>> /\ plan.top = <<a, b>>
    BY <1>15, <2>1, <2>2 DEF Aimed, x
  <2> QED
    BY <1>5, <2>5, <2>6
<1>16. CASE direction = V_DOWN
  <2>1. a = x /\ b = y + 1
    BY <1>1, <1>16 DEF a, b, Dx, Dy
  <2>2. b = Floor(settled, a)
    BY <1>1, <1>4, <1>8, <1>12, <2>1
  <2>3. FallPos(map, <<a, b>>) = <<a, b>>
    BY <1>2, <1>4, <1>5, <1>10, <2>2, Lies
  <2>4. FallPos(map, <<x, y>>) = <<x, y>>
    BY <1>1, <1>4, <1>5, <2>1, Lies
  <2>5. map' = map
    BY <1>5, <1>13, <2>3, <2>4
  <2>6. plan.bottom = <<x, y>> /\ plan.top = <<a, b>>
    BY <1>1, <1>16, <2>1, <2>2 DEF Aimed, x
  <2> QED
    BY <1>5, <2>5, <2>6
<1>17. CASE direction \in {H_LEFT, H_RIGHT}
  <2> DEFINE fx == Floor(settled, x)
             fa == Floor(settled, a)
             board == (map \ {<<a, b>>}) \cup {<<a, fa>>}
  <2>1. a # x /\ b = y
    BY <1>1, <1>17 DEF a, b, Dx, Dy
  <2>2. FallPos(map, <<a, b>>) = <<a, fa>>
    <3>1. \A z \in b + 1..fa : <<a, z>> \notin map
      BY <1>4, <1>5, <1>7, <2>1 DEF Rows
    <3>2. fa + 1 = Height \/ <<a, fa + 1>> \in map
      BY <1>5, <1>10
    <3> QED
      BY <1>2, <1>4, <1>7, <1>11, <3>1, <3>2, FallsTo DEF Rows
  <2>3. FallPos(board, <<x, y>>) = <<x, fx>>
    <3>1. \A z \in y + 1..fx : <<x, z>> \notin board
      BY <1>1, <1>5, <1>7, <2>1 DEF Rows
    <3>2. fx + 1 = Height \/ <<x, fx + 1>> \in board
      BY <1>5, <1>9, <2>1
    <3> HIDE DEF board
    <3> QED
      BY <1>1, <1>7, <1>11, <3>1, <3>2, FallsTo DEF Rows
  <2>4. map' = (board \ {<<x, y>>}) \cup {<<x, fx>>}
    BY <1>13, <2>2, <2>3
  <2>5. board = settled \cup {<<x, y>>, <<a, fa>>}
    BY <1>5, <2>1
  <2>6. plan.bottom = <<x, fx>> /\ plan.top = <<a, fa>>
    BY <1>17 DEF Aimed, x, a
  <2> QED
    BY <1>5, <2>1, <2>4, <2>5, <2>6
<1> QED
  BY <1>14, <1>15, <1>16, <1>17

PlanInv == player = "computer" => Aimed

LEMMA StepKeepsPlan ==
    BoardUntouched /\ ComputerInv /\ PlanInv /\ PlayedAsPlanned /\ [Next]_vars
        => PlanInv' /\ PlayedAsPlanned'
<1> SUFFICES ASSUME BoardUntouched, ComputerInv, PlanInv, PlayedAsPlanned, [Next]_vars
             PROVE  PlanInv' /\ PlayedAsPlanned'
  OBVIOUS
<1>1. UNCHANGED <<settled, player, plan>>
  BY DEF Next, OnIntervalTimer, OnKeyDown, OnAITimer, Playing, vars
<1>2. PlanInv'
  BY <1>1 DEF PlanInv, Aimed
<1> SUFFICES PlayedAsPlanned'
  BY <1>2
<1>3. CASE UNCHANGED vars
  BY <1>3 DEF vars, PlayedAsPlanned
<1>4. CASE OnIntervalTimer \/ OnKeyDown
  BY <1>1, <1>4 DEF OnIntervalTimer, OnKeyDown, Playing, PlayedAsPlanned
<1>5. CASE OnAITimer
  <2>1. player = "computer" /\ ~decideBlockCalled
    BY <1>5 DEF OnAITimer, Playing
  <2>2. ~thrown /\ Supported /\ Inside /\ Led /\ Aimed
    BY <2>1 DEF ComputerInv, PlanInv
  <2>3. CASE UNCHANGED decideBlockCalled
    BY <2>1, <2>3 DEF PlayedAsPlanned
  <2>4. CASE /\ plan.bottom[1] = bottomPiece[1] /\ plan.dir = direction
             /\ ~CanShift(0, 1) /\ DecideBlock
    <3>1. map' = settled \cup {plan.top, plan.bottom}
      BY <2>1, <2>2, <2>4, DecidedWhereAimed
    <3> QED
      BY <1>1, <3>1 DEF PlayedAsPlanned
  <2> QED
    BY <1>5, <2>3, <2>4 DEF OnAITimer, MoveLeft, MoveRight, MoveSide, MoveDown, TurnLeft, TurnRight, Turn
<1> QED
  BY <1>3, <1>4, <1>5 DEF Next

(* Where a block of the computer is decided, its pieces lie where the search put them:    *)
(* for boards of every size and every placement the search may answer with.              *)
THEOREM ComputerPlaysItsPlan == Spec => []PlayedAsPlanned
<1>1. Init => ComputerInv /\ BoardUntouched /\ PlanInv /\ PlayedAsPlanned
  <2>1. Init => ~decideBlockCalled
    BY DEF Init
  <2> QED
    BY <2>1, DealtToComputer, DealtOnFreeCells, PlannedOnFloors DEF PlanInv, PlayedAsPlanned
<1>2. ComputerInv /\ BoardUntouched /\ PlanInv /\ PlayedAsPlanned /\ [Next]_vars
      => (ComputerInv /\ BoardUntouched /\ PlanInv /\ PlayedAsPlanned)'
  BY StepKeepsComputerInv, StepKeepsBoard, StepKeepsPlan
<1> QED
  BY <1>1, <1>2, PTL DEF Spec

----------------------------------------------------------------------------
(* Both players' blocks stay on the board.  A human's block may be lifted above the   *)
(* row it is dealt in, but only once, so its axis never leaves the map; the other      *)
(* piece may be a row above, which is the last row of the map.                         *)

(* A set of numbers below a bound has a greatest one. *)
LEMMA Greatest ==
    ASSUME NEW n \in Int, NEW S, S \subseteq Int, S # {}, \A y \in S : y <= n
    PROVE  Max(S) \in S /\ \A y \in S : Max(S) >= y
<1> DEFINE T == {k \in Nat : n - k \in S}
           R == OpToRel(<, Nat)
<1>1. PICK y \in S : TRUE
  OBVIOUS
<1>2. n - y \in Nat /\ n - (n - y) = y
  BY <1>1
<1>3. T # {} /\ T \subseteq Nat
  BY <1>2
<1>4. IsWellFoundedOn(R, Nat)
  BY NatLessThanWellFounded
<1>5. PICK k \in T : \A j \in T : ~(<<j, k>> \in R)
  <2> HIDE DEF R, T
  <2> QED BY <1>3, <1>4, WFMin
<1>6. ASSUME NEW z \in S PROVE n - k >= z
  <2>1. z \in Int /\ n - z \in Nat /\ n - (n - z) = z
    OBVIOUS
  <2>2. n - z \in T
    BY <2>1
  <2>3. ~(n - z < k)
    <3>1. ASSUME n - z < k PROVE FALSE
      <4>1. <<n - z, k>> \in {ss \in Nat \X Nat : ss[1] < ss[2]}
        BY <2>1, <3>1
      <4>2. <<n - z, k>> \in R
        BY <4>1 DEF OpToRel
      <4> QED BY <1>5, <2>2, <4>2
    <3> QED BY <3>1
  <2> QED BY <2>1, <2>3
<1>7. n - k \in S
  BY <1>5
<1>8. Max(S) = n - k
  <2> HIDE DEF R, T
  <2> QED BY <1>6, <1>7, MaxIs
<1> QED
  BY <1>6, <1>7, <1>8

(* A piece falls to a row of the board, no higher than it is. *)
LEMMA FallsOnBoard ==
    ASSUME NEW board, NEW x \in Columns, NEW y \in Int, y >= -1, y < Height
    PROVE  /\ FallPos(board, <<x, y>>) \in Cell
           /\ FallPos(board, <<x, y>>)[2] >= y
           /\ FallPos(board, <<x, y>>)[1] = x
<1> USE SizeAssumption
<1> DEFINE reached == {w \in y..Height - 1 : \A z \in y + 1..w : DoMove(board, <<x, z>>)}
<1>1. Height \in Nat /\ Height > 3
  OBVIOUS
<1>2. y \in reached
  <2>1. y \in y..Height - 1 /\ y + 1..y = {}
    BY <1>1
  <2> QED BY <2>1
<1>3. y = -1 => 0 \in reached
  <2> SUFFICES ASSUME y = -1 PROVE 0 \in reached
    OBVIOUS
  <2>1. y + 1..0 = {0} /\ 0 \in y..Height - 1
    BY <1>1
  <2>2. DoMove(board, <<x, 0>>)
    BY <1>1 DEF DoMove
  <2> QED BY <2>1, <2>2
<1>4. reached \subseteq Int /\ \A w \in reached : w <= Height - 1 /\ w >= y
  BY <1>1
<1> DEFINE m == Max(reached)
<1>5. m \in reached /\ \A w \in reached : m >= w
  <2> HIDE DEF reached
  <2>1. Height - 1 \in Int /\ reached # {}
    BY <1>1, <1>2
  <2> QED BY <1>4, <2>1, Greatest
<1>6. y = -1 => m >= 0
  BY <1>3, <1>5
<1>7. m \in Rows /\ m >= y
  <2>1. m \in Int /\ m <= Height - 1 /\ m >= y
    BY <1>4, <1>5
  <2> HIDE DEF m
  <2> QED BY <1>1, <1>6, <2>1 DEF Rows
<1>8. FallPos(board, <<x, y>>) = <<x, m>>
  BY DEF FallPos
<1> HIDE DEF m
<1> QED BY <1>7, <1>8 DEF Cell

(* The block is on the board, and its axis is above the row it is dealt in only when it  *)
(* has been lifted. *)
OnBoard ==
    /\ TypeOK
    /\ Inside
    /\ bottomPiece[2] >= 1 - floatedCount

(* Where a block may be. *)
Fits(axis, dir) ==
    /\ axis \in Cell /\ dir \in Direction
    /\ Beside(axis, dir)[1] \in Columns /\ Beside(axis, dir)[2] < Height

LEMMA FitsOnMap ==
    ASSUME NEW axis, NEW dir, Fits(axis, dir)
    PROVE  /\ PiecesOnMap(axis, dir) \subseteq Cell
           /\ OnMap(axis) = axis
           /\ axis = <<axis[1], axis[2]>> /\ axis[1] \in Columns /\ axis[2] \in Rows
           /\ Beside(axis, dir) = <<Beside(axis, dir)[1], Beside(axis, dir)[2]>>
           /\ Beside(axis, dir)[2] \in Int /\ Beside(axis, dir)[2] >= -1
           /\ Beside(axis, dir)[1] = axis[1] + Dx[dir] /\ Beside(axis, dir)[2] = axis[2] + Dy[dir]
           /\ axis[1] \in Int /\ axis[2] \in Nat /\ Dx[dir] \in Int /\ Dy[dir] \in Int
<1> USE SizeAssumption
<1> DEFINE c == Beside(axis, dir)
<1>1. /\ axis = <<axis[1], axis[2]>> /\ axis[1] \in Columns /\ axis[2] \in Rows
      /\ axis[1] \in Int /\ axis[2] \in Nat
  BY DEF Fits, Cell, Columns, Rows
<1>2. Dx[dir] \in Int /\ Dy[dir] \in Int /\ Dy[dir] >= -1
  BY DEF Fits, Dx, Dy, Direction, V_UP, V_DOWN, H_LEFT, H_RIGHT
<1>3. c = <<axis[1] + Dx[dir], axis[2] + Dy[dir]>>
  BY DEF Beside
<1>4. c = <<c[1], c[2]>> /\ c[1] = axis[1] + Dx[dir] /\ c[2] = axis[2] + Dy[dir]
  BY <1>3
<1>5. c[2] \in Int /\ c[2] >= -1
  BY <1>1, <1>2, <1>4
<1>6. c[1] \in Columns /\ c[2] < Height
  BY DEF Fits
<1> HIDE DEF c
<1>7. OnMap(axis) = axis
  BY <1>1 DEF OnMap
<1>8. OnMap(c) \in Cell
  <2>1. CASE c[2] < 0
    <3>1. Height + c[2] \in Rows
      BY <1>5, <2>1 DEF Rows
    <3> QED BY <1>6, <2>1, <3>1 DEF OnMap, Cell
  <2>2. CASE ~(c[2] < 0)
    <3>1. c[2] \in Rows
      BY <1>5, <1>6, <2>2 DEF Rows
    <3>2. <<c[1], c[2]>> \in Cell
      BY <1>6, <3>1 DEF Cell
    <3> QED BY <1>4, <2>2, <3>2 DEF OnMap
  <2> QED BY <2>1, <2>2
<1>9. PiecesOnMap(axis, dir) = {OnMap(axis), OnMap(c)}
  BY DEF PiecesOnMap, Pieces, c
<1>10. PiecesOnMap(axis, dir) \subseteq Cell
  BY <1>7, <1>8, <1>9 DEF Fits
<1> QED
  BY <1>1, <1>2, <1>4, <1>5, <1>7, <1>10 DEF c

(* What an update leaves: a block on the board, moved or thrown back. *)
LEMMA UpdateOnBoard ==
    ASSUME OnBoard, NEW axis, NEW dir, Fits(axis, dir), UpdatePieceGridPos(axis, dir)
    PROVE  /\ map' \subseteq Cell /\ thrown' \in BOOLEAN
           /\ Inside'
           /\ bottomPiece' = bottomPiece \/ bottomPiece' = axis
<1>1. PiecesOnMap(axis, dir) \subseteq Cell
  BY FitsOnMap
<1>2. Others \subseteq Cell /\ Inside
  BY DEF OnBoard, TypeOK, Others
<1>3. OnMap(Beside(axis, dir)) \in PiecesOnMap(axis, dir)
  BY DEF PiecesOnMap, Pieces
<1>4. CASE PiecesOnMap(axis, dir) \cap Others = {}
  <2>1. /\ map' = Others \cup PiecesOnMap(axis, dir)
        /\ bottomPiece' = axis /\ direction' = dir /\ thrown' = FALSE
    BY <1>4 DEF UpdatePieceGridPos
  <2>2. Beside(bottomPiece, direction)' = Beside(axis, dir)
    BY <2>1 DEF Beside
  <2>3. Inside'
    BY <2>1, <2>2 DEF Fits, Inside
  <2> QED BY <1>1, <1>2, <2>1, <2>3
<1>5. CASE PiecesOnMap(axis, dir) \cap Others # {}
  <2>1. /\ map' = Others \cup ({OnMap(Beside(axis, dir))} \ Others)
        /\ thrown' = TRUE /\ bottomPiece' = bottomPiece /\ direction' = direction
    BY <1>5 DEF UpdatePieceGridPos, block
  <2>2. Inside'
    BY <1>2, <2>1 DEF Inside, Beside
  <2> QED BY <1>1, <1>2, <1>3, <2>1, <2>2
<1> QED BY <1>4, <1>5

LEMMA ShiftFits ==
    ASSUME OnBoard, NEW dx \in {-1, 0, 1}, NEW dy \in {0, 1}, CanShift(dx, dy)
    PROVE  /\ Fits(Shifted(bottomPiece, dx, dy), direction)
           /\ Shifted(bottomPiece, dx, dy)[2] >= bottomPiece[2]
<1> DEFINE other == Beside(bottomPiece, direction)
<1>1. Inside /\ Fits(bottomPiece, direction)
  BY DEF OnBoard, Inside, Fits
<1>2. bottomPiece[1] \in Columns /\ bottomPiece[2] < Height /\ bottomPiece[2] \in Nat
      /\ bottomPiece[1] \in Int
  BY <1>1, SizeAssumption DEF Inside, Cell, Rows, Columns
<1>3. ASSUME NEW p \in {bottomPiece, other}
      PROVE  Shifted(p, dx, dy)[1] \in Columns /\ Shifted(p, dx, dy)[2] < Height
  <2>1. CASE Shifted(p, dx, dy) \in {bottomPiece, other}
    BY <1>1, <1>2, <2>1 DEF Inside
  <2>2. CASE Shifted(p, dx, dy) \notin {bottomPiece, other}
    <3>1. DoMove(map, Shifted(p, dx, dy))
      BY <2>2 DEF CanShift, Pieces
    <3> QED BY <3>1 DEF DoMove
  <2> QED BY <2>1, <2>2
<1>4. Shifted(bottomPiece, dx, dy) = <<bottomPiece[1] + dx, bottomPiece[2] + dy>>
  BY DEF Shifted
<1>5. bottomPiece[1] + dx \in Columns /\ bottomPiece[2] + dy < Height
  BY <1>3, <1>4
<1>6. bottomPiece[2] + dy \in Rows
  BY <1>2, <1>5, SizeAssumption DEF Rows
<1>7. Shifted(bottomPiece, dx, dy) \in Cell
  BY <1>4, <1>5, <1>6 DEF Cell
<1>8. Shifted(other, dx, dy) = Beside(Shifted(bottomPiece, dx, dy), direction)
  BY <1>1, ShiftedPieces
<1>9. Shifted(bottomPiece, dx, dy)[2] >= bottomPiece[2]
  BY <1>2, <1>4
<1> QED
  BY <1>1, <1>3, <1>7, <1>8, <1>9 DEF Fits

LEMMA StayOnBoard ==
    ASSUME OnBoard, Stay, UNCHANGED <<settled, player, plan, floatedCount>>,
           decideBlockCalled' \in BOOLEAN
    PROVE  OnBoard'
<1>1. UNCHANGED <<map, bottomPiece, direction, thrown>>
  BY DEF Stay, block
<1> QED
  BY <1>1 DEF OnBoard, TypeOK, Inside, Beside

(* An update, with what is counted beside it. *)
LEMMA UpdatedOnBoard ==
    ASSUME OnBoard, UNCHANGED <<settled, player, plan, decideBlockCalled>>,
           NEW axis, NEW dir, Fits(axis, dir), UpdatePieceGridPos(axis, dir),
           floatedCount' \in {0, 1}, floatedCount' >= floatedCount, axis[2] >= 1 - floatedCount'
    PROVE  OnBoard'
<1>1. /\ map' \subseteq Cell /\ thrown' \in BOOLEAN /\ Inside'
      /\ bottomPiece' = bottomPiece \/ bottomPiece' = axis
  BY UpdateOnBoard
<1>2. bottomPiece \in Cell /\ floatedCount \in {0, 1} /\ bottomPiece[2] >= 1 - floatedCount
  BY DEF OnBoard, TypeOK
<1>3. bottomPiece[2] \in Int
  BY <1>2, SizeAssumption DEF Cell, Rows
<1>4. bottomPiece'[2] >= 1 - floatedCount'
  BY <1>1, <1>2, <1>3
<1>5. TypeOK'
  BY <1>1 DEF OnBoard, TypeOK, Inside
<1> QED
  BY <1>1, <1>4, <1>5 DEF OnBoard

LEMMA DecideOnBoard ==
    ASSUME OnBoard, DecideBlock, UNCHANGED <<settled, player, plan, floatedCount>>
    PROVE  OnBoard'
<1> DEFINE other == Beside(bottomPiece, direction)
           fallen == FallPos(map, other)
           board == (map \ {OnMap(other)}) \cup {fallen}
<1>1. Fits(bottomPiece, direction) /\ map \subseteq Cell
  BY DEF OnBoard, TypeOK, Inside, Fits
<1>2. fallen \in Cell
  <2>1. /\ other = <<other[1], other[2]>> /\ other[1] \in Columns /\ other[2] \in Int
        /\ other[2] >= -1 /\ other[2] < Height
    BY <1>1, FitsOnMap DEF Fits
  <2> HIDE DEF other
  <2> QED BY <2>1, FallsOnBoard
<1>3. board \subseteq Cell
  BY <1>1, <1>2
<1>4. FallPos(board, bottomPiece) \in Cell
  <2>1. /\ bottomPiece = <<bottomPiece[1], bottomPiece[2]>> /\ bottomPiece[1] \in Columns
        /\ bottomPiece[2] \in Rows
    BY <1>1, FitsOnMap
  <2>2. bottomPiece[2] \in Int /\ bottomPiece[2] >= -1 /\ bottomPiece[2] < Height
    BY <2>1, SizeAssumption DEF Rows
  <2> HIDE DEF board
  <2> QED BY <2>1, <2>2, FallsOnBoard
<1>5. /\ map' = (board \ {bottomPiece}) \cup {FallPos(board, bottomPiece)}
      /\ decideBlockCalled' = TRUE /\ UNCHANGED <<bottomPiece, direction, thrown>>
  BY DEF DecideBlock, block
<1>6. map' \subseteq Cell
  <2> HIDE DEF board
  <2> QED BY <1>3, <1>4, <1>5
<1> QED
  BY <1>5, <1>6 DEF OnBoard, TypeOK, Inside, Beside

LEMMA MoveOnBoard ==
    ASSUME OnBoard, MoveLeft \/ MoveRight \/ MoveDown, UNCHANGED <<settled, player, plan>>
    PROVE  OnBoard'
<1>1. /\ decideBlockCalled \in BOOLEAN /\ floatedCount \in {0, 1}
      /\ bottomPiece[2] >= 1 - floatedCount /\ bottomPiece[2] \in Int
  BY SizeAssumption DEF OnBoard, TypeOK, Cell, Rows
<1>2. ASSUME NEW dx \in {-1, 0, 1}, NEW dy \in {0, 1}, CanShift(dx, dy),
             UpdatePieceGridPos(Shifted(bottomPiece, dx, dy), direction),
             UNCHANGED <<floatedCount, decideBlockCalled>>
      PROVE  OnBoard'
  <2> DEFINE axis == Shifted(bottomPiece, dx, dy)
  <2>1. Fits(axis, direction) /\ axis[2] >= bottomPiece[2]
    BY <1>2, ShiftFits
  <2>2. axis[2] \in Int
    BY <2>1, FitsOnMap
  <2>3. UpdatePieceGridPos(axis, direction)
    BY <1>2
  <2> HIDE DEF axis
  <2>4. axis[2] >= 1 - floatedCount' /\ floatedCount' >= floatedCount /\ floatedCount' \in {0, 1}
    BY <1>1, <1>2, <2>1, <2>2
  <2> QED BY <1>2, <2>1, <2>3, <2>4, UpdatedOnBoard
<1>3. ASSUME NEW dx \in {-1, 1}, MoveSide(dx) PROVE OnBoard'
  BY <1>1, <1>2, <1>3, StayOnBoard DEF MoveSide
<1>4. CASE MoveDown
  BY <1>2, <1>4, DecideOnBoard DEF MoveDown
<1> QED
  BY <1>3, <1>4 DEF MoveLeft, MoveRight

LEMMA LiftOnBoard ==
    ASSUME OnBoard, Lift, floatedCount = 0, UNCHANGED <<settled, player, plan, decideBlockCalled>>
    PROVE  OnBoard'
<1> DEFINE up == Beside(bottomPiece, V_UP)
<1>1. Fits(bottomPiece, direction) /\ bottomPiece[2] >= 1
  BY DEF OnBoard, Inside, Fits
<1>2. /\ bottomPiece[1] \in Columns /\ bottomPiece[1] \in Int /\ bottomPiece[2] \in Rows
      /\ bottomPiece[2] \in Nat /\ Dx[direction] \in Int /\ Dy[direction] \in Int
      /\ bottomPiece = <<bottomPiece[1], bottomPiece[2]>>
      /\ Beside(bottomPiece, direction)[1] = bottomPiece[1] + Dx[direction]
      /\ Beside(bottomPiece, direction)[2] = bottomPiece[2] + Dy[direction]
  BY <1>1, FitsOnMap
<1>3. up = <<bottomPiece[1], bottomPiece[2] - 1>>
  BY <1>2 DEF Beside, Dx, Dy, V_UP
<1>4. up \in Cell /\ up[2] = bottomPiece[2] - 1 /\ up[2] >= 0
  <2>1. bottomPiece[2] - 1 \in Rows
    BY <1>1, <1>2, SizeAssumption DEF Rows
  <2> QED BY <1>1, <1>2, <1>3, <2>1 DEF Cell
<1>5. Fits(up, direction)
  <2>1. Beside(up, direction) = <<bottomPiece[1] + Dx[direction], bottomPiece[2] - 1 + Dy[direction]>>
    BY <1>3 DEF Beside
  <2>2. bottomPiece[2] - 1 + Dy[direction] < Height
    BY <1>1, <1>2, SizeAssumption DEF Fits
  <2> QED BY <1>1, <1>2, <1>4, <2>1, <2>2 DEF Fits
<1>6. Fits(up, V_DOWN)
  <2>1. Beside(up, V_DOWN) = bottomPiece
    BY <1>2, <1>3 DEF Beside, Dx, Dy, V_DOWN
  <2>2. bottomPiece[2] < Height
    BY <1>2, SizeAssumption DEF Rows
  <2> QED BY <1>2, <1>4, <2>1, <2>2 DEF Fits, Direction
<1> HIDE DEF up
<1>7. CASE UpdatePieceGridPos(up, V_DOWN) /\ floatedCount' = 1
  BY <1>4, <1>6, <1>7, UpdatedOnBoard
<1>8. CASE /\ PiecesOnMap(up, direction) \cap Others # {}
           /\ UpdatePieceGridPos(up, direction) /\ UNCHANGED floatedCount
  <2>1. map' \subseteq Cell /\ thrown' \in BOOLEAN
    BY <1>5, <1>8, UpdateOnBoard
  <2>2. UNCHANGED <<bottomPiece, direction>>
    BY <1>8 DEF UpdatePieceGridPos, block
  <2> QED
    BY <1>8, <2>1, <2>2 DEF OnBoard, TypeOK, Inside, Beside
<1> QED
  BY <1>7, <1>8 DEF Lift, up

LEMMA TurnOnBoard ==
    ASSUME OnBoard, NEW next \in [Direction -> Direction], Turn(next),
           UNCHANGED <<settled, player, plan>>
    PROVE  OnBoard'
<1>1. /\ decideBlockCalled \in BOOLEAN /\ floatedCount \in {0, 1} /\ direction \in Direction
      /\ bottomPiece \in Cell /\ bottomPiece[2] >= 1 - floatedCount
  BY DEF OnBoard, TypeOK
<1>2. ASSUME NEW dir \in Direction, CanTurn(dir), UpdatePieceGridPos(bottomPiece, dir),
             UNCHANGED <<floatedCount, decideBlockCalled>>
      PROVE  OnBoard'
  <2>1. Fits(bottomPiece, dir)
    BY <1>1, <1>2 DEF Fits, CanTurn, DoMove
  <2>2. floatedCount' >= floatedCount /\ floatedCount' \in {0, 1}
        /\ bottomPiece[2] >= 1 - floatedCount'
    BY <1>1, <1>2
  <2> QED BY <1>2, <2>1, <2>2, UpdatedOnBoard
<1>3. /\ next[direction] \in Direction /\ next[next[direction]] \in Direction
      /\ next[next[next[direction]]] \in Direction
  BY <1>1
<1>4. UNCHANGED decideBlockCalled
  BY DEF Turn
<1>5. CASE floatedCount = 0 /\ Lift
  BY <1>4, <1>5, LiftOnBoard
<1>6. CASE UNCHANGED floatedCount /\ Stay
  BY <1>1, <1>4, <1>6, StayOnBoard
<1>7. CASE /\ UNCHANGED floatedCount
           /\ \E dir \in Direction : CanTurn(dir) /\ UpdatePieceGridPos(bottomPiece, dir)
  BY <1>2, <1>4, <1>7
<1> QED
  BY <1>3, <1>5, <1>6, <1>7 DEF Turn

(* The lowest empty cell of a column is in a row of the board. *)
LEMMA FloorOnBoard ==
    ASSUME NEW board, NEW x
    PROVE  Floor(board, x) \in Rows
<1> DEFINE free == {0} \cup {y \in Rows \ {0} : <<x, y>> \notin board}
<1>1. free \subseteq Rows /\ free # {}
  BY SizeAssumption DEF Rows
<1>2. free \subseteq Int /\ Height - 1 \in Int /\ \A y \in free : y <= Height - 1
  BY <1>1, SizeAssumption DEF Rows
<1>3. Max(free) \in free
  <2> HIDE DEF free
  <2> QED BY <1>1, <1>2, Greatest
<1> QED
  BY <1>1, <1>3 DEF Floor

(* Every plan is a block on the board. *)
LEMMA PlansOnBoard ==
    ASSUME NEW board, NEW p \in Plans(board) \cup {Straight(board)}
    PROVE  p \in Placement
<1> USE SizeAssumption
<1>1. CASE p = Straight(board)
  <2> DEFINE bottom == FallPos(board, Entry)
  <2>1. Entry = <<entryGridPosX, 1>> /\ entryGridPosX \in Columns
    BY DEF Entry, entryGridPosY, entryGridPosX, Columns
  <2>2. bottom \in Cell /\ bottom[2] >= 1
    BY <2>1, FallsOnBoard
  <2> HIDE DEF bottom
  <2>3. bottom[1] \in Columns /\ bottom[1] \in Int /\ bottom[2] \in Rows /\ bottom[2] - 1 \in Rows
    BY <2>2 DEF Cell, Columns, Rows
  <2>4. Beside(bottom, V_UP) = <<bottom[1], bottom[2] - 1>>
    BY <2>3 DEF Beside, Dx, Dy, V_UP, Columns, Rows
  <2>5. Beside(bottom, V_UP) \in Cell
    BY <2>3, <2>4 DEF Cell
  <2>6. p = [top |-> Beside(bottom, V_UP), bottom |-> bottom, dir |-> V_UP]
    BY <1>1 DEF Straight, bottom
  <2> QED BY <2>2, <2>5, <2>6 DEF Placement, Direction
<1>2. ASSUME NEW dir \in Direction, NEW x \in Columns, p \in Placements(board, dir, x)
      PROVE  p \in Placement
  <2> DEFINE y == Floor(board, x)
             axis == IF dir = V_DOWN THEN <<x, y - 1>> ELSE <<x, y>>
             side == Beside(axis, dir)
             other == IF dir \in {H_LEFT, H_RIGHT} THEN <<side[1], Floor(board, side[1])>> ELSE side
  <2>1. /\ axis[2] > 0 /\ other[2] > 0 /\ other[1] \in Columns
        /\ p = [top |-> other, bottom |-> axis, dir |-> dir]
    BY <1>2 DEF Placements
  <2>2. y \in Rows /\ y \in Int /\ x \in Int
    BY FloorOnBoard DEF Rows, Columns
  <2> HIDE DEF y
  <2>3. axis \in Cell
    <3>1. y - 1 > 0 => y - 1 \in Rows
      BY <2>2 DEF Rows
    <3> QED BY <2>1, <2>2, <3>1 DEF Cell
  <2>4. other \in Cell
    <3>1. CASE dir \in {H_LEFT, H_RIGHT}
      <4>1. Floor(board, side[1]) \in Rows /\ other = <<side[1], Floor(board, side[1])>>
        BY <3>1, FloorOnBoard
      <4> HIDE DEF side
      <4> QED BY <2>1, <4>1 DEF Cell
    <3>2. CASE dir = V_UP
      <4>1. other = <<x, y - 1>>
        BY <2>2, <3>2 DEF Beside, Dx, Dy, V_UP, V_DOWN, H_LEFT, H_RIGHT
      <4>2. y - 1 \in Rows
        BY <2>1, <2>2, <4>1 DEF Rows
      <4> QED BY <4>1, <4>2 DEF Cell
    <3>3. CASE dir = V_DOWN
      <4>1. other = <<x, y>>
        BY <2>2, <3>3 DEF Beside, Dx, Dy, V_UP, V_DOWN, H_LEFT, H_RIGHT
      <4> QED BY <2>2, <4>1 DEF Cell
    <3> QED BY <3>1, <3>2, <3>3 DEF Direction
  <2> HIDE DEF axis, other
  <2> QED BY <2>1, <2>3, <2>4 DEF Placement
<1> QED
  BY <1>1, <1>2 DEF Plans

LEMMA DealtOnBoard == Init => OnBoard
<1> SUFFICES ASSUME Init PROVE OnBoard
  OBVIOUS
<1> USE SizeAssumption
<1>1. /\ bottomPiece = Entry /\ direction = V_UP /\ floatedCount = 0
      /\ ~decideBlockCalled /\ decideBlockCalled \in BOOLEAN /\ thrown \in BOOLEAN
      /\ player \in {"human", "computer"}
      /\ settled \subseteq Cell
      /\ map = settled \cup Pieces(Entry, V_UP)
  BY DEF Init, Board
<1>2. Entry = <<entryGridPosX, 1>> /\ entryGridPosX \in Columns /\ 1 \in Rows /\ 0 \in Rows
  BY DEF Entry, entryGridPosY, entryGridPosX, Columns, Rows
<1>3. Entry \in Cell /\ Entry[2] = 1
  BY <1>2 DEF Cell
<1>4. Beside(Entry, V_UP) = <<entryGridPosX, 0>>
  BY <1>2 DEF Beside, Dx, Dy, V_UP, Columns
<1>5. Pieces(Entry, V_UP) \subseteq Cell
  BY <1>2, <1>3, <1>4 DEF Pieces, Cell
<1>6. Inside
  BY <1>1, <1>2, <1>3, <1>4 DEF Inside, Direction
<1>7. plan \in Placement
  <2>1. plan \in Plans(settled) \cup {Straight(settled)}
    BY DEF Init
  <2> QED BY <2>1, PlansOnBoard
<1>8. TypeOK
  BY <1>1, <1>5, <1>6, <1>7 DEF TypeOK, Inside
<1> QED
  BY <1>1, <1>3, <1>6, <1>8 DEF OnBoard

LEMMA StepOnBoard == OnBoard /\ [Next]_vars => OnBoard'
<1> SUFFICES ASSUME OnBoard, [Next]_vars PROVE OnBoard'
  OBVIOUS
<1>1. CASE UNCHANGED vars
  BY <1>1 DEF vars, block, OnBoard, TypeOK, Inside, Beside
<1>2. CASE Next
  <2>1. UNCHANGED <<settled, player, plan>>
    BY <1>2 DEF Next, OnKeyDown, OnIntervalTimer, OnAITimer, Playing
  <2>2. MoveLeft \/ MoveRight \/ MoveDown \/ Turn(Left) \/ Turn(Right)
    BY <1>2 DEF Next, OnKeyDown, OnIntervalTimer, OnAITimer, TurnLeft, TurnRight
  <2>3. Left \in [Direction -> Direction] /\ Right \in [Direction -> Direction]
    BY DEF Left, Right, Direction, V_UP, V_DOWN, H_LEFT, H_RIGHT
  <2> HIDE DEF Left, Right
  <2> QED
    BY <2>1, <2>2, <2>3, MoveOnBoard, TurnOnBoard
<1> QED
  BY <1>1, <1>2

(* No piece ever leaves the map, on boards of every size and for both players: not by a  *)
(* lift above the row the block is dealt in, by a turn in the uppermost row or by the     *)
(* fall of a decided block; and what the computer plans is a block on the board.          *)
THEOREM PiecesStayOnTheMap == Spec => []TypeOK
<1>1. OnBoard => TypeOK
  BY DEF OnBoard
<1> QED
  BY <1>1, DealtOnBoard, StepOnBoard, PTL DEF Spec
================================================================================
