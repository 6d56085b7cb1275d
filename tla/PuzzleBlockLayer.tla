---------------------------- MODULE PuzzleBlockLayer ---------------------------
(* The block a player moves over the board (PuzzleBlockLayer of ModPuzzleBlock.tjs):  *)
(* from where it is dealt to where it is decided (PuzzleUserLayer), moved by the keys *)
(* and the timer of a human player, or by the timer of the computer player, which     *)
(* carries out a placement of the search tree (onIntervalTimer of ModPuzzleAI.tjs).   *)
(* The pieces of the block are on the map while it moves.                             *)
EXTENDS PuzzlePlacements

VARIABLES
    settled,         \* history: the cells that were occupied when the block was dealt
    map,             \* map_: the occupied cells
    bottomPiece,     \* the cell of bottomPieceLayer, the axis
    direction,       \* direction_: where topPieceLayer is
    floatedCount,    \* how often the block was lifted
    decideBlockCalled,
    thrown,          \* whether deployPiece threw E_PUZZLEUSER_MSG3
    player,          \* whether a human or the computer moves the block
    plan             \* the placement getNextBlock answers with

block == <<bottomPiece, direction>>
vars == <<settled, map, block, floatedCount, decideBlockCalled, thrown, player, plan>>

Placement == [top : Cell, bottom : Cell, dir : Direction]

TypeOK ==
    /\ settled \subseteq Cell
    /\ map \subseteq Cell
    /\ bottomPiece \in Cell
    /\ direction \in Direction
    /\ floatedCount \in {0, 1}
    /\ {decideBlockCalled, thrown} \subseteq BOOLEAN
    /\ player \in {"human", "computer"}
    /\ plan \in Placement

\* A plausible slip in OnMap: no such row is thought of.
OnMapDirectly(c) == c

\* map[y] of a script array: a row below 0 counts from the end.
OnMap(c) == IF c[2] < 0 THEN <<c[1], Height + c[2]>> ELSE c

\* The cells of a block, and those of them on the map.
Pieces(axis, dir) == {axis, Beside(axis, dir)}
PiecesOnMap(axis, dir) == {OnMap(c) : c \in Pieces(axis, dir)}

Shifted(c, dx, dy) == <<c[1] + dx, c[2] + dy>>

----------------------------------------------------------------------------
(* Operations of the block.                                                        *)

Others == map \ PiecesOnMap(bottomPiece, direction)

\* A plausible slip in UpdatePieceGridPos: the pieces are not taken off the map first.
UpdateWithoutUnset(axis, dir) ==
    /\ thrown' = FALSE
    /\ map' = map \cup PiecesOnMap(axis, dir)
    /\ bottomPiece' = axis
    /\ direction' = dir

\* updatePieceGridPos: the pieces are taken off the map and put on it elsewhere.  What is
\* in the way makes deployPiece throw.
UpdatePieceGridPos(axis, dir) ==
    IF PiecesOnMap(axis, dir) \cap Others = {}
      THEN /\ map' = Others \cup PiecesOnMap(axis, dir)
           /\ bottomPiece' = axis
           /\ direction' = dir
           /\ thrown' = FALSE
      ELSE /\ map' = Others \cup ({OnMap(Beside(axis, dir))} \ Others)
           /\ thrown' = TRUE
           /\ UNCHANGED block

Stay == UNCHANGED <<map, block, thrown>>

\* Whether the cells a block would get into by a shift are free.
CanShift(dx, dy) ==
    \A c \in {Shifted(p, dx, dy) : p \in Pieces(bottomPiece, direction)} \ Pieces(bottomPiece, direction) :
        DoMove(map, c)

\* moveLeft and moveRight
MoveSide(dx) ==
    /\ IF CanShift(dx, 0) THEN UpdatePieceGridPos(Shifted(bottomPiece, dx, 0), direction) ELSE Stay
    /\ UNCHANGED <<floatedCount, decideBlockCalled>>
MoveLeft == MoveSide(-1)
MoveRight == MoveSide(1)

\* decideBlock: both pieces fall, the top one first.
DecideBlock ==
    LET top == OnMap(Beside(bottomPiece, direction))
        fallen == FallPos(map, Beside(bottomPiece, direction))
        board == (map \ {top}) \cup {fallen}
    IN  /\ map' = (board \ {bottomPiece}) \cup {FallPos(board, bottomPiece)}
        /\ decideBlockCalled' = TRUE
        /\ UNCHANGED <<block, thrown>>

\* moveDown
MoveDown ==
    /\ IF CanShift(0, 1)
         THEN UpdatePieceGridPos(Shifted(bottomPiece, 0, 1), direction) /\ UNCHANGED decideBlockCalled
         ELSE DecideBlock
    /\ UNCHANGED floatedCount

\* The directions a left and a right turn go through.
Left == [V_UP |-> H_LEFT, H_LEFT |-> V_DOWN, V_DOWN |-> H_RIGHT, H_RIGHT |-> V_UP]
Right == [V_UP |-> H_RIGHT, H_RIGHT |-> V_DOWN, V_DOWN |-> H_LEFT, H_LEFT |-> V_UP]

CanTurn(dir) == DoMove(map, Beside(bottomPiece, dir))

\* A plausible slip in Lift: that the block was lifted is not counted.
LiftUncounted ==
    /\ UpdatePieceGridPos(Beside(bottomPiece, V_UP), V_DOWN)
    /\ UNCHANGED floatedCount

\* A block that lies on something is lifted to turn down: moveUp, then the turn.
Lift ==
    LET up == Beside(bottomPiece, V_UP)
    IN  IF PiecesOnMap(up, direction) \cap Others = {}
          THEN UpdatePieceGridPos(up, V_DOWN) /\ floatedCount' = 1
          ELSE UpdatePieceGridPos(up, direction) /\ UNCHANGED floatedCount

\* turnLeft and turnRight: to the first direction that is free; down comes with a lift,
\* once.
Turn(next) ==
    LET first == next[direction]
        second == next[first]
        third == next[second]
        lift == ~CanTurn(first) /\ first = V_DOWN /\ floatedCount = 0
        to(dir) == UpdatePieceGridPos(bottomPiece, dir)
    IN  /\ \/ lift /\ Lift
           \/ ~lift /\ UNCHANGED floatedCount
              /\ \/ CanTurn(first) /\ to(first)
                 \/ ~CanTurn(first) /\ CanTurn(second) /\ to(second)
                 \/ ~CanTurn(first) /\ ~CanTurn(second) /\ CanTurn(third) /\ to(third)
                 \/ ~CanTurn(first) /\ ~CanTurn(second) /\ ~CanTurn(third) /\ Stay
        /\ UNCHANGED decideBlockCalled
TurnLeft == Turn(Left)
TurnRight == Turn(Right)

----------------------------------------------------------------------------
(* Boards and players.                                                             *)

\* A board without gaps, by the heights of its columns.
Board(height) == {c \in Cell : c[2] >= Height - height[c[1]]}

\* What the computer does without a placement: the block goes down as it is dealt.
Straight(board) ==
    LET bottom == FallPos(board, Entry)
    IN  [top |-> Beside(bottom, V_UP), bottom |-> bottom, dir |-> V_UP]

\* getNextBlock: which placement is the best is left open.
Plans(board) ==
    LET all == UNION {Placements(board, dir, x) : dir \in Direction, x \in Columns}
    IN  IF all = {} THEN {Straight(board)} ELSE all

\* createNewBlock and resetBlockPos.  Pieces get into row 0 only where a human puts them.
Init ==
    /\ player \in {"human", "computer"}
    /\ \E height \in [Columns -> 0..Height] :
          /\ height[entryGridPosX] <= Height - 2
          /\ player = "computer" => \A x \in Columns : height[x] < Height
          /\ settled = Board(height)
    /\ map = settled \cup Pieces(Entry, V_UP)
    /\ bottomPiece = Entry
    /\ direction = V_UP
    /\ floatedCount = 0
    /\ decideBlockCalled = FALSE
    /\ thrown = FALSE
    /\ plan \in IF player = "computer" THEN Plans(settled) ELSE {Straight(settled)}

Playing(who) == player = who /\ ~decideBlockCalled /\ ~thrown /\ UNCHANGED <<settled, player, plan>>

\* onKeyDown
OnKeyDown == Playing("human") /\ (MoveLeft \/ MoveRight \/ MoveDown \/ TurnLeft \/ TurnRight)

\* onIntervalTimer of the layer
OnIntervalTimer == Playing("human") /\ MoveDown

\* onIntervalTimer of the driver: first sideways, then the turn, then down.
OnAITimer ==
    /\ Playing("computer")
    /\ \/ plan.bottom[1] < bottomPiece[1] /\ MoveLeft
       \/ plan.bottom[1] > bottomPiece[1] /\ MoveRight
       \/ /\ plan.bottom[1] = bottomPiece[1] /\ plan.dir # direction
          /\ IF plan.dir \in {H_RIGHT, V_DOWN} THEN TurnRight ELSE TurnLeft
       \/ plan.bottom[1] = bottomPiece[1] /\ plan.dir = direction /\ MoveDown

Next == OnIntervalTimer \/ OnKeyDown \/ OnAITimer

Spec == Init /\ [][Next]_vars
\* The timers run until the block is decided.
FairSpec == Spec /\ WF_vars(OnIntervalTimer) /\ WF_vars(OnAITimer)

----------------------------------------------------------------------------
(* Properties.                                                                     *)

(* While the block moves, what lay on the board stays where it was, and the block is  *)
(* on the map once: unsetGridPos clears cells without a look at what is in them, and   *)
(* a row above the board is another row of the map.                                    *)
BoardUntouched ==
    ~decideBlockCalled /\ ~thrown =>
        /\ settled \cap PiecesOnMap(bottomPiece, direction) = {}
        /\ map = settled \cup PiecesOnMap(bottomPiece, direction)

(* A block comes down, however often it is turned: it can be lifted, but not for ever. *)
BlockComesDown == <>(decideBlockCalled \/ thrown)

(* What the computer planned is what it plays: its block ends in the cells that         *)
(* CalcNextStep put the pieces in.                                                      *)
PlayedAsPlanned ==
    player = "computer" /\ decideBlockCalled => map = settled \cup {plan.top, plan.bottom}

(* The computer never moves its block into another piece.                               *)
ComputerThrowsNothing == player = "computer" => ~thrown
================================================================================
