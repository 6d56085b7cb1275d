---------------------------- MODULE MCPuzzleSearch -----------------------------
(* A small instance of PuzzleSearch: the placements a board may have.              *)
EXTENDS PuzzleSearch

Placement(value, full) == [value |-> value, full |-> full]

\* Three placements, of which one is pruned, in both orders and with a tie; and a
\* single one that leaves no room.
MCOutcomes ==
    {<<Placement(1, FALSE), Placement(2, FALSE), Placement(2, TRUE)>>,
     <<Placement(3, FALSE), Placement(1, FALSE), Placement(2, FALSE)>>,
     <<Placement(1, TRUE)>>}
================================================================================
