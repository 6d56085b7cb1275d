----------------------------- MODULE MCPuzzleBoard -----------------------------
(* A small instance of PuzzleBoard: the kinds of pieces are interchangeable.       *)
EXTENDS PuzzleBoard, TLC

Symmetry == Permutations(Colors)
================================================================================
