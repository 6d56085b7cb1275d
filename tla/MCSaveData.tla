------------------------------ MODULE MCSaveData -------------------------------
(* A small instance of SaveData.                                                   *)
EXTENDS SaveData, TLC

MCSymmetry == Permutations(Location) \cup Permutations(Bookmark)
================================================================================
