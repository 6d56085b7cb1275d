------------------------------ MODULE MCPuzzleINet ------------------------------
(* Small instances of PuzzleINet: how many packets of each type the games send,  *)
(* and the types whose delivery is promised on the channel of the instance.      *)
EXTENDS PuzzleINet

Sending(server, client) == [p \in Peer |-> IF p = "server" THEN server ELSE client]
Packets(input, block, ojama) ==
    [t \in Type |-> CASE t = "input" -> input [] t = "block" -> block [] t = "ojama" -> ojama]

\* Two ojama packets may share a batch with a block and moves of both players.
MCMatch == Sending(Packets(1, 1, 2), Packets(1, 0, 0))
MCShortMatch == Sending(Packets(0, 0, 2), Packets(1, 0, 0))
MCClientMoves == Sending(Packets(0, 0, 0), Packets(2, 0, 0))
MCNothing == Sending(Packets(0, 0, 0), Packets(0, 0, 0))

MCAllTypes == Type
MCInput == {"input"}
================================================================================
