--------------------------- MODULE PuzzleBlockStream ---------------------------
(* The blocks of a network match (ModPuzzleUser.tjs, with onReceived of           *)
(* ModPuzzleINet.tjs).  On either peer layer 1 is the player's board and layer 2  *)
(* mirrors the opponent's, driven by the moves that arrive.  All four boards are  *)
(* to be dealt the same blocks, which the server generates.  The packets of one   *)
(* type are taken as OrderedDelivery promises them; those of different types      *)
(* overtake each other, because onReceived sorts them by their numbers.           *)
EXTENDS Naturals, Sequences

CONSTANT MaxTurns  \* bound: blocks a player puts down

ASSUME BlockStreamAssumption == MaxTurns \in Nat

Peer == {"server", "client"}
Other(p) == IF p = "server" THEN "client" ELSE "server"

Layer == {1, 2}
Opponent(l) == IF l = 1 THEN 2 ELSE 1

\* A block is the peer that generated it and how many that peer had before it.
Block == Peer \X Nat

VARIABLES
    moves,      \* moves[p]: the moves that put a block down, under way to p
    blocks,     \* blocks[p]: the numbers of the block packets under way to p
    requests,   \* requests[p]: the block numbers asked of p, under way
    generated,  \* generated[p]: the blocks p has sent; blockSequenceNumber_ is their number
    latest,     \* latest[p]: how many block packets p has processed
    next,       \* next[p][l]: nextBlockData of layer l
    received,   \* received[p][l]: receivedBlockData of layer l
    dealt,      \* dealt[p][l]: the blocks given to layer l by createNewBlock, in order
    mode,       \* mode[p][l]: the block moves, is decided, or (decided and)
                \* pendingCreateNewBlock_
    cycle,      \* cycle[p]: the layers whose createNewBlock anotherCycle has to call
    turns,      \* turns[p]: how much of the bound is used up
    madeUp      \* has a peer ever generated a block on request?

channelVars == <<moves, blocks, requests>>
blockVars == <<generated, latest, next, received, dealt, madeUp>>
vars == <<channelVars, blockVars, mode, cycle, turns>>

TypeOK ==
    /\ moves \in [Peer -> Nat]
    /\ blocks \in [Peer -> Seq(Nat)]
    /\ requests \in [Peer -> Seq(Nat)]
    /\ generated \in [Peer -> Seq(Block)]
    /\ latest \in [Peer -> Nat]
    /\ next \in [Peer -> [Layer -> Seq(Block)]]
    /\ received \in [Peer -> [Layer -> Seq(Block)]]
    /\ dealt \in [Peer -> [Layer -> Seq(Block)]]
    /\ mode \in [Peer -> [Layer -> {"moving", "decided", "pending"}]]
    /\ cycle \in [Peer -> SUBSET Layer]
    /\ turns \in [Peer -> Nat]
    /\ madeUp \in BOOLEAN

\* After initializeBlocks: blocks 0 to 2 are on every board, and the client has
\* processed their packets.
InitialBlocks == [n \in 1..3 |-> <<"server", n - 1>>]

Init ==
    /\ moves = [p \in Peer |-> 0]
    /\ blocks = [p \in Peer |-> <<>>]
    /\ requests = [p \in Peer |-> <<>>]
    /\ generated = [p \in Peer |-> IF p = "server" THEN InitialBlocks ELSE <<>>]
    /\ latest = [p \in Peer |-> IF p = "client" THEN 3 ELSE 0]
    /\ next = [p \in Peer |-> [l \in Layer |-> <<>>]]
    /\ received = [p \in Peer |-> [l \in Layer |-> <<>>]]
    /\ dealt = [p \in Peer |-> [l \in Layer |-> InitialBlocks]]
    /\ mode = [p \in Peer |-> [l \in Layer |-> "moving"]]
    /\ cycle = [p \in Peer |-> {}]
    /\ turns = [p \in Peer |-> 0]
    /\ madeUp = FALSE
--------------------------------------------------------------------------------
(* The boards.                                                                  *)

\* moveDown of the player's block decides it, and the move is sent.
Decide(p) ==
    /\ mode[p][1] = "moving"
    /\ turns[p] < MaxTurns
    /\ mode' = [mode EXCEPT ![p][1] = "decided"]
    /\ moves' = [moves EXCEPT ![Other(p)] = @ + 1]
    /\ turns' = [turns EXCEPT ![p] = @ + 1]
    /\ UNCHANGED <<blocks, requests, blockVars, cycle>>

\* The move on the mirror; while decideBlockCalled moveDown ignores it.
ReceiveMove(p) ==
    /\ moves[p] > 0
    /\ moves' = [moves EXCEPT ![p] = @ - 1]
    /\ mode' = IF mode[p][2] = "moving" THEN [mode EXCEPT ![p][2] = "decided"] ELSE mode
    /\ UNCHANGED <<blocks, requests, blockVars, cycle, turns>>

Deal(p, l, block) ==
    /\ dealt' = [dealt EXCEPT ![p][l] = Append(@, block)]
    /\ mode' = [mode EXCEPT ![p][l] = "moving"]

NewBlock(p) == <<p, Len(generated[p])>>

SendBlock(p) ==
    /\ generated' = [generated EXCEPT ![p] = Append(@, NewBlock(p))]
    /\ blocks' = [blocks EXCEPT ![Other(p)] = Append(@, Len(generated[p]))]

\* A plausible slip in Generate: the opponent's layer is not given the block.
GenerateForOne(p, l) ==
    /\ SendBlock(p)
    /\ Deal(p, l, NewBlock(p))
    /\ UNCHANGED <<requests, latest, next, received, madeUp>>

\* getNewBlockData on layer 1 of the server.
Generate(p, l) ==
    /\ SendBlock(p)
    /\ Deal(p, l, NewBlock(p))
    /\ received' = [received EXCEPT ![p][Opponent(l)] = Append(@, NewBlock(p))]
    /\ UNCHANGED <<requests, latest, next, madeUp>>

\* getNewBlockData on any other layer: ask for the block after the last one received.
Ask(p, l) ==
    /\ requests' = [requests EXCEPT ![Other(p)] = Append(@, latest[p])]
    /\ mode' = [mode EXCEPT ![p][l] = "pending"]
    /\ UNCHANGED <<blocks, blockVars>>

\* getBlockData.
GetBlockData(p, l) ==
    \/ /\ next[p][l] # <<>>
       /\ Deal(p, l, Head(next[p][l]))
       /\ next' = [next EXCEPT ![p][l] = Tail(@)]
       /\ UNCHANGED <<blocks, requests, generated, latest, received, madeUp>>
    \/ /\ next[p][l] = <<>>
       /\ received[p][l] # <<>>
       /\ Deal(p, l, Head(received[p][l]))
       /\ received' = [received EXCEPT ![p][l] = Tail(@)]
       /\ UNCHANGED <<blocks, requests, generated, latest, next, madeUp>>
    \/ /\ next[p][l] = <<>> /\ received[p][l] = <<>>
       /\ IF p = "server" /\ l = 1 THEN Generate(p, l) ELSE Ask(p, l)

\* createNewBlock, on a board with room: when the pieces of the decided block have
\* come to rest, or called by anotherCycle.
CreateNewBlock(p, l) ==
    /\ mode[p][l] = "decided" \/ l \in cycle[p]
    /\ GetBlockData(p, l)
    /\ cycle' = [cycle EXCEPT ![p] = @ \ {l}]
    /\ UNCHANGED <<moves, turns>>
--------------------------------------------------------------------------------
(* onReceived.                                                                  *)

\* A plausible slip in AddNewBlock: a layer that waits is not called.
AddNewBlockUnannounced(p, block) ==
    /\ received' = [received EXCEPT ![p] = [l \in Layer |-> Append(@[l], block)]]
    /\ UNCHANGED cycle

\* addNewBlockData: both layers get the block, and those that wait are called.
AddNewBlock(p, block) ==
    /\ received' = [received EXCEPT ![p] = [l \in Layer |-> Append(@[l], block)]]
    /\ cycle' = [cycle EXCEPT ![p] = @ \cup {l \in Layer : mode[p][l] = "pending"}]

\* A plausible slip in ReceiveBlock: a block that is sent again is taken again.
ReceiveBlockAgain(p) ==
    /\ blocks[p] # <<>>
    /\ blocks' = [blocks EXCEPT ![p] = Tail(@)]
    /\ latest' = [latest EXCEPT ![p] = Head(blocks[p]) + 1]
    /\ AddNewBlock(p, generated[Other(p)][Head(blocks[p]) + 1])
    /\ UNCHANGED <<requests, moves, generated, next, dealt, madeUp, mode, turns>>

\* A number that is not the next one was processed before, and is dropped as a
\* duplicate, or, read together with the packet it repeats, taken for a loss.
ReceiveBlock(p) ==
    /\ blocks[p] # <<>>
    /\ blocks' = [blocks EXCEPT ![p] = Tail(@)]
    /\ \/ /\ Head(blocks[p]) = latest[p]
          /\ latest' = [latest EXCEPT ![p] = @ + 1]
          /\ AddNewBlock(p, generated[Other(p)][Head(blocks[p]) + 1])
          /\ UNCHANGED requests
       \/ /\ Head(blocks[p]) # latest[p]
          /\ \/ UNCHANGED requests
             \/ requests' = [requests EXCEPT ![Other(p)] = Append(@, latest[p])]
          /\ UNCHANGED <<latest, received, cycle>>
    /\ UNCHANGED <<moves, generated, next, dealt, madeUp, mode, turns>>

\* resend, or sendNewBlockData of layer 1: the block goes to that layer alone.
ReceiveRequest(p) ==
    /\ requests[p] # <<>>
    /\ requests' = [requests EXCEPT ![p] = Tail(@)]
    /\ IF Head(requests[p]) < Len(generated[p])
       THEN /\ blocks' = [blocks EXCEPT ![Other(p)] = Append(@, Head(requests[p]))]
            /\ UNCHANGED <<generated, next, madeUp>>
       ELSE /\ SendBlock(p)
            /\ next' = [next EXCEPT ![p][1] = Append(@, NewBlock(p))]
            /\ madeUp' = TRUE
    /\ UNCHANGED <<moves, latest, received, dealt, mode, cycle, turns>>
--------------------------------------------------------------------------------
Next ==
    \E p \in Peer :
        \/ Decide(p)
        \/ ReceiveMove(p)
        \/ \E l \in Layer : CreateNewBlock(p, l)
        \/ ReceiveBlock(p)
        \/ ReceiveRequest(p)

Spec == Init /\ [][Next]_vars

\* The channel delivers, and the event loop calls what is posted or animated.
Fairness ==
    \A p \in Peer :
        /\ WF_vars(ReceiveMove(p))
        /\ WF_vars(ReceiveBlock(p))
        /\ WF_vars(ReceiveRequest(p))
        /\ \A l \in Layer : WF_vars(CreateNewBlock(p, l))

FairSpec == Spec /\ Fairness
--------------------------------------------------------------------------------
(* Properties.                                                                  *)

\* The blocks a board was dealt, followed by those it is to be dealt.
Sequel(p, l) == dealt[p][l] \o next[p][l] \o received[p][l]

\* Until the client generates a block, every board is dealt the server's blocks in
\* the order it generated them, none twice and none left out, so the players get the
\* same blocks and a mirror those of its owner: a board's sequel is what its peer
\* knows of the server's blocks (getNewBlockData and addNewBlockData copy a block to
\* the opponent's layer).  The server's mirror is the exception once a block was made
\* up on request, which sendNewBlockData keeps from it.
BlocksAgree ==
    generated["client"] = <<>> =>
        /\ \A l \in Layer : Sequel("client", l) = SubSeq(generated["server"], 1, latest["client"])
        /\ Sequel("server", 1) = generated["server"]
        /\ ~madeUp => Sequel("server", 2) = generated["server"]

\* The blocks of one peer in a sequence, and the first n a peer generated.
From(q, s) == {b \in {s[i] : i \in DOMAIN s} : b[1] = q}
FirstBlocks(q, n) == {<<q, i>> : i \in 0..n - 1}

\* No block twice, and the blocks of a peer in the order it generated them.
Ascending(s) == \A i, j \in DOMAIN s : i < j /\ s[i][1] = s[j][1] => s[i][2] < s[j][2]

\* When requests have crossed and both peers have made up blocks the boards may be dealt
\* different mixtures of the two.  But no block is ever on a board twice, those of one
\* peer are in its order, a board gets every block its peer has processed and no other,
\* and a player all that his own peer generated: onReceived drops a block that is sent
\* again, and sendNewBlockData puts a block that is made up before those that came.
InOrderBySource ==
    \A p \in Peer, l \in Layer :
        /\ Ascending(Sequel(p, l))
        /\ From(Other(p), Sequel(p, l)) = FirstBlocks(Other(p), latest[p])
        /\ l = 1 => From(p, Sequel(p, l)) = FirstBlocks(p, Len(generated[p]))

\* A board that waits for a block gets one: each request is answered, and the answer
\* calls the board (pendingCreateNewBlock and anotherCycle).
PendingEnds ==
    \A p \in Peer, l \in Layer : mode[p][l] = "pending" ~> mode[p][l] = "moving"
================================================================================
