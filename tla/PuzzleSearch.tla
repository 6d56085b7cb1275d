----------------------------- MODULE PuzzleSearch ------------------------------
(* The look-ahead of the computer player: the tree of placements that PuzzleAICore  *)
(* keeps in its pools (PuzzleAI.cpp), and the calls the script makes on it when a    *)
(* board starts, gets a new block or is cleared (ModPuzzleAI.tjs).  What a placement *)
(* is worth and whether it leaves room for another are choices here; PuzzleBoard     *)
(* models them.  Blocks are numbered in the order they are dealt, modulo Numbers.    *)
EXTENDS PuzzlePools, SequencesExt

CONSTANTS
    Depth,       \* depth: how many blocks the tree looks ahead
    Outcomes,    \* bound: the placements a board with room may have, each as a sequence of
                 \* [value, full]: what Evaluation gives it, and whether it leaves no room
    MaxPools     \* bound: pools m_Alloc holds

ASSUME SearchAssumption ==
    /\ Depth \in Nat \ {0, 1} /\ MaxPools \in Nat \ {0}
    /\ Outcomes \subseteq Seq([value : Nat, full : BOOLEAN]) \ {<<>>}

None == <<0, 0>>  \* nullptr
Numbers == Depth + 1
Following(block, k) == (block + k) % Numbers

VARIABLES
    m_Alloc,  \* the pools
    m_Root,   \* the root, or None (nullptr)
    node,     \* node[n]: the objects in the blocks that are in use
    stack,    \* the stack of NextStep
    adding,   \* the block NextStep was called for
    calls,    \* the calls the script's handler has still to make, in order
    current   \* the number of the block that moves

core == <<m_Alloc, m_Root, node>>
vars == <<core, stack, adding, calls, current>>

\* A tree in the making: the pools and the objects in them.
Now == [alloc |-> m_Alloc, node |-> node]
Becomes(t) == m_Alloc' = t.alloc /\ node' = t.node

\* AllocNode clears the memory of a node.
Blank == [parent |-> None, children |-> <<>>, value |-> 0, own |-> 0, block |-> 0, full |-> FALSE]

TypeOK ==
    /\ m_Alloc \in Seq(Pool)
    /\ DOMAIN node \subseteq Node
    /\ \A n \in DOMAIN node :
          /\ node[n].parent \in DOMAIN node \cup {None}
          /\ node[n].children \in Seq(DOMAIN node)
          /\ {node[n].value, node[n].own} \subseteq Nat
          /\ node[n].block \in 0..Numbers - 1
          /\ node[n].full \in BOOLEAN
    /\ m_Root \in DOMAIN node \cup {None}
    /\ stack \in Seq(DOMAIN node)
    /\ {adding, current} \subseteq 0..Numbers - 1
    /\ calls \in Seq([op : {"setMapSize", "setNextRoot", "setOjamaPieces", "clear"}]
                     \cup [op : {"addNextBlock"}, block : 0..Numbers - 1])

\* A new PuzzleAICore.
Init ==
    /\ m_Alloc = <<>>
    /\ m_Root = None
    /\ node = <<>>
    /\ stack = <<>>
    /\ adding = 0
    /\ calls = <<>>
    /\ current = 0

----------------------------------------------------------------------------
(* The tree.                                                                       *)

Children(t, n) == t.node[n].children

\* The links of a list s of children of n.
Links(n, s) == {<<n, i, s[i]>> : i \in DOMAIN s}

\* Of every node, the nodes under it and itself.
Under(nodes) ==
    LET under[n \in DOMAIN nodes] ==
            {n} \cup UNION {under[nodes[n].children[i]] : i \in DOMAIN nodes[n].children}
    IN  under

\* What links lead to, with all under it.
Below(t, links) == UNION {Under(t.node)[l[3]] : l \in links}

\* DeleteNodeIterative for what links lead to.  The children of a node are taken off it when
\* they are pushed, so a node is freed as often as there are links it is reached through.
DeleteNodes(t, links) ==
    LET gone == Below(t, links)
        through == links \cup UNION {Links(n, Children(t, n)) : n \in gone}
    IN  [alloc |-> Deallocate(t.alloc, [n \in gone |-> Cardinality({l \in through : l[3] = n})]),
         node |-> [n \in DOMAIN t.node \ gone |-> t.node[n]]]

\* The end of CalcNextStep for a placement: the ancestors of n that v is an
\* improvement for, up to the first that it is none for.
Raised(t, n, v) ==
    LET up[m \in DOMAIN t.node \cup {None}] ==
            IF m = None \/ v <= t.node[m].value THEN {} ELSE {m} \cup up[t.node[m].parent]
    IN  up[n]

\* The node for a placement p of a block after n.
Leaf(n, block, p) ==
    [parent |-> n, children |-> <<>>, value |-> p.value, own |-> p.value, block |-> block, full |-> p.full]

\* A plausible slip in AddPlacement: every placement becomes a child of the root.
AddPlacementAtRoot(t, n, block, p) ==
    LET c == AllocatedNode(t.alloc)
    IN  [alloc |-> AllocNode(t.alloc),
         node |-> [m \in DOMAIN t.node \cup {c} |->
                      CASE m = c -> Leaf(m_Root, block, p)
                        [] m = m_Root -> [t.node[m] EXCEPT !.children = <<c>> \o @]
                        [] OTHER -> t.node[m]]]

\* One placement p of a block after n: AllocNode, AddChileNode, Evaluation, and the value
\* is passed up.
AddPlacement(t, n, block, p) ==
    LET c == AllocatedNode(t.alloc)
        raised == Raised(t, n, p.value)
    IN  [alloc |-> AllocNode(t.alloc),
         node |-> [m \in DOMAIN t.node \cup {c} |->
                      IF m = c THEN Leaf(n, block, p)
                      ELSE [t.node[m] EXCEPT !.children = IF m = n THEN <<c>> \o @ ELSE @,
                                             !.value = IF m \in raised THEN p.value ELSE @]]]

\* The placements ps of a block after n, one after the other.
Grown(t, n, block, ps) ==
    LET grown[i \in 0..Len(ps)] ==
            IF i = 0 THEN t ELSE AddPlacement(grown[i - 1], n, block, ps[i])
    IN  grown[Len(ps)]

\* The first of the children s at the places I that has the highest value.
Best(t, s, I) ==
    CHOOSE i \in I : \A j \in I : \/ t.node[s[j]].value < t.node[s[i]].value
                                  \/ t.node[s[j]].value = t.node[s[i]].value /\ i <= j

\* A plausible slip in Ranked: the comparison of the sort is turned round.
RankedUpwards(t, s) ==
    LET worst(I) == CHOOSE i \in I : \A j \in I : t.node[s[i]].value <= t.node[s[j]].value
        first == worst(DOMAIN s)
    IN  IF Len(s) < 2 THEN [i \in DOMAIN s |-> i] ELSE <<first, worst(DOMAIN s \ {first})>>

\* The places of the first two children after ShiftCandidate has sorted them by value.  For as
\* few as these std::sort is an insertion sort, which leaves equal ones as they were.
Ranked(t, s) ==
    LET first == Best(t, s, DOMAIN s)
    IN  IF Len(s) < 2 THEN [i \in DOMAIN s |-> i] ELSE <<first, Best(t, s, DOMAIN s \ {first})>>

Kept(t, s) == [k \in DOMAIN Ranked(t, s) |-> s[Ranked(t, s)[k]]]
Dropped(t, n) == {l \in Links(n, Children(t, n)) : l[2] \notin ToSet(Ranked(t, Children(t, n)))}

\* ShiftCandidate keeps the two best children of every node under the root and frees the
\* rest, with what is left under them by then.
ShiftCandidate(t, root) ==
    LET visited == Under(t.node)[root]
        pruned == [n \in DOMAIN t.node |->
                      IF n \in visited THEN [t.node[n] EXCEPT !.children = Kept(t, @)] ELSE t.node[n]]
    IN  DeleteNodes([t EXCEPT !.node = pruned], UNION {Dropped(t, n) : n \in visited})

\* GetNextBlockFromList: the place of the first child of the highest value.
BestPlace(t, n) == Best(t, Children(t, n), DOMAIN Children(t, n))

----------------------------------------------------------------------------
(* The operations of the core.                                                     *)

\* A call that returns.
Return == calls' = Tail(calls)
Calls(op) == calls # <<>> /\ stack = <<>> /\ Head(calls).op = op

\* SetMapSize frees the pools and makes a root.
SetMapSize ==
    /\ Calls("setMapSize")
    /\ m_Alloc' = AllocNode(<<>>)
    /\ m_Root' = AllocatedNode(<<>>)
    /\ node' = [n \in {AllocatedNode(<<>>)} |-> Blank]
    /\ Return
    /\ UNCHANGED <<stack, adding, current>>

\* AddNextBlock starts NextStep at the root.
AddNextBlock ==
    /\ Calls("addNextBlock")
    /\ adding' = Head(calls).block
    /\ stack' = IF m_Root = None THEN <<>> ELSE <<m_Root>>
    /\ Return
    /\ UNCHANGED <<core, current>>

\* NextStep takes a node with children from its stack.
Descend ==
    /\ stack # <<>>
    /\ Children(Now, Last(stack)) # <<>>
    /\ stack' = Front(stack) \o Children(Now, Last(stack))
    /\ UNCHANGED <<core, adding, calls, current>>

\* CalcNextStep for a leaf: its placements are added, then the whole tree is pruned.
CalcNextStep ==
    /\ stack # <<>>
    /\ LET n == Last(stack)
       IN  /\ Children(Now, n) = <<>>
           /\ \E ps \in IF node[n].full THEN {<<>>} ELSE Outcomes :
                 LET grown == Grown(Now, n, adding, ps)
                 IN  /\ Len(grown.alloc) <= MaxPools
                     /\ Becomes(ShiftCandidate(grown, m_Root))
    /\ stack' = Front(stack)
    /\ UNCHANGED <<m_Root, adding, calls, current>>

\* SetNextRoot: the best child becomes the root; the old root goes, with what is left
\* under it.  Without a child the tree stays.
SetNextRoot ==
    /\ Calls("setNextRoot")
    /\ IF m_Root # None /\ Children(Now, m_Root) # <<>>
         THEN LET place == BestPlace(Now, m_Root)
                  best == Children(Now, m_Root)[place]
                  left == DeleteNodes([Now EXCEPT !.node[m_Root].children = RemoveAt(@, place)],
                                      {<<None, 1, m_Root>>})
              IN  /\ m_Root' = best
                  /\ m_Alloc' = left.alloc
                  /\ node' = [left.node EXCEPT ![best].parent = None]
         ELSE UNCHANGED core
    /\ Return
    /\ UNCHANGED <<stack, adding, current>>

\* SetOjamaPieces puts pieces on the root's board, which may take the last room.
SetOjamaPieces ==
    /\ Calls("setOjamaPieces")
    /\ \E full \in {node[m_Root].full, TRUE} : node' = [node EXCEPT ![m_Root].full = full]
    /\ Return
    /\ UNCHANGED <<m_Alloc, m_Root, stack, adding, current>>

\* Clear frees all but the root and deletes the pools that are not used any more.
Clear ==
    /\ Calls("clear")
    /\ LET bare == DeleteNodes([Now EXCEPT !.node[m_Root].children = <<>>],
                               Links(m_Root, Children(Now, m_Root)))
       IN  /\ m_Alloc' = DropEmpty(bare.alloc)
           /\ node' = bare.node
    /\ Return
    /\ UNCHANGED <<m_Root, stack, adding, current>>

----------------------------------------------------------------------------
(* The handlers of the script.  Nothing else runs until the calls of one are made. *)

Idle == calls = <<>> /\ stack = <<>>
Add(block) == [op |-> "addNextBlock", block |-> block]

\* initialize: the blocks dealt so far, Depth of them.
Initialize ==
    /\ Idle /\ m_Root = None
    /\ calls' = <<[op |-> "setMapSize"]>> \o [i \in 1..Depth |-> Add(Following(current, i - 1))]
    /\ UNCHANGED <<core, stack, adding, current>>

\* A plausible slip in Rebuilt: the list that getBlockDataList returned is taken to
\* be without the latest block.
RebuiltTwice(block) == [i \in 1..Depth |-> Add(Following(block, i - 1))]

\* onNewBlock after ojama: all blocks but the latest are added again.
Rebuilt(block) == [i \in 1..Depth - 1 |-> Add(Following(block, i - 1))]

\* onNewBlock: the block that moved is placed, the next one moves, and one more is known.
OnNewBlock ==
    /\ Idle /\ m_Root # None
    /\ current' = Following(current, 1)
    /\ \E ojama \in BOOLEAN :
          calls' = <<[op |-> "setNextRoot"]>>
                   \o (IF ojama
                         THEN <<[op |-> "setOjamaPieces"], [op |-> "clear"]>> \o Rebuilt(current')
                         ELSE <<>>)
                   \o <<Add(Following(current', Depth - 1))>>
    /\ UNCHANGED <<core, stack, adding>>

\* clear deletes the core and makes a new one.
ClearCore ==
    /\ Idle
    /\ m_Alloc' = <<>>
    /\ m_Root' = None
    /\ node' = << >>
    /\ current' = 0
    /\ UNCHANGED <<stack, adding, calls>>

Run == SetMapSize \/ AddNextBlock \/ Descend \/ CalcNextStep \/ SetNextRoot \/ SetOjamaPieces \/ Clear
Next == Run \/ Initialize \/ OnNewBlock \/ ClearCore

Spec == Init /\ [][Next]_vars

----------------------------------------------------------------------------
(* Properties.                                                                     *)

Reachable == IF m_Root = None THEN {} ELSE Under(node)[m_Root]

(* No node leaks and none is freed twice: every block of the pools is either free, on *)
(* the free list once, or a node of the tree under the root.  (clear of ModPuzzleAI   *)
(* gave up clearAll because of a leak it could not explain.)                          *)
NothingLeaks == Partitioned(m_Alloc, Reachable) /\ DOMAIN node = Reachable

(* NextStep never takes a freed node from its stack, although CalcNextStep prunes the *)
(* whole tree while the stack is in use.                                              *)
StackIsLive == ToSet(stack) \subseteq Reachable

(* Pruning keeps the best line: a node other than the root is worth the most of what  *)
(* it is worth itself and of what the children it still has are worth.                *)
BestLineKept ==
    \A n \in Reachable \ {m_Root} :
        /\ \A c \in ToSet(node[n].children) : node[c].value <= node[n].value
        /\ \/ node[n].value = node[n].own
           \/ \E c \in ToSet(node[n].children) : node[c].value = node[n].value

(* A line of placements uses the blocks in the order they are dealt, starting with    *)
(* the one that moves: what getNextBlock answers is for the block that moves.         *)
BlocksInOrder ==
    calls = <<>> /\ stack = <<>> /\ m_Root # None =>
        \A n \in Reachable : \A c \in ToSet(node[n].children) :
            node[c].block = IF n = m_Root THEN current ELSE Following(node[n].block, 1)
================================================================================
