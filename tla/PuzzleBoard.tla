------------------------------ MODULE PuzzleBoard ------------------------------
(* The board of a computer player, twice: the map of the game, on which pieces land,  *)
(* vanish in waves and fall (PuzzleUserLayer of ModPuzzleUser.tjs), and the map of    *)
(* the root of the search tree, on which PuzzleAICore plays the same move in one go   *)
(* (PuzzleAI.cpp).  The tree is one block deep here: PuzzleSearch has the rest of it, *)
(* and that any placement may turn out the best is a choice.                          *)
EXTENDS PuzzlePlacements, Sequences

CONSTANTS
    Linking,        \* linking: how many pieces vanish together
    Colors, Ojama,  \* the ids of the pieces a block is made of, and of ojama pieces
    Empty, Marked,  \* 0 and -1: what is in a cell without a piece
    MaxTurns,       \* bound: blocks dealt
    MaxOjama        \* bound: ojama pieces sent to the layer

ASSUME BoardAssumption ==
    /\ Linking \in Nat \ {0, 1}
    /\ Cardinality({Ojama, Empty, Marked} \ Colors) = 3
    /\ {MaxTurns, MaxOjama} \subseteq Nat

VARIABLES
    map,           \* map_ of the layer
    fallPieces,    \* fallPieces_: the cells of the pieces that landed last
    erasedColumns, \* the columns of erasePieces_
    waves,         \* how often pieces vanished since the block was decided
    ojamaCount,    \* ojamaCount of the status layer: what was sent and has not fallen
    ojamaPieces,   \* ojamaPieces_: the cells ojama fell to in this turn
    phase,         \* what the layer does next
    block,         \* the block that moves: [top, bottom]
    rootMap,       \* m_Root->map
    children,      \* the children of the root
    best,          \* the child that is played, or NoChild
    cache,         \* m_ChainCountCache
    turn           \* how many blocks were dealt

game == <<map, fallPieces, erasedColumns, waves, ojamaCount, ojamaPieces, phase, block, turn>>
core == <<rootMap, children, best, cache>>
vars == <<game, core>>

Boards == [Cell -> Colors \cup {Empty, Ojama}]
Maps == [Cell -> Colors \cup {Empty, Ojama, Marked}]
Child == [top : Cell, bottom : Cell, map : Boards, chain : Nat]
NoChild == [chain |-> 0]

TypeOK ==
    /\ {map, rootMap} \subseteq Boards
    /\ {fallPieces, ojamaPieces} \subseteq SUBSET Cell
    /\ erasedColumns \subseteq Columns
    /\ phase \in {"move", "landed", "erased", "ojama", "create", "over"}
    /\ block \in [top : Colors, bottom : Colors]
    /\ children \subseteq Child
    /\ best \in Child \cup {NoChild}
    /\ {waves, turn, ojamaCount} \subseteq Nat
    /\ \A k \in DOMAIN cache : k \in Maps /\ cache[k] \in Nat

----------------------------------------------------------------------------
(* Groups of pieces.                                                               *)

\* The pieces of one kind that hang together with c: GetLinkCount counts them,
\* CountAndMarkConnectedPieces and createEraseMap mark them.
Connected(m, c) ==
    LET grown[group \in SUBSET Cell] ==
            LET next == {d \in (UNION {Neighbours(e) : e \in group}) \ group : m[d] = m[c]}
            IN  IF next = {} THEN group ELSE grown[group \cup next]
    IN  grown[{c}]

GetLinkCount(m, c) == Cardinality(Connected(m, c))

IsOjamaPiece(id) == id = Ojama
IsNormalPiece(id) == id # Empty /\ ~IsOjamaPiece(id)

\* The groups that are large enough, of the pieces at some cells.
Large(m, cells) == {g \in {Connected(m, c) : c \in cells} : Cardinality(g) >= Linking}
OjamaAt(m, cells) == {c \in cells : IsOjamaPiece(m[c])}

----------------------------------------------------------------------------
(* PuzzleAICore: what a placement does to the map of its node.                     *)

\* A plausible slip in CountAndMarkConnectedPieces: ojama pieces stay.
MarkNormalOnly(m, cells) ==
    LET gone == UNION Large(m, {c \in cells : m[c] \notin {Empty, Marked}})
    IN  [c \in Cell |-> IF c \in gone THEN Marked ELSE m[c]]

\* CountAndMarkConnectedPieces for some cells: groups that are large enough, and the
\* ojama pieces beside them, are marked.
CountAndMarkConnectedPieces(m, cells) ==
    LET large == UNION Large(m, {c \in cells : m[c] \notin {Empty, Marked}})
        gone == large \cup OjamaAt(m, UNION {Neighbours(c) : c \in large})
    IN  [c \in Cell |-> IF c \in gone THEN Marked ELSE m[c]]

\* How far DropPiecese moves what is in a cell, and where what ends in a cell comes from.
Below(m, c) == Cardinality({y \in c[2] + 1..Height - 1 : m[<<c[1], y>>] = Marked})
Landing(m, c) == <<c[1], c[2] + Below(m, c)>>

DropPiecese(m) ==
    [c \in Cell |->
        LET from == {d \in {c[1]} \X Rows : m[d] # Marked /\ Landing(m, d) = c}
        IN  IF from = {} THEN Empty ELSE m[CHOOSE d \in from : TRUE]]

\* A plausible slip in DroppedPieces: where pieces came from is kept.
LiftedPieces(m) == {d \in Cell : m[d] \notin {Marked, Empty} /\ Below(m, d) > 0}

DroppedPieces(m) == {Landing(m, d) : d \in {d \in Cell : m[d] \notin {Marked, Empty} /\ Below(m, d) > 0}}

\* What the pieces that drop bring about: the map in which the next wave is marked.
NextMarked(m) ==
    LET dropped == DropPiecese(m)
    IN  CountAndMarkConnectedPieces(dropped, {c \in DroppedPieces(m) : IsNormalPiece(dropped[c])})

\* The loop of GetChainCount from a map with marked cells: the map after the last wave, the
\* map in which that one is marked, and how many waves follow, where the cache does not tell.
Waves(known) ==
    LET rest[m \in Maps] ==
            IF m \in DOMAIN known
              THEN [map |-> DropPiecese(m), last |-> m, follow |-> known[m]]
            ELSE IF NextMarked(m) = DropPiecese(m)
              THEN [map |-> DropPiecese(m), last |-> m, follow |-> 0]
            ELSE [rest[NextMarked(m)] EXCEPT !.follow = @ + 1]
    IN  rest

\* GetChainCount: the pieces of the block vanish first.  What follows is kept for the map
\* that no wave follows.
GetChainCount(m, cells, known) ==
    LET marked == CountAndMarkConnectedPieces(m, cells)
        r == Waves(known)[marked]
    IN  IF marked = m THEN [map |-> m, chain |-> 0, cache |-> known]
        ELSE [map |-> r.map, chain |-> r.follow + 1,
              cache |-> [k \in DOMAIN known \cup {r.last} |->
                            IF k \in DOMAIN known THEN known[k] ELSE r.follow]]

\* Evaluation: the chain is counted if any group is large enough.
Evaluation(m, cells, known) ==
    IF \E c \in Cell : m[c] # Empty /\ GetLinkCount(m, c) >= Linking
      THEN GetChainCount(m, cells, known)
      ELSE [map |-> m, chain |-> 0, cache |-> known]

Occupied(m) == {c \in Cell : m[c] # Empty}

\* The order CalcNextStep tries directions and columns in.
Row(dir) == [i \in 1..Width |-> <<dir, i - 1>>]
Tried == Row(V_UP) \o Row(V_DOWN) \o Row(H_LEFT) \o Row(H_RIGHT)

\* A placement p on a copy of the map m becomes a child.
AddPlacement(m, top, bottom, p, r) ==
    LET e == Evaluation([m EXCEPT ![p.top] = top, ![p.bottom] = bottom], {p.top, p.bottom}, r.cache)
    IN  [children |-> r.children \cup {[top |-> p.top, bottom |-> p.bottom, map |-> e.map, chain |-> e.chain]},
         cache |-> e.cache]

\* AddNextBlock at a root without children.
AddNextBlock(m, top, bottom, known) ==
    LET added[i \in 0..Len(Tried)] ==
            IF i = 0 THEN [children |-> {}, cache |-> known]
            ELSE LET ps == Placements(Occupied(m), Tried[i][1], Tried[i][2])
                 IN  IF ps = {} THEN added[i - 1]
                     ELSE AddPlacement(m, top, bottom, CHOOSE p \in ps : TRUE, added[i - 1])
    IN  added[Len(Tried)]

----------------------------------------------------------------------------
(* PuzzleUserLayer.                                                                *)

Put(m, c, id) == [m EXCEPT ![c] = id]

Init ==
    /\ map = [c \in Cell |-> Empty]
    /\ fallPieces = {}
    /\ erasedColumns = {}
    /\ waves = 0
    /\ ojamaCount = MaxOjama
    /\ ojamaPieces = {}
    /\ phase = "create"
    /\ block \in [top : Colors, bottom : Colors]
    /\ rootMap = map
    /\ children = {}
    /\ best = NoChild
    /\ cache = << >>
    /\ turn = 0

\* decideBlock: the block was moved to the placement of a child of the root and its
\* pieces fell to their cells.
DecideBlock ==
    /\ phase = "move"
    /\ best' \in children
    /\ map' = Put(Put(map, best'.top, block.top), best'.bottom, block.bottom)
    /\ fallPieces' = {best'.top, best'.bottom}
    /\ waves' = 0
    /\ phase' = "landed"
    /\ UNCHANGED <<erasedColumns, ojamaCount, ojamaPieces, block, turn, rootMap, children, cache>>

\* Without a child (getNextBlock returns null) the block is moved down as it is dealt.
DecideBlockWhereItIs ==
    /\ phase = "move" /\ children = {}
    /\ LET bottom == FallPos(Occupied(map), Entry)
           top == Beside(bottom, V_UP)
       IN  /\ map' = Put(Put(map, top, block.top), bottom, block.bottom)
           /\ fallPieces' = {top, bottom}
    /\ best' = NoChild
    /\ waves' = 0
    /\ phase' = "landed"
    /\ UNCHANGED <<erasedColumns, ojamaCount, ojamaPieces, block, turn, rootMap, children, cache>>

\* A plausible slip in Vanishing: only the first piece that landed is looked at.
VanishingOfOne(m, cells) ==
    LET large == UNION Large(m, {CHOOSE c \in cells : \A d \in cells : c[1] <= d[1]})
    IN  large \cup OjamaAt(m, UNION {Neighbours(c) : c \in large})

\* createEraseMap and addErasePieces for the pieces that landed: their groups, and the
\* ojama beside them.
Vanishing(m, cells) ==
    LET large == UNION Large(m, {c \in cells : ~IsOjamaPiece(m[c])})
    IN  large \cup OjamaAt(m, UNION {Neighbours(c) : c \in large})

\* erasePieces
ErasePieces ==
    /\ phase = "landed"
    /\ LET gone == Vanishing(map, fallPieces)
       IN  /\ map' = [c \in Cell |-> IF c \in gone THEN Empty ELSE map[c]]
           /\ erasedColumns' = {c[1] : c \in gone}
           /\ waves' = IF gone = {} THEN waves ELSE waves + 1
           /\ phase' = IF gone = {} THEN "ojama" ELSE "erased"
    /\ fallPieces' = {}
    /\ UNCHANGED <<ojamaCount, ojamaPieces, block, turn, core>>

\* The empty cells under a piece: how far it falls once what lies under it has fallen.
Gaps(m, c) == Cardinality({y \in c[2] + 1..Height - 1 : m[<<c[1], y>>] = Empty})

\* fallPieces: the pieces of the columns where pieces vanished fall, the lowest first.
FallPieces ==
    /\ phase = "erased"
    /\ LET falling == {c \in Cell : c[1] \in erasedColumns /\ map[c] # Empty /\ Gaps(map, c) > 0}
           to(c) == <<c[1], c[2] + Gaps(map, c)>>
           fallen == {to(c) : c \in falling}
       IN  /\ map' = [d \in Cell |->
                         IF d \in fallen THEN map[CHOOSE c \in falling : to(c) = d]
                         ELSE IF d \in falling THEN Empty ELSE map[d]]
           /\ fallPieces' = fallen
           /\ phase' = IF fallen = {} THEN "ojama" ELSE "landed"
    /\ erasedColumns' = {}
    /\ UNCHANGED <<waves, ojamaCount, ojamaPieces, block, turn, core>>

\* Where ojama pieces come to lie: over the floor of a column, as many as drop there.
Floors(m) == [x \in Columns |-> Floor(Occupied(m), x)]
OjamaCells(floors, drop) ==
    {c \in Cell : floors[c[1]] - drop[c[1]] < c[2] /\ c[2] <= floors[c[1]]}

\* How ojama may be spread: up to four pieces in a column, as far as there is room below
\* row 0, until none is left.
Drops(floors, count) ==
    LET room == [x \in Columns |-> Min({4, floors[x]})]
        all == Cardinality(OjamaCells(floors, room))
    IN  {drop \in [Columns -> 0..4] :
            /\ \A x \in Columns : drop[x] <= room[x]
            /\ Cardinality(OjamaCells(floors, drop)) = Min({count, all})}

\* fallOjamaPieces, where something falls: once in a turn, and not while the opponent
\* locks it.
FallOjamaPieces ==
    /\ phase = "ojama" /\ ~GameOver(Occupied(map))
    /\ ojamaCount > 0 /\ ojamaPieces = {}
    /\ \E drop \in Drops(Floors(map), ojamaCount) :
          LET cells == OjamaCells(Floors(map), drop)
          IN  /\ ojamaPieces' = cells
              /\ ojamaCount' = ojamaCount - Cardinality(cells)
              /\ map' = [c \in Cell |-> IF c \in cells THEN Ojama ELSE map[c]]
              /\ fallPieces' = cells
    /\ phase' = "landed"
    /\ UNCHANGED <<erasedColumns, waves, block, turn, core>>

\* fallOjamaPieces, where nothing falls.
NoOjama ==
    /\ phase = "ojama"
    /\ phase' = IF GameOver(Occupied(map)) THEN "over" ELSE "create"
    /\ UNCHANGED <<map, fallPieces, erasedColumns, waves, ojamaCount, ojamaPieces, block, turn, core>>

\* createNewBlock and onNewBlock of the driver: the child that was played becomes the
\* root, ojama is put on its map, and the next block is added.
CreateNewBlock ==
    /\ phase = "create"
    /\ IF GameOver(Occupied(map))
         THEN phase' = "over" /\ UNCHANGED <<ojamaCount, ojamaPieces, block, turn, core>>
         ELSE /\ turn < MaxTurns
              /\ turn' = turn + 1
              /\ block' \in [top : Colors, bottom : Colors]
              /\ rootMap' = LET m == IF best = NoChild THEN rootMap ELSE best.map
                            IN  [c \in Cell |-> IF c \in ojamaPieces THEN Ojama ELSE m[c]]
              /\ LET r == AddNextBlock(rootMap', block'.top, block'.bottom, cache)
                 IN  children' = r.children /\ cache' = r.cache
              /\ best' = NoChild
              /\ ojamaPieces' = {}
              /\ phase' = "move"
    /\ UNCHANGED <<map, fallPieces, erasedColumns, waves, ojamaCount>>

Next ==
    \/ DecideBlock \/ DecideBlockWhereItIs
    \/ ErasePieces \/ FallPieces \/ FallOjamaPieces \/ NoOjama \/ CreateNewBlock

Spec == Init /\ [][Next]_vars

----------------------------------------------------------------------------
(* Properties.                                                                     *)

(* When a block is dealt no piece hangs over a gap and no group that is large enough  *)
(* is left, although only the pieces that fell are looked at and only the columns     *)
(* where pieces vanished fall.                                                        *)
NothingPending ==
    phase = "move" =>
        /\ \A c \in Cell : map[c] # Empty /\ c[2] < Height - 1 => map[<<c[1], c[2] + 1>>] # Empty
        /\ \A c \in Cell : IsNormalPiece(map[c]) => GetLinkCount(map, c) < Linking

(* As long as the computer player has a placement for every block, the map of the     *)
(* root is the map of the game when a block is dealt: what checkMap of ModPuzzleAI    *)
(* compares and reports as an abnormal state.                                         *)
MapsAgreeWhilePlaying == phase = "move" /\ children # {} => rootMap = map

(* The computer player never takes a chain for shorter than it is.                    *)
ChainNotShort == phase \in {"ojama", "create"} /\ best # NoChild => best.chain >= waves

================================================================================
