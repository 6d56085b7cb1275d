-------------------------- MODULE PuzzleBoard_proof ----------------------------
(* Theorems about PuzzleBoard, for boards of every size, every number of kinds of    *)
(* pieces, every size of a group that vanishes and every amount of ojama.            *)
EXTENDS PuzzleBoard, FiniteSetTheorems, WellFoundedInduction, TLAPS

(* Induction over numbers, for sets instead of predicates, and the existence of     *)
(* functions defined by recursion, with the step given as a function, so that the   *)
(* provers can instantiate them.                                                    *)

\* A set of numbers that is not empty has a least one.
LEMMA LeastNat ==
    ASSUME NEW T \in SUBSET Nat, T # {}
    PROVE  \E n \in T : \A m \in T : n <= m
<1> DEFINE R == OpToRel(<, Nat)
<1>1. \E x \in T : \A y \in T : ~(<<y, x>> \in R)
  <2>1. IsWellFoundedOn(R, Nat)
    BY NatLessThanWellFounded
  <2> HIDE DEF R
  <2>2. QED BY <2>1, WFMin
<1>2. PICK x \in T : \A y \in T : ~(<<y, x>> \in R)
  BY <1>1
<1>3. \A y \in T : x <= y
  <2> SUFFICES ASSUME NEW y \in T, ~(x <= y) PROVE FALSE
    OBVIOUS
  <2>1. x \in Nat /\ y \in Nat /\ y < x
    OBVIOUS
  <2>2. <<y, x>> \in {ss \in Nat \X Nat : ss[1] < ss[2]}
    BY <2>1
  <2>3. <<y, x>> \in R
    BY <2>2 DEF OpToRel
  <2>4. QED BY <2>3, <1>2
<1>4. QED BY <1>3

\* Induction, over a set instead of a predicate.
LEMMA Induction ==
    ASSUME NEW S, 0 \in S, \A n \in Nat : n \in S => n + 1 \in S
    PROVE  Nat \subseteq S
<1> DEFINE T == {n \in Nat : n \notin S}
<1>1. SUFFICES ASSUME T # {} PROVE FALSE
  OBVIOUS
<1>2. PICK n \in T : \A m \in T : n <= m
  BY <1>1, LeastNat
<1>3. n \in Nat /\ n # 0 /\ n - 1 \in Nat
  BY <1>2
<1>4. n - 1 \notin T
  BY <1>2, <1>3
<1>5. n - 1 \in S
  BY <1>3, <1>4
<1>6. (n - 1) + 1 \in S
  BY <1>3, <1>5
<1>7. QED BY <1>3, <1>6, <1>2

\* The steps of a recursion over D with values in S, and the functions step defines.
Steps(D, S) == [D \X [D -> S] -> S]
Solutions(D, S, step) == {f \in [D -> S] : \A n \in D : f[n] = step[<<n, f>>]}

\* step looks only at values at lower ranks.
Descends(D, S, rank, step) ==
    \A n \in D : \A f, g \in [D -> S] :
        (\A m \in D : rank[m] < rank[n] => f[m] = g[m]) => step[<<n, f>>] = step[<<n, g>>]

\* The functions that step defines where the rank is below k.
Defined(D, S, rank, step, k) ==
    {f \in [D -> S] : \A n \in D : rank[n] < k => f[n] = step[<<n, f>>]}

\* A function exists whose value anywhere depends on its values at lower ranks.
LEMMA RankRecursion ==
    ASSUME NEW D, NEW S, NEW K \in Nat, NEW rank \in [D -> 0..K], NEW step \in Steps(D, S),
           S # {}, Descends(D, S, rank, step)
    PROVE  Solutions(D, S, step) # {}
<1> DEFINE T == {k \in Nat : Defined(D, S, rank, step, k) # {}}
<1>1. 0 \in T
  <2>1. PICK s \in S : TRUE
    OBVIOUS
  <2>2. [n \in D |-> s] \in Defined(D, S, rank, step, 0)
    BY <2>1 DEF Defined
  <2>3. QED BY <2>2
<1>2. ASSUME NEW k \in Nat, k \in T PROVE k + 1 \in T
  <2>1. PICK f : f \in Defined(D, S, rank, step, k)
    BY <1>2
  <2>2. f \in [D -> S] /\ \A n \in D : rank[n] < k => f[n] = step[<<n, f>>]
    BY <2>1 DEF Defined
  <2> DEFINE g == [n \in D |-> step[<<n, f>>]]
  <2>3. g \in [D -> S]
    BY <2>2 DEF Steps
  <2>4. ASSUME NEW n \in D, rank[n] < k + 1 PROVE g[n] = step[<<n, g>>]
    <3>1. ASSUME NEW m \in D, rank[m] < rank[n] PROVE f[m] = g[m]
      <4>1. rank[m] < k
        BY <2>4, <3>1
      <4>2. QED BY <4>1, <2>2
    <3>2. step[<<n, f>>] = step[<<n, g>>]
      <4> HIDE DEF g
      <4>1. QED BY <3>1, <2>2, <2>3 DEF Descends
    <3>3. QED BY <3>2
  <2>5. g \in Defined(D, S, rank, step, k + 1)
    <3> HIDE DEF g
    <3>1. QED BY <2>3, <2>4 DEF Defined
  <2>6. QED BY <2>5
<1>3. Nat \subseteq T
  <2> HIDE DEF T
  <2>1. QED BY <1>1, <1>2, Induction
<1>4. PICK f : f \in Defined(D, S, rank, step, K + 1)
  BY <1>3
<1>5. f \in [D -> S] /\ \A n \in D : rank[n] < K + 1 => f[n] = step[<<n, f>>]
  BY <1>4 DEF Defined
<1>6. \A n \in D : rank[n] < K + 1
  OBVIOUS
<1>7. f \in Solutions(D, S, step)
  BY <1>5, <1>6 DEF Solutions
<1>8. QED BY <1>7


\* A greatest number, and a least one, is what Max and Min return.
LEMMA MaxIs ==
    ASSUME NEW S, NEW m \in S, S \subseteq Int, \A y \in S : m >= y
    PROVE  Max(S) = m
<1>1. \A x \in S : (\A y \in S : x >= y) => x = m
  OBVIOUS
<1>2. (CHOOSE x \in S : \A y \in S : x >= y) \in S
      /\ \A y \in S : (CHOOSE x \in S : \A z \in S : x >= z) >= y
  OBVIOUS
<1> QED
  BY <1>1, <1>2 DEF Max

LEMMA MinIs ==
    ASSUME NEW S, NEW m \in S, S \subseteq Int, \A y \in S : m <= y
    PROVE  Min(S) = m
<1>1. \A x \in S : (\A y \in S : x <= y) => x = m
  OBVIOUS
<1>2. (CHOOSE x \in S : \A y \in S : x <= y) \in S
      /\ \A y \in S : (CHOOSE x \in S : \A z \in S : x <= z) <= y
  OBVIOUS
<1> QED
  BY <1>1, <1>2 DEF Min

\* What the assumption on the ids says.
LEMMA IdsDiffer ==
    /\ Ojama # Empty /\ Ojama # Marked /\ Empty # Marked
    /\ Ojama \notin Colors /\ Empty \notin Colors /\ Marked \notin Colors
<1> DEFINE Ids == {Ojama, Empty, Marked}
<1>1. Cardinality(Ids \ Colors) = 3
  BY BoardAssumption
<1>2. ASSUME NEW a, NEW b PROVE IsFiniteSet({a, b}) /\ Cardinality({a, b}) <= 2
  <2>1. IsFiniteSet({a}) /\ Cardinality({a}) = 1
    BY FS_Singleton
  <2>2. {a, b} = {a} \cup {b}
    OBVIOUS
  <2>3. IsFiniteSet({a} \cup {b}) /\ Cardinality({a} \cup {b}) = IF b \in {a} THEN 1 ELSE 2
    BY <2>1, FS_AddElement
  <2> QED
    BY <2>2, <2>3
<1>3. ASSUME NEW a, NEW b PROVE ~(Ids \ Colors \subseteq {a, b})
  <2>1. Ids \ Colors \subseteq {a, b} => Cardinality(Ids \ Colors) <= Cardinality({a, b})
    BY <1>2, FS_Subset
  <2>2. Cardinality({a, b}) \in Nat /\ Cardinality({a, b}) <= 2
    BY <1>2, FS_CardinalityType
  <2> QED
    BY <1>1, <2>1, <2>2
<1>4. ~(Ids \ Colors \subseteq {Ojama, Empty}) /\ ~(Ids \ Colors \subseteq {Ojama, Marked})
      /\ ~(Ids \ Colors \subseteq {Empty, Marked})
  BY <1>3
<1> QED
  BY <1>4

----------------------------------------------------------------------------
(* The geometry of the board.                                                      *)

LEMMA CellsAreFinite == IsFiniteSet(Cell) /\ Cardinality(Cell) \in Nat
<1>1. IsFiniteSet(Columns) /\ IsFiniteSet(Rows)
  <2>1. Width - 1 \in Int /\ Height - 1 \in Int /\ 0 \in Int
    BY SizeAssumption
  <2>2. IsFiniteSet(0..Width - 1) /\ IsFiniteSet(0..Height - 1)
    BY <2>1, FS_Interval
  <2> QED
    BY <2>2 DEF Columns, Rows
<1>2. IsFiniteSet(Cell)
  BY <1>1, FS_Product DEF Cell
<1> QED
  BY <1>2, FS_CardinalityType

LEMMA SubsetsOfCells ==
    ASSUME NEW S \in SUBSET Cell
    PROVE  IsFiniteSet(S) /\ Cardinality(S) \in Nat /\ Cardinality(S) <= Cardinality(Cell)
  BY CellsAreFinite, FS_Subset, FS_CardinalityType

\* A cell beside another has it beside itself.
LEMMA NeighboursMeet ==
    ASSUME NEW c \in Cell, NEW d \in Neighbours(c)
    PROVE  d \in Cell /\ c \in Neighbours(d)
<1> USE DEF V_UP, V_DOWN, H_LEFT, H_RIGHT
<1>1. PICK dir \in Direction : d = Beside(c, dir)
  BY DEF Neighbours
<1>2. d \in Cell
  BY DEF Neighbours
<1>3. c = <<c[1], c[2]>> /\ c[1] \in Int /\ c[2] \in Int
  BY SizeAssumption DEF Cell, Columns, Rows
<1>4. \E back \in Direction : c = Beside(d, back)
  <2>1. CASE dir = V_UP
    <3>1. c = Beside(d, V_DOWN)
      BY <1>1, <1>3, <2>1 DEF Beside, Dx, Dy
    <3> QED
      BY <3>1 DEF Direction
  <2>2. CASE dir = V_DOWN
    <3>1. c = Beside(d, V_UP)
      BY <1>1, <1>3, <2>2 DEF Beside, Dx, Dy
    <3> QED
      BY <3>1 DEF Direction
  <2>3. CASE dir = H_LEFT
    <3>1. c = Beside(d, H_RIGHT)
      BY <1>1, <1>3, <2>3 DEF Beside, Dx, Dy
    <3> QED
      BY <3>1 DEF Direction
  <2>4. CASE dir = H_RIGHT
    <3>1. c = Beside(d, H_LEFT)
      BY <1>1, <1>3, <2>4 DEF Beside, Dx, Dy
    <3> QED
      BY <3>1 DEF Direction
  <2> QED
    BY <2>1, <2>2, <2>3, <2>4 DEF Direction
<1> QED
  BY <1>2, <1>4 DEF Neighbours

----------------------------------------------------------------------------
(* Groups.  A group is the least set of cells around a cell that is closed under     *)
(* going to a neighbour with the same id.                                            *)

Spread(m, id, group) == {d \in (UNION {Neighbours(e) : e \in group}) \ group : m[d] = id}

LEMMA SpreadIsNew ==
    ASSUME NEW m, NEW id, NEW group \in SUBSET Cell
    PROVE  Spread(m, id, group) \subseteq Cell /\ Spread(m, id, group) \cap group = {}
<1>1. ASSUME NEW d \in Spread(m, id, group) PROVE d \in Cell /\ d \notin group
  <2>1. PICK e \in group : d \in Neighbours(e) /\ d \notin group
    BY <1>1 DEF Spread
  <2> QED
    BY <2>1 DEF Neighbours
<1> QED
  BY <1>1

LEMMA GrowsLeft ==
    ASSUME NEW m, NEW id, NEW group \in SUBSET Cell, Spread(m, id, group) # {}
    PROVE  /\ group \cup Spread(m, id, group) \in SUBSET Cell
           /\ Cardinality(Cell \ group) \in Nat
           /\ Cardinality(Cell \ (group \cup Spread(m, id, group))) \in Nat
           /\ Cardinality(Cell \ (group \cup Spread(m, id, group))) < Cardinality(Cell \ group)
<1>1. PICK d : d \in Spread(m, id, group)
  OBVIOUS
<1>2. d \in Cell \ group /\ group \cup Spread(m, id, group) \in SUBSET Cell
  BY <1>1, SpreadIsNew
<1> DEFINE A == Cell \ group
           B == Cell \ (group \cup Spread(m, id, group))
<1>3. IsFiniteSet(A) /\ Cardinality(A) \in Nat /\ Cardinality(B) \in Nat
  <2>1. A \in SUBSET Cell /\ B \in SUBSET Cell
    OBVIOUS
  <2> HIDE DEF A, B
  <2> QED
    BY <2>1, SubsetsOfCells
<1>4. IsFiniteSet(A \ {d}) /\ Cardinality(A \ {d}) = Cardinality(A) - 1
  <2> HIDE DEF A
  <2>1. d \in A
    BY <1>2 DEF A
  <2> QED
    BY <1>3, <2>1, FS_RemoveElement
<1>5. B \in SUBSET (A \ {d})
  BY <1>1
<1>6. Cardinality(B) <= Cardinality(A \ {d})
  <2> HIDE DEF A, B
  <2> QED
    BY <1>4, <1>5, FS_Subset
<1> QED
  BY <1>2, <1>3, <1>4, <1>6

\* The recursive function of Connected is what its equation says.
GroupEquation(m, c, grown) ==
    /\ Connected(m, c) = grown[{c}]
    /\ \A group \in SUBSET Cell :
          grown[group] = IF Spread(m, m[c], group) = {} THEN group
                         ELSE grown[group \cup Spread(m, m[c], group)]

LEMMA GroupTable ==
    ASSUME NEW m, NEW c \in Cell
    PROVE  \E grown \in [SUBSET Cell -> SUBSET Cell] : GroupEquation(m, c, grown)
<1> DEFINE D == SUBSET Cell
           step == [q \in D \X [D -> D] |->
                      IF Spread(m, m[c], q[1]) = {} THEN q[1]
                      ELSE q[2][q[1] \cup Spread(m, m[c], q[1])]]
           rank == [group \in D |-> Cardinality(Cell \ group)]
           K == Cardinality(Cell)
<1>1. \A group \in D : group \cup Spread(m, m[c], group) \in D
  BY SpreadIsNew
<1>2. step \in Steps(D, D)
  <2> HIDE DEF D
  <2> QED
    BY <1>1 DEF Steps
<1>3. rank \in [D -> 0..K]
  <2>1. ASSUME NEW group \in D PROVE Cardinality(Cell \ group) \in 0..K
    <3>1. Cell \ group \in SUBSET Cell
      OBVIOUS
    <3> QED
      BY <3>1, SubsetsOfCells, CellsAreFinite
  <2> QED
    BY <2>1
<1>4. Descends(D, D, rank, step)
  <2> SUFFICES ASSUME NEW n \in D, NEW f \in [D -> D], NEW g \in [D -> D],
                      \A k \in D : rank[k] < rank[n] => f[k] = g[k]
               PROVE  step[<<n, f>>] = step[<<n, g>>]
    BY DEF Descends
  <2>1. CASE Spread(m, m[c], n) = {}
    BY <2>1
  <2>2. CASE Spread(m, m[c], n) # {}
    <3>1. n \cup Spread(m, m[c], n) \in D /\ rank[n \cup Spread(m, m[c], n)] < rank[n]
      BY <1>1, <2>2, GrowsLeft
    <3>2. f[n \cup Spread(m, m[c], n)] = g[n \cup Spread(m, m[c], n)]
      BY <3>1
    <3> QED
      BY <2>2, <3>2
  <2> QED
    BY <2>1, <2>2
<1>5. Solutions(D, D, step) # {}
  <2>1. {} \in D
    OBVIOUS
  <2>2. K \in Nat
    BY CellsAreFinite
  <2> HIDE DEF D, step, rank, K
  <2> QED
    BY <1>2, <1>3, <1>4, <2>1, <2>2, RankRecursion
<1>6. PICK f \in [D -> D] : \A group \in D : f[group] = step[<<group, f>>]
  BY <1>5 DEF Solutions
<1>7. f = [group \in SUBSET Cell |->
              LET next == {d \in (UNION {Neighbours(e) : e \in group}) \ group : m[d] = m[c]}
              IN  IF next = {} THEN group ELSE f[group \cup next]]
  BY <1>6 DEF Spread
<1> DEFINE table == CHOOSE g : g = [group \in SUBSET Cell |->
              LET next == {d \in (UNION {Neighbours(e) : e \in group}) \ group : m[d] = m[c]}
              IN  IF next = {} THEN group ELSE g[group \cup next]]
<1>8. table = [group \in SUBSET Cell |->
              LET next == {d \in (UNION {Neighbours(e) : e \in group}) \ group : m[d] = m[c]}
              IN  IF next = {} THEN group ELSE table[group \cup next]]
  <2> HIDE DEF step
  <2> QED
    BY <1>7
<1>9. Connected(m, c) = table[{c}]
  BY DEF Connected
<1> HIDE DEF table, step, rank
<1>10. \A group \in D : table[group] = IF Spread(m, m[c], group) = {} THEN group
                                       ELSE table[group \cup Spread(m, m[c], group)]
  BY <1>8 DEF Spread
<1> DEFINE T == {n \in Nat : \A group \in D : Cardinality(Cell \ group) < n => table[group] \in D}
<1>11. Nat \subseteq T
  <2>1. 0 \in T
    <3>1. ASSUME NEW group \in D PROVE Cardinality(Cell \ group) \in Nat
      <4>1. Cell \ group \in SUBSET Cell
        OBVIOUS
      <4> QED
        BY <4>1, SubsetsOfCells
    <3>2. \A group \in D : ~(Cardinality(Cell \ group) < 0)
      <4> HIDE DEF D
      <4> QED
        BY <3>1
    <3> QED
      BY <3>2
  <2>2. ASSUME NEW n \in Nat, n \in T PROVE n + 1 \in T
    <3> SUFFICES ASSUME NEW group \in D, Cardinality(Cell \ group) < n + 1 PROVE table[group] \in D
      OBVIOUS
    <3>1. CASE Spread(m, m[c], group) = {}
      BY <3>1, <1>10
    <3>2. CASE Spread(m, m[c], group) # {}
      <4> DEFINE more == group \cup Spread(m, m[c], group)
      <4>1. /\ more \in D /\ Cardinality(Cell \ more) \in Nat /\ Cardinality(Cell \ group) \in Nat
            /\ Cardinality(Cell \ more) < Cardinality(Cell \ group)
        BY <3>2, GrowsLeft
      <4>3. Cardinality(Cell \ more) < n
        <5> HIDE DEF more
        <5> QED
          BY <4>1
      <4>2. table[more] \in D
        <5> HIDE DEF more
        <5> QED
          BY <4>1, <4>3, <2>2
      <4> QED
        BY <4>2, <3>2, <1>10
    <3> QED
      BY <3>1, <3>2
  <2> HIDE DEF T
  <2> QED
    BY <2>1, <2>2, Induction
<1>12. \A group \in D : table[group] \in D
  <2> SUFFICES ASSUME NEW group \in D PROVE table[group] \in D
    OBVIOUS
  <2>1. Cell \ group \in SUBSET Cell
    OBVIOUS
  <2>2. PICK n \in Nat : n = Cardinality(Cell \ group)
    BY <2>1, SubsetsOfCells
  <2>3. \A h \in D : Cardinality(Cell \ h) < n + 1 => table[h] \in D
    <3>1. n + 1 \in Nat
      OBVIOUS
    <3>2. n + 1 \in T
      <4> HIDE DEF T
      <4> QED
        BY <3>1, <1>11
    <3> QED
      BY <3>2
  <2>4. Cardinality(Cell \ group) < n + 1
    BY <2>2
  <2> QED
    BY <2>3, <2>4
<1>13. table \in [D -> D]
  <2>1. table = [group \in D |-> table[group]]
    BY <1>8
  <2> HIDE DEF D
  <2> QED
    BY <2>1, <1>12
<1>14. GroupEquation(m, c, table)
  BY <1>9, <1>10 DEF GroupEquation
<1> QED
  BY <1>13, <1>14

Closed(m, id, S) == Spread(m, id, S) = {}

LEMMA ClosedMeans ==
    ASSUME NEW m, NEW id, NEW S \in SUBSET Cell
    PROVE  Closed(m, id, S) <=> \A e \in S : \A d \in Neighbours(e) : m[d] = id => d \in S
<1>1. ASSUME Closed(m, id, S), NEW e \in S, NEW d \in Neighbours(e), m[d] = id PROVE d \in S
  <2>1. d \in UNION {Neighbours(x) : x \in S}
    BY <1>1
  <2> QED
    BY <1>1, <2>1 DEF Closed, Spread
<1>2. ASSUME \A e \in S : \A d \in Neighbours(e) : m[d] = id => d \in S, NEW d \in Spread(m, id, S)
      PROVE  FALSE
  <2>1. PICK e \in S : d \in Neighbours(e) /\ m[d] = id /\ d \notin S
    BY <1>2 DEF Spread
  <2> QED
    BY <1>2, <2>1
<1> QED
  BY <1>1, <1>2 DEF Closed

\* What the recursion returns: a closed set, and no larger than any closed set around.
Grows(m, id, group, result) ==
    /\ group \subseteq result /\ Closed(m, id, result)
    /\ \A S \in SUBSET Cell : group \subseteq S /\ Closed(m, id, S) => result \subseteq S

LEMMA GroupIsLeast ==
    ASSUME NEW m, NEW c \in Cell
    PROVE  Connected(m, c) \in SUBSET Cell /\ Grows(m, m[c], {c}, Connected(m, c))
<1>0. PICK grown \in [SUBSET Cell -> SUBSET Cell] : GroupEquation(m, c, grown)
  BY GroupTable
<1>1. /\ Connected(m, c) = grown[{c}]
      /\ \A group \in SUBSET Cell :
            grown[group] = IF Spread(m, m[c], group) = {} THEN group
                           ELSE grown[group \cup Spread(m, m[c], group)]
  BY <1>0 DEF GroupEquation
<1> DEFINE T == {n \in Nat : \A group \in SUBSET Cell :
                    Cardinality(Cell \ group) < n => Grows(m, m[c], group, grown[group])}
<1>2. Nat \subseteq T
  <2>1. 0 \in T
    <3>1. ASSUME NEW group \in SUBSET Cell PROVE ~(Cardinality(Cell \ group) < 0)
      <4>1. Cell \ group \in SUBSET Cell
        OBVIOUS
      <4>2. Cardinality(Cell \ group) \in Nat
        BY <4>1, SubsetsOfCells
      <4> QED
        BY <4>2
    <3> QED
      BY <3>1
  <2>2. ASSUME NEW n \in Nat, n \in T PROVE n + 1 \in T
    <3> SUFFICES ASSUME NEW group \in SUBSET Cell, Cardinality(Cell \ group) < n + 1
                 PROVE  Grows(m, m[c], group, grown[group])
      OBVIOUS
    <3>1. CASE Spread(m, m[c], group) = {}
      <4>1. grown[group] = group
        BY <1>1, <3>1
      <4> QED
        BY <3>1, <4>1 DEF Grows, Closed
    <3>2. CASE Spread(m, m[c], group) # {}
      <4> DEFINE more == group \cup Spread(m, m[c], group)
      <4>1. /\ more \in SUBSET Cell
            /\ Cardinality(Cell \ more) \in Nat /\ Cardinality(Cell \ group) \in Nat
            /\ Cardinality(Cell \ more) < Cardinality(Cell \ group)
        BY <3>2, GrowsLeft
      <4>2. Cardinality(Cell \ more) < n
        <5> HIDE DEF more
        <5> QED
          BY <4>1
      <4>3. Grows(m, m[c], more, grown[more])
        <5> HIDE DEF more
        <5> QED
          BY <4>1, <4>2, <2>2
      <4>4. ASSUME NEW S \in SUBSET Cell, group \subseteq S, Closed(m, m[c], S) PROVE more \subseteq S
        <5>1. ASSUME NEW d \in Spread(m, m[c], group) PROVE d \in S
          <6>1. PICK e \in group : d \in Neighbours(e) /\ m[d] = m[c]
            BY <5>1 DEF Spread
          <6> QED
            BY <4>4, <6>1, ClosedMeans
        <5> QED
          BY <4>4, <5>1
      <4>5. grown[group] = grown[more]
        BY <1>1, <3>2
      <4>6. group \subseteq more
        OBVIOUS
      <4> HIDE DEF more
      <4> QED
        BY <4>3, <4>4, <4>5, <4>6 DEF Grows
    <3> QED
      BY <3>1, <3>2
  <2> HIDE DEF T
  <2> QED
    BY <2>1, <2>2, Induction
<1>3. {c} \in SUBSET Cell /\ Cell \ {c} \in SUBSET Cell
  OBVIOUS
<1>4. PICK n \in Nat : n = Cardinality(Cell \ {c})
  BY <1>3, SubsetsOfCells
<1>5. n + 1 \in T
  <2>1. n + 1 \in Nat
    OBVIOUS
  <2> HIDE DEF T
  <2> QED
    BY <1>2, <2>1
<1>6. Cardinality(Cell \ {c}) < n + 1
  BY <1>4
<1>7. Grows(m, m[c], {c}, grown[{c}])
  BY <1>3, <1>5, <1>6
<1> QED
  BY <1>1, <1>3, <1>7

LEMMA GroupIs ==
    ASSUME NEW m, NEW c \in Cell
    PROVE  /\ Connected(m, c) \in SUBSET Cell /\ c \in Connected(m, c)
           /\ Closed(m, m[c], Connected(m, c))
           /\ \A d \in Connected(m, c) : m[d] = m[c]
           /\ \A S \in SUBSET Cell : c \in S /\ Closed(m, m[c], S) => Connected(m, c) \subseteq S
<1>1. Connected(m, c) \in SUBSET Cell /\ Grows(m, m[c], {c}, Connected(m, c))
  BY GroupIsLeast
<1> DEFINE Alike == {d \in Cell : m[d] = m[c]}
<1>2. Alike \in SUBSET Cell /\ {c} \subseteq Alike /\ Closed(m, m[c], Alike)
  <2>1. \A e \in Alike : \A d \in Neighbours(e) : m[d] = m[c] => d \in Alike
    BY DEF Neighbours
  <2>2. Alike \in SUBSET Cell /\ {c} \subseteq Alike
    OBVIOUS
  <2> HIDE DEF Alike
  <2> QED
    BY <2>1, <2>2, ClosedMeans
<1>3. Connected(m, c) \subseteq Alike
  <2> HIDE DEF Alike
  <2> QED
    BY <1>1, <1>2 DEF Grows
<1> QED
  BY <1>1, <1>3 DEF Grows

\* The pieces of a group have the same group.
LEMMA SameGroup ==
    ASSUME NEW m, NEW c \in Cell, NEW d \in Connected(m, c)
    PROVE  Connected(m, d) = Connected(m, c)
<1> DEFINE C == Connected(m, c)
           E == Connected(m, d)
<1>1. C \in SUBSET Cell /\ d \in C /\ m[d] = m[c] /\ Closed(m, m[c], C)
      /\ \A e \in C : m[e] = m[c]
  BY GroupIs
<1>2. d \in Cell
  BY <1>1
<1>3. E \in SUBSET Cell /\ d \in E /\ Closed(m, m[c], E)
      /\ (\A S \in SUBSET Cell : d \in S /\ Closed(m, m[d], S) => E \subseteq S)
  BY <1>1, <1>2, GroupIs
<1>4. E \subseteq C
  BY <1>1, <1>3
<1>5. ASSUME c \notin E PROVE FALSE
  <2>1. \A x \in C \ E : \A y \in Neighbours(x) : m[y] = m[c] => y \in C \ E
    <3> SUFFICES ASSUME NEW x \in C \ E, NEW y \in Neighbours(x), m[y] = m[c], y \in E PROVE FALSE
      BY <1>1, ClosedMeans
    <3>1. x \in Cell /\ m[x] = m[c] /\ x \in Neighbours(y)
      BY <1>1, NeighboursMeet
    <3>2. x \in E
      <4> HIDE DEF E
      <4> QED
        BY <1>3, <3>1, ClosedMeans
    <3> QED
      BY <3>2
  <2>2. C \ E \in SUBSET Cell
    BY <1>1
  <2>3. Closed(m, m[c], C \ E)
    <3> HIDE DEF C, E
    <3> QED
      BY <2>1, <2>2, ClosedMeans
  <2>4. c \in C
    BY GroupIs
  <2>5. C \subseteq C \ E
    <3>1. c \in C \ E
      BY <1>5, <2>4
    <3> QED
      BY <2>2, <2>3, <3>1, GroupIs
  <2> QED
    BY <1>1, <1>3, <2>5
<1>6. C \subseteq E
  BY <1>3, <1>5, GroupIs
<1> QED
  BY <1>4, <1>6

\* A group that kept its ids was part of a group.
LEMMA GroupsShrink ==
    ASSUME NEW m, NEW n, NEW c \in Cell, \A d \in Connected(n, c) : n[d] = m[d]
    PROVE  /\ Connected(n, c) \subseteq Connected(m, c)
           /\ GetLinkCount(n, c) \in Nat /\ GetLinkCount(m, c) \in Nat
           /\ GetLinkCount(n, c) <= GetLinkCount(m, c)
<1> DEFINE C == Connected(m, c)
           E == Connected(n, c)
<1>1. C \in SUBSET Cell /\ c \in C /\ Closed(m, m[c], C)
  BY GroupIs
<1>2. E \in SUBSET Cell /\ c \in E /\ Closed(n, n[c], E) /\ \A d \in E : n[d] = n[c]
  BY GroupIs
<1>3. n[c] = m[c]
  BY <1>2
<1>4. \A x \in C \cap E : \A y \in Neighbours(x) : n[y] = n[c] => y \in C \cap E
  <2> SUFFICES ASSUME NEW x \in C \cap E, NEW y \in Neighbours(x), n[y] = n[c]
               PROVE  y \in C /\ y \in E
    OBVIOUS
  <2>1. y \in E
    <3> HIDE DEF E, C
    <3> QED
      BY <1>2, ClosedMeans
  <2>2. m[y] = m[c]
    BY <1>3, <2>1
  <2>3. y \in C
    <3> HIDE DEF C, E
    <3> QED
      BY <1>1, <2>2, ClosedMeans
  <2> QED
    BY <2>1, <2>3
<1>5. C \cap E \in SUBSET Cell /\ c \in C \cap E
  BY <1>1, <1>2
<1>6. Closed(n, n[c], C \cap E)
  <2> HIDE DEF C, E
  <2> QED
    BY <1>4, <1>5, ClosedMeans
<1>7. E \subseteq C
  BY <1>5, <1>6, GroupIs
<1>8. IsFiniteSet(C) /\ Cardinality(C) \in Nat /\ Cardinality(E) \in Nat
  BY <1>1, <1>2, SubsetsOfCells
<1>9. Cardinality(E) <= Cardinality(C)
  BY <1>7, <1>8, FS_Subset
<1> QED
  BY <1>7, <1>8, <1>9 DEF GetLinkCount

----------------------------------------------------------------------------
(* Which groups vanish.                                                            *)

\* No group is large enough to vanish.
Rest(m) == \A c \in Cell : IsNormalPiece(m[c]) => GetLinkCount(m, c) < Linking

\* Every group that is large enough has a piece at some cells.
LargeMeets(m, cells) ==
    \A c \in Cell : IsNormalPiece(m[c]) /\ GetLinkCount(m, c) >= Linking => Connected(m, c) \cap cells # {}

Normal(m, cells) == {c \in cells : IsNormalPiece(m[c])}
Mark(m, cells, id) == [c \in Cell |-> IF c \in cells THEN id ELSE m[c]]
Filled(m, cells) == \A c \in cells : m[c] # Empty

LEMMA CountsAreNumbers ==
    ASSUME NEW m, NEW c \in Cell
    PROVE  GetLinkCount(m, c) \in Nat /\ Linking \in Nat
  BY GroupIs, SubsetsOfCells, BoardAssumption DEF GetLinkCount

\* A large group can come about only where something changed.
LEMMA ChangesMeet ==
    ASSUME NEW m, NEW n, NEW cells, Rest(m),
           \A d \in Cell : IsNormalPiece(n[d]) /\ d \notin cells => n[d] = m[d]
    PROVE  LargeMeets(n, cells)
<1> SUFFICES ASSUME NEW c \in Cell, IsNormalPiece(n[c]), GetLinkCount(n, c) >= Linking,
                    Connected(n, c) \cap cells = {}
             PROVE  FALSE
  BY DEF LargeMeets
<1>1. \A d \in Connected(n, c) : d \in Cell /\ d \notin cells /\ n[d] = n[c]
  BY GroupIs
<1>2. \A d \in Connected(n, c) : n[d] = m[d]
  BY <1>1
<1>3. GetLinkCount(n, c) <= GetLinkCount(m, c)
  BY <1>2, GroupsShrink
<1>4. c \in Connected(n, c)
  BY GroupIs
<1>5. m[c] = n[c]
  BY <1>2, <1>4
<1>6. GetLinkCount(m, c) < Linking
  BY <1>5 DEF Rest
<1>7. GetLinkCount(m, c) \in Nat /\ GetLinkCount(n, c) \in Nat /\ Linking \in Nat
  BY CountsAreNumbers
<1> QED
  BY <1>3, <1>6, <1>7

LEMMA RestMeets == ASSUME NEW m, LargeMeets(m, {}) PROVE Rest(m)
  BY CountsAreNumbers DEF Rest, LargeMeets

LEMMA LargeVanish ==
    ASSUME NEW m, NEW cells \in SUBSET Cell, NEW c \in cells, IsNormalPiece(m[c]),
           GetLinkCount(m, c) >= Linking
    PROVE  Connected(m, c) \subseteq Vanishing(m, cells)
<1> DEFINE C == Connected(m, c)
<1>1. C \in Large(m, {d \in cells : ~IsOjamaPiece(m[d])})
  BY DEF Large, GetLinkCount, IsNormalPiece
<1> HIDE DEF C
<1>2. C \subseteq UNION Large(m, {d \in cells : ~IsOjamaPiece(m[d])})
  BY <1>1
<1>3. C \subseteq Vanishing(m, cells)
  BY <1>2 DEF Vanishing
<1> QED
  BY <1>3 DEF C

\* Only pieces vanish.
LEMMA VanishingPieces ==
    ASSUME NEW m, NEW cells \in SUBSET Cell, Filled(m, cells)
    PROVE  Vanishing(m, cells) \in SUBSET Cell /\ Filled(m, Vanishing(m, cells))
<1> DEFINE large == UNION Large(m, {c \in cells : ~IsOjamaPiece(m[c])})
<1>1. ASSUME NEW d \in large PROVE d \in Cell /\ m[d] # Empty
  <2>1. PICK c \in cells : d \in Connected(m, c)
    BY DEF Large
  <2>2. c \in Cell /\ m[c] # Empty
    BY DEF Filled
  <2> QED
    BY <2>1, <2>2, GroupIs
<1>2. ASSUME NEW d \in OjamaAt(m, UNION {Neighbours(c) : c \in large}) PROVE d \in Cell /\ m[d] # Empty
  <2>1. d \in UNION {Neighbours(c) : c \in large} /\ m[d] = Ojama
    BY DEF OjamaAt, IsOjamaPiece
  <2> QED
    BY <2>1, IdsDiffer DEF Neighbours
<1>3. Vanishing(m, cells) = large \cup OjamaAt(m, UNION {Neighbours(c) : c \in large})
  BY DEF Vanishing
<1> HIDE DEF large
<1> QED
  BY <1>1, <1>2, <1>3 DEF Filled

\* What vanishes from the board of the game is what the search marks on the same board.
LEMMA MarksVanishing ==
    ASSUME NEW m \in Boards, NEW cells \in SUBSET Cell, Filled(m, cells)
    PROVE  CountAndMarkConnectedPieces(m, Normal(m, cells)) = Mark(m, Vanishing(m, cells), Marked)
<1>1. {c \in Normal(m, cells) : m[c] \notin {Empty, Marked}} = {c \in cells : ~IsOjamaPiece(m[c])}
  <2>1. ASSUME NEW c \in cells PROVE m[c] # Empty /\ m[c] # Marked
    BY IdsDiffer DEF Filled, Boards
  <2> QED
    BY <2>1 DEF Normal, IsNormalPiece
<1> QED
  BY <1>1 DEF CountAndMarkConnectedPieces, Vanishing, Mark

\* After the groups of the pieces that landed have vanished, none is left to vanish.
LEMMA EraseRests ==
    ASSUME NEW m, NEW cells \in SUBSET Cell, LargeMeets(m, cells)
    PROVE  Rest(Mark(m, Vanishing(m, cells), Empty))
<1> DEFINE n == Mark(m, Vanishing(m, cells), Empty)
<1> SUFFICES ASSUME NEW c \in Cell, IsNormalPiece(n[c]), ~(GetLinkCount(n, c) < Linking) PROVE FALSE
  BY DEF Rest
<1>1. ASSUME NEW d \in Cell, n[d] # Empty PROVE n[d] = m[d] /\ d \notin Vanishing(m, cells)
  BY <1>1 DEF Mark
<1>2. \A d \in Connected(n, c) : d \in Cell /\ n[d] = n[c]
  BY GroupIs
<1> HIDE DEF n
<1>3. n[c] # Empty /\ n[c] = m[c] /\ c \notin Vanishing(m, cells)
  BY <1>1 DEF IsNormalPiece
<1>4. \A d \in Connected(n, c) : n[d] = m[d]
  BY <1>1, <1>2, <1>3
<1>5. GetLinkCount(n, c) <= GetLinkCount(m, c)
  BY <1>4, GroupsShrink
<1>6. GetLinkCount(m, c) >= Linking
  <2>1. GetLinkCount(m, c) \in Nat /\ GetLinkCount(n, c) \in Nat /\ Linking \in Nat
    BY CountsAreNumbers
  <2> QED
    BY <1>5, <2>1
<1>7. PICK d \in Connected(m, c) : d \in cells
  BY <1>3, <1>6 DEF LargeMeets
<1>8. d \in Cell /\ m[d] = m[c] /\ Connected(m, d) = Connected(m, c)
  BY <1>7, GroupIs, SameGroup
<1>9. GetLinkCount(m, d) >= Linking /\ IsNormalPiece(m[d])
  BY <1>3, <1>6, <1>8 DEF GetLinkCount
<1>10. Connected(m, d) \subseteq Vanishing(m, cells)
  BY <1>7, <1>9, LargeVanish
<1>11. c \in Connected(m, d)
  BY <1>8, GroupIs
<1> QED
  BY <1>3, <1>10, <1>11

\* Ojama pieces alone let nothing vanish.
LEMMA OjamaAloneStays ==
    ASSUME NEW m, NEW cells, \A c \in cells : m[c] = Ojama
    PROVE  Vanishing(m, cells) = {}
<1>1. {c \in cells : ~IsOjamaPiece(m[c])} = {}
  BY DEF IsOjamaPiece
<1>2. Large(m, {}) = {}
  BY DEF Large
<1>3. OjamaAt(m, UNION {Neighbours(c) : c \in UNION {}}) = {}
  BY DEF OjamaAt
<1> QED
  BY <1>1, <1>2, <1>3 DEF Vanishing

----------------------------------------------------------------------------
(* Gravity.                                                                        *)

\* No piece lies over a gap.
Solid(m) == \A c \in Cell : m[c] # Empty /\ c[2] < Height - 1 => m[<<c[1], c[2] + 1>>] # Empty

LEMMA CellIs ==
    ASSUME NEW c \in Cell
    PROVE  /\ c = <<c[1], c[2]>> /\ c[1] \in Columns /\ c[2] \in Rows
           /\ \A x \in Columns, y \in Rows : <<x, y>> \in Cell
  BY DEF Cell

LEMMA HeightIs == Height \in Nat /\ Height > 3 /\ Width \in Nat /\ Width > 3
  BY SizeAssumption

\* Under a piece of a solid map there are only pieces.
LEMMA NoGapUnder ==
    ASSUME NEW m, Solid(m), NEW x \in Columns, NEW y \in Rows, NEW z \in Rows, m[<<x, y>>] # Empty, y <= z
    PROVE  m[<<x, z>>] # Empty
<1> DEFINE T == {k \in Nat : y + k \in Rows => m[<<x, y + k>>] # Empty}
<1> USE HeightIs DEF Rows
<1>1. 0 \in T
  <2>1. y + 0 = y
    OBVIOUS
  <2> QED
    BY <2>1
<1>2. ASSUME NEW k \in Nat, k \in T PROVE k + 1 \in T
  <2> SUFFICES ASSUME y + (k + 1) \in Rows PROVE m[<<x, y + (k + 1)>>] # Empty
    OBVIOUS
  <2>1. y + k \in Rows /\ y + k < Height - 1 /\ (y + k) + 1 = y + (k + 1)
    OBVIOUS
  <2>2. m[<<x, y + k>>] # Empty
    BY <1>2, <2>1
  <2>3. <<x, y + k>> \in Cell /\ <<x, y + k>>[1] = x /\ <<x, y + k>>[2] = y + k
    BY <2>1 DEF Cell
  <2>4. m[<<x, (y + k) + 1>>] # Empty
    BY <2>1, <2>2, <2>3 DEF Solid
  <2> QED
    BY <2>1, <2>4
<1>3. z - y \in Nat
  OBVIOUS
<1>4. z - y \in T
  <2> HIDE DEF T
  <2> QED
    BY <1>1, <1>2, <1>3, Induction
<1>5. y + (z - y) = z
  OBVIOUS
<1> QED
  BY <1>4, <1>5

MarkedBelow(m, x, y) == {z \in y + 1..Height - 1 : m[<<x, z>>] = Marked}

LEMMA BelowIs ==
    ASSUME NEW m, NEW x, NEW y \in Int
    PROVE  /\ Below(m, <<x, y>>) = Cardinality(MarkedBelow(m, x, y))
           /\ IsFiniteSet(MarkedBelow(m, x, y)) /\ Below(m, <<x, y>>) \in Nat
<1>1. y + 1 \in Int /\ Height - 1 \in Int
  BY HeightIs
<1>2. IsFiniteSet(y + 1..Height - 1)
  BY <1>1, FS_Interval
<1>3. MarkedBelow(m, x, y) \in SUBSET (y + 1..Height - 1)
  BY DEF MarkedBelow
<1>4. IsFiniteSet(MarkedBelow(m, x, y)) /\ Cardinality(MarkedBelow(m, x, y)) \in Nat
  BY <1>2, <1>3, FS_Subset, FS_CardinalityType
<1>5. Below(m, <<x, y>>) = Cardinality(MarkedBelow(m, x, y))
  BY DEF Below, MarkedBelow
<1> QED
  BY <1>4, <1>5

LEMMA BelowLast ==
    ASSUME NEW m, NEW x
    PROVE  Below(m, <<x, Height - 1>>) = 0
<1>1. Height - 1 \in Int /\ (Height - 1) + 1..Height - 1 = {}
  BY HeightIs
<1>2. MarkedBelow(m, x, Height - 1) = {}
  BY <1>1 DEF MarkedBelow
<1>3. Below(m, <<x, Height - 1>>) = Cardinality(MarkedBelow(m, x, Height - 1))
  BY <1>1, BelowIs
<1> QED
  BY <1>2, <1>3, FS_EmptySet

LEMMA BelowStep ==
    ASSUME NEW m, NEW x, NEW y \in Rows, y < Height - 1
    PROVE  Below(m, <<x, y>>) = Below(m, <<x, y + 1>>) + (IF m[<<x, y + 1>>] = Marked THEN 1 ELSE 0)
<1> USE HeightIs
<1>1. y \in Int /\ y + 1 \in Int /\ y + 1..Height - 1 = {y + 1} \cup ((y + 1) + 1..Height - 1)
      /\ y + 1 \notin (y + 1) + 1..Height - 1
  BY DEF Rows
<1> DEFINE A == MarkedBelow(m, x, y)
           B == MarkedBelow(m, x, y + 1)
<1>2. Below(m, <<x, y>>) = Cardinality(A) /\ Below(m, <<x, y + 1>>) = Cardinality(B)
      /\ IsFiniteSet(B) /\ Cardinality(B) \in Nat
  BY <1>1, BelowIs
<1>3. y + 1 \notin B /\ A = IF m[<<x, y + 1>>] = Marked THEN B \cup {y + 1} ELSE B
  BY <1>1 DEF MarkedBelow
<1> HIDE DEF A, B
<1>4. Cardinality(B \cup {y + 1}) = Cardinality(B) + 1
  BY <1>2, <1>3, FS_AddElement
<1> QED
  BY <1>2, <1>3, <1>4

\* The row that what is in row y of a column comes to.
Fall(m, x, y) == y + Below(m, <<x, y>>)

LEMMA FallIs ==
    ASSUME NEW m, NEW c \in Cell
    PROVE  Landing(m, c) = <<c[1], Fall(m, c[1], c[2])>>
<1>1. c = <<c[1], c[2]>>
  BY CellIs
<1> QED
  BY <1>1 DEF Landing, Fall

LEMMA FallStep ==
    ASSUME NEW m, NEW x, NEW y \in Rows, y < Height - 1
    PROVE  /\ Fall(m, x, y) \in Nat /\ Fall(m, x, y + 1) \in Nat
           /\ m[<<x, y + 1>>] = Marked => Fall(m, x, y) = Fall(m, x, y + 1)
           /\ m[<<x, y + 1>>] # Marked => Fall(m, x, y) = Fall(m, x, y + 1) - 1
<1>1. y \in Nat /\ y \in Int /\ y + 1 \in Int /\ y + 1 \in Nat
  BY HeightIs DEF Rows
<1>2. Below(m, <<x, y>>) \in Nat /\ Below(m, <<x, y + 1>>) \in Nat
  BY <1>1, BelowIs
<1>3. Below(m, <<x, y>>) = Below(m, <<x, y + 1>>) + (IF m[<<x, y + 1>>] = Marked THEN 1 ELSE 0)
  BY BelowStep
<1> QED
  BY <1>1, <1>2, <1>3 DEF Fall

LEMMA FallLast == ASSUME NEW m, NEW x PROVE Fall(m, x, Height - 1) = Height - 1
  BY HeightIs, BelowLast DEF Fall

\* Every row under the one that something falls to is filled by something under it; and
\* nothing falls below the last row.
Stacks(m, x, y) ==
    /\ Fall(m, x, y) \in y..Height - 1
    /\ \A r \in Fall(m, x, y) + 1..Height - 1 :
          \E z \in y + 1..Height - 1 : m[<<x, z>>] # Marked /\ Fall(m, x, z) = r
    /\ \A z \in y + 1..Height - 1 : m[<<x, z>>] # Marked => Fall(m, x, y) < Fall(m, x, z)

LEMMA FallStacks ==
    ASSUME NEW m, NEW x, NEW y \in Rows
    PROVE  Stacks(m, x, y)
<1> USE HeightIs DEF Rows
<1> DEFINE T == {k \in Nat : k <= Height - 1 => Stacks(m, x, (Height - 1) - k)}
<1>1. 0 \in T
  <2>1. (Height - 1) - 0 = Height - 1 /\ (Height - 1) + 1..Height - 1 = {} /\ Height - 1 \in Height - 1..Height - 1
    OBVIOUS
  <2>2. Stacks(m, x, Height - 1)
    BY <2>1, FallLast DEF Stacks
  <2> QED
    BY <2>1, <2>2
<1>2. ASSUME NEW k \in Nat, k \in T PROVE k + 1 \in T
  <2> SUFFICES ASSUME k + 1 <= Height - 1 PROVE Stacks(m, x, (Height - 1) - (k + 1))
    OBVIOUS
  <2>1. PICK v \in Nat : v = (Height - 1) - (k + 1)
    OBVIOUS
  <2>2. v \in Rows /\ v < Height - 1 /\ v + 1 = (Height - 1) - k /\ v + 1 \in Rows
    BY <2>1
  <2>3. Stacks(m, x, v + 1)
    BY <1>2, <2>2
  <2>4. /\ Fall(m, x, v) \in Nat /\ Fall(m, x, v + 1) \in Nat
        /\ m[<<x, v + 1>>] = Marked => Fall(m, x, v) = Fall(m, x, v + 1)
        /\ m[<<x, v + 1>>] # Marked => Fall(m, x, v) = Fall(m, x, v + 1) - 1
    BY <2>2, FallStep
  <2>5. /\ Fall(m, x, v + 1) \in v + 1..Height - 1
        /\ \A r \in Fall(m, x, v + 1) + 1..Height - 1 :
              \E z \in (v + 1) + 1..Height - 1 : m[<<x, z>>] # Marked /\ Fall(m, x, z) = r
        /\ \A z \in (v + 1) + 1..Height - 1 : m[<<x, z>>] # Marked => Fall(m, x, v + 1) < Fall(m, x, z)
    BY <2>3 DEF Stacks
  <2>6. v + 1..Height - 1 = {v + 1} \cup ((v + 1) + 1..Height - 1)
    BY <2>2
  <2>7. Fall(m, x, v) \in v..Height - 1
    BY <2>2, <2>4, <2>5
  <2>8. ASSUME NEW r \in Fall(m, x, v) + 1..Height - 1
        PROVE  \E z \in v + 1..Height - 1 : m[<<x, z>>] # Marked /\ Fall(m, x, z) = r
    <3>1. CASE r \in Fall(m, x, v + 1) + 1..Height - 1
      BY <3>1, <2>5, <2>6
    <3>2. CASE r \notin Fall(m, x, v + 1) + 1..Height - 1
      <4>1. m[<<x, v + 1>>] # Marked /\ r = Fall(m, x, v + 1)
        BY <3>2, <2>4
      <4> QED
        BY <4>1, <2>6
    <3> QED
      BY <3>1, <3>2
  <2>9. ASSUME NEW z \in v + 1..Height - 1, m[<<x, z>>] # Marked PROVE Fall(m, x, v) < Fall(m, x, z)
    <3>1. CASE z = v + 1
      BY <3>1, <2>4, <2>9
    <3>2. CASE z \in (v + 1) + 1..Height - 1
      <4>1. Fall(m, x, v + 1) < Fall(m, x, z)
        BY <3>2, <2>5, <2>9
      <4>2. z \in Int /\ Fall(m, x, z) \in Int
        BY <3>2, <2>2, BelowIs DEF Fall
      <4> QED
        BY <4>1, <4>2, <2>4
    <3> QED
      BY <3>1, <3>2, <2>6
  <2>10. Stacks(m, x, v)
    BY <2>7, <2>8, <2>9 DEF Stacks
  <2> QED
    BY <2>1, <2>10
<1>3. (Height - 1) - y \in Nat /\ (Height - 1) - y <= Height - 1 /\ (Height - 1) - ((Height - 1) - y) = y
  OBVIOUS
<1>4. (Height - 1) - y \in T
  <2> HIDE DEF T
  <2> QED
    BY <1>1, <1>2, <1>3, Induction
<1> QED
  BY <1>3, <1>4

LEMMA LandingOnBoard ==
    ASSUME NEW m, NEW d \in Cell
    PROVE  Landing(m, d) \in Cell /\ Landing(m, d)[1] = d[1] /\ d[2] <= Landing(m, d)[2]
<1>1. d[1] \in Columns /\ d[2] \in Rows /\ Landing(m, d) = <<d[1], Fall(m, d[1], d[2])>>
  BY CellIs, FallIs
<1>2. Fall(m, d[1], d[2]) \in d[2]..Height - 1
  BY <1>1, FallStacks DEF Stacks
<1>3. Fall(m, d[1], d[2]) \in Rows /\ d[2] <= Fall(m, d[1], d[2])
  BY <1>1, <1>2, HeightIs DEF Rows
<1> QED
  BY <1>1, <1>3, CellIs

\* No two pieces land on one cell.
LEMMA LandsAlone ==
    ASSUME NEW m, NEW d \in Cell, NEW e \in Cell, m[d] # Marked, m[e] # Marked,
           Landing(m, d) = Landing(m, e)
    PROVE  d = e
<1>1. /\ d = <<d[1], d[2]>> /\ d[1] \in Columns /\ d[2] \in Rows
      /\ e = <<e[1], e[2]>> /\ e[1] \in Columns /\ e[2] \in Rows
  BY CellIs
<1>2. Landing(m, d) = <<d[1], Fall(m, d[1], d[2])>> /\ Landing(m, e) = <<e[1], Fall(m, e[1], e[2])>>
  BY FallIs
<1>3. d[1] = e[1] /\ Fall(m, d[1], d[2]) = Fall(m, d[1], e[2])
  <2>1. \A x, y, a, b : <<x, a>> = <<y, b>> => x = y /\ a = b
    OBVIOUS
  <2>2. PICK a, b : a = Fall(m, d[1], d[2]) /\ b = Fall(m, e[1], e[2])
    OBVIOUS
  <2>3. <<d[1], a>> = <<e[1], b>>
    BY <1>2, <2>2
  <2>4. d[1] = e[1] /\ a = b
    BY <2>1, <2>3
  <2> QED
    BY <2>2, <2>4
<1>4. ASSUME NEW x, NEW y \in Rows, NEW z \in Rows, y < z, m[<<x, z>>] # Marked
      PROVE  Fall(m, x, y) # Fall(m, x, z)
  <2>1. z \in y + 1..Height - 1
    BY <1>4, HeightIs DEF Rows
  <2>2. Stacks(m, x, y) /\ Stacks(m, x, z)
    BY FallStacks
  <2>3. Fall(m, x, y) < Fall(m, x, z)
    BY <1>4, <2>1, <2>2 DEF Stacks
  <2>4. Fall(m, x, y) \in Int /\ Fall(m, x, z) \in Int
    BY <2>2 DEF Stacks
  <2> QED
    BY <2>3, <2>4
<1>5. ~(d[2] < e[2]) /\ ~(e[2] < d[2])
  BY <1>1, <1>3, <1>4
<1>6. d[2] = e[2]
  BY <1>1, <1>5 DEF Rows
<1> QED
  BY <1>1, <1>3, <1>6

\* DropPiecese moves what is not marked to where it lands, and leaves the rest empty.
LEMMA DropIs ==
    ASSUME NEW m \in Maps
    PROVE  /\ DropPiecese(m) \in Boards
           /\ \A d \in Cell : m[d] # Marked => DropPiecese(m)[Landing(m, d)] = m[d]
           /\ \A c \in Cell : DropPiecese(m)[c] # Empty =>
                 \E d \in Cell : m[d] # Marked /\ Landing(m, d) = c /\ DropPiecese(m)[c] = m[d]
<1> DEFINE From(c) == {d \in {c[1]} \X Rows : m[d] # Marked /\ Landing(m, d) = c}
<1>1. \A c \in Cell : From(c) \subseteq Cell
  BY CellIs
<1>2. DropPiecese(m) = [c \in Cell |-> IF From(c) = {} THEN Empty ELSE m[CHOOSE d \in From(c) : TRUE]]
  BY DEF DropPiecese
<1>3. ASSUME NEW c \in Cell, From(c) # {}
      PROVE  /\ (CHOOSE d \in From(c) : TRUE) \in Cell
             /\ m[CHOOSE d \in From(c) : TRUE] # Marked
             /\ Landing(m, CHOOSE d \in From(c) : TRUE) = c
  <2>1. (CHOOSE d \in From(c) : TRUE) \in From(c)
    BY <1>3
  <2>2. \A d \in From(c) : d \in Cell /\ m[d] # Marked /\ Landing(m, d) = c
    BY <1>1
  <2> HIDE DEF From
  <2> QED
    BY <2>1, <2>2
<1>4. ASSUME NEW c \in Cell PROVE DropPiecese(m)[c] \in Colors \cup {Empty, Ojama}
  <2>1. CASE From(c) = {}
    BY <2>1, <1>2
  <2>2. CASE From(c) # {}
    <3>1. PICK e \in Cell : e = CHOOSE d \in From(c) : TRUE
      BY <2>2, <1>3
    <3>2. m[e] # Marked /\ DropPiecese(m)[c] = m[e]
      <4> HIDE DEF From
      <4> QED
        BY <3>1, <2>2, <1>2, <1>3
    <3>3. m[e] \in Colors \cup {Empty, Ojama, Marked}
      BY DEF Maps
    <3> QED
      BY <3>2, <3>3
  <2> QED
    BY <2>1, <2>2
<1>5. DropPiecese(m) = [c \in Cell |-> DropPiecese(m)[c]]
  BY <1>2
<1>6. DropPiecese(m) \in Boards
  BY <1>4, <1>5 DEF Boards
<1>7. ASSUME NEW d \in Cell, m[d] # Marked PROVE DropPiecese(m)[Landing(m, d)] = m[d]
  <2>1. PICK c \in Cell : c = Landing(m, d)
    BY LandingOnBoard
  <2>2. d \in From(c)
    <3>1. d = <<d[1], d[2]>> /\ d[2] \in Rows /\ d[1] = c[1]
      BY <2>1, CellIs, LandingOnBoard
    <3>2. d \in {c[1]} \X Rows
      BY <3>1
    <3> QED
      BY <3>2, <2>1, <1>7
  <2> HIDE DEF From
  <2>3. PICK e \in Cell : e = CHOOSE x \in From(c) : TRUE
    BY <2>2, <1>3
  <2>4. m[e] # Marked /\ Landing(m, e) = c
    BY <2>2, <2>3, <1>3
  <2>5. e = d
    BY <2>1, <2>4, <1>7, LandsAlone
  <2> QED
    BY <2>1, <2>2, <2>3, <2>5, <1>2
<1>8. ASSUME NEW c \in Cell, DropPiecese(m)[c] # Empty
      PROVE  \E d \in Cell : m[d] # Marked /\ Landing(m, d) = c /\ DropPiecese(m)[c] = m[d]
  <2> HIDE DEF From
  <2>1. From(c) # {}
    BY <1>8, <1>2
  <2>2. PICK e \in Cell : e = CHOOSE x \in From(c) : TRUE
    BY <2>1, <1>3
  <2>3. m[e] # Marked /\ Landing(m, e) = c
    BY <2>1, <2>2, <1>3
  <2> QED
    BY <2>1, <2>2, <2>3, <1>2
<1> QED
  BY <1>6, <1>7, <1>8

\* After the pieces dropped none lies over a gap.
LEMMA DropIsSolid ==
    ASSUME NEW m \in Maps, Solid(m)
    PROVE  Solid(DropPiecese(m))
<1> DEFINE n == DropPiecese(m)
<1> SUFFICES ASSUME NEW c \in Cell, n[c] # Empty, c[2] < Height - 1
             PROVE  n[<<c[1], c[2] + 1>>] # Empty
  BY DEF Solid
<1>1. PICK d \in Cell : m[d] # Marked /\ Landing(m, d) = c /\ n[c] = m[d]
  BY DropIs
<1> HIDE DEF n
<1>2. PICK x \in Columns, y \in Rows : d = <<x, y>>
  BY DEF Cell
<1>3. c = <<x, Fall(m, x, y)>> /\ c[2] = Fall(m, x, y) /\ c[1] = x /\ c[2] \in Rows
  BY <1>1, <1>2, FallIs, CellIs
<1>4. c[2] + 1 \in Fall(m, x, y) + 1..Height - 1
  BY <1>3, HeightIs DEF Rows
<1>5. PICK z \in y + 1..Height - 1 : m[<<x, z>>] # Marked /\ Fall(m, x, z) = c[2] + 1
  BY <1>4, FallStacks DEF Stacks
<1>6. z \in Rows /\ y <= z
  BY HeightIs DEF Rows
<1>7. m[<<x, z>>] # Empty
  BY <1>1, <1>2, <1>3, <1>6, NoGapUnder
<1>8. <<x, z>> \in Cell /\ <<x, z>>[1] = x /\ <<x, z>>[2] = z
  BY <1>6, CellIs DEF Cell
<1>9. Landing(m, <<x, z>>) = <<x, c[2] + 1>>
  BY <1>5, <1>8, FallIs
<1>10. n[<<x, c[2] + 1>>] = m[<<x, z>>]
  BY <1>5, <1>8, <1>9, DropIs DEF n
<1> QED
  BY <1>3, <1>7, <1>10

\* Where the pieces dropped to there are pieces.
LEMMA DroppedAreFilled ==
    ASSUME NEW m \in Maps
    PROVE  DroppedPieces(m) \in SUBSET Cell /\ Filled(DropPiecese(m), DroppedPieces(m))
<1> SUFFICES ASSUME NEW c \in DroppedPieces(m) PROVE c \in Cell /\ DropPiecese(m)[c] # Empty
  BY DEF Filled
<1>1. PICK d \in Cell : m[d] \notin {Marked, Empty} /\ c = Landing(m, d)
  BY DEF DroppedPieces
<1> QED
  BY <1>1, LandingOnBoard, DropIs

\* What FallPieces does to a map, given the columns where pieces vanished.
Falling(m, columns) == {c \in Cell : c[1] \in columns /\ m[c] # Empty /\ Gaps(m, c) > 0}
FallsTo(m, c) == <<c[1], c[2] + Gaps(m, c)>>
Fallen(m, columns) == {FallsTo(m, c) : c \in Falling(m, columns)}
FallenMap(m, columns) ==
    [d \in Cell |->
        IF d \in Fallen(m, columns) THEN m[CHOOSE c \in Falling(m, columns) : FallsTo(m, c) = d]
        ELSE IF d \in Falling(m, columns) THEN Empty ELSE m[d]]

\* Under a piece the empty cells of the game are the marked cells of the search.
LEMMA GapsAreMarks ==
    ASSUME NEW m \in Boards, NEW gone \in SUBSET Cell, \A c \in gone : m[c] = Empty,
           Solid(Mark(m, gone, Marked)), NEW c \in Cell, m[c] # Empty
    PROVE  Gaps(m, c) = Below(Mark(m, gone, Marked), c)
<1> DEFINE n == Mark(m, gone, Marked)
<1>1. c = <<c[1], c[2]>> /\ c[1] \in Columns /\ c[2] \in Rows
  BY CellIs
<1>2. n[<<c[1], c[2]>>] # Empty /\ Solid(n)
  BY <1>1, IdsDiffer DEF Mark
<1>3. ASSUME NEW y \in c[2] + 1..Height - 1
      PROVE  m[<<c[1], y>>] = Empty <=> n[<<c[1], y>>] = Marked
  <2>1. y \in Rows /\ c[2] <= y
    BY <1>1, HeightIs DEF Rows
  <2>2. <<c[1], y>> \in Cell
    BY <1>1, <2>1, CellIs
  <2>3. n[<<c[1], y>>] # Empty
    <3> HIDE DEF n
    <3> QED
      BY <1>1, <1>2, <2>1, NoGapUnder
  <2>4. n[<<c[1], y>>] = IF <<c[1], y>> \in gone THEN Marked ELSE m[<<c[1], y>>]
    BY <2>2 DEF Mark
  <2>5. m[<<c[1], y>>] # Marked
    BY <2>2, IdsDiffer DEF Boards
  <2> QED
    BY <2>3, <2>4, <2>5
<1> HIDE DEF n
<1>4. {y \in c[2] + 1..Height - 1 : m[<<c[1], y>>] = Empty} = {y \in c[2] + 1..Height - 1 : n[<<c[1], y>>] = Marked}
  BY <1>3
<1> QED
  BY <1>4 DEF Gaps, Below, n

\* The game's step of a wave is the search's: the same pieces fall to the same cells.
THEOREM FallIsDrop ==
    ASSUME NEW m \in Boards, NEW gone \in SUBSET Cell, \A c \in gone : m[c] = Empty,
           Solid(Mark(m, gone, Marked)), NEW columns, columns = {c[1] : c \in gone}
    PROVE  /\ Fallen(m, columns) = DroppedPieces(Mark(m, gone, Marked))
           /\ FallenMap(m, columns) = DropPiecese(Mark(m, gone, Marked))
<1> DEFINE n == Mark(m, gone, Marked)
           F == Falling(m, columns)
<1>1. n \in Maps
  BY DEF Mark, Maps, Boards
<1>2. \A c \in Cell : /\ n[c] = IF c \in gone THEN Marked ELSE m[c]
                      /\ m[c] # Marked
                      /\ (m[c] # Empty <=> n[c] \notin {Marked, Empty})
                      /\ (m[c] # Empty => n[c] = m[c])
  BY IdsDiffer DEF Mark, Boards
<1>3. \A c \in Cell : m[c] # Empty => Gaps(m, c) = Below(n, c) /\ Gaps(m, c) \in Nat
  <2> TAKE c \in Cell
  <2> HAVE m[c] # Empty
  <2>1. Gaps(m, c) = Below(n, c)
    BY GapsAreMarks
  <2>2. c = <<c[1], c[2]>> /\ c[2] \in Int
    BY CellIs, HeightIs DEF Rows
  <2>3. Below(n, c) \in Nat
    BY <2>2, BelowIs
  <2> QED
    BY <2>1, <2>3
<1>4. ASSUME NEW c \in Cell, Below(n, c) > 0 PROVE c[1] \in columns
  <2>1. c = <<c[1], c[2]>> /\ c[1] \in Columns /\ c[2] \in Rows /\ c[2] \in Int
    BY CellIs, HeightIs DEF Rows
  <2>2. Below(n, c) = Cardinality(MarkedBelow(n, c[1], c[2]))
    BY <2>1, BelowIs
  <2>3. PICK y : y \in MarkedBelow(n, c[1], c[2])
    BY <1>4, <2>2, FS_EmptySet
  <2>4. y \in Rows /\ n[<<c[1], y>>] = Marked
    BY <2>1, <2>3, HeightIs DEF MarkedBelow, Rows
  <2>5. <<c[1], y>> \in Cell /\ <<c[1], y>>[1] = c[1]
    BY <2>1, <2>4, CellIs
  <2>6. <<c[1], y>> \in gone
    BY <1>2, <2>4, <2>5
  <2> QED
    BY <2>5, <2>6
<1> HIDE DEF n
<1>5. F = {d \in Cell : n[d] \notin {Marked, Empty} /\ Below(n, d) > 0}
  BY <1>2, <1>3, <1>4 DEF Falling
<1>6. \A c \in F : FallsTo(m, c) = Landing(n, c)
  BY <1>2, <1>3, <1>5 DEF FallsTo, Landing
<1>7. Fallen(m, columns) = DroppedPieces(n)
  <2> HIDE DEF F
  <2>1. Fallen(m, columns) = {Landing(n, c) : c \in F}
    BY <1>6 DEF Fallen, F
  <2> QED
    BY <1>5, <2>1 DEF DroppedPieces
<1>8. ASSUME NEW d \in Cell PROVE FallenMap(m, columns)[d] = DropPiecese(n)[d]
  <2> HIDE DEF F
  <2>1. CASE d \in Fallen(m, columns)
    <3>1. \E c \in F : FallsTo(m, c) = d
      BY <2>1 DEF Fallen, F
    <3>2. PICK c \in F : c = CHOOSE e \in F : FallsTo(m, e) = d
      BY <3>1
    <3>3. FallsTo(m, c) = d
      BY <3>1, <3>2
    <3>4. c \in Cell /\ n[c] # Marked /\ n[c] = m[c] /\ Landing(n, c) = d
      BY <1>2, <1>5, <1>6, <3>3
    <3>5. FallenMap(m, columns)[d] = m[c]
      BY <2>1, <3>2 DEF FallenMap, F
    <3>6. DropPiecese(n)[d] = n[c]
      BY <3>4, <1>1, DropIs
    <3> QED
      BY <3>4, <3>5, <3>6
  <2>2. ASSUME d \notin Fallen(m, columns), DropPiecese(n)[d] # Empty
        PROVE  d \notin F /\ m[d] # Empty
    <3>1. PICK e \in Cell : n[e] # Marked /\ Landing(n, e) = d /\ DropPiecese(n)[d] = n[e]
      BY <2>2, <1>1, DropIs
    <3>2. n[e] \notin {Marked, Empty}
      BY <2>2, <3>1
    <3>3. e \notin F
      BY <2>2, <1>6, <3>1 DEF Fallen, F
    <3>4. e = <<e[1], e[2]>> /\ e[2] \in Nat /\ Below(n, e) \in Nat
      BY <1>2, <1>3, <3>2, CellIs, HeightIs DEF Rows
    <3>5. Below(n, e) = 0
      BY <1>5, <3>2, <3>3, <3>4
    <3>6. d = e
      BY <3>1, <3>4, <3>5 DEF Landing
    <3> QED
      BY <1>2, <3>2, <3>3, <3>6
  <2>3. CASE d \notin Fallen(m, columns) /\ d \in F
    BY <2>2, <2>3 DEF FallenMap, F
  <2>4. CASE d \notin Fallen(m, columns) /\ d \notin F
    <3>1. FallenMap(m, columns)[d] = m[d]
      BY <2>4 DEF FallenMap, F
    <3>2. CASE m[d] = Empty
      BY <2>2, <2>4, <3>1, <3>2
    <3>3. CASE m[d] # Empty
      <4>1. n[d] \notin {Marked, Empty} /\ n[d] = m[d] /\ Below(n, d) \in Nat
        BY <1>2, <1>3, <3>3
      <4>2. Below(n, d) = 0
        BY <1>5, <2>4, <4>1
      <4>3. d = <<d[1], d[2]>> /\ d[2] \in Nat
        BY CellIs, HeightIs DEF Rows
      <4>4. Landing(n, d) = d
        BY <4>2, <4>3 DEF Landing
      <4> QED
        BY <1>1, <3>1, <4>1, <4>4, DropIs
    <3> QED
      BY <3>2, <3>3
  <2> QED
    BY <2>1, <2>3, <2>4
<1>9. FallenMap(m, columns) = [d \in Cell |-> FallenMap(m, columns)[d]]
  BY DEF FallenMap
<1>10. DropPiecese(n) = [d \in Cell |-> DropPiecese(n)[d]]
  BY DEF DropPiecese
<1>11. FallenMap(m, columns) = DropPiecese(n)
  BY <1>8, <1>9, <1>10
<1> QED
  BY <1>7, <1>11 DEF n

----------------------------------------------------------------------------
(* Waves.                                                                          *)

\* What is marked for the next wave is what vanishes in the game, from what dropped.
LEMMA NextIs ==
    ASSUME NEW m \in Maps
    PROVE  LET dropped == DropPiecese(m)
               gone == Vanishing(dropped, DroppedPieces(m))
           IN  /\ NextMarked(m) = Mark(dropped, gone, Marked)
               /\ gone \in SUBSET Cell /\ Filled(dropped, gone)
<1>1. DropPiecese(m) \in Boards
  BY DropIs
<1>2. DroppedPieces(m) \in SUBSET Cell /\ Filled(DropPiecese(m), DroppedPieces(m))
  BY DroppedAreFilled
<1>3. NextMarked(m) = CountAndMarkConnectedPieces(DropPiecese(m), Normal(DropPiecese(m), DroppedPieces(m)))
  BY DEF NextMarked, Normal
<1> QED
  BY <1>1, <1>2, <1>3, MarksVanishing, VanishingPieces

LEMMA MarkedIsMap ==
    ASSUME NEW m \in Boards, NEW cells
    PROVE  Mark(m, cells, Marked) \in Maps
  BY DEF Mark, Maps, Boards

LEMMA MarkedIsSolid ==
    ASSUME NEW m, NEW cells, Solid(m), \A c \in cells : m[c] # Empty
    PROVE  Solid(Mark(m, cells, Marked))
<1> DEFINE n == Mark(m, cells, Marked)
<1>1. \A c \in Cell : n[c] # Empty <=> m[c] # Empty
  BY IdsDiffer DEF Mark
<1> HIDE DEF n
<1> SUFFICES ASSUME NEW c \in Cell, n[c] # Empty, c[2] < Height - 1
             PROVE  n[<<c[1], c[2] + 1>>] # Empty
  BY DEF Solid, n
<1>2. m[<<c[1], c[2] + 1>>] # Empty
  BY <1>1 DEF Solid
<1>3. c[1] \in Columns /\ c[2] + 1 \in Rows
  BY CellIs, HeightIs DEF Rows
<1>4. <<c[1], c[2] + 1>> \in Cell
  BY <1>3, CellIs
<1> QED
  BY <1>1, <1>2, <1>4

LEMMA NextIsMap ==
    ASSUME NEW m \in Maps
    PROVE  NextMarked(m) \in Maps /\ (Solid(m) => Solid(NextMarked(m)))
<1> DEFINE n == DropPiecese(m)
           gone == Vanishing(n, DroppedPieces(m))
<1>1. NextMarked(m) = Mark(n, gone, Marked) /\ Filled(n, gone)
  BY NextIs
<1>2. n \in Boards /\ (Solid(m) => Solid(n))
  BY DropIs, DropIsSolid
<1> HIDE DEF n, gone
<1> QED
  BY <1>1, <1>2, MarkedIsMap, MarkedIsSolid DEF Filled

Pieces(m) == {c \in Cell : m[c] \notin {Empty, Marked}}

\* Dropping makes no pieces.
LEMMA DropKeepsPieces ==
    ASSUME NEW m \in Maps
    PROVE  Cardinality(Pieces(DropPiecese(m))) <= Cardinality(Pieces(m))
<1> DEFINE n == DropPiecese(m)
           source == [c \in Pieces(n) |->
                        CHOOSE d \in Cell : m[d] # Marked /\ Landing(m, d) = c /\ n[c] = m[d]]
<1>1. ASSUME NEW c \in Pieces(n)
      PROVE  source[c] \in Pieces(m) /\ Landing(m, source[c]) = c
  <2>1. c \in Cell /\ n[c] # Empty /\ n[c] # Marked
    BY DEF Pieces
  <2>2. \E d \in Cell : m[d] # Marked /\ Landing(m, d) = c /\ n[c] = m[d]
    BY <2>1, DropIs
  <2>3. source[c] = CHOOSE d \in Cell : m[d] # Marked /\ Landing(m, d) = c /\ n[c] = m[d]
    OBVIOUS
  <2> HIDE DEF source, n
  <2>4. source[c] \in Cell /\ m[source[c]] # Marked /\ Landing(m, source[c]) = c /\ n[c] = m[source[c]]
    BY <2>2, <2>3
  <2> QED
    BY <2>1, <2>4 DEF Pieces
<1>2. source \in [Pieces(n) -> Pieces(m)]
  <2>1. source = [c \in Pieces(n) |-> source[c]]
    OBVIOUS
  <2> HIDE DEF source
  <2> QED
    BY <1>1, <2>1
<1>3. source \in Injection(Pieces(n), Pieces(m))
  <2> HIDE DEF source, n
  <2> QED
    BY <1>1, <1>2 DEF Injection, IsInjective
<1>4. Pieces(m) \in SUBSET Cell
  BY DEF Pieces
<1>5. IsFiniteSet(Pieces(m))
  BY <1>4, SubsetsOfCells
<1>6. Cardinality(Pieces(n)) <= Cardinality(Pieces(m))
  <2> HIDE DEF source, n
  <2> QED
    BY <1>3, <1>5, FS_Injection
<1> QED
  BY <1>6

LEMMA PiecesAreCells ==
    ASSUME NEW m
    PROVE  Pieces(m) \in SUBSET Cell /\ IsFiniteSet(Pieces(m))
           /\ Cardinality(Pieces(m)) \in Nat /\ Cardinality(Pieces(m)) <= Cardinality(Cell)
<1>1. Pieces(m) \in SUBSET Cell
  BY DEF Pieces
<1> QED
  BY <1>1, SubsetsOfCells

\* A wave takes pieces away, so that there are only as many as there are pieces.
LEMMA WavesTakePieces ==
    ASSUME NEW m \in Maps, NextMarked(m) # DropPiecese(m)
    PROVE  Cardinality(Pieces(NextMarked(m))) < Cardinality(Pieces(m))
<1> DEFINE n == DropPiecese(m)
           gone == Vanishing(n, DroppedPieces(m))
<1>1. NextMarked(m) = Mark(n, gone, Marked) /\ gone \in SUBSET Cell /\ Filled(n, gone) /\ n \in Boards
  BY NextIs, DropIs
<1> HIDE DEF gone
<1>2. \A c \in Cell : n[c] # Marked
  BY <1>1, IdsDiffer DEF Boards
<1>3. PICK c : c \in gone
  <2> SUFFICES ASSUME gone = {} PROVE FALSE
    OBVIOUS
  <2>1. NextMarked(m) = [d \in Cell |-> n[d]]
    BY <1>1 DEF Mark
  <2>2. n = [d \in Cell |-> n[d]]
    BY DEF DropPiecese
  <2> QED
    BY <2>1, <2>2
<1> DEFINE A == Pieces(n)
           B == Pieces(NextMarked(m))
<1>4. c \in A /\ B \in SUBSET (A \ {c})
  <2>1. c \in Cell /\ n[c] # Empty /\ n[c] # Marked
    BY <1>1, <1>2, <1>3 DEF Filled
  <2>2. \A d \in Cell : NextMarked(m)[d] = IF d \in gone THEN Marked ELSE n[d]
    BY <1>1 DEF Mark
  <2> HIDE DEF n
  <2> QED
    BY <1>3, <2>1, <2>2 DEF Pieces
<1>5. IsFiniteSet(A) /\ Cardinality(A) \in Nat /\ Cardinality(B) \in Nat
  BY PiecesAreCells
<1>6. Cardinality(A) <= Cardinality(Pieces(m)) /\ Cardinality(Pieces(m)) \in Nat
  BY DropKeepsPieces, PiecesAreCells
<1> HIDE DEF A, B, n
<1>7. IsFiniteSet(A \ {c}) /\ Cardinality(A \ {c}) = Cardinality(A) - 1
  BY <1>4, <1>5, FS_RemoveElement
<1>8. Cardinality(B) <= Cardinality(A \ {c})
  BY <1>4, <1>7, FS_Subset
<1>9. Cardinality(B) < Cardinality(Pieces(m))
  BY <1>5, <1>6, <1>7, <1>8
<1> QED
  BY <1>9 DEF B

Ends == [map : Boards, last : Maps, follow : Nat]
LastWave(m, follow) == [map |-> DropPiecese(m), last |-> m, follow |-> follow]
OneMore(r) == [r EXCEPT !.follow = @ + 1]

\* What the cache holds: maps that no wave follows, with some number.
Caches ==
    {known \in UNION {[D -> Nat] : D \in SUBSET Maps} :
        \A m \in DOMAIN known : NextMarked(m) = DropPiecese(m)}

LEMMA CachesHold ==
    ASSUME NEW known \in Caches
    PROVE  \A m \in DOMAIN known : m \in Maps /\ known[m] \in Nat /\ NextMarked(m) = DropPiecese(m)
<1>1. PICK D \in SUBSET Maps : known \in [D -> Nat]
  BY DEF Caches
<1> QED
  BY <1>1 DEF Caches

LEMMA EndsAre ==
    /\ \A m \in Maps, k \in Nat : LastWave(m, k) \in Ends
    /\ \A r \in Ends : OneMore(r) \in Ends /\ OneMore(r).map = r.map /\ OneMore(r).last = r.last
                       /\ OneMore(r).follow = r.follow + 1
<1>1. ASSUME NEW m \in Maps, NEW k \in Nat PROVE LastWave(m, k) \in Ends
  BY DropIs DEF LastWave, Ends
<1>2. ASSUME NEW r \in Ends
      PROVE  OneMore(r) \in Ends /\ OneMore(r).map = r.map /\ OneMore(r).last = r.last
             /\ OneMore(r).follow = r.follow + 1
  BY DEF OneMore, Ends
<1> QED
  BY <1>1, <1>2

WaveEquation(known, rest) ==
    \A m \in Maps :
        rest[m] = IF m \in DOMAIN known THEN LastWave(m, known[m])
                  ELSE IF NextMarked(m) = DropPiecese(m) THEN LastWave(m, 0)
                  ELSE OneMore(rest[NextMarked(m)])

\* The recursion of GetChainCount has a value for every map: waves end.
THEOREM WavesAre ==
    ASSUME NEW known \in Caches
    PROVE  Waves(known) \in [Maps -> Ends] /\ WaveEquation(known, Waves(known))
<1> DEFINE D == Maps
           S == Ends
           step == [q \in D \X [D -> S] |->
                      IF q[1] \in DOMAIN known THEN LastWave(q[1], known[q[1]])
                      ELSE IF NextMarked(q[1]) = DropPiecese(q[1]) THEN LastWave(q[1], 0)
                      ELSE OneMore(q[2][NextMarked(q[1])])]
           rank == [m \in D |-> Cardinality(Pieces(m))]
           K == Cardinality(Cell)
<1>1. \A m \in D : NextMarked(m) \in D
  BY NextIsMap
<1>2. step \in Steps(D, S)
  <2>1. ASSUME NEW m \in D, NEW f \in [D -> S]
        PROVE  /\ (m \in DOMAIN known => LastWave(m, known[m]) \in S)
               /\ LastWave(m, 0) \in S /\ OneMore(f[NextMarked(m)]) \in S
    <3>1. m \in DOMAIN known => known[m] \in Nat
      BY CachesHold
    <3>2. f[NextMarked(m)] \in S
      <4> HIDE DEF S, D
      <4> QED
        BY <1>1
    <3> QED
      BY <3>1, <3>2, EndsAre
  <2> HIDE DEF D, S
  <2> QED
    BY <2>1 DEF Steps
<1>3. rank \in [D -> 0..K]
  <2>1. \A m \in D : Cardinality(Pieces(m)) \in 0..K
    BY PiecesAreCells, CellsAreFinite
  <2> HIDE DEF D, K
  <2> QED
    BY <2>1
<1>4. Descends(D, S, rank, step)
  <2>1. ASSUME NEW m \in D, NEW f \in [D -> S], NEW g \in [D -> S],
               \A k \in D : rank[k] < rank[m] => f[k] = g[k]
        PROVE  step[<<m, f>>] = step[<<m, g>>]
    <3>1. CASE m \in DOMAIN known \/ NextMarked(m) = DropPiecese(m)
      <4> HIDE DEF S, D
      <4> QED
        BY <3>1
    <3>2. CASE m \notin DOMAIN known /\ NextMarked(m) # DropPiecese(m)
      <4>1. rank[NextMarked(m)] < rank[m]
        BY <3>2, <1>1, WavesTakePieces
      <4>2. f[NextMarked(m)] = g[NextMarked(m)]
        <5> HIDE DEF rank, S, D
        <5> QED
          BY <4>1, <2>1, <1>1
      <4> HIDE DEF S, D
      <4> QED
        BY <3>2, <4>2
    <3> QED
      BY <3>1, <3>2
  <2> HIDE DEF D, S, rank, step
  <2> QED
    BY <2>1 DEF Descends
<1>5. Solutions(D, S, step) # {}
  <2>1. S # {}
    <3>1. [c \in Cell |-> Empty] \in Maps
      BY DEF Maps
    <3>2. LastWave([c \in Cell |-> Empty], 0) \in Ends
      BY <3>1, EndsAre
    <3> QED
      BY <3>2
  <2>2. K \in Nat
    BY CellsAreFinite
  <2> HIDE DEF D, S, step, rank, K
  <2> QED
    BY <1>2, <1>3, <1>4, <2>1, <2>2, RankRecursion
<1>6. PICK f \in [D -> S] : \A m \in D : f[m] = step[<<m, f>>]
  BY <1>5 DEF Solutions
<1> HIDE DEF rank, K
<1>7. f = [m \in Maps |->
              IF m \in DOMAIN known
                THEN [map |-> DropPiecese(m), last |-> m, follow |-> known[m]]
              ELSE IF NextMarked(m) = DropPiecese(m)
                THEN [map |-> DropPiecese(m), last |-> m, follow |-> 0]
              ELSE [f[NextMarked(m)] EXCEPT !.follow = @ + 1]]
  <2>1. f = [m \in D |-> step[<<m, f>>]]
    <3> HIDE DEF S, step
    <3> QED
      BY <1>6
  <2>2. \A m \in D : step[<<m, f>>] =
              IF m \in DOMAIN known
                THEN [map |-> DropPiecese(m), last |-> m, follow |-> known[m]]
              ELSE IF NextMarked(m) = DropPiecese(m)
                THEN [map |-> DropPiecese(m), last |-> m, follow |-> 0]
              ELSE [f[NextMarked(m)] EXCEPT !.follow = @ + 1]
    <3> HIDE DEF S, D
    <3> QED
      BY DEF LastWave, OneMore
  <2> HIDE DEF step, S
  <2> QED
    BY <2>1, <2>2
<1> DEFINE table == CHOOSE g : g = [m \in Maps |->
              IF m \in DOMAIN known
                THEN [map |-> DropPiecese(m), last |-> m, follow |-> known[m]]
              ELSE IF NextMarked(m) = DropPiecese(m)
                THEN [map |-> DropPiecese(m), last |-> m, follow |-> 0]
              ELSE [g[NextMarked(m)] EXCEPT !.follow = @ + 1]]
<1>8. table = [m \in Maps |->
              IF m \in DOMAIN known
                THEN [map |-> DropPiecese(m), last |-> m, follow |-> known[m]]
              ELSE IF NextMarked(m) = DropPiecese(m)
                THEN [map |-> DropPiecese(m), last |-> m, follow |-> 0]
              ELSE [table[NextMarked(m)] EXCEPT !.follow = @ + 1]]
  <2> HIDE DEF step, D, S
  <2> QED
    BY <1>7
<1>9. Waves(known) = table
  BY DEF Waves
<1> HIDE DEF table, step
<1>10. WaveEquation(known, table)
  <2>1. \A m \in Maps : table[m] =
              IF m \in DOMAIN known
                THEN [map |-> DropPiecese(m), last |-> m, follow |-> known[m]]
              ELSE IF NextMarked(m) = DropPiecese(m)
                THEN [map |-> DropPiecese(m), last |-> m, follow |-> 0]
              ELSE [table[NextMarked(m)] EXCEPT !.follow = @ + 1]
    BY <1>8
  <2> QED
    BY <2>1 DEF WaveEquation, LastWave, OneMore
<1> DEFINE T == {n \in Nat : \A m \in Maps : Cardinality(Pieces(m)) < n => table[m] \in Ends}
<1>11. Nat \subseteq T
  <2>1. 0 \in T
    BY PiecesAreCells
  <2>2. ASSUME NEW n \in Nat, n \in T PROVE n + 1 \in T
    <3> SUFFICES ASSUME NEW m \in Maps, Cardinality(Pieces(m)) < n + 1 PROVE table[m] \in Ends
      OBVIOUS
    <3>1. CASE m \in DOMAIN known
      <4>1. table[m] = LastWave(m, known[m]) /\ known[m] \in Nat
        BY <3>1, <1>10, CachesHold DEF WaveEquation
      <4> QED
        BY <4>1, EndsAre
    <3>2. CASE m \notin DOMAIN known /\ NextMarked(m) = DropPiecese(m)
      <4>1. table[m] = LastWave(m, 0)
        BY <3>2, <1>10 DEF WaveEquation
      <4> QED
        BY <4>1, EndsAre
    <3>3. CASE m \notin DOMAIN known /\ NextMarked(m) # DropPiecese(m)
      <4>1. table[m] = OneMore(table[NextMarked(m)])
        BY <3>3, <1>10 DEF WaveEquation
      <4>2. NextMarked(m) \in Maps
        BY NextIsMap
      <4>3. Cardinality(Pieces(NextMarked(m))) < Cardinality(Pieces(m))
        BY <3>3, WavesTakePieces
      <4>4. Cardinality(Pieces(NextMarked(m))) < n
        BY <4>3, PiecesAreCells
      <4>5. table[NextMarked(m)] \in Ends
        BY <2>2, <4>2, <4>4
      <4> QED
        BY <4>1, <4>5, EndsAre
    <3> QED
      BY <3>1, <3>2, <3>3
  <2> HIDE DEF T
  <2> QED
    BY <2>1, <2>2, Induction
<1>12. \A m \in Maps : table[m] \in Ends
  <2> SUFFICES ASSUME NEW m \in Maps PROVE table[m] \in Ends
    OBVIOUS
  <2>1. PICK n \in Nat : n = Cardinality(Pieces(m))
    BY PiecesAreCells
  <2>2. n + 1 \in T
    <3>1. n + 1 \in Nat
      OBVIOUS
    <3> HIDE DEF T
    <3> QED
      BY <3>1, <1>11
  <2>3. Cardinality(Pieces(m)) < n + 1
    BY <2>1
  <2> QED
    BY <2>2, <2>3
<1>13. table \in [Maps -> Ends]
  <2>1. table = [m \in Maps |-> table[m]]
    BY <1>8
  <2> QED
    BY <2>1, <1>12
<1> QED
  BY <1>9, <1>10, <1>13

\* The waves without a cache: what really follows.
NoCache == [m \in {} |-> 0]
Final(m) == Waves(NoCache)[m]

LEMMA EmptyCache == NoCache \in Caches /\ << >> \in Caches
<1>1. {} \in SUBSET Maps
  OBVIOUS
<1>2. NoCache \in [{} -> Nat] /\ << >> \in [{} -> Nat]
  BY DEF NoCache
<1>3. DOMAIN NoCache = {} /\ DOMAIN << >> = {}
  BY DEF NoCache
<1> QED
  BY <1>1, <1>2, <1>3 DEF Caches

LEMMA FinalIs ==
    ASSUME NEW m \in Maps
    PROVE  /\ Final(m) \in Ends
           /\ NextMarked(m) = DropPiecese(m) => Final(m).map = DropPiecese(m) /\ Final(m).follow = 0
           /\ NextMarked(m) # DropPiecese(m) =>
                 /\ Final(m).map = Final(NextMarked(m)).map
                 /\ Final(m).follow = Final(NextMarked(m)).follow + 1
<1>1. DOMAIN NoCache = {} /\ NoCache \in Caches
  BY EmptyCache DEF NoCache
<1>2. Waves(NoCache) \in [Maps -> Ends] /\ WaveEquation(NoCache, Waves(NoCache))
  BY <1>1, WavesAre
<1>3. NextMarked(m) \in Maps
  BY NextIsMap
<1>4. Final(m) \in Ends /\ Final(NextMarked(m)) \in Ends
  BY <1>2, <1>3 DEF Final
<1>5. Final(m) = IF NextMarked(m) = DropPiecese(m) THEN LastWave(m, 0) ELSE OneMore(Final(NextMarked(m)))
  BY <1>1, <1>2 DEF Final, WaveEquation
<1>6. LastWave(m, 0).map = DropPiecese(m) /\ LastWave(m, 0).follow = 0
  BY DEF LastWave
<1> QED
  BY <1>4, <1>5, <1>6, EndsAre

\* With a cache the search ends on the same map, and counts no fewer waves.
Overcounts(known, m) ==
    LET r == Waves(known)[m]
    IN  /\ r.map = Final(m).map /\ r.follow >= Final(m).follow
        /\ NextMarked(r.last) = DropPiecese(r.last)

THEOREM CacheOvercounts ==
    ASSUME NEW known \in Caches, NEW m \in Maps
    PROVE  Overcounts(known, m)
<1> DEFINE W == Waves(known)
           T == {n \in Nat : \A k \in Maps : Cardinality(Pieces(k)) < n => Overcounts(known, k)}
<1>1. W \in [Maps -> Ends] /\ WaveEquation(known, W)
  BY WavesAre
<1>2. \A k \in Maps, i \in Nat :
         /\ LastWave(k, i).map = DropPiecese(k) /\ LastWave(k, i).follow = i /\ LastWave(k, i).last = k
  BY DEF LastWave
<1>3. Nat \subseteq T
  <2>1. 0 \in T
    BY PiecesAreCells
  <2>2. ASSUME NEW n \in Nat, n \in T PROVE n + 1 \in T
    <3> SUFFICES ASSUME NEW k \in Maps, Cardinality(Pieces(k)) < n + 1 PROVE Overcounts(known, k)
      OBVIOUS
    <3>1. CASE k \in DOMAIN known
      <4>1. W[k] = LastWave(k, known[k]) /\ known[k] \in Nat /\ NextMarked(k) = DropPiecese(k)
        BY <3>1, <1>1, CachesHold DEF WaveEquation
      <4>2. Final(k).map = DropPiecese(k) /\ Final(k).follow = 0
        BY <4>1, FinalIs
      <4>3. W[k].map = DropPiecese(k) /\ W[k].follow = known[k] /\ W[k].last = k
        BY <4>1, <1>2
      <4> QED
        BY <4>1, <4>2, <4>3 DEF Overcounts
    <3>2. CASE k \notin DOMAIN known /\ NextMarked(k) = DropPiecese(k)
      <4>1. W[k] = LastWave(k, 0)
        BY <3>2, <1>1 DEF WaveEquation
      <4>2. Final(k).map = DropPiecese(k) /\ Final(k).follow = 0
        BY <3>2, FinalIs
      <4>3. W[k].map = DropPiecese(k) /\ W[k].follow = 0 /\ W[k].last = k
        BY <4>1, <1>2
      <4> QED
        BY <3>2, <4>2, <4>3 DEF Overcounts
    <3>3. CASE k \notin DOMAIN known /\ NextMarked(k) # DropPiecese(k)
      <4>1. W[k] = OneMore(W[NextMarked(k)])
        BY <3>3, <1>1 DEF WaveEquation
      <4>2. NextMarked(k) \in Maps
        BY NextIsMap
      <4>3. Cardinality(Pieces(NextMarked(k))) < Cardinality(Pieces(k))
        BY <3>3, WavesTakePieces
      <4>4. Cardinality(Pieces(NextMarked(k))) < n
        BY <4>3, PiecesAreCells
      <4>5. Overcounts(known, NextMarked(k))
        BY <2>2, <4>2, <4>4
      <4>6. W[NextMarked(k)] \in Ends
        BY <1>1, <4>2
      <4>7. W[k].map = W[NextMarked(k)].map /\ W[k].last = W[NextMarked(k)].last
            /\ W[k].follow = W[NextMarked(k)].follow + 1
        BY <4>1, <4>6, EndsAre
      <4>8. Final(k).map = Final(NextMarked(k)).map /\ Final(k).follow = Final(NextMarked(k)).follow + 1
        BY <3>3, FinalIs
      <4>9. W[NextMarked(k)].follow \in Nat /\ Final(NextMarked(k)).follow \in Nat
        BY <4>2, <4>6, FinalIs DEF Ends
      <4> HIDE DEF W
      <4>10. /\ W[NextMarked(k)].map = Final(NextMarked(k)).map
             /\ W[NextMarked(k)].follow >= Final(NextMarked(k)).follow
             /\ NextMarked(W[NextMarked(k)].last) = DropPiecese(W[NextMarked(k)].last)
        BY <4>5 DEF Overcounts, W
      <4>11. /\ W[k].map = Final(k).map /\ W[k].follow >= Final(k).follow
             /\ NextMarked(W[k].last) = DropPiecese(W[k].last)
        BY <4>7, <4>8, <4>9, <4>10
      <4> QED
        BY <4>11 DEF Overcounts, W
    <3> QED
      BY <3>1, <3>2, <3>3
  <2> HIDE DEF T
  <2> QED
    BY <2>1, <2>2, Induction
<1>4. PICK n \in Nat : n = Cardinality(Pieces(m))
  BY PiecesAreCells
<1>5. n + 1 \in T
  <2>1. n + 1 \in Nat
    OBVIOUS
  <2> HIDE DEF T
  <2> QED
    BY <2>1, <1>3
<1>6. Cardinality(Pieces(m)) < n + 1
  BY <1>4
<1> QED
  BY <1>5, <1>6

\* What the search says of a map in which pieces landed, after w waves: the map that is
\* left in the end, and a number of waves that is not too small.
Plays(m, cells, w, ch) ==
    LET gone == Vanishing(m, cells)
        marked == Mark(m, gone, Marked)
    IN  IF gone = {} THEN ch.map = m /\ ch.chain >= w
        ELSE ch.map = Final(marked).map /\ ch.chain >= w + 1 + Final(marked).follow

Answer == [map : Boards, chain : Nat, cache : Caches]

Kept(known, m, k) == [x \in DOMAIN known \cup {m} |-> IF x \in DOMAIN known THEN known[x] ELSE k]

LEMMA CacheGrows ==
    ASSUME NEW known \in Caches, NEW m \in Maps, NEW k \in Nat, NextMarked(m) = DropPiecese(m)
    PROVE  Kept(known, m, k) \in Caches
<1>1. PICK D \in SUBSET Maps : known \in [D -> Nat]
  BY DEF Caches
<1>2. D \cup {m} \in SUBSET Maps /\ Kept(known, m, k) \in [D \cup {m} -> Nat]
  BY <1>1 DEF Kept
<1>3. \A x \in DOMAIN Kept(known, m, k) : NextMarked(x) = DropPiecese(x)
  BY <1>1, CachesHold DEF Kept
<1> QED
  BY <1>2, <1>3 DEF Caches

LEMMA ChainCounted ==
    ASSUME NEW m \in Boards, NEW cells \in SUBSET Cell, \A c \in cells : IsNormalPiece(m[c]),
           NEW known \in Caches
    PROVE  /\ Evaluation(m, cells, known) \in Answer
           /\ Plays(m, cells, 0, Evaluation(m, cells, known))
<1> DEFINE gone == Vanishing(m, cells)
           marked == Mark(m, gone, Marked)
           r == Waves(known)[marked]
           e == Evaluation(m, cells, known)
<1>1. Filled(m, cells) /\ Normal(m, cells) = cells
  BY DEF Filled, Normal, IsNormalPiece
<1>2. CountAndMarkConnectedPieces(m, cells) = marked
  BY <1>1, MarksVanishing
<1>3. gone \in SUBSET Cell
  BY <1>1, VanishingPieces
<1>4. gone = {} <=> marked = m
  <2>1. m = [c \in Cell |-> m[c]] /\ \A c \in Cell : m[c] # Marked
    BY IdsDiffer DEF Boards
  <2>2. ASSUME gone = {} PROVE marked = m
    BY <2>1, <2>2 DEF Mark
  <2>3. ASSUME NEW c \in gone PROVE marked # m
    <3>1. marked[c] = Marked
      BY <1>3, <2>3 DEF Mark
    <3> QED
      BY <1>3, <2>1, <3>1
  <2> QED
    BY <2>2, <2>3
<1>5. marked \in Maps
  BY MarkedIsMap
<1>6. r \in Ends /\ Overcounts(known, marked)
  BY <1>5, WavesAre, CacheOvercounts
<1>7. CASE \E c \in Cell : m[c] # Empty /\ GetLinkCount(m, c) >= Linking
  <2>1. e = GetChainCount(m, cells, known)
    BY <1>7 DEF Evaluation
  <2>2. CASE gone = {}
    <3>1. e = [map |-> m, chain |-> 0, cache |-> known]
      BY <1>2, <1>4, <2>1, <2>2 DEF GetChainCount
    <3>2. e \in Answer
      BY <3>1 DEF Answer
    <3>3. e.map = m /\ e.chain >= 0
      BY <3>1
    <3> QED
      BY <2>2, <3>2, <3>3 DEF Plays
  <2>3. CASE gone # {}
    <3>1. e = [map |-> r.map, chain |-> r.follow + 1,
               cache |-> Kept(known, r.last, r.follow)]
      BY <1>2, <1>4, <2>1, <2>3 DEF GetChainCount, Kept
    <3> HIDE DEF e, r
    <3>2. r.map \in Boards /\ r.last \in Maps /\ r.follow \in Nat
      BY <1>6 DEF Ends
    <3>3. NextMarked(r.last) = DropPiecese(r.last) /\ r.map = Final(marked).map /\ r.follow >= Final(marked).follow
      BY <1>6 DEF Overcounts, r
    <3>4. Kept(known, r.last, r.follow) \in Caches
      BY <3>2, <3>3, CacheGrows
    <3>5. e \in Answer /\ e.map = r.map /\ e.chain = r.follow + 1
      BY <3>1, <3>2, <3>4 DEF Answer
    <3>6. Final(marked).follow \in Nat
      BY <1>5, FinalIs DEF Ends
    <3>7. e.chain >= 0 + 1 + Final(marked).follow
      BY <3>2, <3>3, <3>5, <3>6
    <3> QED
      BY <2>3, <3>3, <3>5, <3>7 DEF Plays, e
  <2> QED
    BY <2>2, <2>3
<1>8. CASE ~ \E c \in Cell : m[c] # Empty /\ GetLinkCount(m, c) >= Linking
  <2>1. e = [map |-> m, chain |-> 0, cache |-> known]
    BY <1>8 DEF Evaluation
  <2>2. gone = {}
    <3>1. Large(m, {c \in cells : ~IsOjamaPiece(m[c])}) = {}
      BY <1>1, <1>8 DEF Large, GetLinkCount, Filled
    <3>2. OjamaAt(m, UNION {Neighbours(c) : c \in UNION {}}) = {}
      BY DEF OjamaAt
    <3> QED
      BY <3>1, <3>2 DEF Vanishing
  <2>3. e \in Answer /\ e.map = m /\ e.chain >= 0
    BY <2>1 DEF Answer
  <2> QED
    BY <2>2, <2>3 DEF Plays
<1> QED
  BY <1>7, <1>8

----------------------------------------------------------------------------
(* Placements.                                                                     *)

\* A set of numbers below a bound has a greatest one.
LEMMA Greatest ==
    ASSUME NEW n \in Int, NEW S, S \subseteq Int, S # {}, \A y \in S : y <= n
    PROVE  Max(S) \in S /\ \A y \in S : Max(S) >= y
<1> DEFINE T == {k \in Nat : n - k \in S}
<1>1. PICK y \in S : TRUE
  OBVIOUS
<1>2. n - y \in Nat /\ n - (n - y) = y
  BY <1>1
<1>3. T # {} /\ T \in SUBSET Nat
  BY <1>2
<1>4. PICK k \in T : \A j \in T : k <= j
  <2> HIDE DEF T
  <2> QED
    BY <1>3, LeastNat
<1>5. ASSUME NEW z \in S PROVE n - k >= z
  <2>1. z \in Int /\ n - z \in Nat /\ n - (n - z) = z
    OBVIOUS
  <2>2. n - z \in T
    BY <2>1
  <2>3. k <= n - z /\ k \in Nat
    <3> HIDE DEF T
    <3>1. k <= n - z
      BY <1>4, <2>2
    <3> QED
      BY <3>1 DEF T
  <2> HIDE DEF T
  <2> QED
    BY <2>1, <2>3
<1>6. n - k \in S
  BY <1>4
<1>7. Max(S) = n - k
  <2> HIDE DEF T
  <2> QED
    BY <1>5, <1>6, MaxIs
<1> QED
  BY <1>5, <1>6, <1>7

LEMMA FloorIs ==
    ASSUME NEW board, NEW x \in Columns
    PROVE  /\ Floor(board, x) \in Rows
           /\ Floor(board, x) > 0 => <<x, Floor(board, x)>> \notin board
           /\ \A y \in Rows \ {0} : <<x, y>> \notin board => y <= Floor(board, x)
<1> USE HeightIs
<1> DEFINE free == {0} \cup {y \in Rows \ {0} : <<x, y>> \notin board}
<1>1. free \subseteq Int /\ free # {} /\ free \subseteq Rows /\ \A y \in free : y <= Height - 1
  BY DEF Rows
<1>2. Max(free) \in free /\ \A y \in free : Max(free) >= y
  <2>1. Height - 1 \in Int
    OBVIOUS
  <2> HIDE DEF free
  <2> QED
    BY <1>1, <2>1, Greatest
<1>3. PICK f \in free : f = Max(free)
  BY <1>2
<1>4. f = Floor(board, x)
  BY <1>3 DEF Floor
<1>5. f \in Rows /\ (f > 0 => <<x, f>> \notin board)
  BY <1>1
<1>6. \A y \in Rows \ {0} : <<x, y>> \notin board => y <= f
  <2>1. \A y \in free : f >= y
    BY <1>2, <1>3
  <2> QED
    BY <1>5, <2>1 DEF Rows
<1> QED
  BY <1>4, <1>5, <1>6

LEMMA OccupiedIs ==
    ASSUME NEW m, NEW x \in Columns, NEW y \in Rows
    PROVE  <<x, y>> \in Occupied(m) <=> m[<<x, y>>] # Empty
  BY CellIs DEF Occupied, Cell

\* Without gaps a column is free down to its floor, and filled under it.
LEMMA FloorOfSolid ==
    ASSUME NEW m, Solid(m), NEW x \in Columns, NEW y \in Rows
    PROVE  LET floor == Floor(Occupied(m), x)
           IN  /\ y > floor => m[<<x, y>>] # Empty
               /\ floor > 0 /\ y <= floor => m[<<x, y>>] = Empty
<1> DEFINE floor == Floor(Occupied(m), x)
<1>1. /\ floor \in Rows
      /\ floor > 0 => <<x, floor>> \notin Occupied(m)
      /\ \A z \in Rows \ {0} : <<x, z>> \notin Occupied(m) => z <= floor
  BY FloorIs
<1> HIDE DEF floor
<1>2. y > floor => m[<<x, y>>] # Empty
  BY <1>1, HeightIs, OccupiedIs DEF Rows
<1>3. ASSUME floor > 0, y <= floor, m[<<x, y>>] # Empty PROVE FALSE
  <2>1. m[<<x, floor>>] # Empty
    BY <1>1, <1>3, NoGapUnder
  <2> QED
    BY <1>1, <1>3, <2>1, OccupiedIs
<1> QED
  BY <1>2, <1>3 DEF floor

\* A piece that is put on a map lies on a piece, or on the other one that is put.
Lies(m, c, other) ==
    \/ c[2] = Height - 1
    \/ m[<<c[1], c[2] + 1>>] # Empty
    \/ <<c[1], c[2] + 1>> = other

LEMMA UnderIsCell ==
    ASSUME NEW c \in Cell, c[2] < Height - 1
    PROVE  <<c[1], c[2] + 1>> \in Cell
<1>1. c[1] \in Columns /\ c[2] + 1 \in Rows
  BY CellIs, HeightIs DEF Rows
<1> QED
  BY <1>1, CellIs

LEMMA PutTwo ==
    ASSUME NEW m \in Boards, NEW p \in Cell, NEW q \in Cell, NEW s \in Colors, NEW t \in Colors, p # q
    PROVE  /\ Put(Put(m, p, s), q, t) \in Boards
           /\ \A c \in Cell : Put(Put(m, p, s), q, t)[c] = IF c = q THEN t ELSE IF c = p THEN s ELSE m[c]
           /\ \A c \in {p, q} : IsNormalPiece(Put(Put(m, p, s), q, t)[c])
<1>1. Put(Put(m, p, s), q, t) \in Boards
  BY DEF Put, Boards
<1>2. \A c \in Cell : Put(Put(m, p, s), q, t)[c] = IF c = q THEN t ELSE IF c = p THEN s ELSE m[c]
  BY DEF Put, Boards
<1>3. \A c \in {p, q} : IsNormalPiece(Put(Put(m, p, s), q, t)[c])
  BY <1>2, IdsDiffer DEF IsNormalPiece, IsOjamaPiece
<1> QED
  BY <1>1, <1>2, <1>3

LEMMA PutIsSolid ==
    ASSUME NEW m \in Boards, Solid(m), NEW p \in Cell, NEW q \in Cell, NEW s \in Colors, NEW t \in Colors,
           p # q, Lies(m, p, q), Lies(m, q, p)
    PROVE  Solid(Put(Put(m, p, s), q, t))
<1> DEFINE n == Put(Put(m, p, s), q, t)
<1>1. \A c \in Cell : n[c] = IF c = q THEN t ELSE IF c = p THEN s ELSE m[c]
  BY PutTwo
<1> HIDE DEF n
<1>2. \A c \in Cell : n[c] # Empty <=> c = p \/ c = q \/ m[c] # Empty
  BY <1>1, IdsDiffer
<1> SUFFICES ASSUME NEW c \in Cell, n[c] # Empty, c[2] < Height - 1
             PROVE  n[<<c[1], c[2] + 1>>] # Empty
  BY DEF Solid, n
<1>3. <<c[1], c[2] + 1>> \in Cell
  BY UnderIsCell
<1>4. c[2] # Height - 1
  BY CellIs, HeightIs DEF Rows
<1>5. <<c[1], c[2] + 1>> = p \/ <<c[1], c[2] + 1>> = q \/ m[<<c[1], c[2] + 1>>] # Empty
  BY <1>2, <1>4 DEF Lies, Solid
<1> QED
  BY <1>2, <1>3, <1>5

\* Where the pieces of a block that is dropped end: on the floors of their columns.
Fits(m, p, q) ==
    /\ p \in Cell /\ q \in Cell /\ p # q
    /\ Lies(m, p, q) /\ Lies(m, q, p)

LEMMA OnFloor ==
    ASSUME NEW m, Solid(m), NEW x \in Columns, Floor(Occupied(m), x) > 0
    PROVE  LET c == <<x, Floor(Occupied(m), x)>>
           IN  c \in Cell /\ (c[2] = Height - 1 \/ m[<<c[1], c[2] + 1>>] # Empty)
<1>1. PICK floor \in Rows : floor = Floor(Occupied(m), x)
  BY FloorIs
<1>2. <<x, floor>> \in Cell /\ <<x, floor>>[1] = x /\ <<x, floor>>[2] = floor
  BY DEF Cell
<1>3. floor # Height - 1 => floor + 1 \in Rows /\ floor + 1 > floor
  BY HeightIs DEF Rows
<1>4. floor # Height - 1 => m[<<x, floor + 1>>] # Empty
  BY <1>1, <1>3, FloorOfSolid
<1> QED
  BY <1>1, <1>2, <1>4

\* One piece over the other.
LEMMA FitsUpright ==
    ASSUME NEW m, Solid(m), NEW x \in Columns, Floor(Occupied(m), x) > 0
    PROVE  LET floor == Floor(Occupied(m), x)
           IN  Fits(m, <<x, floor - 1>>, <<x, floor>>) /\ Fits(m, <<x, floor>>, <<x, floor - 1>>)
<1>1. PICK floor \in Rows : floor = Floor(Occupied(m), x)
  BY FloorIs
<1>2. floor - 1 \in Rows /\ floor \in Int /\ (floor - 1) + 1 = floor
  BY <1>1, HeightIs DEF Rows
<1> DEFINE low == <<x, floor>>
           high == <<x, floor - 1>>
<1>3. /\ low \in Cell /\ low[1] = x /\ low[2] = floor
      /\ high \in Cell /\ high[1] = x /\ high[2] = floor - 1 /\ high # low
  BY <1>2 DEF Cell
<1>4. <<high[1], high[2] + 1>> = low
  BY <1>2
<1>5. low[2] = Height - 1 \/ m[<<low[1], low[2] + 1>>] # Empty
  BY <1>1, OnFloor
<1> HIDE DEF low, high
<1>6. Lies(m, high, low) /\ Lies(m, low, high)
  BY <1>4, <1>5 DEF Lies
<1>7. Fits(m, high, low) /\ Fits(m, low, high)
  BY <1>3, <1>6 DEF Fits
<1> QED
  BY <1>1, <1>7 DEF low, high

\* Both pieces in a row of columns.
LEMMA FitsBeside ==
    ASSUME NEW m, Solid(m), NEW x \in Columns, NEW y \in Columns, x # y,
           Floor(Occupied(m), x) > 0, Floor(Occupied(m), y) > 0
    PROVE  Fits(m, <<x, Floor(Occupied(m), x)>>, <<y, Floor(Occupied(m), y)>>)
<1> DEFINE p == <<x, Floor(Occupied(m), x)>>
           q == <<y, Floor(Occupied(m), y)>>
<1>1. p # q
  OBVIOUS
<1>2. p \in Cell /\ (p[2] = Height - 1 \/ m[<<p[1], p[2] + 1>>] # Empty)
  BY OnFloor
<1>3. q \in Cell /\ (q[2] = Height - 1 \/ m[<<q[1], q[2] + 1>>] # Empty)
  BY OnFloor
<1> HIDE DEF p, q
<1>4. Fits(m, p, q)
  BY <1>1, <1>2, <1>3 DEF Fits, Lies
<1> QED
  BY <1>4 DEF p, q

\* Every placement the search tries on a map without gaps.
LEMMA PlacementFits ==
    ASSUME NEW m, Solid(m), NEW dir \in Direction, NEW x \in Columns,
           NEW p \in Placements(Occupied(m), dir, x)
    PROVE  Fits(m, p.top, p.bottom)
<1> USE DEF V_UP, V_DOWN, H_LEFT, H_RIGHT
<1>1. PICK floor \in Rows : floor = Floor(Occupied(m), x)
  BY FloorIs
<1>2. floor \in Int /\ x \in Int /\ \A y : y + 0 = y + 0
  BY HeightIs DEF Rows, Columns
<1>3. CASE dir = V_UP
  <2>1. Beside(<<x, floor>>, dir) = <<x, floor - 1>>
    BY <1>2, <1>3 DEF Beside, Dx, Dy
  <2>2. p = [top |-> <<x, floor - 1>>, bottom |-> <<x, floor>>, dir |-> dir] /\ floor > 0
    BY <1>1, <1>3, <2>1 DEF Placements
  <2>3. Fits(m, <<x, floor - 1>>, <<x, floor>>)
    BY <1>1, <2>2, FitsUpright
  <2> QED
    BY <2>2, <2>3
<1>4. CASE dir = V_DOWN
  <2>1. Beside(<<x, floor - 1>>, dir) = <<x, floor>>
    BY <1>2, <1>4 DEF Beside, Dx, Dy
  <2>2. p = [top |-> <<x, floor>>, bottom |-> <<x, floor - 1>>, dir |-> dir] /\ floor > 0
    BY <1>1, <1>4, <2>1 DEF Placements
  <2>3. Fits(m, <<x, floor>>, <<x, floor - 1>>)
    BY <1>1, <2>2, FitsUpright
  <2> QED
    BY <2>2, <2>3
<1>5. CASE dir \in {H_LEFT, H_RIGHT}
  <2>1. PICK y \in Int : y = x + Dx[dir] /\ y # x
    BY <1>2, <1>5 DEF Dx
  <2>2. Beside(<<x, floor>>, dir)[1] = y
    BY <2>1 DEF Beside
  <2>3. /\ p = [top |-> <<y, Floor(Occupied(m), y)>>, bottom |-> <<x, floor>>, dir |-> dir]
        /\ floor > 0 /\ y \in Columns /\ Floor(Occupied(m), y) > 0
    BY <1>1, <1>5, <2>2 DEF Placements
  <2>4. Fits(m, <<y, Floor(Occupied(m), y)>>, <<x, floor>>)
    BY <1>1, <2>1, <2>3, FitsBeside
  <2> QED
    BY <2>3, <2>4
<1> QED
  BY <1>3, <1>4, <1>5 DEF Direction

\* Pieces that come on top leave no more room.
LEMMA FloorFalls ==
    ASSUME NEW a, NEW b, a \subseteq b, NEW x \in Columns
    PROVE  Floor(b, x) <= Floor(a, x)
<1>1. PICK f \in Rows : f = Floor(b, x)
  BY FloorIs
<1>2. PICK g \in Rows : g = Floor(a, x)
  BY FloorIs
<1>3. f > 0 => <<x, f>> \notin a
  BY <1>1, FloorIs
<1>4. \A y \in Rows \ {0} : <<x, y>> \notin a => y <= g
  BY <1>2, FloorIs
<1> QED
  BY <1>1, <1>2, <1>3, <1>4, HeightIs DEF Rows

LEMMA PlacementsShrink ==
    ASSUME NEW a, NEW b, a \subseteq b, NEW dir \in Direction, NEW x \in Columns,
           Placements(b, dir, x) # {}
    PROVE  Placements(a, dir, x) # {}
<1> USE DEF V_UP, V_DOWN, H_LEFT, H_RIGHT
<1>1. PICK f \in Rows : f = Floor(a, x)
  BY FloorIs
<1>2. PICK g \in Rows : g = Floor(b, x)
  BY FloorIs
<1>3. g <= f /\ f \in Int /\ g \in Int /\ x \in Int
  BY <1>1, <1>2, FloorFalls, HeightIs DEF Rows, Columns
<1>4. Open(b, x) => Open(a, x)
  BY DEF Open
<1>5. CASE dir = V_UP
  <2>1. /\ Beside(<<x, f>>, dir)[1] = x + 0 /\ Beside(<<x, f>>, dir)[2] = f - 1
        /\ Beside(<<x, g>>, dir)[1] = x + 0 /\ Beside(<<x, g>>, dir)[2] = g - 1
    BY <1>3, <1>5 DEF Beside, Dx, Dy
  <2>2. Open(b, x) /\ g > 0 /\ g - 1 > 0 /\ x + 0 \in Columns
    BY <1>2, <1>5, <2>1 DEF Placements
  <2>3. Open(a, x) /\ f > 0 /\ f - 1 > 0 /\ x + 0 \in Columns
    BY <1>3, <1>4, <2>2
  <2> QED
    BY <1>1, <1>5, <2>1, <2>3 DEF Placements
<1>6. CASE dir = V_DOWN
  <2>1. /\ Beside(<<x, f - 1>>, dir)[1] = x + 0 /\ Beside(<<x, f - 1>>, dir)[2] = f
        /\ Beside(<<x, g - 1>>, dir)[1] = x + 0 /\ Beside(<<x, g - 1>>, dir)[2] = g
    BY <1>3, <1>6 DEF Beside, Dx, Dy
  <2>2. Open(b, x) /\ g > 0 /\ g - 1 > 0 /\ x + 0 \in Columns
    BY <1>2, <1>6, <2>1 DEF Placements
  <2>3. Open(a, x) /\ f > 0 /\ f - 1 > 0 /\ x + 0 \in Columns
    BY <1>3, <1>4, <2>2
  <2> QED
    BY <1>1, <1>6, <2>1, <2>3 DEF Placements
<1>7. CASE dir \in {H_LEFT, H_RIGHT}
  <2>1. PICK y \in Int : y = x + Dx[dir]
    BY <1>3, <1>7 DEF Dx
  <2>2. Beside(<<x, f>>, dir)[1] = y /\ Beside(<<x, g>>, dir)[1] = y
    BY <2>1 DEF Beside
  <2>3. Open(b, x) /\ g > 0 /\ y \in Columns /\ Floor(b, y) > 0
    BY <1>2, <1>7, <2>2 DEF Placements
  <2>4. Floor(a, y) \in Rows /\ Floor(b, y) \in Rows /\ Floor(b, y) <= Floor(a, y)
    BY <2>3, FloorIs, FloorFalls
  <2>5. Open(a, x) /\ f > 0 /\ y \in Columns /\ Floor(a, y) > 0
    BY <1>3, <1>4, <2>3, <2>4, HeightIs DEF Rows
  <2> QED
    BY <1>1, <1>7, <2>2, <2>5 DEF Placements
<1> QED
  BY <1>5, <1>6, <1>7 DEF Direction

LEMMA TriedIs == Tried \in Seq(Direction \X Columns)
<1> DEFINE Places == Direction \X Columns
<1>1. ASSUME NEW dir \in Direction PROVE Row(dir) \in Seq(Places)
  <2>1. \A i \in 1..Width : <<dir, i - 1>> \in Places
    BY HeightIs DEF Columns
  <2>2. Row(dir) \in [1..Width -> Places]
    <3> HIDE DEF Places
    <3> QED
      BY <2>1 DEF Row
  <2> HIDE DEF Places
  <2> QED
    BY <2>2, HeightIs
<1>2. /\ Row(V_UP) \in Seq(Places) /\ Row(V_DOWN) \in Seq(Places)
      /\ Row(H_LEFT) \in Seq(Places) /\ Row(H_RIGHT) \in Seq(Places)
  BY <1>1 DEF Direction
<1> HIDE DEF Places
<1>3. ASSUME NEW s \in Seq(Places), NEW t \in Seq(Places) PROVE s \o t \in Seq(Places)
  OBVIOUS
<1>4. Row(V_UP) \o Row(V_DOWN) \in Seq(Places)
  BY <1>2, <1>3
<1>5. (Row(V_UP) \o Row(V_DOWN)) \o Row(H_LEFT) \in Seq(Places)
  BY <1>2, <1>3, <1>4
<1>6. ((Row(V_UP) \o Row(V_DOWN)) \o Row(H_LEFT)) \o Row(H_RIGHT) \in Seq(Places)
  BY <1>2, <1>3, <1>5
<1> QED
  BY <1>6 DEF Tried, Places

\* The placements of the i-th try.
TriedAt(m, i) == Placements(Occupied(m), Tried[i][1], Tried[i][2])

\* There is no place for a block on a map.
Lost(m) == \A i \in 1..Len(Tried) : TriedAt(m, i) = {}

LEMMA TryIs ==
    /\ Len(Tried) \in Nat
    /\ \A i \in 1..Len(Tried) : Tried[i][1] \in Direction /\ Tried[i][2] \in Columns
<1>1. Tried \in Seq(Direction \X Columns)
  BY TriedIs
<1>2. Len(Tried) \in Nat /\ \A i \in 1..Len(Tried) : Tried[i] \in Direction \X Columns
  BY <1>1
<1> QED
  BY <1>2

LEMMA LostStaysLost ==
    ASSUME NEW m, NEW n, Lost(m), \A c \in Cell : m[c] # Empty => n[c] # Empty
    PROVE  Lost(n)
<1>1. Occupied(m) \subseteq Occupied(n)
  BY DEF Occupied
<1>2. ASSUME NEW i \in 1..Len(Tried), TriedAt(n, i) # {} PROVE FALSE
  <2>1. Tried[i][1] \in Direction /\ Tried[i][2] \in Columns
    BY TryIs
  <2>2. TriedAt(m, i) # {}
    BY <1>1, <1>2, <2>1, PlacementsShrink DEF TriedAt
  <2> QED
    BY <2>2 DEF Lost
<1> QED
  BY <1>2 DEF Lost

----------------------------------------------------------------------------
(* The children of the root.                                                       *)

\* What the search answers for a block on a map.
Answers(m, top, bottom, ch) ==
    /\ Fits(m, ch.top, ch.bottom)
    /\ Plays(Put(Put(m, ch.top, top), ch.bottom, bottom), {ch.top, ch.bottom}, 0, ch)

GoodChildren(m, top, bottom) == {ch \in Child : Answers(m, top, bottom, ch)}
Added(m, top, bottom) == [children : SUBSET GoodChildren(m, top, bottom), cache : Caches]

LEMMA PlacementAdded ==
    ASSUME NEW m \in Boards, Solid(m), NEW top \in Colors, NEW bottom \in Colors,
           NEW i \in 1..Len(Tried), NEW p \in TriedAt(m, i), NEW r \in Added(m, top, bottom)
    PROVE  /\ AddPlacement(m, top, bottom, p, r) \in Added(m, top, bottom)
           /\ AddPlacement(m, top, bottom, p, r).children # {}
<1>1. Fits(m, p.top, p.bottom)
  <2>1. Tried[i][1] \in Direction /\ Tried[i][2] \in Columns
    BY TryIs
  <2> QED
    BY <2>1, PlacementFits DEF TriedAt
<1>2. PICK t \in Cell, b \in Cell : t = p.top /\ b = p.bottom /\ t # b
  BY <1>1 DEF Fits
<1> DEFINE n == Put(Put(m, t, top), b, bottom)
           e == Evaluation(n, {t, b}, r.cache)
           ch == [top |-> t, bottom |-> b, map |-> e.map, chain |-> e.chain]
<1>3. n \in Boards /\ \A c \in {t, b} : IsNormalPiece(n[c])
  BY <1>2, PutTwo
<1>4. r.children \in SUBSET GoodChildren(m, top, bottom) /\ r.cache \in Caches
  BY DEF Added
<1>5. e \in Answer /\ Plays(n, {t, b}, 0, e)
  <2>1. {t, b} \in SUBSET Cell
    OBVIOUS
  <2> HIDE DEF n
  <2> QED
    BY <1>3, <1>4, <2>1, ChainCounted
<1>6. AddPlacement(m, top, bottom, p, r) = [children |-> r.children \cup {ch}, cache |-> e.cache]
  BY <1>2 DEF AddPlacement, Put
<1> HIDE DEF e
<1>7. e.map \in Boards /\ e.chain \in Nat /\ e.cache \in Caches
  BY <1>5 DEF Answer
<1>8. ch \in Child /\ ch.top = t /\ ch.bottom = b /\ ch.map = e.map /\ ch.chain = e.chain
  BY <1>7 DEF Child
<1> HIDE DEF ch, n
<1>9. Plays(n, {t, b}, 0, ch)
  BY <1>5, <1>8 DEF Plays
<1>10. Answers(m, top, bottom, ch)
  BY <1>1, <1>2, <1>8, <1>9 DEF Answers, n
<1>11. ch \in GoodChildren(m, top, bottom)
  BY <1>8, <1>10 DEF GoodChildren
<1> DEFINE G == GoodChildren(m, top, bottom)
<1> HIDE DEF G
<1>12. r.children \cup {ch} \in SUBSET G
  BY <1>4, <1>11 DEF G
<1>13. [children |-> r.children \cup {ch}, cache |-> e.cache] \in [children : SUBSET G, cache : Caches]
  BY <1>7, <1>12
<1> QED
  BY <1>6, <1>13 DEF Added, G

\* AddNextBlock finds a placement if there is one, and every child is an answer.
LEMMA ChildrenAnswer ==
    ASSUME NEW m \in Boards, Solid(m) \/ Lost(m), NEW top \in Colors, NEW bottom \in Colors,
           NEW known \in Caches
    PROVE  /\ AddNextBlock(m, top, bottom, known) \in Added(m, top, bottom)
           /\ AddNextBlock(m, top, bottom, known).children = {} <=> Lost(m)
<1> DEFINE N == Len(Tried)
           D == 0..N
           S == Added(m, top, bottom)
           First == [children |-> {}, cache |-> known]
           Next1(i, r) == IF TriedAt(m, i) = {} THEN r
                          ELSE AddPlacement(m, top, bottom, CHOOSE p \in TriedAt(m, i) : TRUE, r)
           step == [q \in D \X [D -> S] |-> IF q[1] = 0 THEN First ELSE Next1(q[1], q[2][q[1] - 1])]
           rank == [i \in D |-> i]
<1>1. N \in Nat
  BY TryIs
<1>2. First \in S
  BY DEF Added
<1>3. ASSUME NEW i \in 1..N, NEW r \in S
      PROVE  /\ Next1(i, r) \in S
             /\ TriedAt(m, i) = {} => Next1(i, r).children = r.children
             /\ TriedAt(m, i) # {} => Next1(i, r).children # {}
  <2>1. CASE TriedAt(m, i) = {}
    <3> HIDE DEF S
    <3> QED
      BY <2>1
  <2>2. CASE TriedAt(m, i) # {}
    <3>1. PICK p \in TriedAt(m, i) : p = CHOOSE x \in TriedAt(m, i) : TRUE
      BY <2>2
    <3>2. Solid(m)
      BY <2>2 DEF Lost
    <3>3. AddPlacement(m, top, bottom, p, r) \in S /\ AddPlacement(m, top, bottom, p, r).children # {}
      BY <3>2, PlacementAdded
    <3> HIDE DEF S
    <3> QED
      BY <2>2, <3>1, <3>3
  <2> QED
    BY <2>1, <2>2
<1> HIDE DEF First, Next1
<1>4. step \in Steps(D, S)
  <2>1. ASSUME NEW i \in D, NEW f \in [D -> S], i # 0 PROVE Next1(i, f[i - 1]) \in S
    <3>1. i \in 1..N /\ i - 1 \in D
      BY <2>1, <1>1
    <3>2. f[i - 1] \in S
      <4> HIDE DEF S, D
      <4> QED
        BY <3>1
    <3> HIDE DEF S
    <3> QED
      BY <3>1, <3>2, <1>3
  <2> HIDE DEF D, S
  <2> QED
    BY <2>1, <1>2 DEF Steps
<1>5. rank \in [D -> 0..N]
  OBVIOUS
<1>6. Descends(D, S, rank, step)
  <2> HIDE DEF S
  <2>1. ASSUME NEW i \in D, NEW f \in [D -> S], NEW g \in [D -> S],
               \A k \in D : rank[k] < rank[i] => f[k] = g[k]
        PROVE  step[<<i, f>>] = step[<<i, g>>]
    <3>1. i # 0 => i - 1 \in D /\ rank[i - 1] < rank[i]
      BY <1>1
    <3>2. i # 0 => f[i - 1] = g[i - 1]
      <4> HIDE DEF rank, D
      <4> QED
        BY <2>1, <3>1
    <3> QED
      BY <3>2
  <2> HIDE DEF D, rank, step
  <2> QED
    BY <2>1 DEF Descends
<1>7. Solutions(D, S, step) # {}
  <2>1. S # {}
    BY <1>2
  <2> HIDE DEF D, S, step, rank, N
  <2> QED
    BY <1>1, <1>4, <1>5, <1>6, <2>1, RankRecursion
<1>8. PICK f \in [D -> S] : \A i \in D : f[i] = step[<<i, f>>]
  BY <1>7 DEF Solutions
<1> HIDE DEF rank
<1>9. f = [i \in 0..Len(Tried) |->
              IF i = 0 THEN [children |-> {}, cache |-> known]
              ELSE LET ps == Placements(Occupied(m), Tried[i][1], Tried[i][2])
                   IN  IF ps = {} THEN f[i - 1]
                       ELSE AddPlacement(m, top, bottom, CHOOSE p \in ps : TRUE, f[i - 1])]
  <2>1. f = [i \in D |-> IF i = 0 THEN First ELSE Next1(i, f[i - 1])]
    <3> HIDE DEF S
    <3> QED
      BY <1>8
  <2> HIDE DEF step, S
  <2> QED
    BY <2>1 DEF First, Next1, TriedAt
<1> DEFINE table == CHOOSE g : g = [i \in 0..Len(Tried) |->
              IF i = 0 THEN [children |-> {}, cache |-> known]
              ELSE LET ps == Placements(Occupied(m), Tried[i][1], Tried[i][2])
                   IN  IF ps = {} THEN g[i - 1]
                       ELSE AddPlacement(m, top, bottom, CHOOSE p \in ps : TRUE, g[i - 1])]
<1>10. table = [i \in 0..Len(Tried) |->
              IF i = 0 THEN [children |-> {}, cache |-> known]
              ELSE LET ps == Placements(Occupied(m), Tried[i][1], Tried[i][2])
                   IN  IF ps = {} THEN table[i - 1]
                       ELSE AddPlacement(m, top, bottom, CHOOSE p \in ps : TRUE, table[i - 1])]
  <2> HIDE DEF step, S, D
  <2> QED
    BY <1>9
<1>11. AddNextBlock(m, top, bottom, known) = table[N]
  BY DEF AddNextBlock
<1> HIDE DEF table, step, S, N
<1>12. table[0] = First /\ \A i \in 1..N : table[i] = Next1(i, table[i - 1])
  <2>1. \A i \in 0..N : table[i] = IF i = 0 THEN First ELSE Next1(i, table[i - 1])
    BY <1>10 DEF First, Next1, TriedAt, N
  <2>2. 0 \in 0..N /\ \A i \in 1..N : i \in 0..N /\ i # 0
    BY <1>1
  <2> QED
    BY <2>1, <2>2
<1> DEFINE T == {k \in Nat : k <= N => /\ table[k] \in S
                                       /\ table[k].children = {} <=> \A i \in 1..k : TriedAt(m, i) = {}}
<1>13. 0 \in T
  <2>1. First.children = {}
    BY DEF First
  <2> QED
    BY <1>2, <1>12, <2>1
<1>14. ASSUME NEW k \in Nat, k \in T PROVE k + 1 \in T
  <2> SUFFICES ASSUME k + 1 <= N
               PROVE  /\ table[k + 1] \in S
                      /\ table[k + 1].children = {} <=> \A i \in 1..k + 1 : TriedAt(m, i) = {}
    OBVIOUS
  <2>1. k + 1 \in 1..N /\ (k + 1) - 1 = k /\ k <= N /\ 1..k + 1 = 1..k \cup {k + 1}
    BY <1>1
  <2>2. table[k] \in S /\ (table[k].children = {} <=> \A i \in 1..k : TriedAt(m, i) = {})
    BY <1>14, <2>1
  <2>3. table[k + 1] = Next1(k + 1, table[k])
    BY <1>12, <2>1
  <2>4. /\ table[k + 1] \in S
        /\ TriedAt(m, k + 1) = {} => table[k + 1].children = table[k].children
        /\ TriedAt(m, k + 1) # {} => table[k + 1].children # {}
    BY <1>3, <2>1, <2>2, <2>3
  <2> QED
    BY <2>1, <2>2, <2>4
<1>15. N \in T
  <2> HIDE DEF T
  <2> QED
    BY <1>1, <1>13, <1>14, Induction
<1>16. table[N] \in S /\ (table[N].children = {} <=> \A i \in 1..N : TriedAt(m, i) = {})
  BY <1>1, <1>15
<1> QED
  BY <1>11, <1>16 DEF Lost, N, S

----------------------------------------------------------------------------
(* What else comes to lie on the map.                                              *)

LEMMA FallPosIs ==
    ASSUME NEW board, NEW x \in Columns, NEW y \in Nat, NEW k \in y..Height - 1,
           \A z \in y + 1..k : <<x, z>> \notin board,
           k + 1 = Height \/ <<x, k + 1>> \in board
    PROVE  FallPos(board, <<x, y>>) = <<x, k>>
<1> USE HeightIs
<1> DEFINE reached == {w \in y..Height - 1 : \A z \in y + 1..w : DoMove(board, <<x, z>>)}
<1>1. k \in reached
  BY DEF DoMove
<1>2. ASSUME NEW w \in reached PROVE k >= w
  <2> SUFFICES ASSUME w > k PROVE FALSE
    OBVIOUS
  <2>1. k + 1 \in y + 1..w /\ k + 1 > 0 /\ k + 1 # Height
    OBVIOUS
  <2>2. DoMove(board, <<x, k + 1>>)
    BY <2>1
  <2> QED
    BY <2>1, <2>2 DEF DoMove
<1>3. Max(reached) = k
  <2>1. reached \subseteq Int
    OBVIOUS
  <2> HIDE DEF reached
  <2> QED
    BY <1>1, <1>2, <2>1, MaxIs
<1> QED
  BY <1>3 DEF FallPos

\* A block that is moved down from its entry ends upright on the floor of its column.
LEMMA EntryFits ==
    ASSUME NEW m, Solid(m), ~GameOver(Occupied(m))
    PROVE  LET bottom == FallPos(Occupied(m), Entry)
           IN  Fits(m, Beside(bottom, V_UP), bottom)
<1> USE HeightIs
<1>1. PICK x \in Columns : x = entryGridPosX
  BY DEF entryGridPosX, Columns
<1>2. Entry = <<x, 1>> /\ <<x, 1>> \in Cell /\ 1 \in Rows
  BY <1>1 DEF Entry, entryGridPosY, Cell, Rows
<1>3. <<x, 1>> \notin Occupied(m)
  BY <1>2 DEF GameOver, DoMove
<1>4. m[<<x, 1>>] = Empty
  BY <1>2, <1>3, OccupiedIs
<1>5. PICK floor \in Rows : floor = Floor(Occupied(m), x)
  BY FloorIs
<1>6. floor >= 1 /\ floor \in Nat
  BY <1>2, <1>4, <1>5, FloorOfSolid DEF Rows
<1>7. \A z \in 1 + 1..floor : <<x, z>> \notin Occupied(m)
  BY <1>5, <1>6, FloorOfSolid, OccupiedIs DEF Rows
<1>8. floor + 1 = Height \/ <<x, floor + 1>> \in Occupied(m)
  <2>1. floor + 1 # Height => floor + 1 \in Rows /\ floor + 1 > floor
    BY DEF Rows
  <2> QED
    BY <1>5, <2>1, FloorOfSolid, OccupiedIs
<1>9. FallPos(Occupied(m), Entry) = <<x, floor>>
  <2>1. floor \in 1..Height - 1
    BY <1>6 DEF Rows
  <2> QED
    BY <1>2, <1>7, <1>8, <2>1, FallPosIs
<1>10. Beside(<<x, floor>>, V_UP) = <<x, floor - 1>>
  BY <1>6 DEF Beside, Dx, Dy, V_UP, V_DOWN, H_LEFT, H_RIGHT, Columns
<1>11. Fits(m, <<x, floor - 1>>, <<x, floor>>)
  BY <1>5, <1>6, FitsUpright
<1> QED
  BY <1>9, <1>10, <1>11

LEMMA MinOfTwo ==
    ASSUME NEW a \in Nat, NEW b \in Nat
    PROVE  Min({a, b}) \in Nat /\ Min({a, b}) <= a /\ Min({a, b}) <= b
<1>1. a \in {a, b} /\ b \in {a, b} /\ {a, b} \subseteq Int
  OBVIOUS
<1>2. CASE a <= b
  <2>1. \A y \in {a, b} : a <= y
    BY <1>2
  <2>2. Min({a, b}) = a
    BY <1>1, <2>1, MinIs
  <2> QED
    BY <1>2, <2>2
<1>3. CASE ~(a <= b)
  <2>1. \A y \in {a, b} : b <= y
    BY <1>3
  <2>2. Min({a, b}) = b
    BY <1>1, <2>1, MinIs
  <2> QED
    BY <1>3, <2>2
<1> QED
  BY <1>2, <1>3

\* Ojama that falls lies on the floors, without gaps, and is no more than was sent.
LEMMA OjamaFits ==
    ASSUME NEW m, Solid(m), NEW count \in Nat, NEW drop \in Drops(Floors(m), count)
    PROVE  LET cells == OjamaCells(Floors(m), drop)
           IN  /\ cells \in SUBSET Cell /\ \A c \in cells : m[c] = Empty
               /\ Solid(Mark(m, cells, Ojama))
               /\ Cardinality(cells) \in Nat /\ Cardinality(cells) <= count
<1> USE HeightIs
<1> DEFINE floors == Floors(m)
           room == [x \in Columns |-> Min({4, floors[x]})]
           all == Cardinality(OjamaCells(floors, room))
           cells == OjamaCells(floors, drop)
           n == Mark(m, cells, Ojama)
<1>1. cells \in SUBSET Cell /\ Cardinality(cells) \in Nat /\ all \in Nat
  <2>1. cells \in SUBSET Cell /\ OjamaCells(floors, room) \in SUBSET Cell
    BY DEF OjamaCells
  <2> QED
    BY <2>1, SubsetsOfCells
<1>2. Cardinality(cells) <= count
  <2>1. Cardinality(cells) = Min({count, all})
    BY DEF Drops
  <2>2. PICK a \in Nat : a = all
    BY <1>1
  <2> QED
    BY <2>1, <2>2, MinOfTwo
<1>3. ASSUME NEW x \in Columns
      PROVE  floors[x] = Floor(Occupied(m), x) /\ floors[x] \in Rows /\ drop[x] \in Nat /\ drop[x] <= floors[x]
  <2>1. floors[x] = Floor(Occupied(m), x)
    BY DEF Floors
  <2>2. Floor(Occupied(m), x) \in Rows
    BY FloorIs
  <2>3. PICK f \in Nat : f = floors[x] /\ f \in Rows
    BY <2>1, <2>2 DEF Rows
  <2>4. drop \in [Columns -> 0..4] /\ drop[x] <= room[x] /\ room[x] = Min({4, f})
    BY <2>3 DEF Drops
  <2>5. Min({4, f}) \in Nat /\ Min({4, f}) <= f
    BY MinOfTwo
  <2>6. drop[x] \in Nat /\ drop[x] <= f
    BY <2>4, <2>5
  <2> QED
    BY <2>1, <2>3, <2>6
<1>4. ASSUME NEW c \in Cell
      PROVE  /\ c = <<c[1], c[2]>> /\ c[1] \in Columns /\ c[2] \in Rows
             /\ floors[c[1]] \in Nat /\ drop[c[1]] \in Nat /\ drop[c[1]] <= floors[c[1]]
             /\ c \in cells <=> floors[c[1]] - drop[c[1]] < c[2] /\ c[2] <= floors[c[1]]
             /\ c[2] > floors[c[1]] => m[c] # Empty
             /\ floors[c[1]] > 0 /\ c[2] <= floors[c[1]] => m[c] = Empty
  <2>1. c = <<c[1], c[2]>> /\ c[1] \in Columns /\ c[2] \in Rows
    BY CellIs
  <2>2. /\ floors[c[1]] = Floor(Occupied(m), c[1]) /\ floors[c[1]] \in Rows
        /\ drop[c[1]] \in Nat /\ drop[c[1]] <= floors[c[1]]
    BY <1>3, <2>1
  <2>3. c \in cells <=> floors[c[1]] - drop[c[1]] < c[2] /\ c[2] <= floors[c[1]]
    BY DEF OjamaCells
  <2>4. /\ c[2] > Floor(Occupied(m), c[1]) => m[<<c[1], c[2]>>] # Empty
        /\ Floor(Occupied(m), c[1]) > 0 /\ c[2] <= Floor(Occupied(m), c[1]) => m[<<c[1], c[2]>>] = Empty
    BY <2>1, FloorOfSolid
  <2> QED
    BY <2>1, <2>2, <2>3, <2>4 DEF Rows
<1> HIDE DEF cells, floors
<1>5. \A c \in cells : m[c] = Empty
  <2> SUFFICES ASSUME NEW c \in cells PROVE m[c] = Empty
    OBVIOUS
  <2>1. c \in Cell
    BY <1>1
  <2>2. floors[c[1]] > 0
    BY <1>4, <2>1 DEF Rows
  <2> QED
    BY <1>4, <2>1, <2>2
<1>6. \A c \in Cell : n[c] = IF c \in cells THEN Ojama ELSE m[c]
  BY DEF Mark
<1> HIDE DEF n
<1>7. Solid(n)
  <2> SUFFICES ASSUME NEW c \in Cell, n[c] # Empty, c[2] < Height - 1
               PROVE  n[<<c[1], c[2] + 1>>] # Empty
    BY DEF Solid
  <2>1. PICK d \in Cell : d = <<c[1], c[2] + 1>>
    BY UnderIsCell
  <2>2. d[1] = c[1] /\ d[2] = c[2] + 1
    BY <2>1
  <2>3. CASE c \in cells
    <3>1. d \in cells \/ m[d] # Empty
      BY <1>4, <2>2, <2>3 DEF Rows
    <3> QED
      BY <1>6, <2>1, <3>1, IdsDiffer
  <2>4. CASE c \notin cells
    <3>1. m[d] # Empty
      BY <1>6, <2>1, <2>4 DEF Solid
    <3> QED
      BY <1>6, <2>1, <3>1, IdsDiffer
  <2> QED
    BY <2>3, <2>4
<1> QED
  BY <1>1, <1>2, <1>5, <1>7 DEF cells, n, floors

----------------------------------------------------------------------------
(* The inductive invariant.                                                        *)

(* The map of the game: outside of a wave nothing hangs over a gap, and what is large   *)
(* enough to vanish is among the pieces that landed last.                               *)
MapInv ==
    /\ phase # "erased" => Solid(map)
    /\ phase # "landed" => Rest(map)
    /\ phase = "landed" => LargeMeets(map, fallPieces) /\ Filled(map, fallPieces)

\* The map with the cells marked that pieces vanished from.
Unfallen(gone) == Mark(map, gone, Marked)

(* Within a wave: with the right cells marked the map is the one the search drops.      *)
WaveInv ==
    phase = "erased" =>
        \E gone \in SUBSET Cell :
            /\ \A c \in gone : map[c] = Empty
            /\ erasedColumns = {c[1] : c \in gone}
            /\ Solid(Unfallen(gone))
            /\ best # NoChild =>
                  /\ ojamaPieces = {}
                  /\ best.map = Final(Unfallen(gone)).map
                  /\ best.chain >= waves + Final(Unfallen(gone)).follow

\* The search was right about the move: the map is its map, with the ojama that fell.
Settled == map = Mark(best.map, ojamaPieces, Ojama) /\ best.chain >= waves

(* The search and the game: what is searched when a block is dealt, and what the child  *)
(* that is played says of the map before, between and after the waves.                  *)
PlayedInv ==
    /\ phase = "landed" /\ best # NoChild =>
          \/ ojamaPieces = {} /\ Plays(map, fallPieces, waves, best)
          \/ Settled /\ \A c \in fallPieces : map[c] = Ojama
    /\ phase \in {"ojama", "create"} /\ best # NoChild => Settled

(* Without a child that is played there was no place for a block on the root, and there *)
(* will be none: from then on the map of the root is not the map of the game.           *)
RootInv ==
    /\ phase \in {"landed", "erased", "ojama"} /\ best = NoChild => Lost(rootMap)
    /\ phase = "create" /\ best = NoChild => Lost(rootMap) \/ (rootMap = map /\ ojamaPieces = {})

DealtInv ==
    phase = "move" =>
        /\ ~GameOver(Occupied(map)) /\ ojamaPieces = {}
        /\ children = {} => Lost(rootMap)
        /\ children # {} => rootMap = map /\ children \subseteq GoodChildren(map, block.top, block.bottom)

BoardInv ==
    TypeOK /\ cache \in Caches /\ MapInv /\ WaveInv /\ PlayedInv /\ RootInv /\ DealtInv

LEMMA PhasesDiffer ==
    /\ "move" # "landed" /\ "move" # "erased" /\ "move" # "ojama" /\ "move" # "create" /\ "move" # "over"
    /\ "landed" # "erased" /\ "landed" # "ojama" /\ "landed" # "create" /\ "landed" # "over"
    /\ "erased" # "ojama" /\ "erased" # "create" /\ "erased" # "over"
    /\ "ojama" # "create" /\ "ojama" # "over" /\ "create" # "over"
  OBVIOUS

LEMMA NoChildIsNone == NoChild \notin Child
<1>1. ASSUME NoChild \in Child PROVE FALSE
  <2>1. "top" \in DOMAIN NoChild
    BY <1>1 DEF Child
  <2>2. DOMAIN NoChild = {"chain"}
    BY DEF NoChild
  <2> QED
    BY <2>1, <2>2
<1> QED
  BY <1>1

LEMMA InitBoard == Init => BoardInv
<1> SUFFICES ASSUME Init PROVE BoardInv
  OBVIOUS
<1>1. map \in Boards /\ rootMap = map /\ \A c \in Cell : map[c] = Empty
  BY DEF Init, Boards
<1>2. TypeOK
  BY <1>1, BoardAssumption DEF Init, TypeOK
<1>3. Solid(map) /\ Rest(map)
  BY <1>1 DEF Solid, Rest, IsNormalPiece
<1>4. cache \in Caches
  BY EmptyCache DEF Init
<1>5. phase = "create" /\ best = NoChild /\ ojamaPieces = {}
  BY DEF Init
<1>6. MapInv
  BY <1>3, <1>5 DEF MapInv
<1>7. WaveInv /\ DealtInv
  BY <1>5 DEF WaveInv, DealtInv
<1>8. PlayedInv /\ RootInv
  BY <1>1, <1>5 DEF PlayedInv, RootInv
<1> QED
  BY <1>2, <1>4, <1>6, <1>7, <1>8 DEF BoardInv

\* What both ways to decide a block do to the map of the game.
LEMMA PutKeepsMap ==
    ASSUME NEW m \in Boards, Solid(m), Rest(m), NEW p, NEW q, Fits(m, p, q),
           NEW s \in Colors, NEW t \in Colors
    PROVE  LET n == Put(Put(m, p, s), q, t)
           IN  /\ n \in Boards /\ Solid(n) /\ {p, q} \in SUBSET Cell
               /\ LargeMeets(n, {p, q}) /\ Filled(n, {p, q})
<1> DEFINE n == Put(Put(m, p, s), q, t)
<1>1. p \in Cell /\ q \in Cell /\ p # q /\ Lies(m, p, q) /\ Lies(m, q, p)
  BY DEF Fits
<1>2. /\ n \in Boards
      /\ \A c \in Cell : n[c] = IF c = q THEN t ELSE IF c = p THEN s ELSE m[c]
      /\ \A c \in {p, q} : IsNormalPiece(n[c])
  BY <1>1, PutTwo
<1>3. Solid(n)
  BY <1>1, PutIsSolid
<1> HIDE DEF n
<1>4. \A d \in Cell : IsNormalPiece(n[d]) /\ d \notin {p, q} => n[d] = m[d]
  BY <1>2
<1>5. LargeMeets(n, {p, q})
  BY <1>4, ChangesMeet
<1>6. Filled(n, {p, q})
  BY <1>2 DEF Filled, IsNormalPiece
<1> QED
  BY <1>1, <1>2, <1>3, <1>5, <1>6 DEF n

LEMMA DecideKeeps == BoardInv /\ DecideBlock => BoardInv'
<1> SUFFICES ASSUME BoardInv, DecideBlock PROVE BoardInv'
  OBVIOUS
<1>1. /\ phase = "move" /\ phase' = "landed" /\ best' \in children /\ waves' = 0
      /\ map' = Put(Put(map, best'.top, block.top), best'.bottom, block.bottom)
      /\ fallPieces' = {best'.top, best'.bottom}
      /\ UNCHANGED <<erasedColumns, ojamaCount, ojamaPieces, block, turn, rootMap, children, cache>>
  BY DEF DecideBlock
<1>2. /\ Solid(map) /\ Rest(map) /\ ojamaPieces = {}
      /\ children \subseteq GoodChildren(map, block.top, block.bottom)
  BY <1>1, PhasesDiffer DEF BoardInv, MapInv, DealtInv
<1>3. /\ map \in Boards /\ block.top \in Colors /\ block.bottom \in Colors
      /\ TypeOK
  BY DEF BoardInv, TypeOK
<1>4. best' \in Child /\ Answers(map, block.top, block.bottom, best')
  BY <1>1, <1>2 DEF GoodChildren
<1>5. /\ map' \in Boards /\ Solid(map') /\ fallPieces' \in SUBSET Cell
      /\ LargeMeets(map', fallPieces') /\ Filled(map', fallPieces')
  BY <1>1, <1>2, <1>3, <1>4, PutKeepsMap DEF Answers
<1>6. TypeOK'
  BY <1>1, <1>3, <1>4, <1>5 DEF TypeOK
<1>7. cache' \in Caches
  BY <1>1 DEF BoardInv
<1>8. MapInv'
  BY <1>1, <1>5, PhasesDiffer DEF MapInv
<1>9. Plays(map', fallPieces', waves', best') /\ ojamaPieces' = {}
  BY <1>1, <1>2, <1>4 DEF Answers
<1>10. PlayedInv'
  BY <1>1, <1>9, PhasesDiffer DEF PlayedInv
<1>11. RootInv'
  BY <1>1, <1>4, NoChildIsNone, PhasesDiffer DEF RootInv
<1>12. WaveInv' /\ DealtInv'
  BY <1>1, PhasesDiffer DEF WaveInv, DealtInv
<1> QED
  BY <1>6, <1>7, <1>8, <1>10, <1>11, <1>12 DEF BoardInv

LEMMA DecideWhereItIsKeeps == BoardInv /\ DecideBlockWhereItIs => BoardInv'
<1> SUFFICES ASSUME BoardInv, DecideBlockWhereItIs PROVE BoardInv'
  OBVIOUS
<1> DEFINE bottom == FallPos(Occupied(map), Entry)
           top == Beside(bottom, V_UP)
<1>1. /\ phase = "move" /\ phase' = "landed" /\ best' = NoChild /\ children = {} /\ waves' = 0
      /\ map' = Put(Put(map, top, block.top), bottom, block.bottom)
      /\ fallPieces' = {top, bottom}
      /\ UNCHANGED <<erasedColumns, ojamaCount, ojamaPieces, block, turn, rootMap, children, cache>>
  BY DEF DecideBlockWhereItIs
<1>2. Solid(map) /\ Rest(map) /\ ~GameOver(Occupied(map)) /\ Lost(rootMap)
  BY <1>1, PhasesDiffer DEF BoardInv, MapInv, DealtInv
<1>3. map \in Boards /\ block.top \in Colors /\ block.bottom \in Colors /\ TypeOK
  BY DEF BoardInv, TypeOK
<1>4. Fits(map, top, bottom)
  BY <1>2, EntryFits
<1> HIDE DEF bottom, top
<1>5. /\ map' \in Boards /\ Solid(map') /\ fallPieces' \in SUBSET Cell
      /\ LargeMeets(map', fallPieces') /\ Filled(map', fallPieces')
  BY <1>1, <1>2, <1>3, <1>4, PutKeepsMap
<1>6. TypeOK'
  BY <1>1, <1>3, <1>5 DEF TypeOK
<1>7. cache' \in Caches
  BY <1>1 DEF BoardInv
<1>8. MapInv'
  BY <1>1, <1>5, PhasesDiffer DEF MapInv
<1>9. PlayedInv' /\ RootInv'
  BY <1>1, <1>2, PhasesDiffer DEF PlayedInv, RootInv
<1>10. WaveInv' /\ DealtInv'
  BY <1>1, PhasesDiffer DEF WaveInv, DealtInv
<1> QED
  BY <1>6, <1>7, <1>8, <1>9, <1>10 DEF BoardInv

LEMMA MarkNone ==
    ASSUME NEW m \in Boards, NEW id
    PROVE  Mark(m, {}, id) = m
<1>1. m = [c \in Cell |-> m[c]]
  BY DEF Boards
<1> QED
  BY <1>1 DEF Mark

\* What is marked or erased within a wave, on a board.
LEMMA ErasedIs ==
    ASSUME NEW m \in Boards, NEW gone \in SUBSET Cell
    PROVE  LET n == Mark(m, gone, Empty)
           IN  /\ n \in Boards
               /\ \A c \in gone : n[c] = Empty
               /\ Mark(n, gone, Marked) = Mark(m, gone, Marked)
<1> DEFINE n == Mark(m, gone, Empty)
<1>1. n \in Boards
  BY DEF Mark, Boards
<1>2. \A c \in gone : n[c] = Empty
  BY DEF Mark
<1>3. \A c \in Cell : c \notin gone => n[c] = m[c]
  BY DEF Mark
<1> HIDE DEF n
<1>4. Mark(n, gone, Marked) = Mark(m, gone, Marked)
  BY <1>3 DEF Mark
<1> QED
  BY <1>1, <1>2, <1>4 DEF n

LEMMA ErasePiecesKeeps == BoardInv /\ ErasePieces => BoardInv'
<1> SUFFICES ASSUME BoardInv, ErasePieces PROVE BoardInv'
  OBVIOUS
<1> DEFINE gone == Vanishing(map, fallPieces)
<1>1. /\ phase = "landed"
      /\ map' = Mark(map, gone, Empty)
      /\ erasedColumns' = {c[1] : c \in gone}
      /\ waves' = IF gone = {} THEN waves ELSE waves + 1
      /\ phase' = IF gone = {} THEN "ojama" ELSE "erased"
      /\ fallPieces' = {}
      /\ UNCHANGED <<ojamaCount, ojamaPieces, block, turn, rootMap, children, best, cache>>
  BY DEF ErasePieces, core, Mark
<1>2. /\ Solid(map) /\ LargeMeets(map, fallPieces) /\ Filled(map, fallPieces)
      /\ best = NoChild => Lost(rootMap)
      /\ best # NoChild =>
          \/ ojamaPieces = {} /\ Plays(map, fallPieces, waves, best)
          \/ Settled /\ \A c \in fallPieces : map[c] = Ojama
  BY <1>1, PhasesDiffer DEF BoardInv, MapInv, PlayedInv, RootInv
<1>3. map \in Boards /\ fallPieces \in SUBSET Cell /\ waves \in Nat /\ TypeOK
  BY DEF BoardInv, TypeOK
<1>4. gone \in SUBSET Cell /\ Filled(map, gone)
  BY <1>2, <1>3, VanishingPieces
<1>5. Rest(map')
  BY <1>1, <1>2, <1>3, EraseRests
<1>6. best # NoChild =>
          \/ /\ ojamaPieces = {}
             /\ gone = {} => best.map = map /\ best.chain >= waves
             /\ gone # {} => /\ best.map = Final(Mark(map, gone, Marked)).map
                             /\ best.chain >= waves + 1 + Final(Mark(map, gone, Marked)).follow
          \/ Settled /\ gone = {}
  BY <1>2, OjamaAloneStays DEF Plays
<1> HIDE DEF gone
<1>7. \A c \in gone : c[1] \in Columns
  BY <1>4, CellIs
<1>8. /\ map' \in Boards
      /\ \A c \in gone : map'[c] = Empty
      /\ Mark(map', gone, Marked) = Mark(map, gone, Marked)
  BY <1>1, <1>3, <1>4, ErasedIs
<1>9. TypeOK'
  <2>1. waves' \in Nat /\ erasedColumns' \subseteq Columns
    BY <1>1, <1>3, <1>7
  <2> QED
    BY <1>1, <1>3, <1>8, <2>1 DEF TypeOK
<1>10. cache' \in Caches
  BY <1>1 DEF BoardInv
<1>11. DealtInv'
  BY <1>1, PhasesDiffer DEF DealtInv
<1>12. RootInv'
  BY <1>1, <1>2, PhasesDiffer DEF RootInv
<1>13. CASE gone = {}
  <2>1. map' = map /\ phase' = "ojama" /\ waves' = waves
    BY <1>1, <1>3, <1>13, MarkNone
  <2>2. MapInv'
    BY <1>2, <1>5, <2>1, PhasesDiffer DEF MapInv
  <2>3. WaveInv'
    BY <2>1, PhasesDiffer DEF WaveInv
  <2>4. best # NoChild => Settled
    BY <1>3, <1>6, <1>13, MarkNone DEF Settled
  <2>5. best' # NoChild => Settled'
    BY <1>1, <2>1, <2>4 DEF Settled
  <2>6. PlayedInv'
    BY <2>1, <2>5, PhasesDiffer DEF PlayedInv
  <2> QED
    BY <1>9, <1>10, <1>11, <1>12, <2>2, <2>3, <2>6 DEF BoardInv
<1>14. CASE gone # {}
  <2>1. phase' = "erased" /\ waves' = waves + 1
    BY <1>1, <1>14
  <2>2. MapInv'
    BY <1>5, <2>1, PhasesDiffer DEF MapInv
  <2>3. PlayedInv'
    BY <2>1, PhasesDiffer DEF PlayedInv
  <2>4. WaveInv'
    <3>1. PICK g : g = gone
      OBVIOUS
    <3>2. /\ g \in SUBSET Cell /\ \A c \in g : map'[c] = Empty
          /\ erasedColumns' = {c[1] : c \in g}
      BY <1>1, <1>4, <1>8, <3>1
    <3>3. Unfallen(g)' = Mark(map, g, Marked)
      BY <1>8, <3>1 DEF Unfallen
    <3>4. Solid(Unfallen(g)')
      BY <1>2, <1>4, <3>1, <3>3, MarkedIsSolid DEF Filled
    <3>5. Final(Mark(map, g, Marked)).follow \in Nat
      <4>1. Mark(map, g, Marked) \in Maps
        BY <1>3, MarkedIsMap
      <4> QED
        BY <4>1, FinalIs DEF Ends
    <3>6. best # NoChild =>
            /\ ojamaPieces = {}
            /\ best.map = Final(Mark(map, g, Marked)).map
            /\ best.chain >= waves + 1 + Final(Mark(map, g, Marked)).follow
      BY <1>6, <1>14, <3>1
    <3>7. best' # NoChild =>
            /\ ojamaPieces' = {}
            /\ best'.map = Final(Unfallen(g)').map
            /\ best'.chain >= waves' + Final(Unfallen(g)').follow
      BY <1>1, <2>1, <3>3, <3>6
    <3> QED
      BY <3>2, <3>4, <3>7 DEF WaveInv
  <2> QED
    BY <1>9, <1>10, <1>11, <1>12, <2>2, <2>3, <2>4 DEF BoardInv
<1> QED
  BY <1>13, <1>14

\* A board with its vanished cells is left as it is if and only if none vanished.
LEMMA NoneMarked ==
    ASSUME NEW m \in Boards, NEW gone \in SUBSET Cell
    PROVE  Mark(m, gone, Marked) = m <=> gone = {}
<1>1. \A c \in Cell : m[c] # Marked
  BY IdsDiffer DEF Boards
<1>2. \A c \in gone : Mark(m, gone, Marked)[c] = Marked
  BY DEF Mark
<1> QED
  BY <1>1, <1>2, MarkNone

\* What the search says of a wave it says of the map after the pieces fell.
LEMMA WavePlays ==
    ASSUME NEW m \in Maps, NEW w \in Nat, NEW ch, ch.map = Final(m).map,
           ch.chain >= w + Final(m).follow
    PROVE  Plays(DropPiecese(m), DroppedPieces(m), w, ch)
<1> DEFINE n == DropPiecese(m)
           gone == Vanishing(n, DroppedPieces(m))
<1>1. NextMarked(m) = Mark(n, gone, Marked) /\ gone \in SUBSET Cell
  BY NextIs
<1>2. n \in Boards /\ NextMarked(m) \in Maps
  BY DropIs, NextIsMap
<1>3. NextMarked(m) = n <=> gone = {}
  <2> HIDE DEF n, gone
  <2> QED
    BY <1>1, <1>2, NoneMarked
<1>4. CASE gone = {}
  <2>1. ch.map = n /\ ch.chain >= w
    BY <1>3, <1>4, FinalIs
  <2> QED
    BY <1>4, <2>1 DEF Plays
<1>5. CASE gone # {}
  <2>1. /\ Final(m).map = Final(NextMarked(m)).map
        /\ Final(m).follow = Final(NextMarked(m)).follow + 1
        /\ Final(NextMarked(m)).follow \in Nat
    BY <1>2, <1>3, <1>5, FinalIs DEF Ends
  <2>2. ch.chain >= w + (Final(NextMarked(m)).follow + 1)
    BY <2>1
  <2>3. ch.chain >= w + 1 + Final(NextMarked(m)).follow
    BY <2>1, <2>2
  <2> QED
    BY <1>1, <1>5, <2>1, <2>3 DEF Plays
<1> QED
  BY <1>4, <1>5

LEMMA FallPiecesKeeps == BoardInv /\ FallPieces => BoardInv'
<1> SUFFICES ASSUME BoardInv, FallPieces PROVE BoardInv'
  OBVIOUS
<1>1. /\ phase = "erased"
      /\ map' = FallenMap(map, erasedColumns)
      /\ fallPieces' = Fallen(map, erasedColumns)
      /\ phase' = IF fallPieces' = {} THEN "ojama" ELSE "landed"
      /\ erasedColumns' = {}
      /\ UNCHANGED <<waves, ojamaCount, ojamaPieces, block, turn, rootMap, children, best, cache>>
  BY DEF FallPieces, core, FallenMap, Fallen, Falling, FallsTo
<1>2. map \in Boards /\ waves \in Nat /\ TypeOK
  BY DEF BoardInv, TypeOK
<1>3. Rest(map) /\ (best = NoChild => Lost(rootMap))
  BY <1>1, PhasesDiffer DEF BoardInv, MapInv, RootInv
<1>4. PICK gone \in SUBSET Cell :
        /\ \A c \in gone : map[c] = Empty
        /\ erasedColumns = {c[1] : c \in gone}
        /\ Solid(Unfallen(gone))
        /\ best # NoChild =>
              /\ ojamaPieces = {}
              /\ best.map = Final(Unfallen(gone)).map
              /\ best.chain >= waves + Final(Unfallen(gone)).follow
  BY <1>1 DEF BoardInv, WaveInv
<1>5. PICK mk : mk = Unfallen(gone)
  OBVIOUS
<1>6. mk = Mark(map, gone, Marked) /\ mk \in Maps /\ Solid(mk)
  BY <1>2, <1>4, <1>5, MarkedIsMap DEF Unfallen
<1>7. fallPieces' = DroppedPieces(mk) /\ map' = DropPiecese(mk)
  BY <1>1, <1>2, <1>4, <1>6, FallIsDrop
<1>8. /\ map' \in Boards /\ Solid(map')
      /\ fallPieces' \in SUBSET Cell /\ Filled(map', fallPieces')
  BY <1>6, <1>7, DropIs, DropIsSolid, DroppedAreFilled
<1>9. LargeMeets(map', fallPieces')
  <2>1. \A d \in Cell : d \notin fallPieces' => map'[d] = Empty \/ map'[d] = map[d]
    BY <1>1 DEF FallenMap
  <2>2. \A d \in Cell : IsNormalPiece(map'[d]) /\ d \notin fallPieces' => map'[d] = map[d]
    BY <2>1 DEF IsNormalPiece
  <2> QED
    BY <1>3, <2>2, ChangesMeet
<1>10. best # NoChild => ojamaPieces = {} /\ Plays(map', fallPieces', waves, best)
  BY <1>2, <1>4, <1>5, <1>6, <1>7, WavePlays
<1>11. TypeOK'
  BY <1>1, <1>2, <1>8 DEF TypeOK
<1>12. cache' \in Caches
  BY <1>1 DEF BoardInv
<1>13. WaveInv' /\ DealtInv' /\ RootInv'
  BY <1>1, <1>3, PhasesDiffer DEF WaveInv, DealtInv, RootInv
<1>14. CASE fallPieces' = {}
  <2>1. phase' = "ojama"
    BY <1>1, <1>14
  <2>2. Rest(map')
    BY <1>9, <1>14, RestMeets
  <2>3. MapInv'
    BY <1>8, <2>1, <2>2, PhasesDiffer DEF MapInv
  <2>4. Vanishing(map', {}) = {}
    BY OjamaAloneStays
  <2>5. best # NoChild => best.map = map' /\ best.chain >= waves /\ ojamaPieces = {}
    BY <1>10, <1>14, <2>4 DEF Plays
  <2>6. best' # NoChild => Settled'
    BY <1>1, <1>8, <2>5, MarkNone DEF Settled
  <2>7. PlayedInv'
    BY <2>1, <2>6, PhasesDiffer DEF PlayedInv
  <2> QED
    BY <1>11, <1>12, <1>13, <2>3, <2>7 DEF BoardInv
<1>15. CASE fallPieces' # {}
  <2>1. phase' = "landed"
    BY <1>1, <1>15
  <2>2. MapInv'
    BY <1>8, <1>9, <2>1, PhasesDiffer DEF MapInv
  <2>3. PlayedInv'
    BY <1>1, <1>10, <2>1, PhasesDiffer DEF PlayedInv
  <2> QED
    BY <1>11, <1>12, <1>13, <2>2, <2>3 DEF BoardInv
<1> QED
  BY <1>14, <1>15

LEMMA FallOjamaKeeps == BoardInv /\ FallOjamaPieces => BoardInv'
<1> SUFFICES ASSUME BoardInv, FallOjamaPieces PROVE BoardInv'
  OBVIOUS
<1>1. phase = "ojama" /\ ojamaPieces = {}
  BY DEF FallOjamaPieces
<1>2. PICK drop \in Drops(Floors(map), ojamaCount) :
        /\ ojamaPieces' = OjamaCells(Floors(map), drop)
        /\ ojamaCount' = ojamaCount - Cardinality(OjamaCells(Floors(map), drop))
        /\ map' = Mark(map, OjamaCells(Floors(map), drop), Ojama)
        /\ fallPieces' = OjamaCells(Floors(map), drop)
        /\ phase' = "landed"
        /\ UNCHANGED <<erasedColumns, waves, block, turn, rootMap, children, best, cache>>
  BY DEF FallOjamaPieces, core, Mark
<1>3. PICK cells : cells = OjamaCells(Floors(map), drop)
  OBVIOUS
<1>4. /\ map \in Boards /\ ojamaCount \in Nat /\ best \in Child \cup {NoChild} /\ TypeOK
      /\ Solid(map) /\ Rest(map)
      /\ best # NoChild => Settled
      /\ best = NoChild => Lost(rootMap)
  BY <1>1, PhasesDiffer DEF BoardInv, TypeOK, MapInv, PlayedInv, RootInv
<1>5. /\ cells \in SUBSET Cell /\ \A c \in cells : map[c] = Empty
      /\ Solid(Mark(map, cells, Ojama))
      /\ Cardinality(cells) \in Nat /\ Cardinality(cells) <= ojamaCount
  BY <1>2, <1>3, <1>4, OjamaFits
<1>6. map' \in Boards
  BY <1>2, <1>3, <1>4 DEF Mark, Boards
<1>7. /\ \A c \in cells : map'[c] = Ojama
      /\ \A c \in Cell : c \notin cells => map'[c] = map[c]
  BY <1>2, <1>3, <1>5 DEF Mark
<1>8. LargeMeets(map', fallPieces')
  BY <1>2, <1>3, <1>4, <1>7, ChangesMeet
<1>9. Filled(map', fallPieces') /\ Solid(map')
  BY <1>2, <1>3, <1>5, <1>7, IdsDiffer DEF Filled
<1>10. MapInv'
  BY <1>2, <1>8, <1>9, PhasesDiffer DEF MapInv
<1>11. best # NoChild => map = best.map /\ best.chain >= waves
  BY <1>1, <1>4, MarkNone DEF Settled, Child
<1>12. best' # NoChild => Settled' /\ \A c \in fallPieces' : map'[c] = Ojama
  BY <1>2, <1>3, <1>7, <1>11 DEF Settled
<1>13. PlayedInv' /\ RootInv'
  BY <1>2, <1>4, <1>12, PhasesDiffer DEF PlayedInv, RootInv
<1>14. WaveInv' /\ DealtInv' /\ cache' \in Caches
  BY <1>2, PhasesDiffer DEF WaveInv, DealtInv, BoardInv
<1>15. TypeOK'
  <2>1. ojamaCount' \in Nat
    BY <1>2, <1>3, <1>4, <1>5
  <2> QED
    BY <1>2, <1>3, <1>4, <1>5, <1>6, <2>1 DEF TypeOK
<1> QED
  BY <1>10, <1>13, <1>14, <1>15 DEF BoardInv

LEMMA NoOjamaKeeps == BoardInv /\ NoOjama => BoardInv'
<1> SUFFICES ASSUME BoardInv, NoOjama PROVE BoardInv'
  OBVIOUS
<1>1. /\ phase = "ojama" /\ phase' \in {"over", "create"}
      /\ UNCHANGED <<map, fallPieces, erasedColumns, waves, ojamaCount, ojamaPieces, block, turn>>
      /\ UNCHANGED <<rootMap, children, best, cache>>
  BY DEF NoOjama, core
<1>2. /\ TypeOK /\ cache \in Caches /\ Solid(map) /\ Rest(map)
      /\ best # NoChild => Settled
      /\ best = NoChild => Lost(rootMap)
  BY <1>1, PhasesDiffer DEF BoardInv, MapInv, PlayedInv, RootInv
<1>3. TypeOK' /\ cache' \in Caches
  BY <1>1, <1>2 DEF TypeOK
<1>4. MapInv' /\ WaveInv' /\ DealtInv'
  BY <1>1, <1>2, PhasesDiffer DEF MapInv, WaveInv, DealtInv
<1>5. best' # NoChild => Settled'
  BY <1>1, <1>2 DEF Settled
<1>6. PlayedInv' /\ RootInv'
  BY <1>1, <1>2, <1>5, PhasesDiffer DEF PlayedInv, RootInv
<1> QED
  BY <1>3, <1>4, <1>6 DEF BoardInv

\* The map of the root when a block is dealt.
LEMMA RootIs ==
    ASSUME BoardInv, phase = "create",
           NEW root, root = Mark(IF best = NoChild THEN rootMap ELSE best.map, ojamaPieces, Ojama)
    PROVE  root \in Boards /\ (root = map \/ Lost(root))
<1>1. /\ {map, rootMap} \subseteq Boards /\ best \in Child \cup {NoChild}
      /\ best # NoChild => Settled
      /\ best = NoChild => Lost(rootMap) \/ (rootMap = map /\ ojamaPieces = {})
  BY PhasesDiffer DEF BoardInv, TypeOK, PlayedInv, RootInv
<1>2. CASE best # NoChild
  <2>1. root = map
    BY <1>1, <1>2 DEF Settled
  <2> QED
    BY <1>1, <2>1
<1>3. CASE best = NoChild
  <2>1. root = Mark(rootMap, ojamaPieces, Ojama) /\ root \in Boards
    BY <1>1, <1>3 DEF Mark, Boards
  <2>2. CASE rootMap = map /\ ojamaPieces = {}
    BY <1>1, <2>1, <2>2, MarkNone
  <2>3. CASE Lost(rootMap)
    <3>1. \A c \in Cell : rootMap[c] # Empty => root[c] # Empty
      BY <2>1, IdsDiffer DEF Mark
    <3> QED
      BY <2>1, <2>3, <3>1, LostStaysLost
  <2> QED
    BY <1>1, <1>3, <2>2, <2>3
<1> QED
  BY <1>2, <1>3

LEMMA CreateKeeps == BoardInv /\ CreateNewBlock => BoardInv'
<1> SUFFICES ASSUME BoardInv, CreateNewBlock PROVE BoardInv'
  OBVIOUS
<1>1. /\ phase = "create"
      /\ UNCHANGED <<map, fallPieces, erasedColumns, waves, ojamaCount>>
  BY DEF CreateNewBlock
<1>2. TypeOK /\ cache \in Caches /\ map \in Boards /\ Solid(map) /\ Rest(map)
  BY <1>1, PhasesDiffer DEF BoardInv, TypeOK, MapInv
<1>3. CASE GameOver(Occupied(map))
  <2>1. phase' = "over" /\ UNCHANGED <<ojamaCount, ojamaPieces, block, turn, rootMap, children, best, cache>>
    BY <1>3 DEF CreateNewBlock, core
  <2>2. TypeOK' /\ cache' \in Caches
    BY <1>1, <1>2, <2>1 DEF TypeOK
  <2>3. MapInv'
    BY <1>1, <1>2, <2>1, PhasesDiffer DEF MapInv
  <2>4. WaveInv' /\ PlayedInv' /\ RootInv' /\ DealtInv'
    BY <2>1, PhasesDiffer DEF WaveInv, PlayedInv, RootInv, DealtInv
  <2> QED
    BY <2>2, <2>3, <2>4 DEF BoardInv
<1>4. CASE ~GameOver(Occupied(map))
  <2>1. /\ turn' = turn + 1
        /\ block' \in [top : Colors, bottom : Colors]
        /\ rootMap' = Mark(IF best = NoChild THEN rootMap ELSE best.map, ojamaPieces, Ojama)
        /\ best' = NoChild /\ ojamaPieces' = {} /\ phase' = "move"
    BY <1>4 DEF CreateNewBlock, Mark
  <2>2. PICK r : r = AddNextBlock(rootMap', block'.top, block'.bottom, cache)
    OBVIOUS
  <2>3. children' = r.children /\ cache' = r.cache
    BY <1>4, <2>2 DEF CreateNewBlock
  <2>4. PICK root : root = Mark(IF best = NoChild THEN rootMap ELSE best.map, ojamaPieces, Ojama)
    OBVIOUS
  <2>5. rootMap' = root /\ root \in Boards /\ (root = map \/ Lost(root))
    BY <1>1, <2>1, <2>4, RootIs
  <2>6. PICK top, bottom : top = block'.top /\ bottom = block'.bottom
    OBVIOUS
  <2>7. top \in Colors /\ bottom \in Colors
    BY <2>1, <2>6
  <2>8. PICK known : known = cache
    OBVIOUS
  <2>9. r = AddNextBlock(root, top, bottom, known) /\ known \in Caches
    BY <1>2, <2>2, <2>5, <2>6, <2>8
  <2>10. r \in Added(root, top, bottom) /\ (r.children = {} <=> Lost(root))
    BY <1>2, <2>5, <2>7, <2>9, ChildrenAnswer
  <2>11. r.children \subseteq GoodChildren(root, top, bottom) /\ r.cache \in Caches
    BY <2>10 DEF Added
  <2>12. TypeOK'
    <3>1. children' \subseteq Child
      BY <2>3, <2>11 DEF GoodChildren
    <3>2. \A k \in DOMAIN cache' : k \in Maps /\ cache'[k] \in Nat
      BY <2>3, <2>11 DEF Caches
    <3>3. turn' \in Nat
      BY <1>2, <2>1 DEF TypeOK
    <3>4. rootMap' \in Boards /\ best' = NoChild /\ ojamaPieces' = {} /\ phase' = "move"
      BY <2>1, <2>5
    <3> QED
      BY <1>1, <1>2, <2>1, <3>1, <3>2, <3>3, <3>4 DEF TypeOK
  <2>13. MapInv'
    BY <1>1, <1>2, <2>1, PhasesDiffer DEF MapInv
  <2>14. WaveInv' /\ PlayedInv' /\ RootInv'
    BY <2>1, PhasesDiffer DEF WaveInv, PlayedInv, RootInv
  <2>15. DealtInv'
    <3>1. ~GameOver(Occupied(map'))
      BY <1>1, <1>4
    <3>2. children' = {} => Lost(rootMap')
      BY <2>3, <2>5, <2>10
    <3>3. children' # {} => rootMap' = map' /\ children' \subseteq GoodChildren(map', block'.top, block'.bottom)
      BY <1>1, <2>3, <2>5, <2>6, <2>10, <2>11
    <3> QED
      BY <2>1, <3>1, <3>2, <3>3 DEF DealtInv
  <2> QED
    BY <2>3, <2>11, <2>12, <2>13, <2>14, <2>15 DEF BoardInv
<1> QED
  BY <1>3, <1>4

LEMMA StutterKeeps == BoardInv /\ UNCHANGED vars => BoardInv'
<1> SUFFICES ASSUME BoardInv, UNCHANGED vars PROVE BoardInv'
  OBVIOUS
<1>1. /\ UNCHANGED <<map, fallPieces, erasedColumns, waves, ojamaCount, ojamaPieces, phase, block, turn>>
      /\ UNCHANGED <<rootMap, children, best, cache>>
  BY DEF vars, game, core
<1>2. TypeOK' /\ cache' \in Caches
  BY <1>1 DEF BoardInv, TypeOK
<1>3. MapInv' /\ DealtInv' /\ RootInv'
  BY <1>1 DEF BoardInv, MapInv, DealtInv, RootInv
<1>4. WaveInv'
  BY <1>1 DEF BoardInv, WaveInv, Unfallen
<1>5. PlayedInv'
  BY <1>1 DEF BoardInv, PlayedInv, Settled
<1> QED
  BY <1>2, <1>3, <1>4, <1>5 DEF BoardInv

LEMMA NextKeepsBoard == BoardInv /\ [Next]_vars => BoardInv'
<1> SUFFICES ASSUME BoardInv, [Next]_vars PROVE BoardInv'
  OBVIOUS
<1>1. CASE DecideBlock
  BY <1>1, DecideKeeps
<1>2. CASE DecideBlockWhereItIs
  BY <1>2, DecideWhereItIsKeeps
<1>3. CASE ErasePieces
  BY <1>3, ErasePiecesKeeps
<1>4. CASE FallPieces
  BY <1>4, FallPiecesKeeps
<1>5. CASE FallOjamaPieces
  BY <1>5, FallOjamaKeeps
<1>6. CASE NoOjama
  BY <1>6, NoOjamaKeeps
<1>7. CASE CreateNewBlock
  BY <1>7, CreateKeeps
<1>8. CASE UNCHANGED vars
  BY <1>8, StutterKeeps
<1> QED
  BY <1>1, <1>2, <1>3, <1>4, <1>5, <1>6, <1>7, <1>8 DEF Next

LEMMA BoardImplies == BoardInv => TypeOK /\ NothingPending /\ MapsAgreeWhilePlaying /\ ChainNotShort
<1> SUFFICES ASSUME BoardInv PROVE TypeOK /\ NothingPending /\ MapsAgreeWhilePlaying /\ ChainNotShort
  OBVIOUS
<1>1. TypeOK
  BY DEF BoardInv
<1>2. NothingPending
  BY PhasesDiffer DEF BoardInv, MapInv, Solid, Rest, NothingPending
<1>3. MapsAgreeWhilePlaying
  BY DEF BoardInv, DealtInv, MapsAgreeWhilePlaying
<1>4. ChainNotShort
  BY DEF BoardInv, PlayedInv, Settled, ChainNotShort
<1> QED
  BY <1>1, <1>2, <1>3, <1>4

----------------------------------------------------------------------------
(* The theorems.                                                                   *)

(* The inductive invariant of the board and the search on it: what the landed pieces, *)
(* the marked cells and the child that is played say of each other in every phase of  *)
(* a turn.                                                                            *)
THEOREM BoardInvariant == Spec => []BoardInv
<1>1. Init => BoardInv
  BY InitBoard
<1>2. BoardInv /\ [Next]_vars => BoardInv'
  BY NextKeepsBoard
<1> QED
  BY <1>1, <1>2, PTL DEF Spec

(* Both maps hold pieces and gaps only, never a cell that is still marked, and the    *)
(* chain cache numbers of maps, for every size of the well and any number of turns.   *)
THEOREM BoardTypeCorrect == Spec => []TypeOK
<1>1. BoardInv => TypeOK
  BY BoardImplies
<1> QED
  BY <1>1, BoardInvariant, PTL

(* erasePieces and fallPieces look only at the pieces that landed last and at the     *)
(* columns where pieces vanished: nothing is left hanging and no large group is left  *)
(* when createNewBlock deals the next block.                                          *)
THEOREM NothingIsPending == Spec => []NothingPending
<1>1. BoardInv => NothingPending
  BY BoardImplies
<1> QED
  BY <1>1, BoardInvariant, PTL

(* DropPiecese and CountAndMarkConnectedPieces of the search end on the map on which  *)
(* the waves of the layer end, so the root's map is the game's for as long as a       *)
(* placement is found.                                                                *)
THEOREM MapsAgree == Spec => []MapsAgreeWhilePlaying
<1>1. BoardInv => MapsAgreeWhilePlaying
  BY BoardImplies
<1> QED
  BY <1>1, BoardInvariant, PTL

(* The chain cache of GetChainCount may make a chain longer than it is, never shorter. *)
THEOREM ChainIsNotShort == Spec => []ChainNotShort
<1>1. BoardInv => ChainNotShort
  BY BoardImplies
<1> QED
  BY <1>1, BoardInvariant, PTL

================================================================================
