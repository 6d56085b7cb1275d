-------------------------- MODULE PuzzleSearch_proof ---------------------------
(* Theorems about PuzzlePools and PuzzleSearch, for every size of the pools, every *)
(* depth and every bound.                                                          *)
EXTENDS PuzzleSearch, TLAPS, FiniteSetTheorems, WellFoundedInduction

----------------------------------------------------------------------------
(* Induction over numbers, for sets instead of predicates, and the existence of     *)
(* functions defined by recursion, with the step given as a function, so that the   *)
(* provers can instantiate them.                                                    *)

\* A set of numbers that is not empty has a least one.
LEMMA LeastNat ==
    ASSUME NEW T \in SUBSET Nat, T # {}
    PROVE  \E n \in T : \A m \in T : n <= m
<1> DEFINE R == OpToRel(<, Nat)
<1>1. \E x \in T : \A y \in T : ~(<<y, x>> \in R)
  <2>1. IsWellFoundedOn(R, Nat)
    BY NatLessThanWellFounded
  <2> HIDE DEF R
  <2>2. QED BY <2>1, WFMin
<1>2. PICK x \in T : \A y \in T : ~(<<y, x>> \in R)
  BY <1>1
<1>3. \A y \in T : x <= y
  <2> SUFFICES ASSUME NEW y \in T, ~(x <= y) PROVE FALSE
    OBVIOUS
  <2>1. x \in Nat /\ y \in Nat /\ y < x
    OBVIOUS
  <2>2. <<y, x>> \in {ss \in Nat \X Nat : ss[1] < ss[2]}
    BY <2>1
  <2>3. <<y, x>> \in R
    BY <2>2 DEF OpToRel
  <2>4. QED BY <2>3, <1>2
<1>4. QED BY <1>3

\* Induction, over a set instead of a predicate.
LEMMA Induction ==
    ASSUME NEW S, 0 \in S, \A n \in Nat : n \in S => n + 1 \in S
    PROVE  Nat \subseteq S
<1> DEFINE T == {n \in Nat : n \notin S}
<1>1. SUFFICES ASSUME T # {} PROVE FALSE
  OBVIOUS
<1>2. PICK n \in T : \A m \in T : n <= m
  BY <1>1, LeastNat
<1>3. n \in Nat /\ n # 0 /\ n - 1 \in Nat
  BY <1>2
<1>4. n - 1 \notin T
  BY <1>2, <1>3
<1>5. n - 1 \in S
  BY <1>3, <1>4
<1>6. (n - 1) + 1 \in S
  BY <1>3, <1>5
<1>7. QED BY <1>3, <1>6, <1>2

\* The steps of a recursion over D with values in S, and the functions step defines.
Steps(D, S) == [D \X [D -> S] -> S]
Solutions(D, S, step) == {f \in [D -> S] : \A n \in D : f[n] = step[<<n, f>>]}

\* step looks only at values at lower ranks.
Descends(D, S, rank, step) ==
    \A n \in D : \A f, g \in [D -> S] :
        (\A m \in D : rank[m] < rank[n] => f[m] = g[m]) => step[<<n, f>>] = step[<<n, g>>]

\* The functions that step defines where the rank is below k.
Defined(D, S, rank, step, k) ==
    {f \in [D -> S] : \A n \in D : rank[n] < k => f[n] = step[<<n, f>>]}

\* A function exists whose value anywhere depends on its values at lower ranks.
LEMMA RankRecursion ==
    ASSUME NEW D, NEW S, NEW K \in Nat, NEW rank \in [D -> 0..K], NEW step \in Steps(D, S),
           S # {}, Descends(D, S, rank, step)
    PROVE  Solutions(D, S, step) # {}
<1> DEFINE T == {k \in Nat : Defined(D, S, rank, step, k) # {}}
<1>1. 0 \in T
  <2>1. PICK s \in S : TRUE
    OBVIOUS
  <2>2. [n \in D |-> s] \in Defined(D, S, rank, step, 0)
    BY <2>1 DEF Defined
  <2>3. QED BY <2>2
<1>2. ASSUME NEW k \in Nat, k \in T PROVE k + 1 \in T
  <2>1. PICK f : f \in Defined(D, S, rank, step, k)
    BY <1>2
  <2>2. f \in [D -> S] /\ \A n \in D : rank[n] < k => f[n] = step[<<n, f>>]
    BY <2>1 DEF Defined
  <2> DEFINE g == [n \in D |-> step[<<n, f>>]]
  <2>3. g \in [D -> S]
    BY <2>2 DEF Steps
  <2>4. ASSUME NEW n \in D, rank[n] < k + 1 PROVE g[n] = step[<<n, g>>]
    <3>1. ASSUME NEW m \in D, rank[m] < rank[n] PROVE f[m] = g[m]
      <4>1. rank[m] < k
        BY <2>4, <3>1
      <4>2. QED BY <4>1, <2>2
    <3>2. step[<<n, f>>] = step[<<n, g>>]
      <4> HIDE DEF g
      <4>1. QED BY <3>1, <2>2, <2>3 DEF Descends
    <3>3. QED BY <3>2
  <2>5. g \in Defined(D, S, rank, step, k + 1)
    <3> HIDE DEF g
    <3>1. QED BY <2>3, <2>4 DEF Defined
  <2>6. QED BY <2>5
<1>3. Nat \subseteq T
  <2> HIDE DEF T
  <2>1. QED BY <1>1, <1>2, Induction
<1>4. PICK f : f \in Defined(D, S, rank, step, K + 1)
  BY <1>3
<1>5. f \in [D -> S] /\ \A n \in D : rank[n] < K + 1 => f[n] = step[<<n, f>>]
  BY <1>4 DEF Defined
<1>6. \A n \in D : rank[n] < K + 1
  OBVIOUS
<1>7. f \in Solutions(D, S, step)
  BY <1>5, <1>6 DEF Solutions
<1>8. QED BY <1>7

\* Of finitely many weighed places there is a first one of the highest weight.
LEMMA FirstHighest ==
    ASSUME NEW n \in Nat, NEW w \in [1..n -> Nat], NEW I \in SUBSET (1..n), I # {}
    PROVE  \E i \in I : \A j \in I : w[j] < w[i] \/ (w[j] = w[i] /\ i <= j)
<1> DEFINE First(i, k) == \A j \in I : j <= k => w[j] < w[i] \/ (w[j] = w[i] /\ i <= j)
           T == {k \in Nat : k <= n => (\A i \in I : i > k) \/ \E i \in I : i <= k /\ First(i, k)}
<1>1. 0 \in T
  OBVIOUS
<1>2. ASSUME NEW k \in Nat, k \in T PROVE k + 1 \in T
  <2> SUFFICES ASSUME k + 1 <= n, ~ \A i \in I : i > k + 1
               PROVE  \E i \in I : i <= k + 1 /\ First(i, k + 1)
    OBVIOUS
  <2>1. CASE k + 1 \notin I
    <3>1. \A j \in I : j <= k + 1 => j <= k
      BY <2>1
    <3>2. PICK i \in I : i <= k /\ First(i, k)
      BY <1>2, <3>1
    <3>3. First(i, k + 1)
      BY <3>1, <3>2
    <3>4. QED BY <3>2, <3>3
  <2>2. CASE k + 1 \in I /\ \A i \in I : i > k
    <3>1. First(k + 1, k + 1)
      BY <2>2
    <3>2. QED BY <2>2, <3>1
  <2>3. CASE k + 1 \in I /\ \E i \in I : i <= k /\ First(i, k)
    <3>1. PICK i \in I : i <= k /\ First(i, k)
      BY <2>3
    <3>2. CASE w[k + 1] > w[i]
      <4>1. First(k + 1, k + 1)
        BY <3>1, <3>2, <2>3
      <4>2. QED BY <4>1, <2>3
    <3>3. CASE ~(w[k + 1] > w[i])
      <4>1. First(i, k + 1)
        BY <3>1, <3>3, <2>3
      <4>2. QED BY <4>1, <3>1
    <3>4. QED BY <3>2, <3>3
  <2>4. QED BY <1>2, <2>1, <2>2, <2>3
<1>3. Nat \subseteq T
  <2> HIDE DEF T
  <2>1. QED BY <1>1, <1>2, Induction
<1>4. n \in T
  <2> HIDE DEF T
  <2>1. QED BY <1>3
<1>5. (\A i \in I : i > n) \/ \E i \in I : i <= n /\ First(i, n)
  BY <1>4
<1>6. \A i \in I : i <= n /\ ~(i > n)
  OBVIOUS
<1>7. PICK i \in I : First(i, n)
  BY <1>5, <1>6
<1>8. QED BY <1>6, <1>7

----------------------------------------------------------------------------
(* The pools.                                                                      *)

\* A list of pools in which every block is used or free.
PoolsFor(used) == {alloc \in Seq(Pool) : Partitioned(alloc, used)}

\* The least of places.
LEMMA LeastPlace ==
    ASSUME NEW I \in SUBSET Nat, I # {}
    PROVE  /\ (CHOOSE i \in I : \A j \in I : i <= j) \in I
           /\ \A j \in I : (CHOOSE i \in I : \A k \in I : i <= k) <= j
<1>1. \E i \in I : \A j \in I : i <= j
  BY LeastNat
<1> QED
  BY <1>1

\* A new pool has an address of its own.
LEMMA FreshIdIsFresh ==
    ASSUME NEW alloc \in Seq(Pool)
    PROVE  FreshId(alloc) \in Nat \ {0} /\ FreshId(alloc) \notin Ids(alloc)
<1> DEFINE n == Len(alloc)
           f == [i \in 1..n |-> alloc[i].id]
<1>1. n \in Nat /\ DOMAIN alloc = 1..n
  OBVIOUS
<1>2. SUFFICES ASSUME 1..n + 1 \subseteq Ids(alloc) PROVE FALSE
  <2>1. (\E id \in 1..n + 1 : id \notin Ids(alloc)) => FreshId(alloc) \in 1..n + 1 /\ FreshId(alloc) \notin Ids(alloc)
    BY DEF FreshId
  <2>2. 1..n + 1 \subseteq Nat \ {0}
    BY <1>1
  <2> HIDE DEF n
  <2>3. QED BY <2>1, <2>2
<1>3. f \in Surjection(1..n, Ids(alloc))
  <2>1. \A x \in Ids(alloc) : \E i \in 1..n : f[i] = x
    BY <1>1 DEF Ids
  <2>2. f \in [1..n -> Ids(alloc)]
    BY <1>1 DEF Ids
  <2> HIDE DEF f
  <2>3. QED BY <2>1, <2>2 DEF Surjection
<1> HIDE DEF f, n
<1>4. IsFiniteSet(1..n) /\ Cardinality(1..n) = n
  BY <1>1, FS_Interval
<1>5. IsFiniteSet(1..n + 1) /\ Cardinality(1..n + 1) = n + 1
  BY <1>1, FS_Interval
<1>6. IsFiniteSet(Ids(alloc)) /\ Cardinality(Ids(alloc)) <= n
  BY <1>3, <1>4, FS_Surjection
<1>7. Cardinality(1..n + 1) <= Cardinality(Ids(alloc))
  BY <1>2, <1>6, FS_Subset
<1>8. Cardinality(Ids(alloc)) \in Nat
  BY <1>6, FS_CardinalityType
<1> QED
  BY <1>1, <1>5, <1>6, <1>7, <1>8

\* What AllocNode takes its block from: the same pools, or one more.
LEMMA StockedPools ==
    ASSUME NEW used \in SUBSET Node, NEW alloc \in PoolsFor(used)
    PROVE  Stocked(alloc) \in PoolsFor(used) /\ WithRoom(Stocked(alloc)) # {}
<1>1. alloc \in Seq(Pool) /\ Partitioned(alloc, used)
  BY DEF PoolsFor
<1>2. CASE WithRoom(alloc) # {}
  BY <1>2 DEF Stocked
<1>3. CASE WithRoom(alloc) = {}
  <2> DEFINE n == Len(alloc)
             id == FreshId(alloc)
             a == Append(alloc, NewPool(id))
  <2>1. Stocked(alloc) = a
    BY <1>3 DEF Stocked, AddAllocator
  <2>2. id \in Nat \ {0} /\ id \notin Ids(alloc)
    BY <1>1, FreshIdIsFresh
  <2> HIDE DEF id
  <2>3. NewPool(id) \in Pool /\ NewPool(id).id = id /\ \A b \in Block : NewPool(id).free[b] = 1
    BY <2>2 DEF NewPool, Pool
  <2>4. /\ n \in Nat /\ a \in Seq(Pool) /\ DOMAIN a = 1..n + 1 /\ a[n + 1] = NewPool(id)
        /\ \A i \in 1..n : a[i] = alloc[i]
        /\ DOMAIN alloc = 1..n
    BY <1>1, <2>3
  <2> HIDE DEF n, a
  <2>5. \A i \in 1..n : a[i].id \in Ids(alloc)
    BY <2>4 DEF Ids
  <2>6. \A i, j \in DOMAIN a : a[i].id = a[j].id => i = j
    BY <1>1, <2>2, <2>3, <2>4, <2>5 DEF Partitioned
  <2>7. \A b \in Block : <<id, b>> \notin used
    BY <1>1, <2>2 DEF Partitioned
  <2>8. \A i \in DOMAIN a, b \in Block : a[i].free[b] = IF <<a[i].id, b>> \in used THEN 0 ELSE 1
    <3> TAKE i \in DOMAIN a, b \in Block
    <3>1. CASE i = n + 1
      BY <3>1, <2>3, <2>4, <2>7
    <3>2. CASE i \in 1..n
      BY <3>2, <1>1, <2>4 DEF Partitioned
    <3>3. QED BY <3>1, <3>2, <2>4
  <2>9. \A x \in used : x[1] \in Ids(a)
    <3>1. Ids(alloc) \subseteq Ids(a)
      BY <2>4 DEF Ids
    <3>2. QED BY <3>1, <1>1 DEF Partitioned
  <2>10. Partitioned(a, used)
    BY <2>6, <2>8, <2>9 DEF Partitioned
  <2>11. n + 1 \in WithRoom(a)
    <3>1. 1 \in Block
      BY PoolAssumption DEF Block
    <3>2. 1 \in FreeBlocks(a[n + 1])
      BY <3>1, <2>3, <2>4 DEF FreeBlocks
    <3>3. QED BY <3>2, <2>4 DEF WithRoom
  <2>12. QED BY <2>1, <2>4, <2>10, <2>11 DEF PoolsFor
<1> QED
  BY <1>2, <1>3

\* AllocNode hands out a block nobody uses, and keeps account of it.
THEOREM AllocNodeIsFresh ==
    ASSUME NEW used \in SUBSET Node, NEW alloc \in PoolsFor(used)
    PROVE  /\ AllocatedNode(alloc) \in Node \ used
           /\ AllocNode(alloc) \in PoolsFor(used \cup {AllocatedNode(alloc)})
<1> DEFINE a == Stocked(alloc)
           s == Supplier(a)
           b == FirstBlock(a[s])
           new == AllocNode(alloc)
           c == AllocatedNode(alloc)
<1>1. a \in Seq(Pool) /\ Partitioned(a, used) /\ WithRoom(a) # {}
  BY StockedPools DEF PoolsFor
<1>2. s \in DOMAIN a /\ FreeBlocks(a[s]) # {}
  <2>1. WithRoom(a) \subseteq Nat
    BY <1>1 DEF WithRoom
  <2>2. s \in WithRoom(a)
    <3> HIDE DEF a
    <3>1. QED BY <1>1, <2>1, LeastPlace DEF Supplier
  <2>3. QED BY <2>2 DEF WithRoom
<1>3. c = <<a[s].id, b>>
  BY DEF AllocatedNode
<1>4. new = [j \in DOMAIN a |-> IF j = s THEN [a[j] EXCEPT !.free[FirstBlock(a[j])] = @ - 1] ELSE a[j]]
  BY DEF AllocNode
<1> HIDE DEF a, s, new, c
<1>5. b \in FreeBlocks(a[s])
  <2>1. FreeBlocks(a[s]) \subseteq Nat
    BY PoolAssumption DEF FreeBlocks, Block
  <2>2. QED BY <2>1, <1>2, LeastPlace DEF FirstBlock
<1>6. b \in Block /\ a[s].free[b] > 0
  BY <1>5 DEF FreeBlocks
<1>7. new = [j \in DOMAIN a |-> IF j = s THEN [a[j] EXCEPT !.free[b] = @ - 1] ELSE a[j]]
  BY <1>4
<1> HIDE DEF b
<1>8. \A i \in DOMAIN a : a[i] \in Pool
  BY <1>1
<1>9. a[s].free \in [Block -> Nat] /\ a[s].id \in Nat \ {0}
  BY <1>8, <1>2 DEF Pool
<1>10. c \in Node /\ c \notin used
  <2>1. c \notin used
    BY <1>1, <1>2, <1>3, <1>6 DEF Partitioned
  <2>2. QED BY <2>1, <1>3, <1>6, <1>9 DEF Node
<1>11. a[s].free[b] = 1
  BY <1>1, <1>2, <1>3, <1>6, <1>10 DEF Partitioned
<1>12. /\ new[s] \in Pool /\ new[s].id = a[s].id /\ new[s].free[b] = 0
       /\ \A d \in Block : d # b => new[s].free[d] = a[s].free[d]
  <2>1. new[s] = [a[s] EXCEPT !.free[b] = @ - 1]
    BY <1>2, <1>7
  <2>2. a[s] \in [id : Nat \ {0}, free : [Block -> Nat]]
    BY <1>8, <1>2 DEF Pool
  <2>3. new[s].free = [a[s].free EXCEPT ![b] = 0] /\ new[s].id = a[s].id
    BY <2>1, <2>2, <1>11, <1>6
  <2>4. new[s] = [id |-> a[s].id, free |-> [a[s].free EXCEPT ![b] = 0]]
    BY <2>1, <2>2, <1>11, <1>6
  <2>5. QED BY <2>2, <2>3, <2>4, <1>9, <1>6 DEF Pool
<1>13. \A i \in DOMAIN a : i # s => new[i] = a[i]
  BY <1>7
<1>14. DOMAIN new = DOMAIN a /\ Len(new) = Len(a) /\ new \in Seq(Pool)
  <2>1. \A i \in DOMAIN a : new[i] \in Pool
    BY <1>8, <1>12, <1>13
  <2>2. DOMAIN a = 1..Len(a) /\ Len(a) \in Nat
    BY <1>1
  <2>3. new \in [1..Len(a) -> Pool]
    BY <1>7, <2>1, <2>2
  <2>4. QED BY <2>2, <2>3
<1>15. \A i \in DOMAIN a : new[i].id = a[i].id
  BY <1>12, <1>13
<1>16. \A i, j \in DOMAIN new : new[i].id = new[j].id => i = j
  BY <1>1, <1>14, <1>15 DEF Partitioned
<1>17. \A i \in DOMAIN new, d \in Block :
          new[i].free[d] = IF <<new[i].id, d>> \in used \cup {c} THEN 0 ELSE 1
  <2> TAKE i \in DOMAIN new, d \in Block
  <2>1. CASE i = s /\ d = b
    BY <2>1, <1>3, <1>12
  <2>2. CASE i = s /\ d # b
    BY <2>2, <1>1, <1>2, <1>3, <1>12 DEF Partitioned
  <2>3. CASE i # s
    <3>1. a[i].id # a[s].id
      BY <2>3, <1>1, <1>2, <1>14 DEF Partitioned
    <3>2. <<a[i].id, d>> # c
      BY <3>1, <1>3
    <3>3. QED BY <2>3, <3>2, <1>1, <1>13, <1>14 DEF Partitioned
  <2>4. QED BY <2>1, <2>2, <2>3
<1>18. \A x \in used \cup {c} : x[1] \in Ids(new)
  <2>1. Ids(new) = Ids(a)
    BY <1>14, <1>15 DEF Ids
  <2>2. c[1] \in Ids(a)
    BY <1>2, <1>3 DEF Ids
  <2>3. QED BY <2>1, <2>2, <1>1 DEF Partitioned
<1> QED
  <2>1. Partitioned(new, used \cup {c})
    BY <1>16, <1>17, <1>18 DEF Partitioned
  <2>2. QED BY <2>1, <1>10, <1>14 DEF PoolsFor, new, c

\* Deallocate takes what is freed once out of use.
THEOREM DeallocateFrees ==
    ASSUME NEW used \in SUBSET Node, NEW alloc \in PoolsFor(used), NEW gone \in SUBSET used,
           NEW times, DOMAIN times = gone, \A n \in gone : times[n] = 1
    PROVE  Deallocate(alloc, times) \in PoolsFor(used \ gone)
<1> DEFINE new == Deallocate(alloc, times)
<1>1. alloc \in Seq(Pool) /\ Partitioned(alloc, used)
  BY DEF PoolsFor
<1>2. \A i \in DOMAIN alloc : alloc[i] \in Pool
  BY <1>1
<1>3. DOMAIN new = DOMAIN alloc
  BY DEF Deallocate
<1>4. ASSUME NEW i \in DOMAIN alloc
      PROVE  /\ new[i] \in Pool /\ new[i].id = alloc[i].id
             /\ \A b \in Block : new[i].free[b] = IF <<alloc[i].id, b>> \in used \ gone THEN 0 ELSE 1
  <2> DEFINE p == alloc[i]
             free == [b \in Block |-> p.free[b] + IF <<p.id, b>> \in DOMAIN times THEN times[<<p.id, b>>] ELSE 0]
  <2>1. p \in [id : Nat \ {0}, free : [Block -> Nat]]
    BY <1>2 DEF Pool
  <2>2. new[i] = [p EXCEPT !.free = free]
    BY DEF Deallocate
  <2>3. \A b \in Block : p.free[b] = IF <<p.id, b>> \in used THEN 0 ELSE 1
    BY <1>1 DEF Partitioned
  <2>4. \A b \in Block : free[b] = IF <<p.id, b>> \in used \ gone THEN 0 ELSE 1
    BY <2>3
  <2>5. free \in [Block -> Nat]
    <3>1. DOMAIN free = Block /\ free = [b \in Block |-> free[b]]
      OBVIOUS
    <3> HIDE DEF free
    <3>2. ASSUME NEW b \in Block PROVE free[b] \in Nat
      <4>1. free[b] = 0 \/ free[b] = 1
        BY <2>4
      <4>2. QED BY <4>1
    <3>3. QED BY <3>1, <3>2
  <2> HIDE DEF free, p, new
  <2>6. new[i] = [id |-> p.id, free |-> free]
    BY <2>1, <2>2
  <2>7. QED BY <2>1, <2>4, <2>5, <2>6 DEF Pool, p
<1> HIDE DEF new
<1>5. new \in Seq(Pool)
  <2>1. DOMAIN alloc = 1..Len(alloc) /\ Len(alloc) \in Nat
    BY <1>1
  <2>2. new = [i \in DOMAIN alloc |-> new[i]]
    BY DEF new, Deallocate
  <2>3. new \in [1..Len(alloc) -> Pool]
    BY <1>3, <1>4, <2>1, <2>2
  <2>4. QED BY <2>1, <2>3
<1>6. Partitioned(new, used \ gone)
  <2>1. \A i, j \in DOMAIN new : new[i].id = new[j].id => i = j
    BY <1>1, <1>3, <1>4 DEF Partitioned
  <2>2. \A i \in DOMAIN new, b \in Block : new[i].free[b] = IF <<new[i].id, b>> \in used \ gone THEN 0 ELSE 1
    BY <1>3, <1>4
  <2>3. Ids(new) = Ids(alloc)
    BY <1>3, <1>4 DEF Ids
  <2>4. \A n \in used \ gone : n[1] \in Ids(new)
    BY <1>1, <2>3 DEF Partitioned
  <2>5. QED BY <2>1, <2>2, <2>4 DEF Partitioned
<1> QED
  BY <1>5, <1>6 DEF PoolsFor, new

\* The lists that hold, each once, those of the first k pools that are in use.
UsedPools(alloc, k) ==
    {s \in Seq(Pool) :
        /\ \A i \in DOMAIN s : \E j \in 1..k : s[i] = alloc[j]
        /\ \A j \in 1..k : ~IsEmpty(alloc[j]) => \E i \in DOMAIN s : s[i] = alloc[j]
        /\ \A i, j \in DOMAIN s : s[i].id = s[j].id => i = j}

LEMMA UsedPoolsStep ==
    ASSUME NEW used \in SUBSET Node, NEW alloc \in PoolsFor(used), NEW k \in 1..Len(alloc),
           NEW s \in UsedPools(alloc, k - 1)
    PROVE  /\ IsEmpty(alloc[k]) => s \in UsedPools(alloc, k)
           /\ Append(s, alloc[k]) \in UsedPools(alloc, k)
<1>1. alloc \in Seq(Pool) /\ Partitioned(alloc, used)
  BY DEF PoolsFor
<1>2. /\ s \in Seq(Pool)
      /\ \A i \in DOMAIN s : \E j \in 1..k - 1 : s[i] = alloc[j]
      /\ \A j \in 1..k - 1 : ~IsEmpty(alloc[j]) => \E i \in DOMAIN s : s[i] = alloc[j]
      /\ \A i, j \in DOMAIN s : s[i].id = s[j].id => i = j
  BY DEF UsedPools
<1>3. /\ DOMAIN alloc = 1..Len(alloc) /\ Len(alloc) \in Nat /\ k \in Nat
      /\ 1..k = (1..k - 1) \cup {k} /\ 1..k \subseteq DOMAIN alloc /\ k \notin 1..k - 1
  BY <1>1
<1>4. IsEmpty(alloc[k]) => s \in UsedPools(alloc, k)
  BY <1>2, <1>3 DEF UsedPools
<1>5. Append(s, alloc[k]) \in UsedPools(alloc, k)
  <2> DEFINE a == Append(s, alloc[k])
             n == Len(s)
  <2>1. /\ n \in Nat /\ a \in Seq(Pool) /\ DOMAIN a = 1..n + 1 /\ a[n + 1] = alloc[k]
        /\ \A i \in 1..n : a[i] = s[i]
        /\ DOMAIN s = 1..n
    BY <1>1, <1>2, <1>3
  <2> HIDE DEF a, n
  <2>2. \A i \in DOMAIN a : \E j \in 1..k : a[i] = alloc[j]
    <3> TAKE i \in DOMAIN a
    <3>1. CASE i = n + 1
      BY <3>1, <2>1, <1>3
    <3>2. CASE i \in 1..n
      BY <3>2, <2>1, <1>2, <1>3
    <3>3. QED BY <3>1, <3>2, <2>1
  <2>3. \A j \in 1..k : ~IsEmpty(alloc[j]) => \E i \in DOMAIN a : a[i] = alloc[j]
    <3> TAKE j \in 1..k
    <3>1. CASE j = k
      BY <3>1, <2>1
    <3>2. CASE j \in 1..k - 1
      <4>1. \A i \in DOMAIN s : i \in DOMAIN a /\ a[i] = s[i]
        BY <2>1
      <4>2. QED BY <3>2, <4>1, <1>2
    <3>3. QED BY <3>1, <3>2, <1>3
  <2>4. \A i \in 1..n : s[i].id # alloc[k].id
    <3> TAKE i \in 1..n
    <3>1. PICK j \in 1..k - 1 : s[i] = alloc[j]
      BY <1>2, <2>1
    <3>2. QED BY <3>1, <1>1, <1>3 DEF Partitioned
  <2>5. \A i, j \in DOMAIN a : a[i].id = a[j].id => i = j
    <3> TAKE i, j \in DOMAIN a
    <3>1. i \in 1..n \/ i = n + 1
      BY <2>1
    <3>2. j \in 1..n \/ j = n + 1
      BY <2>1
    <3>3. QED BY <3>1, <3>2, <2>1, <2>4, <1>2
  <2>6. QED BY <2>1, <2>2, <2>3, <2>5 DEF UsedPools, a
<1> QED
  BY <1>4, <1>5

\* Clear deletes no pool with a block in use.
THEOREM DropEmptyKeepsUsed ==
    ASSUME NEW used \in SUBSET Node, NEW alloc \in PoolsFor(used)
    PROVE  DropEmpty(alloc) \in PoolsFor(used)
<1> DEFINE n == Len(alloc)
           D == 0..n
<1>1. alloc \in Seq(Pool) /\ Partitioned(alloc, used) /\ n \in Nat /\ DOMAIN alloc = 1..n
  BY DEF PoolsFor
<1> DEFINE step == [q \in D \X [D -> Seq(Pool)] |->
                       IF q[1] = 0 THEN <<>>
                       ELSE IF IsEmpty(alloc[q[1]]) THEN q[2][q[1] - 1]
                       ELSE Append(q[2][q[1] - 1], alloc[q[1]])]
<1>2. step \in Steps(D, Seq(Pool))
  <2>1. ASSUME NEW i \in D, NEW f \in [D -> Seq(Pool)], i # 0
        PROVE  f[i - 1] \in Seq(Pool) /\ Append(f[i - 1], alloc[i]) \in Seq(Pool)
    <3>1. i - 1 \in D /\ i \in 1..n
      BY <2>1, <1>1
    <3>2. alloc[i] \in Pool
      BY <3>1, <1>1
    <3>3. QED BY <3>1, <3>2
  <2>2. <<>> \in Seq(Pool)
    OBVIOUS
  <2> HIDE DEF D
  <2>3. QED BY <2>1, <2>2 DEF Steps
<1>3. \A i \in D : \A f, g \in [D -> Seq(Pool)] :
         (\A m \in D : m < i => f[m] = g[m]) => step[<<i, f>>] = step[<<i, g>>]
  <2> TAKE i \in D
  <2> TAKE f, g \in [D -> Seq(Pool)]
  <2> HAVE \A m \in D : m < i => f[m] = g[m]
  <2>1. i # 0 => i - 1 \in D /\ i - 1 < i
    BY <1>1
  <2>2. QED BY <2>1
<1> DEFINE rank == [i \in D |-> i]
<1>4. rank \in [D -> 0..n]
  OBVIOUS
<1>5. Solutions(D, Seq(Pool), step) # {}
  <2>1. Descends(D, Seq(Pool), rank, step)
    <3>1. \A i \in D : rank[i] = i
      OBVIOUS
    <3> HIDE DEF D, step, rank
    <3>2. QED BY <3>1, <1>3 DEF Descends
  <2>2. Seq(Pool) # {}
    <3>1. <<>> \in Seq(Pool)
      OBVIOUS
    <3>2. QED BY <3>1
  <2> HIDE DEF D, step, rank, n
  <2>3. QED BY <1>1, <1>2, <1>4, <2>1, <2>2, RankRecursion
<1>6. PICK f \in [D -> Seq(Pool)] : \A i \in D : f[i] = step[<<i, f>>]
  BY <1>5 DEF Solutions
<1>7. f = [i \in 0..Len(alloc) |-> IF i = 0 THEN <<>>
                                   ELSE IF IsEmpty(alloc[i]) THEN f[i - 1] ELSE Append(f[i - 1], alloc[i])]
  BY <1>6
<1> DEFINE table == CHOOSE g : g = [i \in 0..Len(alloc) |->
                                      IF i = 0 THEN <<>>
                                      ELSE IF IsEmpty(alloc[i]) THEN g[i - 1] ELSE Append(g[i - 1], alloc[i])]
<1>8. table = [i \in 0..Len(alloc) |-> IF i = 0 THEN <<>>
                                       ELSE IF IsEmpty(alloc[i]) THEN table[i - 1]
                                       ELSE Append(table[i - 1], alloc[i])]
  <2> HIDE DEF step
  <2>1. QED BY <1>7
<1>9. DropEmpty(alloc) = table[n]
  BY DEF DropEmpty
<1> HIDE DEF table, step
<1>10. /\ table[0] = <<>>
       /\ \A i \in 1..n : table[i] = IF IsEmpty(alloc[i]) THEN table[i - 1]
                                     ELSE Append(table[i - 1], alloc[i])
  <2>1. \A i \in 0..n : table[i] = IF i = 0 THEN <<>>
                                  ELSE IF IsEmpty(alloc[i]) THEN table[i - 1]
                                  ELSE Append(table[i - 1], alloc[i])
    BY <1>8
  <2>2. 0 \in 0..n /\ \A i \in 1..n : i \in 0..n /\ i # 0
    BY <1>1
  <2> HIDE DEF n
  <2>3. QED BY <2>1, <2>2
<1> DEFINE T == {k \in Nat : k <= n => table[k] \in UsedPools(alloc, k)}
<1>11. 0 \in T
  <2>1. <<>> \in UsedPools(alloc, 0)
    BY DEF UsedPools
  <2>2. QED BY <2>1, <1>10
<1>12. ASSUME NEW k \in Nat, k \in T PROVE k + 1 \in T
  <2> SUFFICES ASSUME k + 1 <= n PROVE table[k + 1] \in UsedPools(alloc, k + 1)
    OBVIOUS
  <2>1. k + 1 \in 1..Len(alloc) /\ (k + 1) - 1 = k /\ table[k] \in UsedPools(alloc, k)
    BY <1>1, <1>12
  <2>2. \A s \in UsedPools(alloc, k) :
            /\ IsEmpty(alloc[k + 1]) => s \in UsedPools(alloc, k + 1)
            /\ Append(s, alloc[k + 1]) \in UsedPools(alloc, k + 1)
    BY <2>1, UsedPoolsStep
  <2>3. QED BY <1>10, <2>1, <2>2
<1>13. table[n] \in UsedPools(alloc, n)
  <2>1. Nat \subseteq T
    <3> HIDE DEF T
    <3>1. QED BY <1>11, <1>12, Induction
  <2>2. QED BY <2>1, <1>1
<1> DEFINE s == table[n]
<1>14. /\ s \in Seq(Pool)
       /\ \A i \in DOMAIN s : \E j \in 1..n : s[i] = alloc[j]
       /\ \A j \in 1..n : ~IsEmpty(alloc[j]) => \E i \in DOMAIN s : s[i] = alloc[j]
       /\ \A i, j \in DOMAIN s : s[i].id = s[j].id => i = j
  BY <1>13 DEF UsedPools
<1> HIDE DEF s
<1>15. ASSUME NEW i \in DOMAIN s, NEW b \in Block
       PROVE  s[i].free[b] = IF <<s[i].id, b>> \in used THEN 0 ELSE 1
  <2>1. PICK j \in 1..n : s[i] = alloc[j]
    BY <1>14
  <2>2. QED BY <2>1, <1>1 DEF Partitioned
<1>16. ASSUME NEW x \in used PROVE x[1] \in Ids(s)
  <2>1. PICK j \in 1..n : x[1] = alloc[j].id
    BY <1>1 DEF Partitioned, Ids
  <2>2. x[2] \in Block /\ x = <<x[1], x[2]>>
    BY DEF Node
  <2>3. alloc[j].free[x[2]] = 0
    BY <1>1, <2>1, <2>2 DEF Partitioned
  <2>4. ~IsEmpty(alloc[j])
    BY <2>2, <2>3 DEF IsEmpty, FreeBlocks
  <2>5. QED BY <1>14, <2>1, <2>4 DEF Ids
<1>17. Partitioned(s, used)
  BY <1>14, <1>15, <1>16 DEF Partitioned
<1> QED
  BY <1>9, <1>14, <1>17 DEF PoolsFor, s

----------------------------------------------------------------------------
(* Counting blocks.                                                                *)

\* Quotient and remainder.
LEMMA Remainder ==
    ASSUME NEW a \in Nat, NEW n \in Nat \ {0}
    PROVE  \E q \in Nat, r \in 0..n - 1 : a = q * n + r /\ a % n = r
<1>1. a % n \in 0..n - 1
  OBVIOUS
<1>2. a \div n \in Nat
  OBVIOUS
<1>3. a = (a \div n) * n + (a % n)
  OBVIOUS
<1> QED
  BY <1>1, <1>2, <1>3

\* The remainder is the only number of its kind.
LEMMA RemainderIs ==
    ASSUME NEW n \in Nat \ {0}, NEW q \in Nat, NEW r \in 0..n - 1
    PROVE  (q * n + r) % n = r
<1> DEFINE a == q * n + r
<1>1. q * n \in Nat /\ a \in Nat
  OBVIOUS
<1>2. a = q * n + r
  OBVIOUS
<1> HIDE DEF a
<1>3. PICK p \in Nat, s \in 0..n - 1 : a = p * n + s /\ a % n = s
  BY <1>1, Remainder
<1>4. ASSUME NEW x \in Nat, NEW y \in Nat, x < y PROVE y * n >= x * n + n
  <2>1. PICK d \in Nat : y = x + 1 + d
    <3>1. y - x - 1 \in Nat /\ y = x + 1 + (y - x - 1)
      BY <1>4
    <3>2. QED BY <3>1
  <2>2. y * n = x * n + n + d * n
    BY <2>1
  <2>3. d * n \in Nat /\ x * n \in Nat /\ n \in Nat
    OBVIOUS
  <2>4. QED BY <2>2, <2>3
<1>5. p * n \in Nat /\ q * n \in Nat
  OBVIOUS
<1>6. ~(p < q) /\ ~(q < p)
  <2>1. p < q => q * n >= p * n + n
    BY <1>4
  <2>2. q < p => p * n >= q * n + n
    BY <1>4
  <2>3. QED BY <1>2, <1>3, <1>5, <2>1, <2>2
<1>7. p = q
  BY <1>6
<1>8. s = r
  BY <1>2, <1>3, <1>5, <1>7
<1> QED
  BY <1>3, <1>8 DEF a

\* Counting on is counting from the block reached.
LEMMA FollowingAdds ==
    ASSUME NEW b \in Nat, NEW j \in Nat, NEW k \in Nat
    PROVE  /\ Following(b, j) \in 0..Numbers - 1
           /\ Following(Following(b, j), k) = Following(b, j + k)
           /\ Following(b, Numbers + j) = Following(b, j)
           /\ b < Numbers => Following(b, 0) = b
<1> DEFINE n == Numbers
<1>1. n \in Nat \ {0}
  BY SearchAssumption DEF Numbers
<1> HIDE DEF n
<1>2. PICK q \in Nat, r \in 0..n - 1 : b + j = q * n + r /\ (b + j) % n = r
  <2>1. b + j \in Nat
    OBVIOUS
  <2>2. QED BY <1>1, <2>1, Remainder
<1>3. PICK p \in Nat, s \in 0..n - 1 : r + k = p * n + s /\ (r + k) % n = s
  <2>1. r + k \in Nat
    BY <1>1
  <2>2. QED BY <1>1, <2>1, Remainder
<1>6. q * n \in Nat /\ p * n \in Nat /\ (q + p) * n = q * n + p * n /\ (q + 1) * n = q * n + n
  BY <1>1
<1>7. (b + (j + k)) % n = s
  <2>1. ((q + p) * n + s) % n = s
    BY <1>1, RemainderIs
  <2>2. b + (j + k) = (q + p) * n + s
    BY <1>1, <1>2, <1>3, <1>6
  <2>3. QED BY <2>1, <2>2
<1>8. (b + (n + j)) % n = r
  <2>1. q + 1 \in Nat
    OBVIOUS
  <2>2. ((q + 1) * n + r) % n = r
    BY <1>1, <2>1, RemainderIs
  <2>3. b + (n + j) = (q + 1) * n + r
    BY <1>1, <1>2, <1>6
  <2>4. QED BY <2>2, <2>3
<1>11. b < n => (b + 0) % n = b
  <2>1. b < n => (0 * n + b) % n = b
    BY <1>1, RemainderIs
  <2>2. 0 * n + b = b + 0
    BY <1>1
  <2>3. QED BY <2>1, <2>2
<1> QED
  BY <1>2, <1>3, <1>7, <1>8, <1>11 DEF Following, n

----------------------------------------------------------------------------
(* The shape of the tree.                                                          *)

\* The nodes of an object; its children are in D.
Objects(D) ==
    [parent : Node \cup {None}, children : Seq(D), value : Nat, own : Nat,
     block : 0..Numbers - 1, full : BOOLEAN]

\* Nodes whose children are nodes, none of them twice.
Linked(nodes) ==
    /\ DOMAIN nodes \subseteq Node
    /\ nodes \in [DOMAIN nodes -> Objects(DOMAIN nodes)]
    /\ \A m, n \in DOMAIN nodes : \A i \in DOMAIN nodes[m].children, j \in DOMAIN nodes[n].children :
          nodes[m].children[i] = nodes[n].children[j] => m = n /\ i = j

\* A child is a level below its parent.
LevelsOf(nodes, K) ==
    {level \in [DOMAIN nodes -> 0..K] :
        \A n \in DOMAIN nodes : \A i \in DOMAIN nodes[n].children :
            level[nodes[n].children[i]] = level[n] + 1}

\* x is a child of p.
IsChild(nodes, p, x) == \E i \in DOMAIN nodes[p].children : nodes[p].children[i] = x

LEMMA ChildrenAreNodes ==
    ASSUME NEW nodes, Linked(nodes), NEW n \in DOMAIN nodes
    PROVE  /\ nodes[n] \in Objects(DOMAIN nodes)
           /\ nodes[n].children \in Seq(DOMAIN nodes)
           /\ \A i \in DOMAIN nodes[n].children : nodes[n].children[i] \in DOMAIN nodes
<1>1. nodes[n] \in Objects(DOMAIN nodes)
  BY DEF Linked
<1>2. nodes[n].children \in Seq(DOMAIN nodes)
  BY <1>1 DEF Objects
<1> QED
  BY <1>1, <1>2

\* What holds of a node if it holds of its children holds of all nodes.
LEMMA BottomUp ==
    ASSUME NEW nodes, Linked(nodes), NEW K \in Nat, NEW level \in LevelsOf(nodes, K), NEW S,
           \A n \in DOMAIN nodes :
               (\A i \in DOMAIN nodes[n].children : nodes[n].children[i] \in S) => n \in S
    PROVE  DOMAIN nodes \subseteq S
<1> DEFINE D == DOMAIN nodes
           T == {k \in Nat : \A n \in D : level[n] + k >= K => n \in S}
<1>1. level \in [D -> 0..K] /\ \A n \in D : \A i \in DOMAIN nodes[n].children :
                                  level[nodes[n].children[i]] = level[n] + 1
  BY DEF LevelsOf
<1>2. \A n \in D : \A i \in DOMAIN nodes[n].children : nodes[n].children[i] \in D
  BY ChildrenAreNodes
<1>3. \A n \in D : level[n] \in 0..K
  BY <1>1
<1>4. 0 \in T
  <2> SUFFICES ASSUME NEW n \in D, level[n] + 0 >= K PROVE n \in S
    OBVIOUS
  <2>1. DOMAIN nodes[n].children = {}
    BY <1>1, <1>2, <1>3
  <2>2. QED BY <2>1
<1>5. ASSUME NEW k \in Nat, k \in T PROVE k + 1 \in T
  <2> SUFFICES ASSUME NEW n \in D, level[n] + (k + 1) >= K PROVE n \in S
    OBVIOUS
  <2>1. ASSUME NEW i \in DOMAIN nodes[n].children PROVE nodes[n].children[i] \in S
    <3>1. nodes[n].children[i] \in D /\ level[nodes[n].children[i]] + k >= K
      BY <1>1, <1>2, <1>3
    <3>2. QED BY <3>1, <1>5
  <2>2. QED BY <2>1
<1>6. K \in T
  <2> HIDE DEF T
  <2>1. QED BY <1>4, <1>5, Induction
<1> QED
  BY <1>3, <1>6

\* What holds of a node if it holds of its parent holds of all nodes.
LEMMA TopDown ==
    ASSUME NEW nodes, Linked(nodes), NEW K \in Nat, NEW level \in LevelsOf(nodes, K), NEW S,
           \A n \in DOMAIN nodes :
               (\A p \in DOMAIN nodes : IsChild(nodes, p, n) => p \in S) => n \in S
    PROVE  DOMAIN nodes \subseteq S
<1> DEFINE D == DOMAIN nodes
           T == {k \in Nat : \A n \in D : level[n] <= k => n \in S}
<1>1. level \in [D -> 0..K] /\ \A n, p \in D : IsChild(nodes, p, n) => level[n] = level[p] + 1
  BY DEF LevelsOf, IsChild
<1>2. \A n \in D : level[n] \in 0..K
  BY <1>1
<1>3. 0 \in T
  BY <1>1, <1>2
<1>4. ASSUME NEW k \in Nat, k \in T PROVE k + 1 \in T
  <2> SUFFICES ASSUME NEW n \in D, level[n] <= k + 1 PROVE n \in S
    OBVIOUS
  <2>1. ASSUME NEW p \in D, IsChild(nodes, p, n) PROVE p \in S
    <3>1. level[n] = level[p] + 1 /\ level[p] \in Nat
      BY <1>1, <1>2, <2>1
    <3>2. QED BY <3>1, <1>4
  <2>2. QED BY <2>1
<1>5. K \in T
  <2> HIDE DEF T
  <2>1. QED BY <1>3, <1>4, Induction
<1> QED
  BY <1>2, <1>5

\* Under is what its recursion says.
LEMMA UnderTable ==
    ASSUME NEW nodes, Linked(nodes), NEW K \in Nat, NEW level \in LevelsOf(nodes, K)
    PROVE  /\ Under(nodes) \in [DOMAIN nodes -> SUBSET DOMAIN nodes]
           /\ \A n \in DOMAIN nodes :
                 Under(nodes)[n] = {n} \cup UNION {Under(nodes)[nodes[n].children[i]] : i \in DOMAIN nodes[n].children}
<1> DEFINE D == DOMAIN nodes
           S == SUBSET D
           rank == [n \in D |-> K - level[n]]
           step == [q \in D \X [D -> S] |->
                       {q[1]} \cup UNION {q[2][nodes[q[1]].children[i]] : i \in DOMAIN nodes[q[1]].children}]
<1>1. level \in [D -> 0..K] /\ \A n \in D : \A i \in DOMAIN nodes[n].children :
                                  level[nodes[n].children[i]] = level[n] + 1
  BY DEF LevelsOf
<1>2. \A n \in D : \A i \in DOMAIN nodes[n].children : nodes[n].children[i] \in D
  BY ChildrenAreNodes
<1>3. rank \in [D -> 0..K] /\ \A n \in D : rank[n] = K - level[n]
  BY <1>1
<1>4. \A n \in D, f \in [D -> S] : step[<<n, f>>] = {n} \cup UNION {f[nodes[n].children[i]] : i \in DOMAIN nodes[n].children}
  OBVIOUS
<1>5. step \in Steps(D, S)
  <2>1. ASSUME NEW n \in D, NEW f \in [D -> S]
        PROVE  {n} \cup UNION {f[nodes[n].children[i]] : i \in DOMAIN nodes[n].children} \in S
    <3>1. \A i \in DOMAIN nodes[n].children : f[nodes[n].children[i]] \subseteq D
      BY <1>2
    <3>2. QED BY <3>1
  <2> HIDE DEF D, S
  <2>2. QED BY <2>1 DEF Steps
<1> HIDE DEF step, rank
<1>6. Descends(D, S, rank, step)
  <2> SUFFICES ASSUME NEW n \in D, NEW f \in [D -> S], NEW g \in [D -> S],
                      \A m \in D : rank[m] < rank[n] => f[m] = g[m]
               PROVE  step[<<n, f>>] = step[<<n, g>>]
    BY DEF Descends
  <2>1. ASSUME NEW i \in DOMAIN nodes[n].children
        PROVE  f[nodes[n].children[i]] = g[nodes[n].children[i]]
    <3> DEFINE c == nodes[n].children[i]
    <3>1. c \in D /\ level[c] = level[n] + 1 /\ level[n] \in Nat /\ level[c] \in Nat
      BY <1>1, <1>2
    <3>2. rank[c] = K - level[c] /\ rank[n] = K - level[n]
      BY <3>1, <1>3
    <3> HIDE DEF c
    <3>3. rank[c] < rank[n]
      BY <3>1, <3>2
    <3>4. QED BY <3>1, <3>3 DEF c
  <2>2. {f[nodes[n].children[i]] : i \in DOMAIN nodes[n].children}
        = {g[nodes[n].children[i]] : i \in DOMAIN nodes[n].children}
    BY <2>1
  <2>3. step[<<n, f>>] = {n} \cup UNION {f[nodes[n].children[i]] : i \in DOMAIN nodes[n].children}
    BY <1>4
  <2>4. step[<<n, g>>] = {n} \cup UNION {g[nodes[n].children[i]] : i \in DOMAIN nodes[n].children}
    BY <1>4
  <2>5. QED BY <2>2, <2>3, <2>4
<1>7. Solutions(D, S, step) # {}
  <2>1. S # {}
    OBVIOUS
  <2> HIDE DEF D, S
  <2>2. QED BY <1>3, <1>5, <1>6, <2>1, RankRecursion
<1>8. PICK f \in [D -> S] : \A n \in D : f[n] = step[<<n, f>>]
  BY <1>7 DEF Solutions
<1>9. f = [n \in DOMAIN nodes |-> {n} \cup UNION {f[nodes[n].children[i]] : i \in DOMAIN nodes[n].children}]
  BY <1>4, <1>8
<1> DEFINE table == CHOOSE g : g = [n \in DOMAIN nodes |->
                        {n} \cup UNION {g[nodes[n].children[i]] : i \in DOMAIN nodes[n].children}]
<1>10. table = [n \in DOMAIN nodes |-> {n} \cup UNION {table[nodes[n].children[i]] : i \in DOMAIN nodes[n].children}]
  BY <1>9
<1>11. Under(nodes) = table
  BY DEF Under
<1> HIDE DEF table
<1>12. \A n \in D : table[n] = {n} \cup UNION {table[nodes[n].children[i]] : i \in DOMAIN nodes[n].children}
  BY <1>10
<1>13. ASSUME NEW n \in D PROVE table[n] \subseteq D
  <2> DEFINE T == {m \in D : table[m] \subseteq D}
  <2>1. ASSUME NEW m \in D, \A i \in DOMAIN nodes[m].children : nodes[m].children[i] \in T
        PROVE  m \in T
    <3>1. \A i \in DOMAIN nodes[m].children : table[nodes[m].children[i]] \subseteq D
      BY <2>1
    <3>2. table[m] = {m} \cup UNION {table[nodes[m].children[i]] : i \in DOMAIN nodes[m].children}
      BY <1>12
    <3>3. QED BY <3>1, <3>2
  <2>2. D \subseteq T
    <3> HIDE DEF T
    <3>1. QED BY <2>1, BottomUp
  <2>3. QED BY <2>2
<1>14. table \in [D -> SUBSET D]
  BY <1>10, <1>13
<1> QED
  BY <1>11, <1>12, <1>14

\* What is under a node: itself, the children of all that is, and nothing else.
LEMMA UnderIsClosed ==
    ASSUME NEW nodes, Linked(nodes), NEW K \in Nat, NEW level \in LevelsOf(nodes, K),
           NEW n \in DOMAIN nodes
    PROVE  /\ n \in Under(nodes)[n] /\ Under(nodes)[n] \subseteq DOMAIN nodes
           /\ \A x \in Under(nodes)[n] : \A i \in DOMAIN nodes[x].children :
                 nodes[x].children[i] \in Under(nodes)[n]
           /\ \A x \in Under(nodes)[n] \ {n} : \E p \in Under(nodes)[n] : IsChild(nodes, p, x)
<1> DEFINE D == DOMAIN nodes
           U == Under(nodes)
           Closed(m) == /\ \A x \in U[m] : \A i \in DOMAIN nodes[x].children : nodes[x].children[i] \in U[m]
                        /\ \A x \in U[m] \ {m} : \E p \in U[m] : IsChild(nodes, p, x)
           T == {m \in D : Closed(m)}
<1>1. /\ U \in [D -> SUBSET D]
      /\ \A m \in D : U[m] = {m} \cup UNION {U[nodes[m].children[i]] : i \in DOMAIN nodes[m].children}
  BY UnderTable
<1>2. \A m \in D : \A i \in DOMAIN nodes[m].children : nodes[m].children[i] \in D
  BY ChildrenAreNodes
<1> HIDE DEF U
<1>3. \A m \in D : m \in U[m]
  BY <1>1
<1>4. ASSUME NEW m \in D, \A i \in DOMAIN nodes[m].children : nodes[m].children[i] \in T
      PROVE  m \in T
  <2>1. \A x : x \in U[m] <=> x = m \/ \E i \in DOMAIN nodes[m].children : x \in U[nodes[m].children[i]]
    BY <1>1
  <2>2. ASSUME NEW x \in U[m], NEW j \in DOMAIN nodes[x].children PROVE nodes[x].children[j] \in U[m]
    <3>1. CASE x = m
      BY <3>1, <2>1, <1>2, <1>3
    <3>2. CASE x # m
      <4>1. PICK i \in DOMAIN nodes[m].children : x \in U[nodes[m].children[i]]
        BY <2>1, <3>2
      <4>2. nodes[x].children[j] \in U[nodes[m].children[i]]
        BY <4>1, <1>4
      <4>3. QED BY <4>2, <2>1
    <3>3. QED BY <3>1, <3>2
  <2>3. ASSUME NEW x \in U[m] \ {m} PROVE \E p \in U[m] : IsChild(nodes, p, x)
    <3>1. PICK i \in DOMAIN nodes[m].children : x \in U[nodes[m].children[i]]
      BY <2>1, <2>3
    <3> DEFINE c == nodes[m].children[i]
    <3>2. CASE x = c
      <4>1. IsChild(nodes, m, x)
        BY <3>2 DEF IsChild
      <4>2. QED BY <4>1, <1>3
    <3>3. CASE x # c
      <4>1. Closed(c)
        BY <1>4
      <4>2. PICK p \in U[c] : IsChild(nodes, p, x)
        BY <4>1, <3>1, <3>3
      <4>3. p \in U[m]
        BY <2>1
      <4>4. QED BY <4>2, <4>3
    <3>4. QED BY <3>2, <3>3
  <2>4. QED BY <2>2, <2>3
<1>5. D \subseteq T
  <2> HIDE DEF T
  <2>1. QED BY <1>4, BottomUp
<1> QED
  BY <1>1, <1>3, <1>5 DEF U

\* The links that lead to different places, to nodes that are no children any more.
CutLinks(nodes, links) ==
    /\ \A l \in links : l[3] \in DOMAIN nodes
    /\ \A k, l \in links : k[3] = l[3] => k = l
    /\ \A l \in links, n \in DOMAIN nodes : ~IsChild(nodes, n, l[3])

\* DeleteNodeIterative takes what it frees out of use, each node once, with all under it, and
\* leaves the other nodes as they were.
LEMMA DeleteNodesFrees ==
    ASSUME NEW t, NEW links, Linked(t.node), t.alloc \in PoolsFor(DOMAIN t.node),
           NEW K \in Nat, NEW level \in LevelsOf(t.node, K), CutLinks(t.node, links)
    PROVE  LET gone == Below(t, links)
               left == DeleteNodes(t, links)
           IN  /\ gone \subseteq DOMAIN t.node
               /\ \A l \in links : l[3] \in gone
               /\ \A x \in gone : \A i \in DOMAIN t.node[x].children : t.node[x].children[i] \in gone
               /\ \A x \in gone : (\E l \in links : x = l[3]) \/ \E p \in gone : IsChild(t.node, p, x)
               /\ left.alloc \in PoolsFor(DOMAIN t.node \ gone)
               /\ left.node = [n \in DOMAIN t.node \ gone |-> t.node[n]]
               /\ Linked(left.node)
<1> DEFINE nodes == t.node
           D == DOMAIN nodes
           U == Under(nodes)
           gone == Below(t, links)
           left == DeleteNodes(t, links)
           through == links \cup UNION {Links(n, Children(t, n)) : n \in gone}
           times == [n \in gone |-> Cardinality({l \in through : l[3] = n})]
<1>1. \A n \in D : /\ n \in U[n] /\ U[n] \subseteq D
                   /\ \A x \in U[n] : \A i \in DOMAIN nodes[x].children : nodes[x].children[i] \in U[n]
                   /\ \A x \in U[n] \ {n} : \E p \in U[n] : IsChild(nodes, p, x)
  BY UnderIsClosed
<1>2. \A x : x \in gone <=> \E l \in links : x \in U[l[3]]
  BY DEF Below
<1>3. left = [alloc |-> Deallocate(t.alloc, times), node |-> [n \in D \ gone |-> nodes[n]]]
  BY DEF DeleteNodes
<1>4. \A x : x \in through <=> x \in links \/ \E n \in gone : \E i \in DOMAIN nodes[n].children :
                                                  x = <<n, i, nodes[n].children[i]>>
  BY DEF Links, Children
<1> HIDE DEF U, gone, left, through
<1>5. \A l \in links : l[3] \in D
  BY DEF CutLinks
<1>6. gone \subseteq D /\ \A l \in links : l[3] \in gone
  BY <1>1, <1>2, <1>5
<1>7. \A x \in gone : \A i \in DOMAIN nodes[x].children : nodes[x].children[i] \in gone
  BY <1>1, <1>2, <1>5
<1>8. ASSUME NEW x \in gone PROVE (\E l \in links : x = l[3]) \/ \E p \in gone : IsChild(nodes, p, x)
  <2>1. PICK l \in links : x \in U[l[3]]
    BY <1>2
  <2>2. U[l[3]] \subseteq gone
    BY <1>2
  <2>3. QED BY <1>1, <1>5, <2>1, <2>2
<1>9. ASSUME NEW x \in gone PROVE times[x] = 1
  <2> DEFINE here == {l \in through : l[3] = x}
  <2>1. \E l : l \in here
    <3>1. CASE \E l \in links : x = l[3]
      BY <3>1, <1>4
    <3>2. CASE \E p \in gone : IsChild(nodes, p, x)
      <4>1. PICK p \in gone : \E i \in DOMAIN nodes[p].children : nodes[p].children[i] = x
        BY <3>2 DEF IsChild
      <4>2. PICK i \in DOMAIN nodes[p].children : nodes[p].children[i] = x
        BY <4>1
      <4>3. <<p, i, x>> \in through
        BY <4>2, <1>4
      <4>4. <<p, i, x>>[3] = x
        OBVIOUS
      <4>5. QED BY <4>3, <4>4
    <3>3. QED BY <3>1, <3>2, <1>8
  <2>2. ASSUME NEW k \in here, NEW l \in here PROVE k = l
    <3>1. k[3] = x /\ l[3] = x /\ k \in through /\ l \in through
      OBVIOUS
    <3>2. CASE k \in links /\ l \in links
      BY <3>1, <3>2 DEF CutLinks
    <3>3. ASSUME NEW m \in links, m[3] = x, NEW n \in gone, NEW i \in DOMAIN nodes[n].children,
                 nodes[n].children[i] = x
          PROVE  FALSE
      <4>1. IsChild(nodes, n, m[3])
        BY <3>3 DEF IsChild
      <4>2. QED BY <4>1, <1>6 DEF CutLinks
    <3>4. CASE k \notin links /\ l \notin links
      <4>1. PICK m \in gone : \E i \in DOMAIN nodes[m].children : k = <<m, i, nodes[m].children[i]>>
        BY <3>1, <3>4, <1>4
      <4>2. PICK n \in gone : \E j \in DOMAIN nodes[n].children : l = <<n, j, nodes[n].children[j]>>
        BY <3>1, <3>4, <1>4
      <4> PICK i \in DOMAIN nodes[m].children : k = <<m, i, nodes[m].children[i]>>
        BY <4>1
      <4> PICK j \in DOMAIN nodes[n].children : l = <<n, j, nodes[n].children[j]>>
        BY <4>2
      <4>3. nodes[m].children[i] = x /\ nodes[n].children[j] = x
        BY <3>1, <4>1, <4>2
      <4>4. m = n /\ i = j
        BY <4>3, <1>6 DEF Linked
      <4>5. QED BY <4>1, <4>2, <4>4
    <3>5. CASE k \in links /\ l \notin links
      <4>1. PICK n \in gone : \E j \in DOMAIN nodes[n].children : l = <<n, j, nodes[n].children[j]>>
        BY <3>1, <3>5, <1>4
      <4> PICK j \in DOMAIN nodes[n].children : l = <<n, j, nodes[n].children[j]>>
        BY <4>1
      <4>2. nodes[n].children[j] = x
        BY <3>1, <4>1
      <4>3. QED BY <3>1, <3>3, <3>5, <4>2
    <3>6. CASE k \notin links /\ l \in links
      <4>1. PICK n \in gone : \E j \in DOMAIN nodes[n].children : k = <<n, j, nodes[n].children[j]>>
        BY <3>1, <3>6, <1>4
      <4> PICK j \in DOMAIN nodes[n].children : k = <<n, j, nodes[n].children[j]>>
        BY <4>1
      <4>2. nodes[n].children[j] = x
        BY <3>1, <4>1
      <4>3. QED BY <3>1, <3>3, <3>6, <4>2
    <3>7. QED BY <3>2, <3>4, <3>5, <3>6
  <2>3. PICK l : l \in here
    BY <2>1
  <2> HIDE DEF here
  <2>4. here = {l}
    BY <2>2, <2>3
  <2>5. Cardinality(here) = 1
    BY <2>4, FS_Singleton
  <2>6. QED BY <2>5 DEF here
<1>10. left.alloc \in PoolsFor(D \ gone)
  <2>1. D \in SUBSET Node
    BY DEF Linked
  <2>2. DOMAIN times = gone
    OBVIOUS
  <2> HIDE DEF times
  <2>3. Deallocate(t.alloc, times) \in PoolsFor(D \ gone)
    BY <1>6, <1>9, <2>1, <2>2, DeallocateFrees
  <2>4. QED BY <2>3, <1>3
<1>11. left.node = [n \in D \ gone |-> nodes[n]]
  BY <1>3
<1>12. Linked(left.node)
  <2> DEFINE E == D \ gone
             new == left.node
  <2> HIDE DEF new
  <2>1. DOMAIN new = E /\ \A n \in E : new[n] = nodes[n]
    BY <1>11 DEF new
  <2>2. ASSUME NEW n \in E PROVE new[n] \in Objects(E)
    <3>1. nodes[n] \in Objects(D) /\ nodes[n].children \in Seq(D)
      BY ChildrenAreNodes
    <3>2. ASSUME NEW i \in DOMAIN nodes[n].children PROVE nodes[n].children[i] \in E
      <4>1. nodes[n].children[i] \in D
        BY ChildrenAreNodes
      <4>2. IsChild(nodes, n, nodes[n].children[i])
        BY DEF IsChild
      <4>3. nodes[n].children[i] \notin gone
        <5>1. ASSUME NEW p \in gone, IsChild(nodes, p, nodes[n].children[i]) PROVE FALSE
          <6>1. p = n
            BY <5>1, <1>6 DEF Linked, IsChild
          <6>2. QED BY <6>1
        <5>2. ASSUME NEW l \in links, nodes[n].children[i] = l[3] PROVE FALSE
          BY <5>2, <4>2 DEF CutLinks
        <5>3. QED BY <5>1, <5>2, <1>8
      <4>4. QED BY <4>1, <4>3
    <3>3. nodes[n].children \in Seq(E)
      <4> DEFINE s == nodes[n].children
      <4>1. s \in [1..Len(s) -> D] /\ Len(s) \in Nat
        BY <3>1
      <4>2. \A i \in 1..Len(s) : s[i] \in E
        BY <3>2, <4>1
      <4> HIDE DEF s, E
      <4>3. s \in [1..Len(s) -> E]
        BY <4>1, <4>2
      <4>4. s \in Seq(E)
        BY <4>1, <4>3
      <4>5. QED BY <4>4 DEF s
    <3>4. nodes[n] \in Objects(E)
      BY <3>1, <3>3 DEF Objects
    <3>5. QED BY <3>4, <2>1
  <2>3. E \subseteq Node
    BY DEF Linked
  <2>4. new \in [E -> Objects(E)]
    <3>1. new = [n \in E |-> new[n]]
      BY <1>11 DEF new
    <3>2. QED BY <2>2, <3>1
  <2>5. \A m, n \in E : \A i \in DOMAIN new[m].children, j \in DOMAIN new[n].children :
           new[m].children[i] = new[n].children[j] => m = n /\ i = j
    BY <2>1 DEF Linked
  <2> HIDE DEF E
  <2>6. Linked(new)
    BY <2>1, <2>3, <2>4, <2>5 DEF Linked
  <2>7. QED BY <2>6 DEF new
<1> QED
  BY <1>6, <1>7, <1>8, <1>10, <1>11, <1>12 DEF gone, left

\* A tree with root r, in which every child knows its parent.
Rooted(nodes, r) ==
    /\ Linked(nodes)
    /\ r \in DOMAIN nodes /\ nodes[r].parent = None
    /\ \A p \in DOMAIN nodes, x \in DOMAIN nodes : IsChild(nodes, p, x) => nodes[x].parent = p
    /\ \A x \in DOMAIN nodes \ {r} : \E p \in DOMAIN nodes : IsChild(nodes, p, x)

\* What BestLineKept says, of all nodes.
BestLines(nodes, r) ==
    \A n \in DOMAIN nodes \ {r} :
        /\ \A x \in DOMAIN nodes : IsChild(nodes, n, x) => nodes[x].value <= nodes[n].value
        /\ \/ nodes[n].value = nodes[n].own
           \/ \E x \in DOMAIN nodes : IsChild(nodes, n, x) /\ nodes[x].value = nodes[n].value

\* No node has more than the two children that ShiftCandidate keeps.
Narrow(nodes) == \A n \in DOMAIN nodes : Len(nodes[n].children) <= 2

\* After pruning: fewer nodes, each as it was but for the children that are gone and the order
\* of those that are left.
Pruned(old, new) ==
    /\ DOMAIN new \subseteq DOMAIN old
    /\ \A n \in DOMAIN new :
          /\ new[n].parent = old[n].parent /\ new[n].value = old[n].value /\ new[n].own = old[n].own
          /\ new[n].block = old[n].block /\ new[n].full = old[n].full
          /\ new[n].children = <<>> <=> old[n].children = <<>>
    /\ \A p, x \in DOMAIN new : IsChild(new, p, x) <=> IsChild(old, p, x)

LEMMA RootIsNoChild ==
    ASSUME NEW nodes, NEW r, Rooted(nodes, r), NEW p \in DOMAIN nodes
    PROVE  ~IsChild(nodes, p, r)
<1>1. p \in Node /\ r \in DOMAIN nodes /\ nodes[r].parent = None
  BY DEF Rooted, Linked
<1>2. p # None
  BY <1>1 DEF Node, None
<1> QED
  BY <1>1, <1>2 DEF Rooted

LEMMA AllUnderRoot ==
    ASSUME NEW nodes, NEW r, Rooted(nodes, r), NEW K \in Nat, NEW level \in LevelsOf(nodes, K)
    PROVE  Under(nodes)[r] = DOMAIN nodes
<1> DEFINE S == Under(nodes)[r]
<1>1. Linked(nodes) /\ r \in DOMAIN nodes
  BY DEF Rooted
<1>2. /\ r \in S /\ S \subseteq DOMAIN nodes
      /\ \A x \in S : \A i \in DOMAIN nodes[x].children : nodes[x].children[i] \in S
  BY <1>1, UnderIsClosed
<1> HIDE DEF S
<1>3. ASSUME NEW n \in DOMAIN nodes, \A p \in DOMAIN nodes : IsChild(nodes, p, n) => p \in S
      PROVE  n \in S
  <2>1. CASE n = r
    BY <2>1, <1>2
  <2>2. CASE n # r
    <3>1. PICK p \in DOMAIN nodes : IsChild(nodes, p, n)
      BY <2>2 DEF Rooted
    <3>2. QED BY <3>1, <1>2, <1>3 DEF IsChild
  <2>3. QED BY <2>1, <2>2
<1>4. DOMAIN nodes \subseteq S
  BY <1>1, <1>3, TopDown
<1> QED
  BY <1>2, <1>4 DEF S

\* A best child is one of those it is chosen from, and none of them is worth more.
LEMMA BestIsHighest ==
    ASSUME NEW t, Linked(t.node), NEW n \in DOMAIN t.node,
           NEW I \in SUBSET DOMAIN t.node[n].children, I # {}
    PROVE  /\ Best(t, t.node[n].children, I) \in I
           /\ \A j \in I : t.node[t.node[n].children[j]].value
                             <= t.node[t.node[n].children[Best(t, t.node[n].children, I)]].value
<1> DEFINE s == t.node[n].children
           w == [i \in 1..Len(s) |-> t.node[s[i]].value]
<1>1. s \in Seq(DOMAIN t.node) /\ \A i \in DOMAIN s : s[i] \in DOMAIN t.node
  BY ChildrenAreNodes
<1>2. \A x \in DOMAIN t.node : t.node[x].value \in Nat
  BY ChildrenAreNodes DEF Objects
<1>3. DOMAIN s = 1..Len(s) /\ Len(s) \in Nat
  BY <1>1
<1>4. w \in [1..Len(s) -> Nat] /\ \A i \in DOMAIN s : w[i] = t.node[s[i]].value
  BY <1>1, <1>2, <1>3
<1> HIDE DEF w, s
<1>5. I \in SUBSET (1..Len(s))
  BY <1>3 DEF s
<1>6. \E i \in I : \A j \in I : w[j] < w[i] \/ (w[j] = w[i] /\ i <= j)
  BY <1>3, <1>4, <1>5, FirstHighest
<1>7. \E i \in I : \A j \in I : \/ t.node[s[j]].value < t.node[s[i]].value
                                \/ t.node[s[j]].value = t.node[s[i]].value /\ i <= j
  BY <1>3, <1>4, <1>5, <1>6
<1> DEFINE b == Best(t, s, I)
<1>8. b \in I /\ \A j \in I : \/ t.node[s[j]].value < t.node[s[b]].value
                              \/ t.node[s[j]].value = t.node[s[b]].value /\ b <= j
  BY <1>7 DEF Best
<1> HIDE DEF b
<1>9. \A j \in I : t.node[s[j]].value \in Nat /\ t.node[s[b]].value \in Nat
  BY <1>1, <1>2, <1>3, <1>5, <1>8
<1>10. b \in I /\ \A j \in I : t.node[s[j]].value <= t.node[s[b]].value
  BY <1>8, <1>9
<1> QED
  BY <1>10 DEF b, s

\* ShiftCandidate keeps one or two places of the children of n, each once, a best one among
\* them; and all if there are no more than two.
RankedWell(t, n) ==
    LET s == t.node[n].children
        R == Ranked(t, s)
    IN  /\ R \in Seq(DOMAIN s) /\ Len(R) = IF Len(s) < 2 THEN Len(s) ELSE 2
        /\ \A k, l \in DOMAIN R : R[k] = R[l] => k = l
        /\ Len(s) <= 2 => \A i \in DOMAIN s : \E k \in DOMAIN R : R[k] = i
        /\ s # <<>> => \E k \in DOMAIN R : \A j \in DOMAIN s :
                          t.node[s[j]].value <= t.node[s[R[k]]].value

LEMMA RankedIsBest ==
    ASSUME NEW t, Linked(t.node), NEW n \in DOMAIN t.node
    PROVE  RankedWell(t, n)
<1> DEFINE s == t.node[n].children
           R == Ranked(t, s)
           first == Best(t, s, DOMAIN s)
           second == Best(t, s, DOMAIN s \ {first})
<1>1. s \in Seq(DOMAIN t.node) /\ \A i \in DOMAIN s : s[i] \in DOMAIN t.node
  BY ChildrenAreNodes
<1>2. DOMAIN s = 1..Len(s) /\ Len(s) \in Nat
  BY <1>1
<1>3. \A x \in DOMAIN t.node : t.node[x].value \in Nat
  BY ChildrenAreNodes DEF Objects
<1>4. CASE Len(s) < 2
  <2>1. R = [i \in DOMAIN s |-> i]
    BY <1>4 DEF Ranked
  <2> HIDE DEF s, R
  <2>2. R \in [1..Len(s) -> DOMAIN s]
    BY <2>1, <1>2
  <2>3. R \in Seq(DOMAIN s) /\ Len(R) = Len(s) /\ DOMAIN R = DOMAIN s
    BY <2>2, <1>2
  <2>4. s # <<>> => DOMAIN s = {1}
    BY <1>1, <1>2, <1>4
  <2>5. s # <<>> => \E k \in DOMAIN R : \A j \in DOMAIN s : t.node[s[j]].value <= t.node[s[R[k]]].value
    BY <1>1, <1>3, <2>1, <2>3, <2>4
  <2>6. QED BY <1>4, <2>1, <2>3, <2>5 DEF s, R, RankedWell
<1>5. CASE Len(s) >= 2
  <2>1. R = <<first, second>>
    BY <1>2, <1>5 DEF Ranked
  <2>2. 1 \in DOMAIN s /\ 2 \in DOMAIN s
    BY <1>2, <1>5
  <2>3. first \in DOMAIN s /\ \A j \in DOMAIN s : t.node[s[j]].value <= t.node[s[first]].value
    BY <2>2, BestIsHighest
  <2>4. DOMAIN s \ {first} # {}
    BY <2>2
  <2>5. second \in DOMAIN s \ {first}
    <3> DEFINE I == DOMAIN s \ {first}
    <3>1. I \in SUBSET DOMAIN s /\ I # {}
      BY <2>4
    <3> HIDE DEF I
    <3>2. Best(t, s, I) \in I
      BY <3>1, BestIsHighest
    <3>3. QED BY <3>2 DEF I
  <2> HIDE DEF s, R, first, second
  <2>6. R \in Seq(DOMAIN s) /\ Len(R) = 2 /\ DOMAIN R = {1, 2} /\ R[1] = first /\ R[2] = second
    BY <2>1, <2>3, <2>5
  <2>7. Len(s) <= 2 => \A i \in DOMAIN s : \E k \in DOMAIN R : R[k] = i
    <3> SUFFICES ASSUME Len(s) <= 2, NEW i \in DOMAIN s PROVE \E k \in DOMAIN R : R[k] = i
      OBVIOUS
    <3>1. DOMAIN s = {1, 2}
      BY <1>2, <1>5
    <3>2. i = first \/ i = second
      BY <2>3, <2>5, <3>1
    <3>3. QED BY <2>6, <3>2
  <2>8. QED BY <1>2, <1>5, <2>3, <2>5, <2>6, <2>7 DEF s, R, RankedWell
<1> QED
  BY <1>2, <1>4, <1>5

\* ShiftCandidate in a tree in which only the leaves below n, just added, may be too many: it
\* drops some of those and nothing else, and leaves a narrow tree with the same best lines.
THEOREM ShiftKeeps ==
    ASSUME NEW t, NEW r, Rooted(t.node, r), t.alloc \in PoolsFor(DOMAIN t.node),
           NEW K \in Nat, NEW level \in LevelsOf(t.node, K), BestLines(t.node, r),
           NEW n \in DOMAIN t.node,
           \A m \in DOMAIN t.node \ {n} : Len(t.node[m].children) <= 2,
           \A x \in DOMAIN t.node : IsChild(t.node, n, x) => t.node[x].children = <<>>
    PROVE  LET left == ShiftCandidate(t, r)
           IN  /\ Pruned(t.node, left.node)
               /\ \A x \in DOMAIN t.node \ DOMAIN left.node : IsChild(t.node, n, x)
               /\ Rooted(left.node, r) /\ BestLines(left.node, r) /\ Narrow(left.node)
               /\ left.alloc \in PoolsFor(DOMAIN left.node)
<1> DEFINE old == t.node
           D == DOMAIN old
           R(m) == Ranked(t, old[m].children)
           P == [m \in D |-> [old[m] EXCEPT !.children = Kept(t, old[m].children)]]
           p0 == [t EXCEPT !.node = P]
           links == UNION {Dropped(t, m) : m \in D}
           left == ShiftCandidate(t, r)
<1>1. Linked(old) /\ r \in D /\ D \subseteq Node
  BY DEF Rooted, Linked
<1>2. Under(old)[r] = D
  BY AllUnderRoot
<1>3. left = DeleteNodes(p0, links)
  BY <1>2 DEF ShiftCandidate
<1>4. \A m \in D : /\ old[m] \in Objects(D) /\ old[m].children \in Seq(D)
                   /\ \A i \in DOMAIN old[m].children : old[m].children[i] \in D
  BY <1>1, ChildrenAreNodes
<1>5. ASSUME NEW m \in D
      PROVE  /\ R(m) \in Seq(DOMAIN old[m].children)
             /\ Len(R(m)) = IF Len(old[m].children) < 2 THEN Len(old[m].children) ELSE 2
             /\ \A k, l \in DOMAIN R(m) : R(m)[k] = R(m)[l] => k = l
             /\ Len(old[m].children) <= 2 => \A i \in DOMAIN old[m].children : \E k \in DOMAIN R(m) : R(m)[k] = i
             /\ old[m].children # <<>> => \E k \in DOMAIN R(m) : \A j \in DOMAIN old[m].children :
                    old[old[m].children[j]].value <= old[old[m].children[R(m)[k]]].value
  <2>1. RankedWell(t, m)
    BY <1>1, RankedIsBest
  <2>2. QED BY <2>1 DEF RankedWell
<1>6. ASSUME NEW m \in D
      PROVE  /\ P[m].parent = old[m].parent /\ P[m].value = old[m].value /\ P[m].own = old[m].own
             /\ P[m].block = old[m].block /\ P[m].full = old[m].full
             /\ P[m].children = [k \in DOMAIN R(m) |-> old[m].children[R(m)[k]]]
             /\ P[m] \in Objects(D) /\ Len(P[m].children) = Len(R(m)) /\ DOMAIN P[m].children = DOMAIN R(m)
  <2> DEFINE s == old[m].children
             kept == Kept(t, s)
             q == R(m)
  <2>1. kept = [k \in DOMAIN q |-> s[q[k]]]
    BY DEF Kept
  <2>2. old[m] \in [parent : Node \cup {None}, children : Seq(D), value : Nat, own : Nat,
                    block : 0..Numbers - 1, full : BOOLEAN]
    BY <1>4 DEF Objects
  <2>3. P[m] = [old[m] EXCEPT !.children = kept]
    OBVIOUS
  <2>4. q \in Seq(DOMAIN s) /\ \A i \in DOMAIN s : s[i] \in D
    BY <1>4, <1>5
  <2> HIDE DEF kept, q, s, P, D
  <2>5. DOMAIN q = 1..Len(q) /\ Len(q) \in Nat /\ \A k \in DOMAIN q : q[k] \in DOMAIN s
    BY <2>4
  <2>6. kept \in [1..Len(q) -> D]
    BY <2>1, <2>4, <2>5
  <2>7. kept \in Seq(D) /\ Len(kept) = Len(q) /\ DOMAIN kept = DOMAIN q
    BY <2>5, <2>6
  <2>8. /\ P[m].parent = old[m].parent /\ P[m].value = old[m].value /\ P[m].own = old[m].own
        /\ P[m].block = old[m].block /\ P[m].full = old[m].full /\ P[m].children = kept
    BY <2>2, <2>3
  <2>9. P[m] \in Objects(D)
    <3>1. P[m] = [parent |-> old[m].parent, children |-> kept, value |-> old[m].value,
                  own |-> old[m].own, block |-> old[m].block, full |-> old[m].full]
      BY <2>2, <2>3
    <3>2. QED BY <2>2, <2>7, <3>1 DEF Objects
  <2>10. QED BY <2>1, <2>7, <2>8, <2>9 DEF q, s, D
<1>7. DOMAIN P = D
  OBVIOUS
<1> HIDE DEF P
<1>8. Linked(P)
  <2>1. P \in [D -> Objects(D)]
    <3>1. P = [m \in D |-> P[m]]
      BY DEF P
    <3>2. QED BY <3>1, <1>6
  <2>2. ASSUME NEW a \in D, NEW b \in D, NEW i \in DOMAIN P[a].children, NEW j \in DOMAIN P[b].children,
               P[a].children[i] = P[b].children[j]
        PROVE  a = b /\ i = j
    <3>1. i \in DOMAIN R(a) /\ j \in DOMAIN R(b) /\ old[a].children[R(a)[i]] = old[b].children[R(b)[j]]
      BY <1>6, <2>2
    <3>2. R(a)[i] \in DOMAIN old[a].children /\ R(b)[j] \in DOMAIN old[b].children
      BY <1>5, <3>1
    <3>3. a = b /\ R(a)[i] = R(b)[j]
      BY <1>1, <3>1, <3>2 DEF Linked
    <3>4. QED BY <1>5, <3>1, <3>3
  <2>3. QED BY <1>1, <1>7, <2>1, <2>2 DEF Linked
<1>9. ASSUME NEW m \in D, NEW i \in DOMAIN P[m].children
      PROVE  R(m)[i] \in DOMAIN old[m].children /\ P[m].children[i] = old[m].children[R(m)[i]]
  <2> DEFINE q == R(m)
             S == DOMAIN old[m].children
  <2>1. q \in Seq(S) /\ i \in DOMAIN q
    BY <1>5, <1>6
  <2>2. P[m].children[i] = old[m].children[q[i]]
    BY <1>6, <2>1
  <2> HIDE DEF q, S
  <2>3. q[i] \in S
    BY <2>1
  <2>4. QED BY <2>2, <2>3 DEF q, S
<1>10. \A m, x \in D : IsChild(P, m, x) => IsChild(old, m, x)
  BY <1>9 DEF IsChild
<1>11. level \in LevelsOf(P, K)
  <2>1. level \in [D -> 0..K] /\ \A m \in D : \A i \in DOMAIN old[m].children :
                                    level[old[m].children[i]] = level[m] + 1
    BY DEF LevelsOf
  <2>2. QED BY <1>7, <1>9, <2>1 DEF LevelsOf
\* What is dropped are leaves below n.
<1>12. ASSUME NEW l \in links
       PROVE  \E i \in DOMAIN old[n].children : /\ l = <<n, i, old[n].children[i]>>
                                                /\ \A k \in DOMAIN R(n) : R(n)[k] # i
  <2>1. PICK m \in D : l \in Dropped(t, m)
    OBVIOUS
  <2>2. l \in Links(m, old[m].children) /\ l[2] \notin ToSet(R(m))
    BY <2>1 DEF Dropped, Children
  <2>3. PICK i \in DOMAIN old[m].children : l = <<m, i, old[m].children[i]>>
    BY <2>2 DEF Links
  <2>4. \A k \in DOMAIN R(m) : R(m)[k] # i
    BY <2>2, <2>3 DEF ToSet
  <2>5. m = n
    BY <1>5, <2>3, <2>4
  <2>6. QED BY <2>3, <2>4, <2>5
<1>13. \A i \in DOMAIN old[n].children :
          (\A k \in DOMAIN R(n) : R(n)[k] # i) => <<n, i, old[n].children[i]>> \in links
  <2> SUFFICES ASSUME NEW i \in DOMAIN old[n].children, \A k \in DOMAIN R(n) : R(n)[k] # i
               PROVE  <<n, i, old[n].children[i]>> \in Dropped(t, n)
    OBVIOUS
  <2>1. <<n, i, old[n].children[i]>> \in Links(n, Children(t, n))
    BY DEF Links, Children
  <2>2. i \notin ToSet(Ranked(t, Children(t, n)))
    BY DEF ToSet, Children
  <2>3. QED BY <2>1, <2>2 DEF Dropped
<1> HIDE DEF links
<1>14. ASSUME NEW l \in links PROVE l[3] \in D /\ IsChild(old, n, l[3]) /\ ~IsChild(P, n, l[3])
  <2>1. PICK i \in DOMAIN old[n].children : /\ l = <<n, i, old[n].children[i]>>
                                            /\ \A k \in DOMAIN R(n) : R(n)[k] # i
    BY <1>12
  <2>2. l[3] = old[n].children[i]
    BY <2>1
  <2>3. ASSUME NEW k \in DOMAIN P[n].children, P[n].children[k] = old[n].children[i] PROVE FALSE
    <3>1. R(n)[k] \in DOMAIN old[n].children /\ old[n].children[R(n)[k]] = old[n].children[i]
      BY <1>9, <2>3
    <3>2. R(n)[k] = i
      BY <1>1, <3>1 DEF Linked
    <3>3. QED BY <1>6, <2>1, <3>2
  <2>4. QED BY <1>4, <2>2, <2>3 DEF IsChild
<1>15. \A a, b \in D, x \in D : IsChild(old, a, x) /\ IsChild(old, b, x) => a = b
  BY <1>1 DEF Linked, IsChild
<1>16. CutLinks(P, links)
  <2>1. \A l \in links, m \in D : ~IsChild(P, m, l[3])
    BY <1>10, <1>14, <1>15
  <2>2. ASSUME NEW k \in links, NEW l \in links, k[3] = l[3] PROVE k = l
    <3>1. PICK i \in DOMAIN old[n].children : k = <<n, i, old[n].children[i]>>
      BY <1>12
    <3>2. PICK j \in DOMAIN old[n].children : l = <<n, j, old[n].children[j]>>
      BY <1>12
    <3>3. old[n].children[i] = old[n].children[j]
      BY <2>2, <3>1, <3>2
    <3>4. i = j
      BY <1>1, <3>3 DEF Linked
    <3>5. QED BY <3>1, <3>2, <3>4
  <2>3. QED BY <1>7, <1>14, <2>1, <2>2 DEF CutLinks
<1> DEFINE gone == Below(p0, links)
           new == left.node
           E == D \ gone
<1>17. /\ gone \subseteq D
       /\ \A l \in links : l[3] \in gone
       /\ \A x \in gone : (\E l \in links : x = l[3]) \/ \E q \in gone : IsChild(P, q, x)
       /\ left.alloc \in PoolsFor(E)
       /\ new = [m \in E |-> P[m]]
       /\ Linked(new)
  <2>1. p0.node = P /\ p0.alloc = t.alloc
    BY <1>2 DEF p0
  <2> HIDE DEF p0, left, gone
  <2>2. LET go == Below(p0, links)
            le == DeleteNodes(p0, links)
        IN  /\ go \subseteq DOMAIN p0.node
            /\ \A l \in links : l[3] \in go
            /\ \A x \in go : \A i \in DOMAIN p0.node[x].children : p0.node[x].children[i] \in go
            /\ \A x \in go : (\E l \in links : x = l[3]) \/ \E q \in go : IsChild(p0.node, q, x)
            /\ le.alloc \in PoolsFor(DOMAIN p0.node \ go)
            /\ le.node = [m \in DOMAIN p0.node \ go |-> p0.node[m]]
            /\ Linked(le.node)
    <3>1. Linked(p0.node) /\ p0.alloc \in PoolsFor(DOMAIN p0.node) /\ level \in LevelsOf(p0.node, K)
          /\ CutLinks(p0.node, links)
      BY <1>7, <1>8, <1>11, <1>16, <2>1
    <3>2. QED BY <3>1, DeleteNodesFrees
  <2>3. QED BY <2>1, <2>2, <1>3, <1>7 DEF gone
<1> HIDE DEF gone, left, p0
<1>18. \A x \in gone : IsChild(old, n, x)
  <2> DEFINE S == {x \in D : x \in gone => \E l \in links : x = l[3]}
  <2>1. ASSUME NEW x \in D, \A q \in D : IsChild(P, q, x) => q \in S PROVE x \in S
    <3> SUFFICES ASSUME x \in gone, ~ \E l \in links : x = l[3] PROVE FALSE
      OBVIOUS
    <3>1. PICK q \in gone : IsChild(P, q, x)
      BY <1>17
    <3>2. q \in D /\ IsChild(old, q, x)
      BY <1>10, <1>17, <3>1
    <3>3. PICK l \in links : q = l[3]
      BY <2>1, <3>1, <3>2
    <3>4. old[q].children = <<>>
      BY <1>14, <3>3
    <3>5. QED BY <3>2, <3>4 DEF IsChild
  <2>2. D \subseteq S
    <3> HIDE DEF S
    <3>1. QED BY <1>7, <1>8, <1>11, <2>1, TopDown
  <2>3. QED BY <1>14, <1>17, <2>2
<1>19. \A x \in gone : old[x].children = <<>>
  BY <1>17, <1>18
<1>20. DOMAIN new = E /\ \A m \in E : new[m] = P[m]
  BY <1>17
<1> HIDE DEF new
<1>21. ASSUME NEW a \in E, NEW x \in E PROVE IsChild(new, a, x) <=> IsChild(old, a, x)
  <2>1. IsChild(new, a, x) => IsChild(old, a, x)
    BY <1>10, <1>20 DEF IsChild
  <2>2. ASSUME IsChild(old, a, x) PROVE IsChild(P, a, x)
    <3>1. PICK i \in DOMAIN old[a].children : old[a].children[i] = x
      BY <2>2 DEF IsChild
    <3>2. CASE \E k \in DOMAIN R(a) : R(a)[k] = i
      <4>1. PICK k \in DOMAIN R(a) : R(a)[k] = i
        BY <3>2
      <4>2. k \in DOMAIN P[a].children /\ P[a].children[k] = x
        <5>1. a \in D
          OBVIOUS
        <5>2. /\ P[a].children = [j \in DOMAIN R(a) |-> old[a].children[R(a)[j]]]
              /\ DOMAIN P[a].children = DOMAIN R(a)
          BY <1>6, <5>1
        <5>3. QED BY <3>1, <4>1, <5>2
      <4>3. QED BY <4>2 DEF IsChild
    <3>3. CASE ~ \E k \in DOMAIN R(a) : R(a)[k] = i
      <4>1. a = n
        BY <1>5, <3>3
      <4>2. <<n, i, x>> \in links
        BY <1>13, <3>1, <3>3, <4>1
      <4>3. <<n, i, x>>[3] = x
        OBVIOUS
      <4>4. QED BY <1>17, <4>2, <4>3
    <3>4. QED BY <3>2, <3>3
  <2>3. QED BY <2>1, <2>2, <1>20 DEF IsChild
<1>22. ASSUME NEW m \in E PROVE new[m].children = <<>> <=> old[m].children = <<>>
  <2>1. new[m].children = P[m].children /\ Len(P[m].children) = Len(R(m))
    BY <1>6, <1>20
  <2>2. Len(old[m].children) = 0 <=> Len(R(m)) = 0
    BY <1>4, <1>5
  <2>3. old[m].children \in Seq(D) /\ P[m].children \in Seq(D)
    BY <1>4, <1>6 DEF Objects
  <2>4. QED BY <2>1, <2>2, <2>3
<1>23. Pruned(old, new)
  <2>1. E \subseteq D
    OBVIOUS
  <2>2. ASSUME NEW m \in E
        PROVE  /\ new[m].parent = old[m].parent /\ new[m].value = old[m].value /\ new[m].own = old[m].own
               /\ new[m].block = old[m].block /\ new[m].full = old[m].full
    BY <1>6, <1>20
  <2>3. QED BY <1>20, <1>21, <1>22, <2>1, <2>2 DEF Pruned
<1>24. r \in E
  <2>1. ~IsChild(old, n, r)
    BY RootIsNoChild
  <2>2. QED BY <1>1, <1>18, <2>1
<1>25. Rooted(new, r)
  <2>1. new[r].parent = None
    BY <1>23, <1>20, <1>24 DEF Pruned, Rooted
  <2>2. ASSUME NEW a \in E, NEW x \in E, IsChild(new, a, x) PROVE new[x].parent = a
    <3>1. old[x].parent = a
      BY <1>21, <2>2 DEF Rooted
    <3>2. QED BY <3>1, <1>20, <1>23 DEF Pruned
  <2>3. ASSUME NEW x \in E \ {r} PROVE \E a \in E : IsChild(new, a, x)
    <3>1. PICK a \in D : IsChild(old, a, x)
      BY DEF Rooted
    <3>2. a \notin gone
      BY <1>19, <3>1 DEF IsChild
    <3>3. QED BY <1>21, <3>1, <3>2
  <2>4. QED BY <1>17, <1>20, <1>24, <2>1, <2>2, <2>3 DEF Rooted, new
<1>26. BestLines(new, r)
  <2> SUFFICES ASSUME NEW m \in E \ {r}
               PROVE  /\ \A x \in E : IsChild(new, m, x) => new[x].value <= new[m].value
                      /\ \/ new[m].value = new[m].own
                         \/ \E x \in E : IsChild(new, m, x) /\ new[x].value = new[m].value
    BY <1>20 DEF BestLines
  <2>1. \A x \in E : new[x].value = old[x].value /\ new[x].own = old[x].own
    BY <1>20, <1>23 DEF Pruned
  <2>2. /\ \A x \in D : IsChild(old, m, x) => old[x].value <= old[m].value
        /\ \/ old[m].value = old[m].own
           \/ \E x \in D : IsChild(old, m, x) /\ old[x].value = old[m].value
    BY DEF BestLines
  <2>3. \A x \in E : IsChild(new, m, x) => new[x].value <= new[m].value
    BY <1>21, <2>1, <2>2
  <2>4. ASSUME NEW x \in D, IsChild(old, m, x), old[x].value = old[m].value
        PROVE  \E y \in E : IsChild(new, m, y) /\ new[y].value = new[m].value
    <3>1. PICK j \in DOMAIN old[m].children : old[m].children[j] = x
      BY <2>4 DEF IsChild
    <3>2. old[m].children # <<>>
      BY <3>1
    <3>3. PICK k \in DOMAIN R(m) : \A i \in DOMAIN old[m].children :
                 old[old[m].children[i]].value <= old[old[m].children[R(m)[k]]].value
      BY <1>5, <3>2
    <3> DEFINE y == old[m].children[R(m)[k]]
    <3>4. k \in DOMAIN P[m].children /\ P[m].children[k] = y /\ R(m)[k] \in DOMAIN old[m].children
      BY <1>6, <1>9
    <3>5. y \in D /\ IsChild(old, m, y) /\ old[x].value <= old[y].value
      BY <1>4, <3>1, <3>3, <3>4 DEF IsChild
    <3>6. IsChild(new, m, y) /\ y \in E
      <4>1. IsChild(new, m, y)
        BY <1>20, <3>4 DEF IsChild
      <4>2. y \in DOMAIN new
        BY <1>17, <1>20, <4>1, ChildrenAreNodes DEF IsChild, new
      <4>3. QED BY <4>1, <4>2, <1>20
    <3> HIDE DEF y
    <3>7. old[y].value = old[m].value
      <4>1. old[y].value <= old[m].value /\ old[m].value <= old[y].value
        BY <2>2, <2>4, <3>5
      <4>2. old[y].value \in Nat /\ old[m].value \in Nat
        BY <1>4, <3>5 DEF Objects
      <4>3. QED BY <4>1, <4>2
    <3>8. QED BY <2>1, <3>6, <3>7
  <2>5. QED BY <2>1, <2>2, <2>3, <2>4
<1>27. Narrow(new)
  <2> SUFFICES ASSUME NEW m \in E PROVE Len(new[m].children) <= 2
    BY <1>20 DEF Narrow
  <2>1. Len(new[m].children) = Len(R(m))
    BY <1>6, <1>20
  <2>2. Len(old[m].children) \in Nat
    BY <1>4
  <2>3. QED BY <1>5, <2>1, <2>2
<1>28. \A x \in D \ E : IsChild(old, n, x)
  BY <1>17, <1>18
<1> QED
  BY <1>17, <1>20, <1>23, <1>25, <1>26, <1>27, <1>28 DEF left, new

\* The ancestors a value is passed up to: those it improves, up from n without a gap.
RaisedFrom(nodes, n, v, R) ==
    /\ R \subseteq DOMAIN nodes
    /\ nodes[n].value < v => n \in R
    /\ \A x \in R : nodes[x].value < v
    /\ \A x \in R, p \in DOMAIN nodes : IsChild(nodes, p, x) /\ nodes[p].value < v => p \in R
    /\ \A x \in R \ {n} : \E y \in R : IsChild(nodes, x, y)

LEMMA RaisedIsClosed ==
    ASSUME NEW t, NEW r, Rooted(t.node, r), NEW K \in Nat, NEW level \in LevelsOf(t.node, K),
           NEW v \in Nat, NEW n \in DOMAIN t.node
    PROVE  RaisedFrom(t.node, n, v, Raised(t, n, v))
<1> DEFINE nodes == t.node
           D == DOMAIN nodes
           F == D \cup {None}
           S == SUBSET D
           rank == [m \in F |-> IF m = None THEN 0 ELSE level[m] + 1]
           step == [q \in F \X [F -> S] |->
                       IF q[1] = None \/ v <= nodes[q[1]].value THEN {} ELSE {q[1]} \cup q[2][nodes[q[1]].parent]]
<1>1. Linked(nodes) /\ r \in D /\ D \subseteq Node /\ None \notin D
  <2>1. None \notin Node
    BY DEF Node, None
  <2>2. QED BY <2>1 DEF Rooted, Linked
<1>2. level \in [D -> 0..K] /\ \A a, x \in D : IsChild(nodes, a, x) => level[x] = level[a] + 1
  BY DEF LevelsOf, IsChild
<1>3. \A m \in D : nodes[m].value \in Nat
  BY <1>1, ChildrenAreNodes DEF Objects
<1>4. ASSUME NEW m \in D
      PROVE  /\ nodes[m].parent \in F
             /\ nodes[m].parent \in D => IsChild(nodes, nodes[m].parent, m)
             /\ \A a \in D : IsChild(nodes, a, m) => nodes[m].parent = a
  <2>1. \A a \in D : IsChild(nodes, a, m) => nodes[m].parent = a
    BY DEF Rooted
  <2>2. CASE m = r
    BY <2>1, <2>2, <1>1 DEF Rooted
  <2>3. CASE m # r
    <3>1. PICK a \in D : IsChild(nodes, a, m)
      BY <2>3 DEF Rooted
    <3>2. QED BY <2>1, <3>1
  <2>4. QED BY <2>2, <2>3
<1>5. rank \in [F -> 0..K + 1] /\ rank[None] = 0 /\ \A m \in D : rank[m] = level[m] + 1
  BY <1>1, <1>2
<1>6. \A m \in F, f \in [F -> S] :
         step[<<m, f>>] = IF m = None \/ v <= nodes[m].value THEN {} ELSE {m} \cup f[nodes[m].parent]
  OBVIOUS
<1>7. step \in Steps(F, S)
  <2>1. \A m \in F, f \in [F -> S] :
           (IF m = None \/ v <= nodes[m].value THEN {} ELSE {m} \cup f[nodes[m].parent]) \in S
    BY <1>4
  <2> HIDE DEF F, S
  <2>2. QED BY <2>1 DEF Steps
<1> HIDE DEF step, rank
<1>8. Descends(F, S, rank, step)
  <2> SUFFICES ASSUME NEW m \in F, NEW f \in [F -> S], NEW g \in [F -> S],
                      \A x \in F : rank[x] < rank[m] => f[x] = g[x]
               PROVE  step[<<m, f>>] = step[<<m, g>>]
    BY DEF Descends
  <2>1. /\ step[<<m, f>>] = IF m = None \/ v <= nodes[m].value THEN {} ELSE {m} \cup f[nodes[m].parent]
        /\ step[<<m, g>>] = IF m = None \/ v <= nodes[m].value THEN {} ELSE {m} \cup g[nodes[m].parent]
    BY <1>6
  <2>2. ASSUME m # None PROVE f[nodes[m].parent] = g[nodes[m].parent]
    <3> DEFINE a == nodes[m].parent
    <3>1. m \in D /\ a \in F /\ (a \in D => IsChild(nodes, a, m))
      BY <2>2, <1>4
    <3>2. level[m] \in Nat /\ rank[m] = level[m] + 1
      BY <3>1, <1>2, <1>5
    <3> HIDE DEF a
    <3>3. rank[a] < rank[m]
      <4>1. CASE a = None
        BY <4>1, <3>2, <1>5
      <4>2. CASE a \in D
        <5>1. level[m] = level[a] + 1 /\ rank[a] = level[a] + 1 /\ level[a] \in Nat
          BY <4>2, <3>1, <1>2, <1>5
        <5>2. QED BY <5>1, <3>2
      <4>3. QED BY <4>1, <4>2, <3>1
    <3>4. QED BY <3>1, <3>3 DEF a
  <2>3. QED BY <2>1, <2>2
<1>9. Solutions(F, S, step) # {}
  <2>1. S # {}
    OBVIOUS
  <2>2. K + 1 \in Nat
    OBVIOUS
  <2> HIDE DEF F, S
  <2>3. QED BY <1>5, <1>7, <1>8, <2>1, <2>2, RankRecursion
<1>10. PICK f \in [F -> S] : \A m \in F : f[m] = step[<<m, f>>]
  BY <1>9 DEF Solutions
<1>11. f = [m \in DOMAIN t.node \cup {None} |->
               IF m = None \/ v <= t.node[m].value THEN {} ELSE {m} \cup f[t.node[m].parent]]
  BY <1>6, <1>10
<1> DEFINE up == CHOOSE g : g = [m \in DOMAIN t.node \cup {None} |->
                     IF m = None \/ v <= t.node[m].value THEN {} ELSE {m} \cup g[t.node[m].parent]]
<1>12. up = [m \in DOMAIN t.node \cup {None} |->
                IF m = None \/ v <= t.node[m].value THEN {} ELSE {m} \cup up[t.node[m].parent]]
  BY <1>11
<1>13. Raised(t, n, v) = up[n]
  BY DEF Raised
<1> HIDE DEF up
<1>14. up[None] = {} /\ \A m \in D : up[m] = IF v <= nodes[m].value THEN {} ELSE {m} \cup up[nodes[m].parent]
  BY <1>1, <1>12
<1> DEFINE T == {m \in D : RaisedFrom(nodes, m, v, up[m])}
<1>15. ASSUME NEW m \in D, \A a \in D : IsChild(nodes, a, m) => a \in T PROVE m \in T
  <2> DEFINE a == nodes[m].parent
             R == up[m]
             w == nodes[m].value
  <2>0. R = (IF v <= w THEN {} ELSE {m} \cup up[a]) /\ w \in Nat
    BY <1>3, <1>14
  <2>9. v <= w => R = {} /\ ~(w < v)
    <3> HIDE DEF R, w, a
    <3>1. QED BY <2>0
  <2>10. ~(v <= w) => R = {m} \cup up[a] /\ w < v
    <3> HIDE DEF R, w, a
    <3>1. QED BY <2>0
  <2>1. CASE v <= nodes[m].value
    <3>1. R = {} /\ ~(nodes[m].value < v)
      BY <2>9, <2>1
    <3> HIDE DEF R
    <3>2. QED BY <3>1 DEF RaisedFrom, R
  <2>2. CASE ~(v <= nodes[m].value) /\ a = None
    <3>1. R = {m} /\ nodes[m].value < v
      BY <1>14, <2>2, <2>10
    <3>2. \A b \in D : ~IsChild(nodes, b, m)
      BY <1>1, <1>4, <2>2
    <3> HIDE DEF R
    <3>3. QED BY <3>1, <3>2 DEF RaisedFrom, R
  <2>3. CASE ~(v <= nodes[m].value) /\ a \in D
    <3>1. R = {m} \cup up[a] /\ nodes[m].value < v
      BY <2>3, <2>10
    <3>2. IsChild(nodes, a, m) /\ \A b \in D : IsChild(nodes, b, m) => b = a
      BY <1>4, <2>3
    <3>3. RaisedFrom(nodes, a, v, up[a])
      BY <3>2, <1>15, <2>3
    <3> HIDE DEF R, a
    <3>4. \A x \in R, b \in D : IsChild(nodes, b, x) /\ nodes[b].value < v => b \in R
      BY <3>1, <3>2, <3>3 DEF RaisedFrom
    <3>5. \A x \in R \ {m} : \E y \in R : IsChild(nodes, x, y)
      BY <3>1, <3>2, <3>3 DEF RaisedFrom
    <3>6. R \subseteq D /\ m \in R /\ \A x \in R : nodes[x].value < v
      BY <3>1, <3>3 DEF RaisedFrom
    <3>7. QED BY <3>4, <3>5, <3>6 DEF RaisedFrom, R
  <2>4. a = None \/ a \in D
    BY <1>4
  <2>5. QED BY <2>1, <2>2, <2>3, <2>4
<1>16. D \subseteq T
  <2> HIDE DEF T
  <2>1. QED BY <1>1, <1>15, TopDown
<1> QED
  BY <1>13, <1>16

\* A tree in its pools.
GoodTree(t, r) ==
    Rooted(t.node, r) /\ BestLines(t.node, r) /\ t.alloc \in PoolsFor(DOMAIN t.node)

\* New nodes are leaves under n, for placements of block b, and the rest of the tree is as it
\* was but for the values.
Grows(old, n, b, new) ==
    /\ DOMAIN old \subseteq DOMAIN new
    /\ \A m \in DOMAIN old :
          /\ new[m].parent = old[m].parent /\ new[m].own = old[m].own
          /\ new[m].block = old[m].block /\ new[m].full = old[m].full
          /\ m # n => new[m].children = old[m].children
    /\ \A x \in DOMAIN new \ DOMAIN old :
          new[x].children = <<>> /\ new[x].block = b /\ new[x].parent = n
    /\ \A p, x \in DOMAIN old : IsChild(new, p, x) <=> IsChild(old, p, x)

\* A placement is a new leaf under its node, its memory comes out of the pools, and the nodes
\* its value is passed up to are the ones whose best line it now is.
LEMMA PlacementAdds ==
    ASSUME NEW t, NEW r, GoodTree(t, r), NEW K \in Nat, NEW level \in LevelsOf(t.node, K),
           NEW n \in DOMAIN t.node, NEW b \in 0..Numbers - 1, NEW p \in [value : Nat, full : BOOLEAN]
    PROVE  LET new == AddPlacement(t, n, b, p)
           IN  /\ GoodTree(new, r) /\ Grows(t.node, n, b, new.node)
               /\ new.node[n].children # <<>>
<1> DEFINE old == t.node
           D == DOMAIN old
           c == AllocatedNode(t.alloc)
           v == p.value
           R == Raised(t, n, v)
           E == D \cup {c}
           kids(m) == IF m = n THEN <<c>> \o old[m].children ELSE old[m].children
           val(m) == IF m \in R THEN v ELSE old[m].value
           body(m) == IF m = c THEN Leaf(n, b, p)
                      ELSE [old[m] EXCEPT !.children = IF m = n THEN <<c>> \o @ ELSE @,
                                          !.value = IF m \in R THEN v ELSE @]
           new == AddPlacement(t, n, b, p)
           obj == new.node
<1>1. Rooted(old, r) /\ BestLines(old, r) /\ t.alloc \in PoolsFor(D) /\ Linked(old) /\ D \subseteq Node
  BY DEF GoodTree, Rooted, Linked
<1>2. v \in Nat /\ p.full \in BOOLEAN
  OBVIOUS
<1>3. c \in Node \ D /\ AllocNode(t.alloc) \in PoolsFor(E)
  BY <1>1, AllocNodeIsFresh
<1>4. RaisedFrom(old, n, v, R)
  BY <1>1, <1>2, RaisedIsClosed
<1>5. /\ new.alloc = AllocNode(t.alloc)
      /\ obj = [m \in E |-> body(m)]
  BY DEF AddPlacement
<1> HIDE DEF new, R, c, body
<1>6. \A m \in D : /\ old[m] \in Objects(D) /\ old[m].children \in Seq(D)
                   /\ \A i \in DOMAIN old[m].children : old[m].children[i] \in D
  BY <1>1, ChildrenAreNodes
<1>7. DOMAIN obj = E /\ obj[c] = Leaf(n, b, p)
  <2> HIDE DEF obj
  <2>1. QED BY <1>5 DEF body
<1>8. ASSUME NEW m \in D
      PROVE  /\ obj[m].parent = old[m].parent /\ obj[m].own = old[m].own
             /\ obj[m].block = old[m].block /\ obj[m].full = old[m].full
             /\ obj[m].children = kids(m) /\ obj[m].value = val(m)
             /\ obj[m] \in Objects(E)
  <2>1. old[m] \in [parent : Node \cup {None}, children : Seq(D), value : Nat, own : Nat,
                    block : 0..Numbers - 1, full : BOOLEAN]
    BY <1>6 DEF Objects
  <2>2. m # c /\ m \in E
    BY <1>3
  <2>3. obj[m] = [old[m] EXCEPT !.children = kids(m), !.value = val(m)]
    <3>1. obj[m] = body(m)
      <4> HIDE DEF obj
      <4>1. QED BY <1>5, <2>2
    <3> HIDE DEF obj
    <3>2. QED BY <2>2, <3>1 DEF body
  <2>4. kids(m) \in Seq(E)
    <3> DEFINE s == old[m].children
    <3>1. s \in Seq(E) /\ <<c>> \in Seq(E)
      <4>1. s \in Seq(D)
        BY <1>6
      <4>2. D \subseteq E /\ c \in E
        OBVIOUS
      <4> HIDE DEF s, D, E
      <4>3. QED BY <4>1, <4>2
    <3> HIDE DEF s, E
    <3>2. <<c>> \o s \in Seq(E)
      BY <3>1
    <3>3. QED BY <3>1, <3>2 DEF s
  <2>5. val(m) \in Nat
    BY <1>2, <2>1
  <2> HIDE DEF kids, val, E, D
  <2>6. obj[m] = [parent |-> old[m].parent, children |-> kids(m), value |-> val(m),
                  own |-> old[m].own, block |-> old[m].block, full |-> old[m].full]
    BY <2>1, <2>3
  <2>7. QED BY <2>1, <2>4, <2>5, <2>6 DEF Objects
<1>9. /\ obj[c].parent = n /\ obj[c].children = <<>> /\ obj[c].value = v /\ obj[c].own = v
      /\ obj[c].block = b /\ obj[c] \in Objects(E)
  <2>1. n \in Node
    BY <1>1
  <2>2. <<>> \in Seq(E)
    OBVIOUS
  <2> HIDE DEF E
  <2>3. QED BY <1>2, <1>7, <2>1, <2>2 DEF Leaf, Objects
<1>10. /\ DOMAIN kids(n) = 1..Len(old[n].children) + 1 /\ kids(n)[1] = c
       /\ \A i \in 1..Len(old[n].children) : kids(n)[i + 1] = old[n].children[i]
       /\ \A i \in DOMAIN kids(n) : i = 1 \/ (i - 1 \in DOMAIN old[n].children /\ kids(n)[i] = old[n].children[i - 1])
       /\ DOMAIN old[n].children = 1..Len(old[n].children)
  <2> DEFINE s == old[n].children
  <2>1. s \in Seq(D)
    BY <1>6
  <2>2. kids(n) = <<c>> \o s
    OBVIOUS
  <2> HIDE DEF s, kids, D
  <2>3. DOMAIN s = 1..Len(s) /\ Len(s) \in Nat /\ DOMAIN kids(n) = 1..Len(s) + 1 /\ kids(n)[1] = c
    BY <2>1, <2>2
  <2>4. \A i \in 1..Len(s) : kids(n)[i + 1] = s[i]
    BY <2>1, <2>2
  <2>5. \A i \in DOMAIN kids(n) : i = 1 \/ (i - 1 \in DOMAIN s /\ kids(n)[i] = s[i - 1])
    <3> TAKE i \in DOMAIN kids(n)
    <3>1. i # 1 => i - 1 \in 1..Len(s) /\ (i - 1) + 1 = i
      BY <2>3
    <3>2. QED BY <2>3, <2>4, <3>1
  <2>6. QED BY <2>3, <2>4, <2>5 DEF s
\* Of the old nodes nobody gains a child, and n has a new one.
<1>11. \A m \in D, x \in D : IsChild(obj, m, x) <=> IsChild(old, m, x)
  <2> SUFFICES ASSUME NEW m \in D, NEW x \in D PROVE IsChild(obj, m, x) <=> IsChild(old, m, x)
    OBVIOUS
  <2>1. CASE m # n
    BY <2>1, <1>8 DEF IsChild
  <2>2. CASE m = n
    <3>1. x # c /\ obj[m].children = kids(n)
      BY <1>3, <1>8, <2>2
    <3> HIDE DEF kids
    <3>2. IsChild(obj, m, x) => IsChild(old, m, x)
      BY <1>10, <2>2, <3>1 DEF IsChild
    <3>3. ASSUME NEW i \in DOMAIN old[n].children, old[n].children[i] = x PROVE IsChild(obj, m, x)
      <4>1. i \in 1..Len(old[n].children) /\ Len(old[n].children) \in Nat
        BY <1>10, <1>6
      <4>3. i + 1 \in DOMAIN kids(n)
        BY <1>10, <4>1
      <4>4. kids(n)[i + 1] = x
        BY <1>10, <3>3, <4>1
      <4>2. QED BY <3>1, <4>3, <4>4 DEF IsChild
    <3>4. QED BY <2>2, <3>2, <3>3 DEF IsChild
  <2>3. QED BY <2>1, <2>2
<1>12. IsChild(obj, n, c) /\ \A m \in D : IsChild(obj, m, c) => m = n
  <2>1. 1 \in DOMAIN kids(n)
    BY <1>10, <1>6
  <2>2. IsChild(obj, n, c)
    BY <1>8, <1>10, <2>1 DEF IsChild
  <2>3. ASSUME NEW m \in D, m # n, NEW i \in DOMAIN obj[m].children, obj[m].children[i] = c PROVE FALSE
    <3>1. obj[m].children = old[m].children
      BY <1>8, <2>3
    <3>2. QED BY <1>3, <1>6, <2>3, <3>1
  <2>4. QED BY <2>2, <2>3 DEF IsChild
<1>13. \A x \in E : ~IsChild(obj, c, x)
  BY <1>9 DEF IsChild
<1> HIDE DEF obj
<1>14. Linked(obj)
  <2>1. obj \in [E -> Objects(E)]
    <3>1. obj = [m \in E |-> obj[m]]
      BY <1>5, <1>7
    <3>2. \A m \in E : obj[m] \in Objects(E)
      BY <1>8, <1>9
    <3> HIDE DEF E
    <3>3. QED BY <3>1, <3>2
  <2>2. ASSUME NEW x \in D, NEW y \in D, NEW i \in DOMAIN obj[x].children, NEW j \in DOMAIN obj[y].children,
               obj[x].children[i] = obj[y].children[j]
        PROVE  x = y /\ i = j
    <3>1. /\ x # n => i \in DOMAIN old[x].children /\ obj[x].children[i] = old[x].children[i]
          /\ y # n => j \in DOMAIN old[y].children /\ obj[y].children[j] = old[y].children[j]
      BY <1>8
    <3>2. /\ x = n => i \in DOMAIN kids(n) /\ obj[x].children[i] = kids(n)[i]
          /\ y = n => j \in DOMAIN kids(n) /\ obj[y].children[j] = kids(n)[j]
      BY <1>8
    <3> HIDE DEF kids
    <3>3. CASE x # n /\ y # n
      <4>1. old[x].children[i] = old[y].children[j]
        BY <2>2, <3>1, <3>3
      <4>2. QED BY <1>1, <3>1, <3>3, <4>1 DEF Linked
    <3>4. CASE x = n /\ y = n
      <4>4. \A l \in DOMAIN kids(n) : l = 1 \/ kids(n)[l] \in D
        BY <1>6, <1>10
      <4>5. kids(n)[1] \notin D /\ kids(n)[i] = kids(n)[j] /\ i \in DOMAIN kids(n) /\ j \in DOMAIN kids(n)
        BY <1>3, <1>10, <2>2, <3>2, <3>4
      <4>1. CASE i = 1 \/ j = 1
        BY <3>4, <4>1, <4>4, <4>5
      <4>2. CASE i # 1 /\ j # 1
        <5>1. /\ i - 1 \in DOMAIN old[n].children /\ j - 1 \in DOMAIN old[n].children
              /\ old[n].children[i - 1] = old[n].children[j - 1]
          BY <1>10, <2>2, <3>2, <3>4, <4>2
        <5>2. i - 1 = j - 1 /\ i \in Nat /\ j \in Nat
          BY <1>1, <1>10, <3>2, <3>4, <5>1 DEF Linked
        <5>3. QED BY <3>4, <5>2
      <4>3. QED BY <4>1, <4>2
    <3>5. CASE x = n /\ y # n
      <4>1. old[y].children[j] \in D
        BY <1>6, <3>1, <3>5
      <4>2. i - 1 \in DOMAIN old[n].children /\ old[n].children[i - 1] = old[y].children[j]
        BY <1>3, <1>10, <2>2, <3>1, <3>2, <3>5, <4>1
      <4>3. QED BY <1>1, <3>1, <3>5, <4>2 DEF Linked
    <3>6. CASE x # n /\ y = n
      <4>1. old[x].children[i] \in D
        BY <1>6, <3>1, <3>6
      <4>2. j - 1 \in DOMAIN old[n].children /\ old[n].children[j - 1] = old[x].children[i]
        BY <1>3, <1>10, <2>2, <3>1, <3>2, <3>6, <4>1
      <4>3. QED BY <1>1, <3>1, <3>6, <4>2 DEF Linked
    <3>7. QED BY <3>3, <3>4, <3>5, <3>6
  <2>3. \A x, y \in E : \A i \in DOMAIN obj[x].children, j \in DOMAIN obj[y].children :
            obj[x].children[i] = obj[y].children[j] => x = y /\ i = j
    <3>1. DOMAIN obj[c].children = {}
      BY <1>9
    <3>2. QED BY <2>2, <3>1
  <2>4. E \subseteq Node
    BY <1>1, <1>3
  <2>5. QED BY <1>7, <2>1, <2>3, <2>4 DEF Linked
<1>15. r \in D /\ old[r].parent = None
  BY <1>1 DEF Rooted
<1>16. Rooted(obj, r)
  <2>1. ASSUME NEW m \in E, NEW x \in E, IsChild(obj, m, x) PROVE obj[x].parent = m
    <3>1. m \in D
      BY <1>13, <2>1
    <3>2. CASE x = c
      BY <1>9, <1>12, <2>1, <3>1, <3>2
    <3>3. CASE x \in D
      <4>1. old[x].parent = m
        BY <1>1, <1>11, <2>1, <3>1, <3>3 DEF Rooted
      <4>2. QED BY <1>8, <3>3, <4>1
    <3>4. QED BY <3>2, <3>3
  <2>2. ASSUME NEW x \in E \ {r} PROVE \E m \in E : IsChild(obj, m, x)
    <3>1. CASE x = c
      BY <1>12, <3>1
    <3>2. CASE x \in D
      <4>1. PICK m \in D : IsChild(old, m, x)
        BY <1>1, <3>2 DEF Rooted
      <4>2. QED BY <1>11, <3>2, <4>1
    <3>3. QED BY <3>1, <3>2
  <2>3. obj[r].parent = None
    BY <1>8, <1>15
  <2>4. QED BY <1>7, <1>14, <1>15, <2>1, <2>2, <2>3 DEF Rooted
<1>17. Grows(old, n, b, obj)
  <2>1. \A m \in D : /\ obj[m].parent = old[m].parent /\ obj[m].own = old[m].own
                     /\ obj[m].block = old[m].block /\ obj[m].full = old[m].full
                     /\ m # n => obj[m].children = old[m].children
    BY <1>8
  <2>2. \A x \in E \ D : obj[x].children = <<>> /\ obj[x].block = b /\ obj[x].parent = n
    BY <1>9
  <2>3. QED BY <1>7, <1>11, <2>1, <2>2 DEF Grows
<1>18. BestLines(obj, r)
  <2>1. /\ R \subseteq D /\ (old[n].value < v => n \in R) /\ \A x \in R : old[x].value < v
        /\ \A x \in R, m \in D : IsChild(old, m, x) /\ old[m].value < v => m \in R
        /\ \A x \in R \ {n} : \E y \in R : IsChild(old, x, y)
    BY <1>4 DEF RaisedFrom
  <2>2. \A m \in D : /\ obj[m].own = old[m].own /\ old[m].value \in Nat
                     /\ m \in R => obj[m].value = v
                     /\ m \notin R => obj[m].value = old[m].value
    BY <1>6, <1>8 DEF Objects
  <2>3. obj[c].value = v /\ obj[c].own = v
    BY <1>9
  <2>4. \A m \in D \ {r} : /\ \A x \in D : IsChild(old, m, x) => old[x].value <= old[m].value
                           /\ \/ old[m].value = old[m].own
                              \/ \E x \in D : IsChild(old, m, x) /\ old[x].value = old[m].value
    BY <1>1 DEF BestLines
  <2>5. ASSUME NEW m \in D \ {r}, NEW x \in E, IsChild(obj, m, x) PROVE obj[x].value <= obj[m].value
    <3>1. CASE x = c
      <4>1. m = n
        BY <1>12, <2>5, <3>1
      <4>2. QED BY <1>2, <2>1, <2>2, <2>3, <3>1, <4>1
    <3>2. CASE x \in D
      <4>1. IsChild(old, m, x)
        BY <1>11, <2>5, <3>2
      <4>2. old[x].value <= old[m].value
        BY <2>4, <3>2, <4>1
      <4>3. CASE x \in R
        <5>1. m \in R \/ ~(old[m].value < v)
          BY <2>1, <4>1, <4>3
        <5>2. QED BY <1>2, <2>2, <3>2, <4>3, <5>1
      <4>4. CASE x \notin R
        <5>1. m \in R => old[m].value < v
          BY <2>1
        <5>2. QED BY <1>2, <2>2, <3>2, <4>2, <4>4, <5>1
      <4>5. QED BY <4>3, <4>4
    <3>3. QED BY <3>1, <3>2
  <2>6. ASSUME NEW m \in D \ {r}
        PROVE  \/ obj[m].value = obj[m].own
               \/ \E x \in E : IsChild(obj, m, x) /\ obj[x].value = obj[m].value
    <3>1. CASE m \in R /\ m = n
      BY <1>12, <2>2, <2>3, <3>1
    <3>2. CASE m \in R /\ m # n
      <4>1. PICK y \in R : IsChild(old, m, y)
        BY <2>1, <3>2
      <4>2. y \in D /\ IsChild(obj, m, y)
        BY <1>11, <2>1, <4>1
      <4>3. QED BY <2>2, <3>2, <4>1, <4>2
    <3>3. CASE m \notin R
      <4>1. ASSUME NEW x \in D, IsChild(old, m, x), old[x].value = old[m].value
            PROVE  \E y \in E : IsChild(obj, m, y) /\ obj[y].value = obj[m].value
        <5>1. IsChild(obj, m, x)
          BY <1>11, <4>1
        <5>2. x \notin R
          BY <2>1, <2>2, <3>3, <4>1
        <5>3. QED BY <2>2, <3>3, <4>1, <5>1, <5>2
      <4>2. QED BY <2>2, <2>4, <3>3, <4>1
    <3>4. QED BY <3>1, <3>2, <3>3
  <2>7. /\ \A x \in E : ~IsChild(obj, c, x)
        /\ obj[c].value = obj[c].own
    BY <1>13, <2>3
  <2>8. QED BY <1>7, <2>5, <2>6, <2>7 DEF BestLines
<1>19. obj[n].children # <<>>
  BY <1>12 DEF IsChild
<1>20. new.alloc \in PoolsFor(E)
  <2> HIDE DEF E
  <2>1. QED BY <1>3, <1>5
<1> QED
  BY <1>7, <1>16, <1>17, <1>18, <1>19, <1>20 DEF GoodTree, obj, new

LEMMA GrowsTwice ==
    ASSUME NEW old, NEW mid, NEW new, NEW n \in DOMAIN old, NEW b,
           Grows(old, n, b, mid), Grows(mid, n, b, new)
    PROVE  Grows(old, n, b, new)
<1>1. DOMAIN old \subseteq DOMAIN mid /\ DOMAIN mid \subseteq DOMAIN new
  BY DEF Grows
<1>2. \A m \in DOMAIN old : /\ new[m].parent = old[m].parent /\ new[m].own = old[m].own
                            /\ new[m].block = old[m].block /\ new[m].full = old[m].full
                            /\ m # n => new[m].children = old[m].children
  BY <1>1 DEF Grows
<1>3. ASSUME NEW x \in DOMAIN new \ DOMAIN old
      PROVE  new[x].children = <<>> /\ new[x].block = b /\ new[x].parent = n
  <2>1. CASE x \in DOMAIN mid
    <3>1. mid[x].children = <<>> /\ mid[x].block = b /\ mid[x].parent = n
      BY <2>1 DEF Grows
    <3>2. x # n /\ new[x].children = mid[x].children /\ new[x].block = mid[x].block /\ new[x].parent = mid[x].parent
      BY <2>1 DEF Grows
    <3>3. QED BY <3>1, <3>2
  <2>2. CASE x \notin DOMAIN mid
    BY <2>2 DEF Grows
  <2>3. QED BY <2>1, <2>2
<1>4. \A p, x \in DOMAIN old : IsChild(new, p, x) <=> IsChild(old, p, x)
  BY <1>1 DEF Grows
<1> QED
  BY <1>1, <1>2, <1>3, <1>4 DEF Grows

\* The levels of a tree that has grown under n.
GrownLevels(old, level, n, new) == [m \in DOMAIN new |-> IF m \in DOMAIN old THEN level[m] ELSE level[n] + 1]

LEMMA GrowsByALevel ==
    ASSUME NEW old, NEW r, NEW K \in Nat, NEW level \in LevelsOf(old, K), NEW n \in DOMAIN old,
           NEW b, NEW new, Grows(old, n, b, new), Rooted(new, r)
    PROVE  GrownLevels(old, level, n, new) \in LevelsOf(new, K + 1)
<1> DEFINE lvl == GrownLevels(old, level, n, new)
<1>1. level \in [DOMAIN old -> 0..K] /\ \A p, x \in DOMAIN old : IsChild(old, p, x) => level[x] = level[p] + 1
  BY DEF LevelsOf, IsChild
<1>2. lvl = [m \in DOMAIN new |-> IF m \in DOMAIN old THEN level[m] ELSE level[n] + 1]
  BY DEF GrownLevels
<1> HIDE DEF lvl
<1>3. lvl \in [DOMAIN new -> 0..K + 1]
  <2>1. ASSUME NEW m \in DOMAIN new
        PROVE  (IF m \in DOMAIN old THEN level[m] ELSE level[n] + 1) \in 0..K + 1
    <3>1. level[n] \in 0..K /\ (m \in DOMAIN old => level[m] \in 0..K)
      BY <1>1
    <3>2. QED BY <3>1
  <2>2. QED BY <1>2, <2>1
<1>4. ASSUME NEW m \in DOMAIN new, NEW i \in DOMAIN new[m].children
      PROVE  lvl[new[m].children[i]] = lvl[m] + 1
  <2> DEFINE x == new[m].children[i]
  <2>1. x \in DOMAIN new /\ IsChild(new, m, x) /\ new[x].parent = m
    <3>1. Linked(new)
      BY DEF Rooted
    <3>2. x \in DOMAIN new /\ IsChild(new, m, x)
      BY <3>1, ChildrenAreNodes DEF IsChild
    <3>3. QED BY <3>2 DEF Rooted
  <2> HIDE DEF x
  <2>2. m \in DOMAIN old
    <3>1. m \notin DOMAIN old => new[m].children = <<>>
      BY DEF Grows
    <3>2. QED BY <3>1
  <2>3. CASE x \in DOMAIN old
    <3>1. IsChild(old, m, x)
      BY <2>1, <2>2, <2>3 DEF Grows
    <3>2. level[x] = level[m] + 1
      BY <1>1, <2>2, <2>3, <3>1
    <3>3. QED BY <1>2, <2>1, <2>2, <2>3, <3>2 DEF x
  <2>4. CASE x \notin DOMAIN old
    <3>1. m = n
      BY <2>1, <2>4 DEF Grows
    <3>2. QED BY <1>2, <2>1, <2>2, <2>4, <3>1 DEF x
  <2>5. QED BY <2>3, <2>4
<1>5. lvl \in LevelsOf(new, K + 1)
  BY <1>3, <1>4 DEF LevelsOf
<1> QED
  BY <1>5 DEF lvl

LEMMA GrowsByNothing ==
    ASSUME NEW old, NEW n, NEW b
    PROVE  Grows(old, n, b, old)
  BY DEF Grows

\* All the placements of a leaf are new leaves under it.
LEMMA GrownKeeps ==
    ASSUME NEW t, t = [alloc |-> t.alloc, node |-> t.node],
           NEW r, GoodTree(t, r), NEW K \in Nat, NEW level \in LevelsOf(t.node, K),
           NEW n \in DOMAIN t.node, NEW b \in 0..Numbers - 1,
           NEW ps \in Seq([value : Nat, full : BOOLEAN])
    PROVE  LET new == Grown(t, n, b, ps)
           IN  /\ GoodTree(new, r) /\ Grows(t.node, n, b, new.node)
               /\ ps = <<>> => new = t
               /\ ps # <<>> => new.node[n].children # <<>>
<1> DEFINE N == Len(ps)
           D == 0..N
           Trees == {s \in [alloc : Seq(Pool), node : UNION {[E -> Objects(E)] : E \in SUBSET Node}] :
                        GoodTree(s, r) /\ Grows(t.node, n, b, s.node)}
           step == [q \in D \X [D -> Trees] |->
                       IF q[1] = 0 THEN t ELSE AddPlacement(q[2][q[1] - 1], n, b, ps[q[1]])]
           rank == [i \in D |-> i]
<1>1. N \in Nat /\ \A i \in 1..N : ps[i] \in [value : Nat, full : BOOLEAN]
  <2> DEFINE P == [value : Nat, full : BOOLEAN]
  <2>1. ps \in Seq(P)
    OBVIOUS
  <2> HIDE DEF P
  <2>2. N \in Nat /\ \A i \in 1..N : ps[i] \in P
    BY <2>1
  <2>3. QED BY <2>2 DEF P
<1>2. ASSUME NEW s, s = [alloc |-> s.alloc, node |-> s.node], GoodTree(s, r), Grows(t.node, n, b, s.node)
      PROVE  s \in Trees
  <2>1. s.alloc \in Seq(Pool)
    BY <1>2 DEF GoodTree, PoolsFor
  <2>2. DOMAIN s.node \in SUBSET Node /\ s.node \in [DOMAIN s.node -> Objects(DOMAIN s.node)]
    BY <1>2 DEF GoodTree, Rooted, Linked
  <2>3. s.node \in UNION {[E -> Objects(E)] : E \in SUBSET Node}
    BY <2>2
  <2> DEFINE U == UNION {[E -> Objects(E)] : E \in SUBSET Node}
  <2> HIDE DEF U
  <2>4. s \in [alloc : Seq(Pool), node : U]
    BY <1>2, <2>1, <2>3 DEF U
  <2>5. QED BY <1>2, <2>4 DEF U
<1>3. t \in Trees
  BY <1>2, GrowsByNothing
<1>4. ASSUME NEW s \in Trees, NEW p \in [value : Nat, full : BOOLEAN]
      PROVE  AddPlacement(s, n, b, p) \in Trees /\ AddPlacement(s, n, b, p).node[n].children # <<>>
  <2>1. GoodTree(s, r) /\ Grows(t.node, n, b, s.node)
    OBVIOUS
  <2>2. Rooted(s.node, r) /\ n \in DOMAIN s.node /\ K + 1 \in Nat
    BY <2>1 DEF GoodTree, Grows
  <2>3. PICK lvl : lvl = GrownLevels(t.node, level, n, s.node)
    OBVIOUS
  <2>4. lvl \in LevelsOf(s.node, K + 1)
    BY <2>1, <2>2, <2>3, GrowsByALevel
  <2> DEFINE new == AddPlacement(s, n, b, p)
  <2>5. GoodTree(new, r) /\ Grows(s.node, n, b, new.node) /\ new.node[n].children # <<>>
    BY <2>1, <2>2, <2>4, PlacementAdds
  <2>6. new = [alloc |-> new.alloc, node |-> new.node]
    BY DEF AddPlacement
  <2> HIDE DEF new
  <2>7. Grows(t.node, n, b, new.node)
    BY <2>1, <2>5, GrowsTwice
  <2>8. new \in Trees
    BY <1>2, <2>5, <2>6, <2>7
  <2>9. QED BY <2>5, <2>8 DEF new
<1> HIDE DEF Trees
<1>5. step \in Steps(D, Trees)
  <2>1. ASSUME NEW i \in D, NEW f \in [D -> Trees], i # 0
        PROVE  AddPlacement(f[i - 1], n, b, ps[i]) \in Trees
    <3>1. i - 1 \in D /\ ps[i] \in [value : Nat, full : BOOLEAN]
      BY <1>1, <2>1
    <3>2. f[i - 1] \in Trees
      BY <3>1
    <3>3. QED BY <1>4, <3>1, <3>2
  <2> HIDE DEF D
  <2>2. QED BY <1>3, <2>1 DEF Steps
<1>6. Descends(D, Trees, rank, step)
  <2> SUFFICES ASSUME NEW i \in D, NEW f \in [D -> Trees], NEW g \in [D -> Trees],
                      \A m \in D : rank[m] < rank[i] => f[m] = g[m]
               PROVE  step[<<i, f>>] = step[<<i, g>>]
    <3> HIDE DEF D, step, rank
    <3>1. QED BY DEF Descends
  <2>1. i # 0 => i - 1 \in D /\ i - 1 < i
    BY <1>1
  <2>2. \A m \in D : rank[m] = m
    OBVIOUS
  <2>3. i # 0 => f[i - 1] = g[i - 1]
    BY <2>1, <2>2
  <2>4. /\ step[<<i, f>>] = IF i = 0 THEN t ELSE AddPlacement(f[i - 1], n, b, ps[i])
        /\ step[<<i, g>>] = IF i = 0 THEN t ELSE AddPlacement(g[i - 1], n, b, ps[i])
    OBVIOUS
  <2> HIDE DEF step, rank, D
  <2>5. QED BY <2>3, <2>4
<1>7. Solutions(D, Trees, step) # {}
  <2>1. rank \in [D -> 0..N] /\ Trees # {}
    BY <1>3
  <2> HIDE DEF D, step, rank, N
  <2>2. QED BY <1>1, <1>5, <1>6, <2>1, RankRecursion
<1>8. PICK f \in [D -> Trees] : \A i \in D : f[i] = step[<<i, f>>]
  BY <1>7 DEF Solutions
<1>9. f = [i \in 0..Len(ps) |-> IF i = 0 THEN t ELSE AddPlacement(f[i - 1], n, b, ps[i])]
  BY <1>8
<1> HIDE DEF step
<1> DEFINE table == CHOOSE g : g = [i \in 0..Len(ps) |-> IF i = 0 THEN t
                                                         ELSE AddPlacement(g[i - 1], n, b, ps[i])]
<1>10. table = [i \in 0..Len(ps) |-> IF i = 0 THEN t ELSE AddPlacement(table[i - 1], n, b, ps[i])]
  BY <1>9
<1>11. Grown(t, n, b, ps) = table[N]
  BY DEF Grown
<1> HIDE DEF table
<1>12. table[0] = t /\ \A i \in 1..N : table[i] = AddPlacement(table[i - 1], n, b, ps[i])
  <2>1. \A i \in 0..N : table[i] = IF i = 0 THEN t ELSE AddPlacement(table[i - 1], n, b, ps[i])
    BY <1>10
  <2>2. 0 \in 0..N /\ \A i \in 1..N : i \in 0..N /\ i # 0
    BY <1>1
  <2> HIDE DEF N
  <2>3. QED BY <2>1, <2>2
<1> DEFINE T == {k \in Nat : k <= N => table[k] \in Trees /\ (k # 0 => table[k].node[n].children # <<>>)}
<1>13. 0 \in T
  BY <1>3, <1>12
<1>14. ASSUME NEW k \in Nat, k \in T PROVE k + 1 \in T
  <2> SUFFICES ASSUME k + 1 <= N
               PROVE  table[k + 1] \in Trees /\ table[k + 1].node[n].children # <<>>
    OBVIOUS
  <2>1. k + 1 \in 1..N /\ (k + 1) - 1 = k /\ table[k] \in Trees
    BY <1>1, <1>14
  <2>2. table[k + 1] = AddPlacement(table[k], n, b, ps[k + 1]) /\ ps[k + 1] \in [value : Nat, full : BOOLEAN]
    BY <1>1, <1>12, <2>1
  <2>3. QED BY <1>4, <2>1, <2>2
<1>15. N \in T
  <2>1. Nat \subseteq T
    <3> HIDE DEF T
    <3>1. QED BY <1>13, <1>14, Induction
  <2>2. QED BY <2>1, <1>1
<1>16. table[N] \in Trees /\ (N # 0 => table[N].node[n].children # <<>>)
  BY <1>1, <1>15
<1>17. (ps = <<>> => N = 0) /\ (ps # <<>> => N # 0)
  OBVIOUS
<1> HIDE DEF N
<1> QED
  BY <1>11, <1>12, <1>16, <1>17 DEF Trees

----------------------------------------------------------------------------
(* The other operations on the tree.                                               *)

\* What is left of a tree keeps its levels.
LEMMA LevelsAreKept ==
    ASSUME NEW old, NEW K \in Nat, NEW level \in LevelsOf(old, K), NEW new, Linked(new),
           DOMAIN new \subseteq DOMAIN old,
           \A p, x \in DOMAIN new : IsChild(new, p, x) => IsChild(old, p, x)
    PROVE  [m \in DOMAIN new |-> level[m]] \in LevelsOf(new, K)
<1> DEFINE lvl == [m \in DOMAIN new |-> level[m]]
<1>1. level \in [DOMAIN old -> 0..K] /\ \A p, x \in DOMAIN old : IsChild(old, p, x) => level[x] = level[p] + 1
  BY DEF LevelsOf, IsChild
<1>2. lvl \in [DOMAIN new -> 0..K]
  BY <1>1
<1>3. ASSUME NEW m \in DOMAIN new, NEW i \in DOMAIN new[m].children
      PROVE  lvl[new[m].children[i]] = lvl[m] + 1
  <2>1. new[m].children[i] \in DOMAIN new /\ IsChild(new, m, new[m].children[i])
    BY ChildrenAreNodes DEF IsChild
  <2>2. level[new[m].children[i]] = level[m] + 1
    BY <1>1, <2>1
  <2>3. QED BY <2>1, <2>2
<1> HIDE DEF lvl
<1>4. lvl \in LevelsOf(new, K)
  BY <1>2, <1>3 DEF LevelsOf
<1> QED
  BY <1>4 DEF lvl

\* A list without one of its places.
LEMMA WithoutAPlace ==
    ASSUME NEW S, NEW s \in Seq(S), NEW i \in DOMAIN s
    PROVE  /\ RemoveAt(s, i) \in Seq(S) /\ DOMAIN RemoveAt(s, i) = 1..Len(s) - 1
           /\ \A j \in 1..Len(s) - 1 : RemoveAt(s, i)[j] = s[IF j < i THEN j ELSE j + 1]
<1> DEFINE a == SubSeq(s, 1, i - 1)
           b == SubSeq(s, i + 1, Len(s))
<1>1. i \in 1..Len(s) /\ Len(s) \in Nat
  OBVIOUS
<1>2. a \in Seq(S) /\ Len(a) = i - 1 /\ \A j \in 1..i - 1 : a[j] = s[j]
  BY <1>1
<1>3. b \in Seq(S) /\ Len(b) = Len(s) - i /\ \A j \in 1..Len(s) - i : b[j] = s[i + j]
  BY <1>1
<1>4. RemoveAt(s, i) = a \o b
  BY DEF RemoveAt
<1> HIDE DEF a, b
<1>5. a \o b \in Seq(S) /\ DOMAIN (a \o b) = 1..Len(s) - 1
  BY <1>1, <1>2, <1>3
<1>6. ASSUME NEW j \in 1..Len(s) - 1 PROVE (a \o b)[j] = s[IF j < i THEN j ELSE j + 1]
  <2>1. CASE j < i
    <3>1. j \in 1..i - 1 /\ (a \o b)[j] = a[j]
      BY <1>1, <1>2, <1>3, <2>1
    <3>2. QED BY <1>2, <2>1, <3>1
  <2>2. CASE ~(j < i)
    <3>1. j - (i - 1) \in 1..Len(s) - i /\ i + (j - (i - 1)) = j + 1
      BY <1>1, <2>2
    <3>2. (a \o b)[j] = b[j - (i - 1)]
      BY <1>1, <1>2, <1>3, <2>2
    <3>3. QED BY <1>3, <2>2, <3>1, <3>2
  <2>3. QED BY <2>1, <2>2
<1> QED
  BY <1>4, <1>5, <1>6

\* A tree that is nothing but its root.
LEMMA BareRoot ==
    ASSUME NEW nodes, NEW r \in Node, DOMAIN nodes = {r}, nodes = [n \in {r} |-> nodes[n]],
           nodes[r] \in Objects({r}), nodes[r].children = <<>>, nodes[r].parent = None
    PROVE  /\ Rooted(nodes, r) /\ BestLines(nodes, r) /\ Narrow(nodes)
           /\ [n \in {r} |-> 0] \in LevelsOf(nodes, 0)
<1>1. DOMAIN nodes[r].children = {}
  OBVIOUS
<1>2. nodes \in [{r} -> Objects({r})]
  OBVIOUS
<1>3. Linked(nodes)
  BY <1>1, <1>2 DEF Linked
<1>4. Rooted(nodes, r)
  BY <1>1, <1>3 DEF Rooted, IsChild
<1>5. BestLines(nodes, r) /\ Narrow(nodes)
  BY DEF BestLines, Narrow
<1>6. [n \in {r} |-> 0] \in LevelsOf(nodes, 0)
  <2> DEFINE f == [n \in {r} |-> 0]
  <2>1. f \in [{r} -> 0..0]
    OBVIOUS
  <2> HIDE DEF f
  <2>2. f \in LevelsOf(nodes, 0)
    BY <1>1, <2>1 DEF LevelsOf
  <2>3. QED BY <2>2 DEF f
<1> QED
  BY <1>4, <1>5, <1>6

\* A subtree made a tree of its own: nodes are lost, each of the others is as it was, with the
\* children it had, but for the new root's parent.
Descended(old, r, best, new) ==
    /\ IsChild(old, r, best)
    /\ DOMAIN new \subseteq DOMAIN old \ {r}
    /\ best \in DOMAIN new
    /\ \A m \in DOMAIN new :
          /\ new[m].value = old[m].value /\ new[m].own = old[m].own
          /\ new[m].block = old[m].block /\ new[m].full = old[m].full
          /\ new[m].children = old[m].children

\* SetNextRoot for the child at a place: the tree under it is left.
NextRoot(t, r, place) ==
    LET best == t.node[r].children[place]
        left == DeleteNodes([t EXCEPT !.node[r].children = RemoveAt(@, place)], {<<None, 1, r>>})
    IN  [left EXCEPT !.node[best].parent = None]

LEMMA NextRootKeeps ==
    ASSUME NEW t, t = [alloc |-> t.alloc, node |-> t.node], NEW r, GoodTree(t, r), Narrow(t.node),
           NEW K \in Nat, NEW level \in LevelsOf(t.node, K), NEW place \in DOMAIN t.node[r].children
    PROVE  LET best == t.node[r].children[place]
               new == NextRoot(t, r, place)
           IN  /\ GoodTree(new, best) /\ Narrow(new.node)
               /\ Descended(t.node, r, best, new.node)
<1> DEFINE old == t.node
           D == DOMAIN old
           s == old[r].children
           best == s[place]
           rest == RemoveAt(s, place)
           P == [old EXCEPT ![r].children = rest]
           p0 == [alloc |-> t.alloc, node |-> P]
           links == {<<None, 1, r>>}
           gone == Below(p0, links)
           left == DeleteNodes(p0, links)
           E == D \ gone
           new == NextRoot(t, r, place)
<1>1. /\ Rooted(old, r) /\ BestLines(old, r) /\ t.alloc \in PoolsFor(D) /\ Linked(old) /\ D \subseteq Node
      /\ r \in D
  BY DEF GoodTree, Rooted, Linked
<1>2. \A m \in D : /\ old[m] \in Objects(D) /\ old[m].children \in Seq(D)
                   /\ \A i \in DOMAIN old[m].children : old[m].children[i] \in D
  BY <1>1, ChildrenAreNodes
<1>3. /\ rest \in Seq(D) /\ DOMAIN rest = 1..Len(s) - 1
      /\ \A j \in 1..Len(s) - 1 : rest[j] = s[IF j < place THEN j ELSE j + 1]
  <2>1. s \in Seq(D) /\ place \in DOMAIN s
    BY <1>1, <1>2
  <2> HIDE DEF s
  <2>2. QED BY <2>1, WithoutAPlace
<1>4. best \in D /\ IsChild(old, r, best) /\ best # r
  <2>1. best \in D /\ IsChild(old, r, best)
    BY <1>1, <1>2 DEF IsChild
  <2>2. QED BY <1>1, <2>1, RootIsNoChild
<1>5. p0 = [t EXCEPT !.node[r].children = RemoveAt(@, place)]
  OBVIOUS
<1>6. DOMAIN P = D /\ \A m \in D \ {r} : P[m] = old[m]
  OBVIOUS
<1>7. P[r].children = rest /\ P[r] \in Objects(D)
  <2>1. old[r] \in [parent : Node \cup {None}, children : Seq(D), value : Nat, own : Nat,
                    block : 0..Numbers - 1, full : BOOLEAN]
    BY <1>1, <1>2 DEF Objects
  <2>2. P[r] = [old[r] EXCEPT !.children = rest]
    BY <1>1
  <2> HIDE DEF P, rest, D
  <2>3. QED BY <1>3, <2>1, <2>2 DEF Objects
<1> HIDE DEF P, rest
\* A place of the shorter list and the place it had before.
<1> DEFINE was(j) == IF j < place THEN j ELSE j + 1
<1>8. /\ \A j \in DOMAIN rest : was(j) \in DOMAIN s /\ was(j) # place /\ rest[j] = s[was(j)]
      /\ \A i, j \in DOMAIN rest : was(i) = was(j) => i = j
      /\ \A i \in DOMAIN s \ {place} : \E j \in DOMAIN rest : was(j) = i
  <2>1. DOMAIN s = 1..Len(s) /\ Len(s) \in Nat /\ place \in 1..Len(s)
    BY <1>1, <1>2
  <2> HIDE DEF s
  <2>2. \A j \in DOMAIN rest : was(j) \in DOMAIN s /\ was(j) # place /\ rest[j] = s[was(j)]
    BY <1>3, <2>1
  <2>3. \A i, j \in DOMAIN rest : was(i) = was(j) => i = j
    BY <1>3, <2>1
  <2>4. ASSUME NEW i \in DOMAIN s \ {place} PROVE \E j \in DOMAIN rest : was(j) = i
    <3>1. CASE i < place
      BY <1>3, <2>1, <3>1
    <3>2. CASE ~(i < place)
      <4>1. i - 1 \in DOMAIN rest /\ was(i - 1) = i
        BY <1>3, <2>1, <3>2
      <4>2. QED BY <4>1
    <3>3. QED BY <3>1, <3>2
  <2>5. QED BY <2>2, <2>3, <2>4
<1> HIDE DEF was
<1>9. \A m, x \in D : IsChild(P, m, x) <=> IsChild(old, m, x) /\ ~(m = r /\ x = best)
  <2> TAKE m, x \in D
  <2>1. CASE m # r
    BY <1>6, <2>1 DEF IsChild
  <2>2. CASE m = r
    <3>1. ASSUME NEW j \in DOMAIN rest, rest[j] = x PROVE IsChild(old, r, x) /\ x # best
      <4>1. was(j) \in DOMAIN s /\ was(j) # place /\ s[was(j)] = x
        BY <1>8, <3>1
      <4>2. x # best
        BY <1>1, <4>1 DEF Linked
      <4>3. QED BY <4>1, <4>2 DEF IsChild
    <3>2. ASSUME NEW i \in DOMAIN s, s[i] = x, x # best PROVE IsChild(P, r, x)
      <4>1. PICK j \in DOMAIN rest : was(j) = i
        BY <1>8, <3>2
      <4>2. j \in DOMAIN P[r].children /\ P[r].children[j] = x
        BY <1>7, <1>8, <3>2, <4>1
      <4>3. QED BY <4>2 DEF IsChild
    <3>3. IsChild(P, r, x) => \E j \in DOMAIN rest : rest[j] = x
      BY <1>7 DEF IsChild
    <3>4. IsChild(old, r, x) => \E i \in DOMAIN s : s[i] = x
      BY DEF IsChild
    <3>5. QED BY <2>2, <3>1, <3>2, <3>3, <3>4
  <2>3. QED BY <2>1, <2>2
<1>10. Linked(P)
  <2>1. P \in [D -> Objects(D)]
    <3>1. P = [m \in D |-> P[m]]
      BY DEF P
    <3>2. \A m \in D : P[m] \in Objects(D)
      BY <1>2, <1>6, <1>7
    <3>3. QED BY <3>1, <3>2
  <2>2. ASSUME NEW x \in D, NEW y \in D, NEW i \in DOMAIN P[x].children, NEW j \in DOMAIN P[y].children,
               P[x].children[i] = P[y].children[j]
        PROVE  x = y /\ i = j
    <3> DEFINE k == IF x = r THEN was(i) ELSE i
               l == IF y = r THEN was(j) ELSE j
    <3>1. k \in DOMAIN old[x].children /\ old[x].children[k] = P[x].children[i]
      BY <1>6, <1>7, <1>8
    <3>2. l \in DOMAIN old[y].children /\ old[y].children[l] = P[y].children[j]
      BY <1>6, <1>7, <1>8
    <3> HIDE DEF k, l
    <3>3. x = y /\ k = l
      BY <1>1, <2>2, <3>1, <3>2 DEF Linked
    <3>4. QED BY <1>7, <1>8, <3>3 DEF k, l
  <2>3. QED BY <1>1, <1>6, <2>1, <2>2 DEF Linked
<1>11. [m \in DOMAIN P |-> level[m]] \in LevelsOf(P, K)
  BY <1>6, <1>9, <1>10, LevelsAreKept
<1>12. CutLinks(P, links)
  <2>1. \A m \in D : ~IsChild(P, m, r)
    BY <1>1, <1>9, RootIsNoChild
  <2>2. \A l \in links : l[3] = r
    OBVIOUS
  <2>3. QED BY <1>1, <1>6, <2>1, <2>2 DEF CutLinks
<1>13. /\ gone \subseteq D /\ r \in gone
       /\ \A x \in gone : \A i \in DOMAIN P[x].children : P[x].children[i] \in gone
       /\ \A x \in gone : x = r \/ \E q \in gone : IsChild(P, q, x)
       /\ left.alloc \in PoolsFor(E) /\ left.node = [m \in E |-> P[m]] /\ Linked(left.node)
  <2> DEFINE lvl == [m \in DOMAIN P |-> level[m]]
  <2>1. p0.node = P /\ p0.alloc = t.alloc
    OBVIOUS
  <2> HIDE DEF p0, gone, left, links, lvl
  <2>2. LET go == Below(p0, links)
            le == DeleteNodes(p0, links)
        IN  /\ go \subseteq DOMAIN p0.node
            /\ \A l \in links : l[3] \in go
            /\ \A x \in go : \A i \in DOMAIN p0.node[x].children : p0.node[x].children[i] \in go
            /\ \A x \in go : (\E l \in links : x = l[3]) \/ \E q \in go : IsChild(p0.node, q, x)
            /\ le.alloc \in PoolsFor(DOMAIN p0.node \ go)
            /\ le.node = [m \in DOMAIN p0.node \ go |-> p0.node[m]]
            /\ Linked(le.node)
    <3>1. Linked(p0.node) /\ p0.alloc \in PoolsFor(DOMAIN p0.node) /\ lvl \in LevelsOf(p0.node, K)
          /\ CutLinks(p0.node, links)
      BY <1>1, <1>6, <1>10, <1>11, <1>12, <2>1 DEF lvl
    <3>2. QED BY <3>1, DeleteNodesFrees
  <2>3. \A l \in links : l[3] = r
    BY DEF links
  <2>4. <<None, 1, r>> \in links
    BY DEF links
  <2>5. QED BY <2>1, <2>2, <2>3, <2>4, <1>6 DEF gone, left
<1> HIDE DEF gone, left, links, p0
<1>14. best \notin gone
  <2>1. ASSUME NEW q \in gone, IsChild(P, q, best) PROVE FALSE
    <3>1. q \in D /\ IsChild(old, q, best) /\ q # r
      BY <1>4, <1>9, <1>13, <2>1
    <3>2. QED BY <1>1, <1>4, <3>1 DEF Linked, IsChild
  <2>2. QED BY <1>4, <1>13, <2>1
\* The new root's object, and all others, as they were.
<1>15. /\ new.alloc = left.alloc
       /\ DOMAIN new.node = E
       /\ \A m \in E \ {best} : new.node[m] = old[m]
       /\ new.node[best] = [old[best] EXCEPT !.parent = None]
       /\ new.node = [m \in E |-> new.node[m]]
  <2>1. new = [left EXCEPT !.node[best].parent = None]
    BY <1>5 DEF NextRoot, left, p0, links
  <2>2. left = [alloc |-> left.alloc, node |-> left.node]
    BY DEF left, DeleteNodes
  <2> HIDE DEF new, best
  <2>3. new.alloc = left.alloc /\ new.node = [left.node EXCEPT ![best].parent = None]
    BY <2>1, <2>2
  <2>4. best \in E /\ best # r /\ \A m \in E : m \in D \ {r} /\ left.node[m] = old[m]
    BY <1>4, <1>6, <1>13, <1>14
  <2>5. DOMAIN left.node = E
    BY <1>13
  <2> HIDE DEF E
  <2>6. QED BY <2>3, <2>4, <2>5
<1> DEFINE obj == new.node
<1> HIDE DEF new
<1>16. best \in E /\ E \subseteq D \ {r}
  BY <1>4, <1>13, <1>14
<1>17. ASSUME NEW m \in E
       PROVE  /\ obj[m].value = old[m].value /\ obj[m].own = old[m].own
              /\ obj[m].block = old[m].block /\ obj[m].full = old[m].full
              /\ obj[m].children = old[m].children
              /\ obj[m].parent = IF m = best THEN None ELSE old[m].parent
              /\ obj[m] \in Objects(E)
  <2> DEFINE o == old[m]
  <2>1. o \in Objects(E)
    <3>1. left.node[m] \in Objects(E)
      BY <1>13 DEF Linked
    <3>2. left.node[m] = o
      BY <1>6, <1>13, <1>16
    <3>3. QED BY <3>1, <3>2
  <2>2. obj[m] = IF m = best THEN [o EXCEPT !.parent = None] ELSE o
    BY <1>15
  <2> HIDE DEF o, obj, E, best
  <2>3. obj[m] = [parent |-> IF m = best THEN None ELSE o.parent, children |-> o.children, value |-> o.value,
                  own |-> o.own, block |-> o.block, full |-> o.full]
    BY <2>1, <2>2 DEF Objects
  <2>4. QED BY <2>1, <2>3 DEF Objects, o
<1>18. \A m, x \in E : IsChild(obj, m, x) <=> IsChild(old, m, x)
  BY <1>17 DEF IsChild
<1> HIDE DEF obj
<1>19. Linked(obj)
  <2>1. obj \in [E -> Objects(E)]
    <3>1. obj = [m \in E |-> obj[m]]
      BY <1>15 DEF obj
    <3> HIDE DEF E
    <3>2. QED BY <3>1, <1>17
  <2>2. \A x, y \in E : \A i \in DOMAIN obj[x].children, j \in DOMAIN obj[y].children :
            obj[x].children[i] = obj[y].children[j] => x = y /\ i = j
    BY <1>1, <1>16, <1>17 DEF Linked
  <2>3. DOMAIN obj = E /\ E \subseteq Node
    BY <1>1, <1>15 DEF obj
  <2>4. QED BY <2>1, <2>2, <2>3 DEF Linked
<1>20. DOMAIN obj = E
  BY <1>15 DEF obj
<1>21. Rooted(obj, best)
  <2>1. ASSUME NEW m \in E, NEW x \in E, IsChild(obj, m, x) PROVE obj[x].parent = m
    <3>1. IsChild(old, m, x) /\ m # r
      BY <1>16, <1>18, <2>1
    <3>2. old[x].parent = m /\ old[best].parent = r
      BY <1>1, <1>4, <1>16, <3>1 DEF Rooted
    <3>3. QED BY <1>17, <3>1, <3>2
  <2>2. ASSUME NEW x \in E \ {best} PROVE \E m \in E : IsChild(obj, m, x)
    <3>1. PICK m \in D : IsChild(old, m, x)
      BY <1>1, <1>16 DEF Rooted
    <3>2. IsChild(P, m, x)
      BY <1>9, <1>16, <3>1
    <3>3. m \in E
      BY <1>13, <3>2 DEF IsChild
    <3>4. QED BY <1>18, <3>1, <3>3
  <2>3. obj[best].parent = None
    BY <1>16, <1>17
  <2>4. QED BY <1>16, <1>19, <1>20, <2>1, <2>2, <2>3 DEF Rooted
<1>22. BestLines(obj, best)
  <2> SUFFICES ASSUME NEW m \in E \ {best}
               PROVE  /\ \A x \in E : IsChild(obj, m, x) => obj[x].value <= obj[m].value
                      /\ \/ obj[m].value = obj[m].own
                         \/ \E x \in E : IsChild(obj, m, x) /\ obj[x].value = obj[m].value
    BY <1>20 DEF BestLines
  <2>1. /\ \A x \in D : IsChild(old, m, x) => old[x].value <= old[m].value
        /\ \/ old[m].value = old[m].own
           \/ \E x \in D : IsChild(old, m, x) /\ old[x].value = old[m].value
    BY <1>1, <1>16 DEF BestLines
  <2>2. \A x \in D : IsChild(old, m, x) => x \in E
    <3> SUFFICES ASSUME NEW x \in D, IsChild(old, m, x) PROVE x \in E
      OBVIOUS
    <3>1. IsChild(obj, m, x)
      BY <1>17, IsChild(old, m, x) DEF IsChild
    <3>2. x \in DOMAIN obj
      BY <1>19, <1>20, <3>1, ChildrenAreNodes DEF IsChild
    <3>3. QED BY <1>20, <3>2
  <2>3. QED BY <1>16, <1>17, <1>18, <2>1, <2>2
<1>23. Narrow(obj)
  BY <1>16, <1>17, <1>20 DEF Narrow
<1>24. Descended(old, r, best, obj)
  BY <1>4, <1>16, <1>17, <1>20 DEF Descended
<1>25. new.alloc \in PoolsFor(E)
  BY <1>13, <1>15
<1> QED
  BY <1>20, <1>21, <1>22, <1>23, <1>24, <1>25 DEF GoodTree, obj, new

\* Clear without the pools: the root is left, without children.
Bared(t, r) ==
    DeleteNodes([t EXCEPT !.node[r].children = <<>>], Links(r, Children(t, r)))

LEMMA BaredKeeps ==
    ASSUME NEW t, t = [alloc |-> t.alloc, node |-> t.node], NEW r, GoodTree(t, r),
           NEW K \in Nat, NEW level \in LevelsOf(t.node, K)
    PROVE  LET new == Bared(t, r)
           IN  /\ new.alloc \in PoolsFor({r}) /\ DOMAIN new.node = {r}
               /\ Rooted(new.node, r) /\ BestLines(new.node, r) /\ Narrow(new.node)
               /\ [n \in {r} |-> 0] \in LevelsOf(new.node, 0)
<1> DEFINE old == t.node
           D == DOMAIN old
           s == old[r].children
           P == [old EXCEPT ![r].children = <<>>]
           p0 == [alloc |-> t.alloc, node |-> P]
           links == Links(r, s)
           gone == Below(p0, links)
           left == DeleteNodes(p0, links)
<1>1. /\ Rooted(old, r) /\ t.alloc \in PoolsFor(D) /\ Linked(old) /\ D \subseteq Node
      /\ r \in D /\ old[r].parent = None
  BY DEF GoodTree, Rooted, Linked
<1>2. \A m \in D : /\ old[m] \in Objects(D) /\ old[m].children \in Seq(D)
                   /\ \A i \in DOMAIN old[m].children : old[m].children[i] \in D
  BY <1>1, ChildrenAreNodes
<1>3. p0 = [t EXCEPT !.node[r].children = <<>>]
  OBVIOUS
<1>4. DOMAIN P = D /\ \A m \in D \ {r} : P[m] = old[m]
  OBVIOUS
<1>5. P[r].children = <<>> /\ P[r].parent = None /\ P[r] \in Objects(D) /\ P[r] \in Objects({r})
  <2>1. old[r] \in [parent : Node \cup {None}, children : Seq(D), value : Nat, own : Nat,
                    block : 0..Numbers - 1, full : BOOLEAN]
    BY <1>1, <1>2 DEF Objects
  <2>2. P[r] = [old[r] EXCEPT !.children = <<>>]
    BY <1>1
  <2> HIDE DEF P, D
  <2>3. P[r] = [parent |-> None, children |-> <<>>, value |-> old[r].value, own |-> old[r].own,
                block |-> old[r].block, full |-> old[r].full]
    BY <1>1, <2>1, <2>2
  <2>4. <<>> \in Seq(D) /\ <<>> \in Seq({r})
    OBVIOUS
  <2>5. QED BY <2>1, <2>3, <2>4 DEF Objects
<1> HIDE DEF P
<1>6. \A m, x \in D : IsChild(P, m, x) <=> m # r /\ IsChild(old, m, x)
  BY <1>4, <1>5 DEF IsChild
<1>7. Linked(P)
  <2>1. P \in [D -> Objects(D)]
    <3>1. P = [m \in D |-> P[m]]
      BY DEF P
    <3>2. \A m \in D : P[m] \in Objects(D)
      BY <1>2, <1>4, <1>5
    <3>3. QED BY <3>1, <3>2
  <2>2. \A x, y \in D : \A i \in DOMAIN P[x].children, j \in DOMAIN P[y].children :
            P[x].children[i] = P[y].children[j] => x = y /\ i = j
    <3>1. DOMAIN P[r].children = {}
      BY <1>5
    <3>2. QED BY <1>1, <1>4, <3>1 DEF Linked
  <2>3. QED BY <1>1, <1>4, <2>1, <2>2 DEF Linked
<1>8. [m \in DOMAIN P |-> level[m]] \in LevelsOf(P, K)
  BY <1>4, <1>6, <1>7, LevelsAreKept
<1>9. \A l \in links : \E i \in DOMAIN s : l = <<r, i, s[i]>>
  BY DEF Links
<1>10. \A i \in DOMAIN s : <<r, i, s[i]>> \in links
  BY DEF Links
<1> HIDE DEF links
<1>11. CutLinks(P, links)
  <2>1. ASSUME NEW l \in links PROVE l[3] \in D /\ \A m \in D : ~IsChild(P, m, l[3])
    <3>1. PICK i \in DOMAIN s : l = <<r, i, s[i]>>
      BY <1>9
    <3>2. l[3] = s[i] /\ s[i] \in D
      BY <1>1, <1>2, <3>1
    <3>3. ASSUME NEW m \in D, m # r, IsChild(old, m, s[i]) PROVE FALSE
      BY <1>1, <3>3 DEF Linked, IsChild
    <3>4. QED BY <1>6, <3>2, <3>3
  <2>2. ASSUME NEW k \in links, NEW l \in links, k[3] = l[3] PROVE k = l
    <3>1. PICK i \in DOMAIN s : k = <<r, i, s[i]>>
      BY <1>9
    <3>2. PICK j \in DOMAIN s : l = <<r, j, s[j]>>
      BY <1>9
    <3>3. s[i] = s[j]
      BY <2>2, <3>1, <3>2
    <3>4. i = j
      BY <1>1, <3>3 DEF Linked
    <3>5. QED BY <3>1, <3>2, <3>4
  <2>3. QED BY <1>4, <2>1, <2>2 DEF CutLinks
<1>12. /\ gone \subseteq D /\ \A l \in links : l[3] \in gone
       /\ \A x \in gone : \A i \in DOMAIN P[x].children : P[x].children[i] \in gone
       /\ \A x \in gone : (\E l \in links : x = l[3]) \/ \E q \in gone : IsChild(P, q, x)
       /\ left.alloc \in PoolsFor(D \ gone) /\ left.node = [m \in D \ gone |-> P[m]]
  <2> DEFINE lvl == [m \in DOMAIN P |-> level[m]]
  <2>1. p0.node = P /\ p0.alloc = t.alloc
    OBVIOUS
  <2> HIDE DEF p0, gone, left, lvl
  <2>2. LET go == Below(p0, links)
            le == DeleteNodes(p0, links)
        IN  /\ go \subseteq DOMAIN p0.node
            /\ \A l \in links : l[3] \in go
            /\ \A x \in go : \A i \in DOMAIN p0.node[x].children : p0.node[x].children[i] \in go
            /\ \A x \in go : (\E l \in links : x = l[3]) \/ \E q \in go : IsChild(p0.node, q, x)
            /\ le.alloc \in PoolsFor(DOMAIN p0.node \ go)
            /\ le.node = [m \in DOMAIN p0.node \ go |-> p0.node[m]]
            /\ Linked(le.node)
    <3>1. Linked(p0.node) /\ p0.alloc \in PoolsFor(DOMAIN p0.node) /\ lvl \in LevelsOf(p0.node, K)
          /\ CutLinks(p0.node, links)
      BY <1>1, <1>4, <1>7, <1>8, <1>11, <2>1 DEF lvl
    <3>2. QED BY <3>1, DeleteNodesFrees
  <2>3. QED BY <2>1, <2>2, <1>4 DEF gone, left
<1>13. left = Bared(t, r)
  BY <1>3 DEF Bared, Children, links
<1> HIDE DEF gone, left, p0
<1>14. r \notin gone
  <2>1. \A m \in D : ~IsChild(old, m, r)
    BY <1>1, RootIsNoChild
  <2>2. \A l \in links : l[3] # r
    <3> SUFFICES ASSUME NEW l \in links, l[3] = r PROVE FALSE
      OBVIOUS
    <3>1. PICK i \in DOMAIN s : l = <<r, i, s[i]>>
      BY <1>9
    <3>2. s[i] = r
      BY <3>1
    <3>3. QED BY <1>1, <2>1, <3>2 DEF IsChild
  <2>3. \A q \in gone : ~IsChild(P, q, r)
    BY <1>1, <1>6, <1>12, <2>1
  <2>4. QED BY <1>12, <2>2, <2>3
<1> DEFINE T == gone \cup {r}
<1>15. ASSUME NEW m \in D, \A q \in D : IsChild(old, q, m) => q \in T PROVE m \in T
  <2> SUFFICES ASSUME m # r PROVE m \in gone
    OBVIOUS
  <2>1. PICK q \in D : IsChild(old, q, m)
    BY <1>1 DEF Rooted
  <2>2. CASE q = r
    <3>1. PICK i \in DOMAIN s : s[i] = m
      BY <2>1, <2>2 DEF IsChild
    <3>2. <<r, i, m>> \in links /\ <<r, i, m>>[3] = m
      BY <1>10, <3>1
    <3>3. QED BY <1>12, <3>2
  <2>3. CASE q # r
    <3>1. q \in gone /\ IsChild(P, q, m)
      BY <1>6, <1>15, <2>1, <2>3
    <3>2. QED BY <1>12, <3>1 DEF IsChild
  <2>4. QED BY <2>2, <2>3
<1>16. D \subseteq T
  <2> HIDE DEF T
  <2>1. QED BY <1>1, <1>15, TopDown
<1>17. D \ gone = {r}
  BY <1>1, <1>14, <1>16
<1>18. left.alloc \in PoolsFor({r}) /\ left.node = [m \in {r} |-> P[m]]
  BY <1>12, <1>17
<1> DEFINE new == left.node
<1>19. DOMAIN new = {r} /\ new[r] = P[r] /\ new = [m \in {r} |-> new[m]]
  BY <1>18
<1> HIDE DEF new
<1>20. /\ Rooted(new, r) /\ BestLines(new, r) /\ Narrow(new)
       /\ [n \in {r} |-> 0] \in LevelsOf(new, 0)
  <2>1. r \in Node /\ new[r] \in Objects({r}) /\ new[r].children = <<>> /\ new[r].parent = None
    BY <1>1, <1>5, <1>19
  <2>2. QED BY <1>19, <2>1, BareRoot
<1> QED
  BY <1>13, <1>18, <1>19, <1>20 DEF new

\* SetOjamaPieces changes nothing but whether the root has room.
LEMMA FullKeeps ==
    ASSUME NEW t, NEW r, GoodTree(t, r), Narrow(t.node), NEW K \in Nat, NEW level \in LevelsOf(t.node, K),
           NEW full \in BOOLEAN, NEW new, new.alloc = t.alloc, new.node = [t.node EXCEPT ![r].full = full]
    PROVE  /\ GoodTree(new, r) /\ Narrow(new.node) /\ level \in LevelsOf(new.node, K)
           /\ DOMAIN new.node = DOMAIN t.node
           /\ \A m \in DOMAIN t.node : /\ new.node[m].block = t.node[m].block
                                       /\ new.node[m].children = t.node[m].children
                                       /\ m # r => new.node[m].full = t.node[m].full
<1> DEFINE old == t.node
           D == DOMAIN old
           obj == [old EXCEPT ![r].full = full]
<1>1. Rooted(old, r) /\ BestLines(old, r) /\ t.alloc \in PoolsFor(D) /\ Linked(old) /\ r \in D
  BY DEF GoodTree, Rooted
<1>2. new.node = obj /\ new.alloc = t.alloc
  OBVIOUS
<1>3. DOMAIN obj = D
  OBVIOUS
<1>4. ASSUME NEW m \in D
      PROVE  /\ obj[m].parent = old[m].parent /\ obj[m].value = old[m].value /\ obj[m].own = old[m].own
             /\ obj[m].block = old[m].block /\ obj[m].children = old[m].children
             /\ (m # r => obj[m].full = old[m].full) /\ obj[m] \in Objects(D)
  <2> DEFINE o == old[m]
  <2>1. o \in Objects(D)
    BY <1>1, ChildrenAreNodes
  <2>2. obj[m] = IF m = r THEN [o EXCEPT !.full = full] ELSE o
    OBVIOUS
  <2> HIDE DEF o, obj, D
  <2>3. obj[m] = [parent |-> o.parent, children |-> o.children, value |-> o.value, own |-> o.own,
                  block |-> o.block, full |-> IF m = r THEN full ELSE o.full]
    BY <2>1, <2>2 DEF Objects
  <2>4. QED BY <2>1, <2>3 DEF Objects, o
<1>5. obj = [m \in D |-> obj[m]]
  OBVIOUS
<1> HIDE DEF obj
<1>6. \A m, x : m \in D => (IsChild(obj, m, x) <=> IsChild(old, m, x))
  BY <1>4 DEF IsChild
<1>7. Linked(obj)
  <2>1. obj \in [D -> Objects(D)]
    BY <1>4, <1>5
  <2>2. \A x, y \in D : \A i \in DOMAIN obj[x].children, j \in DOMAIN obj[y].children :
            obj[x].children[i] = obj[y].children[j] => x = y /\ i = j
    BY <1>1, <1>4 DEF Linked
  <2>3. QED BY <1>1, <1>3, <2>1, <2>2 DEF Linked
<1>8. Rooted(obj, r)
  <2>1. obj[r].parent = None
    BY <1>1, <1>4 DEF Rooted
  <2>2. \A p, x \in D : IsChild(obj, p, x) => obj[x].parent = p
    BY <1>1, <1>4, <1>6 DEF Rooted
  <2>3. \A x \in D \ {r} : \E p \in D : IsChild(obj, p, x)
    BY <1>1, <1>6 DEF Rooted
  <2>4. QED BY <1>1, <1>3, <1>7, <2>1, <2>2, <2>3 DEF Rooted
<1>9. BestLines(obj, r)
  <2> SUFFICES ASSUME NEW m \in D \ {r}
               PROVE  /\ \A x \in D : IsChild(obj, m, x) => obj[x].value <= obj[m].value
                      /\ \/ obj[m].value = obj[m].own
                         \/ \E x \in D : IsChild(obj, m, x) /\ obj[x].value = obj[m].value
    BY <1>3 DEF BestLines
  <2>1. /\ \A x \in D : IsChild(old, m, x) => old[x].value <= old[m].value
        /\ \/ old[m].value = old[m].own
           \/ \E x \in D : IsChild(old, m, x) /\ old[x].value = old[m].value
    BY <1>1 DEF BestLines
  <2>2. QED BY <1>4, <1>6, <2>1
<1>10. Narrow(obj)
  BY <1>3, <1>4 DEF Narrow
<1>11. level \in LevelsOf(obj, K)
  <2>1. level \in [D -> 0..K] /\ \A m \in D : \A i \in DOMAIN old[m].children :
                                    level[old[m].children[i]] = level[m] + 1
    BY DEF LevelsOf
  <2>2. QED BY <1>3, <1>4, <2>1 DEF LevelsOf
<1> QED
  BY <1>1, <1>2, <1>3, <1>4, <1>8, <1>9, <1>10, <1>11 DEF GoodTree

\* What CalcNextStep does for a leaf n: those of its placements that are left after pruning are
\* new leaves under it, and the other nodes have the children they had, perhaps in another order.
Extended(old, n, b, new) ==
    /\ DOMAIN old \subseteq DOMAIN new
    /\ \A m \in DOMAIN old :
          new[m].own = old[m].own /\ new[m].block = old[m].block /\ new[m].full = old[m].full
    /\ \A m \in DOMAIN old \ {n} : new[m].children = <<>> <=> old[m].children = <<>>
    /\ \A x \in DOMAIN new \ DOMAIN old : new[x].children = <<>> /\ new[x].block = b /\ IsChild(new, n, x)
    /\ \A p, x \in DOMAIN old : IsChild(new, p, x) <=> IsChild(old, p, x)

LEMMA CalculatedKeeps ==
    ASSUME NEW t, t = [alloc |-> t.alloc, node |-> t.node], NEW r, GoodTree(t, r), Narrow(t.node),
           NEW K \in Nat, NEW level \in LevelsOf(t.node, K),
           NEW n \in DOMAIN t.node, t.node[n].children = <<>>, NEW b \in 0..Numbers - 1,
           NEW ps \in Seq([value : Nat, full : BOOLEAN])
    PROVE  LET new == ShiftCandidate(Grown(t, n, b, ps), r)
           IN  /\ GoodTree(new, r) /\ Narrow(new.node)
               /\ Extended(t.node, n, b, new.node)
               /\ ps # <<>> => new.node[n].children # <<>>
               /\ ps = <<>> => DOMAIN new.node = DOMAIN t.node
               /\ GrownLevels(t.node, level, n, new.node) \in LevelsOf(new.node, K + 1)
<1> DEFINE g == Grown(t, n, b, ps)
           new == ShiftCandidate(g, r)
           old == t.node
<1>1. GoodTree(g, r) /\ Grows(old, n, b, g.node) /\ (ps # <<>> => g.node[n].children # <<>>)
      /\ (ps = <<>> => g = t)
  BY GrownKeeps
<1> HIDE DEF g
<1>2. Rooted(g.node, r) /\ Linked(old) /\ K + 1 \in Nat
  BY <1>1 DEF GoodTree, Rooted
<1>3. PICK lvl : lvl = GrownLevels(old, level, n, g.node)
  OBVIOUS
<1>4. lvl \in LevelsOf(g.node, K + 1)
  BY <1>1, <1>2, <1>3, GrowsByALevel
<1>5. /\ DOMAIN old \subseteq DOMAIN g.node
      /\ \A m \in DOMAIN old : /\ g.node[m].own = old[m].own
                               /\ g.node[m].block = old[m].block /\ g.node[m].full = old[m].full
                               /\ m # n => g.node[m].children = old[m].children
      /\ \A x \in DOMAIN g.node \ DOMAIN old :
            g.node[x].children = <<>> /\ g.node[x].block = b /\ g.node[x].parent = n
      /\ \A p, x \in DOMAIN old : IsChild(g.node, p, x) <=> IsChild(old, p, x)
  BY <1>1 DEF Grows
<1>6. \A x \in DOMAIN g.node : IsChild(g.node, n, x) => x \notin DOMAIN old
  BY <1>5 DEF IsChild
<1>7. \A m \in DOMAIN g.node \ {n} : Len(g.node[m].children) <= 2
  <2>1. \A m \in DOMAIN old : Len(old[m].children) <= 2
    BY DEF Narrow
  <2>2. Len(<<>>) <= 2
    OBVIOUS
  <2>3. QED BY <1>5, <2>1, <2>2
<1>8. \A x \in DOMAIN g.node : IsChild(g.node, n, x) => g.node[x].children = <<>>
  BY <1>5, <1>6
<1>9. /\ Pruned(g.node, new.node)
      /\ \A x \in DOMAIN g.node \ DOMAIN new.node : IsChild(g.node, n, x)
      /\ Rooted(new.node, r) /\ BestLines(new.node, r) /\ Narrow(new.node)
      /\ new.alloc \in PoolsFor(DOMAIN new.node)
  <2>1. n \in DOMAIN g.node /\ BestLines(g.node, r) /\ g.alloc \in PoolsFor(DOMAIN g.node)
    BY <1>1, <1>5 DEF GoodTree
  <2>2. QED BY <1>2, <1>4, <1>7, <1>8, <2>1, ShiftKeeps
<1> DEFINE obj == new.node
<1> HIDE DEF new
<1>10. GoodTree(new, r) /\ Narrow(obj)
  BY <1>9 DEF GoodTree
<1> HIDE DEF obj
<1>11. /\ DOMAIN obj \subseteq DOMAIN g.node
       /\ \A m \in DOMAIN obj : /\ obj[m].own = g.node[m].own
                                /\ obj[m].block = g.node[m].block /\ obj[m].full = g.node[m].full
                                /\ obj[m].children = <<>> <=> g.node[m].children = <<>>
       /\ \A p, x \in DOMAIN obj : IsChild(obj, p, x) <=> IsChild(g.node, p, x)
  BY <1>9 DEF Pruned, obj
<1>12. DOMAIN old \subseteq DOMAIN obj
  BY <1>5, <1>6, <1>9 DEF obj
<1>13. Extended(old, n, b, obj)
  <2>1. ASSUME NEW x \in DOMAIN obj \ DOMAIN old PROVE IsChild(obj, n, x)
    <3>1. g.node[x].parent = n /\ x # r /\ n \in DOMAIN obj
      BY <1>5, <1>11, <1>12, RootIsNoChild DEF GoodTree, Rooted
    <3>2. PICK p \in DOMAIN g.node : IsChild(g.node, p, x)
      BY <1>2, <1>11, <3>1 DEF Rooted
    <3>3. p = n
      BY <1>2, <1>11, <3>1, <3>2 DEF Rooted
    <3>4. QED BY <1>11, <3>1, <3>2, <3>3
  <2>2. \A m \in DOMAIN old : /\ obj[m].own = old[m].own
                              /\ obj[m].block = old[m].block /\ obj[m].full = old[m].full
    BY <1>5, <1>11, <1>12
  <2>3. \A m \in DOMAIN old \ {n} : obj[m].children = <<>> <=> old[m].children = <<>>
    BY <1>5, <1>11, <1>12
  <2>4. \A x \in DOMAIN obj \ DOMAIN old : obj[x].children = <<>> /\ obj[x].block = b
    BY <1>5, <1>11
  <2>5. \A p, x \in DOMAIN old : IsChild(obj, p, x) <=> IsChild(old, p, x)
    BY <1>5, <1>11, <1>12
  <2>6. QED BY <1>12, <2>1, <2>2, <2>3, <2>4, <2>5 DEF Extended
<1>14. ps # <<>> => obj[n].children # <<>>
  BY <1>1, <1>11, <1>12
<1>16. ps = <<>> => DOMAIN obj = DOMAIN old
  BY <1>1, <1>11, <1>12
<1>15. GrownLevels(old, level, n, obj) \in LevelsOf(obj, K + 1)
  <2>1. [m \in DOMAIN obj |-> lvl[m]] \in LevelsOf(obj, K + 1)
    <3>1. Linked(obj)
      BY <1>9 DEF Rooted, obj
    <3>2. QED BY <1>2, <1>4, <1>11, <3>1, LevelsAreKept
  <2>2. [m \in DOMAIN obj |-> lvl[m]] = GrownLevels(old, level, n, obj)
    BY <1>3, <1>11 DEF GrownLevels
  <2>3. QED BY <2>1, <2>2
<1> QED
  BY <1>10, <1>13, <1>14, <1>15, <1>16 DEF obj, new, g

----------------------------------------------------------------------------
(* The tree of every state: the first invariant.                                   *)

Call == [op : {"setMapSize", "setNextRoot", "setOjamaPieces", "clear"}]
        \cup [op : {"addNextBlock"}, block : 0..Numbers - 1]

\* The calls a core without a root can take.
NeedsNoRoot(c) == c.op \in {"setMapSize", "addNextBlock"}

TreeInv ==
    /\ m_Alloc \in PoolsFor(DOMAIN node)
    /\ m_Root = None => /\ node = <<>> /\ m_Alloc = <<>> /\ stack = <<>>
                        /\ \A i \in DOMAIN calls : NeedsNoRoot(calls[i])
    /\ m_Root # None => /\ Rooted(node, m_Root) /\ BestLines(node, m_Root) /\ Narrow(node)
                        /\ \E K \in Nat : LevelsOf(node, K) # {}
    /\ stack \in Seq(DOMAIN node)
    /\ adding \in 0..Numbers - 1 /\ current \in 0..Numbers - 1
    /\ calls \in Seq(Call)

\* What TreeInv says when there is a tree.
LEMMA TreeIsGood ==
    ASSUME TreeInv, m_Root # None
    PROVE  /\ GoodTree(Now, m_Root) /\ Narrow(node) /\ m_Root \in DOMAIN node /\ Linked(node)
           /\ \E K \in Nat : LevelsOf(node, K) # {}
           /\ Now = [alloc |-> Now.alloc, node |-> Now.node] /\ Now.alloc = m_Alloc /\ Now.node = node
<1>1. Now = [alloc |-> m_Alloc, node |-> node]
  BY DEF Now
<1>2. Now.alloc = m_Alloc /\ Now.node = node
  BY <1>1
<1>3. Now = [alloc |-> Now.alloc, node |-> Now.node]
  BY <1>1, <1>2
<1>4. /\ m_Alloc \in PoolsFor(DOMAIN node)
      /\ Rooted(node, m_Root) /\ BestLines(node, m_Root) /\ Narrow(node)
      /\ \E K \in Nat : LevelsOf(node, K) # {}
  BY DEF TreeInv
<1>5. m_Root \in DOMAIN node /\ Linked(node)
  BY <1>4 DEF Rooted
<1>6. GoodTree(Now, m_Root)
  BY <1>2, <1>4 DEF GoodTree
<1> QED
  BY <1>2, <1>3, <1>4, <1>5, <1>6

LEMMA NumbersAreMany == Numbers \in Nat /\ Numbers >= 3 /\ Depth \in Nat /\ Depth >= 2 /\ Numbers = Depth + 1
  BY SearchAssumption DEF Numbers

LEMMA RestOfCalls ==
    ASSUME NEW S, NEW s \in Seq(S), s # <<>>
    PROVE  /\ Tail(s) \in Seq(S) /\ Head(s) = s[1] /\ 1 \in DOMAIN s /\ s[1] \in S
           /\ \A i \in DOMAIN Tail(s) : i + 1 \in DOMAIN s /\ Tail(s)[i] = s[i + 1]
<1>1. Len(s) \in Nat \ {0} /\ DOMAIN s = 1..Len(s)
  OBVIOUS
<1>2. Tail(s) \in Seq(S) /\ Head(s) = s[1] /\ 1 \in DOMAIN s /\ s[1] \in S
  BY <1>1
<1>3. \A i \in DOMAIN Tail(s) : i + 1 \in DOMAIN s /\ Tail(s)[i] = s[i + 1]
  BY <1>1
<1> QED
  BY <1>2, <1>3

LEMMA FrontAndLast ==
    ASSUME NEW S, NEW s \in Seq(S), s # <<>>
    PROVE  /\ Last(s) \in S /\ Front(s) \in Seq(S)
           /\ Len(s) \in DOMAIN s /\ Last(s) = s[Len(s)]
           /\ DOMAIN Front(s) = DOMAIN s \ {Len(s)}
           /\ \A i \in DOMAIN Front(s) : Front(s)[i] = s[i]
<1>1. Len(s) \in Nat \ {0} /\ DOMAIN s = 1..Len(s)
  OBVIOUS
<1>2. Front(s) = SubSeq(s, 1, Len(s) - 1)
  BY DEF Front
<1>3. Front(s) \in Seq(S) /\ Len(Front(s)) = Len(s) - 1 /\ \A i \in 1..Len(s) - 1 : Front(s)[i] = s[i]
  BY <1>1, <1>2
<1>4. DOMAIN Front(s) = 1..Len(s) - 1
  <2> DEFINE f == Front(s)
  <2>1. f \in Seq(S) /\ Len(f) = Len(s) - 1
    BY <1>3
  <2> HIDE DEF f
  <2>2. DOMAIN f = 1..Len(s) - 1
    BY <2>1
  <2>3. QED BY <2>2 DEF f
<1>5. 1..Len(s) - 1 = DOMAIN s \ {Len(s)}
  BY <1>1
<1>6. s[Len(s)] \in S /\ Len(s) \in DOMAIN s /\ Last(s) = s[Len(s)]
  BY <1>1 DEF Last
<1> QED
  BY <1>3, <1>4, <1>5, <1>6

\* A call that returns leaves the other calls.
LEMMA ReturnKeepsCalls ==
    ASSUME TreeInv, calls # <<>>, Return
    PROVE  /\ calls' \in Seq(Call)
           /\ (\A i \in DOMAIN calls : NeedsNoRoot(calls[i])) => \A i \in DOMAIN calls' : NeedsNoRoot(calls'[i])
           /\ Head(calls) = calls[1] /\ 1 \in DOMAIN calls /\ calls[1] \in Call
           /\ \A i \in DOMAIN calls' : i + 1 \in DOMAIN calls /\ calls'[i] = calls[i + 1]
<1>1. calls \in Seq(Call) /\ calls' = Tail(calls)
  BY DEF TreeInv, Return
<1>2. /\ Tail(calls) \in Seq(Call) /\ Head(calls) = calls[1] /\ 1 \in DOMAIN calls /\ calls[1] \in Call
      /\ \A i \in DOMAIN Tail(calls) : i + 1 \in DOMAIN calls /\ Tail(calls)[i] = calls[i + 1]
  BY <1>1, RestOfCalls
<1> QED
  BY <1>1, <1>2

LEMMA NoPools == <<>> \in PoolsFor({})
<1>1. <<>> \in Seq(Pool) /\ DOMAIN <<>> = {}
  OBVIOUS
<1> QED
  BY <1>1 DEF PoolsFor, Partitioned

LEMMA InitTree == Init => TreeInv
<1> SUFFICES ASSUME Init PROVE TreeInv
  OBVIOUS
<1>1. /\ m_Alloc = <<>> /\ m_Root = None /\ node = <<>> /\ stack = <<>>
      /\ adding = 0 /\ calls = <<>> /\ current = 0
  BY DEF Init
<1>2. DOMAIN node = {} /\ DOMAIN calls = {} /\ stack \in Seq(DOMAIN node) /\ calls \in Seq(Call)
  BY <1>1
<1>3. 0 \in 0..Numbers - 1
  BY NumbersAreMany
<1> QED
  BY <1>1, <1>2, <1>3, NoPools DEF TreeInv

LEMMA SetMapSizeKeeps ==
    ASSUME TreeInv, SetMapSize
    PROVE  /\ TreeInv' /\ m_Root' # None /\ DOMAIN node' = {m_Root'} /\ node'[m_Root'] = Blank
           /\ [n \in {m_Root'} |-> 0] \in LevelsOf(node', 0)
<1> DEFINE c == AllocatedNode(<<>>)
<1>1. /\ calls # <<>> /\ stack = <<>> /\ Return
      /\ m_Alloc' = AllocNode(<<>>) /\ m_Root' = c /\ node' = [n \in {c} |-> Blank]
      /\ stack' = stack /\ adding' = adding /\ current' = current
  BY DEF SetMapSize, Calls
<1>2. c \in Node /\ AllocNode(<<>>) \in PoolsFor({c})
  <2>1. {} \in SUBSET Node /\ {} \cup {c} = {c}
    OBVIOUS
  <2> HIDE DEF c
  <2>2. AllocatedNode(<<>>) \in Node \ {} /\ AllocNode(<<>>) \in PoolsFor({} \cup {AllocatedNode(<<>>)})
    BY <2>1, NoPools, AllocNodeIsFresh
  <2>3. QED BY <2>1, <2>2 DEF c
<1> HIDE DEF c
<1>3. c # None
  BY <1>2 DEF Node, None
<1>4. DOMAIN node' = {c} /\ node'[c] = Blank /\ node' = [n \in {c} |-> node'[n]]
  BY <1>1
<1>5. Blank \in Objects({c}) /\ Blank.children = <<>> /\ Blank.parent = None
  <2>1. <<>> \in Seq({c}) /\ 0 \in 0..Numbers - 1
    BY NumbersAreMany
  <2>2. QED BY <2>1 DEF Blank, Objects
<1>6. /\ Rooted(node', c) /\ BestLines(node', c) /\ Narrow(node')
      /\ [n \in {c} |-> 0] \in LevelsOf(node', 0)
  <2>1. PICK nodes : nodes = node'
    OBVIOUS
  <2>2. /\ Rooted(nodes, c) /\ BestLines(nodes, c) /\ Narrow(nodes)
        /\ [n \in {c} |-> 0] \in LevelsOf(nodes, 0)
    BY <1>2, <1>4, <1>5, <2>1, BareRoot
  <2>3. QED BY <2>1, <2>2
<1>7. stack' \in Seq(DOMAIN node')
  BY <1>1
<1>8. calls' \in Seq(Call)
  BY <1>1, ReturnKeepsCalls
<1>9. \E K \in Nat : LevelsOf(node', K) # {}
  BY <1>6
<1>10. TreeInv'
  BY <1>1, <1>2, <1>3, <1>4, <1>6, <1>7, <1>8, <1>9 DEF TreeInv
<1> QED
  BY <1>1, <1>3, <1>4, <1>6, <1>10

LEMMA AddNextBlockKeeps ==
    ASSUME TreeInv, AddNextBlock
    PROVE  TreeInv'
<1>1. /\ calls # <<>> /\ stack = <<>> /\ Return /\ Head(calls).op = "addNextBlock"
      /\ adding' = Head(calls).block
      /\ stack' = IF m_Root = None THEN <<>> ELSE <<m_Root>>
      /\ m_Alloc' = m_Alloc /\ m_Root' = m_Root /\ node' = node /\ current' = current
  BY DEF AddNextBlock, Calls, core
<1>2. /\ calls' \in Seq(Call) /\ Head(calls) = calls[1] /\ calls[1] \in Call
      /\ (\A i \in DOMAIN calls : NeedsNoRoot(calls[i])) => \A i \in DOMAIN calls' : NeedsNoRoot(calls'[i])
  BY <1>1, ReturnKeepsCalls
<1>3. adding' \in 0..Numbers - 1
  BY <1>1, <1>2 DEF Call
<1>4. stack' \in Seq(DOMAIN node')
  <2>1. CASE m_Root = None
    BY <1>1, <2>1
  <2>2. CASE m_Root # None
    BY <1>1, <2>2, TreeIsGood
  <2>3. QED BY <2>1, <2>2
<1>5. m_Root = None => stack' = <<>>
  BY <1>1
<1>6. DOMAIN node' = DOMAIN node
  BY <1>1
<1> QED
  BY <1>1, <1>2, <1>3, <1>4, <1>5, <1>6 DEF TreeInv

LEMMA StackHasRoot ==
    ASSUME TreeInv, stack # <<>>
    PROVE  /\ m_Root # None /\ Last(stack) \in DOMAIN node /\ Front(stack) \in Seq(DOMAIN node)
           /\ GoodTree(Now, m_Root) /\ Narrow(node) /\ Linked(node)
<1>1. m_Root # None /\ stack \in Seq(DOMAIN node)
  BY DEF TreeInv
<1>2. Last(stack) \in DOMAIN node /\ Front(stack) \in Seq(DOMAIN node)
  BY <1>1, FrontAndLast
<1> QED
  BY <1>1, <1>2, TreeIsGood

LEMMA DescendKeeps ==
    ASSUME TreeInv, Descend
    PROVE  TreeInv'
<1> DEFINE n == Last(stack)
           s == node[n].children
           f == Front(stack)
<1>1. /\ stack # <<>> /\ stack' = f \o s
      /\ m_Alloc' = m_Alloc /\ m_Root' = m_Root /\ node' = node
      /\ adding' = adding /\ calls' = calls /\ current' = current
  BY DEF Descend, core, Children, Now
<1>2. m_Root # None /\ n \in DOMAIN node /\ f \in Seq(DOMAIN node) /\ Linked(node)
  BY <1>1, StackHasRoot
<1>3. s \in Seq(DOMAIN node)
  <2> HIDE DEF n
  <2>1. QED BY <1>2, ChildrenAreNodes
<1>4. f \o s \in Seq(DOMAIN node)
  <2> HIDE DEF f, s
  <2>1. QED BY <1>2, <1>3
<1>5. stack' \in Seq(DOMAIN node') /\ m_Root' # None
  BY <1>1, <1>2, <1>4
<1> HIDE DEF f, s, n
<1> QED
  BY <1>1, <1>5 DEF TreeInv

\* What CalcNextStep does, and that it keeps the levels of the nodes there were.
Calculated(old, n, b, new) ==
    /\ Extended(old, n, b, new)
    /\ IF old[n].full THEN DOMAIN new = DOMAIN old ELSE new[n].children # <<>>
    /\ \A K \in Nat : \A level \in LevelsOf(old, K) : GrownLevels(old, level, n, new) \in LevelsOf(new, K + 1)

LEMMA CalcNextStepKeeps ==
    ASSUME TreeInv, CalcNextStep
    PROVE  TreeInv' /\ Calculated(node, Last(stack), adding, node')
<1> DEFINE n == Last(stack)
<1>1. /\ stack # <<>> /\ node[n].children = <<>> /\ stack' = Front(stack)
      /\ m_Root' = m_Root /\ adding' = adding /\ calls' = calls /\ current' = current
  BY DEF CalcNextStep, Children, Now
<1>2. PICK ps \in IF node[n].full THEN {<<>>} ELSE Outcomes :
         LET new == ShiftCandidate(Grown(Now, n, adding, ps), m_Root)
         IN  m_Alloc' = new.alloc /\ node' = new.node
  BY DEF CalcNextStep, Becomes
<1>3. ps \in Seq([value : Nat, full : BOOLEAN]) /\ (IF node[n].full THEN ps = <<>> ELSE ps # <<>>)
  <2> DEFINE P == [value : Nat, full : BOOLEAN]
             noRoom == node[n].full
  <2>1. Outcomes \subseteq Seq(P) \ {<<>>}
    BY SearchAssumption
  <2>2. ps \in IF noRoom THEN {<<>>} ELSE Outcomes
    BY <1>2
  <2>3. <<>> \in Seq(P)
    OBVIOUS
  <2> HIDE DEF P, noRoom
  <2>4. ps \in Seq(P) /\ (IF noRoom THEN ps = <<>> ELSE ps # <<>>)
    BY <2>1, <2>2, <2>3
  <2>5. QED BY <2>4 DEF P, noRoom
<1>4. /\ m_Root # None /\ n \in DOMAIN node /\ Front(stack) \in Seq(DOMAIN node)
      /\ GoodTree(Now, m_Root) /\ Narrow(node) /\ Linked(node)
  BY <1>1, StackHasRoot
<1>5. Now = [alloc |-> Now.alloc, node |-> Now.node] /\ Now.node = node /\ \E K \in Nat : LevelsOf(node, K) # {}
  BY <1>4, TreeIsGood
<1>6. adding \in 0..Numbers - 1
  BY DEF TreeInv
<1>7. PICK t : t = Now
  OBVIOUS
<1>8. PICK m : m = n
  OBVIOUS
<1>9. PICK r : r = m_Root
  OBVIOUS
<1>10. PICK b : b = adding
  OBVIOUS
<1> DEFINE new == ShiftCandidate(Grown(t, m, b, ps), r)
<1>11. m_Alloc' = new.alloc /\ node' = new.node
  BY <1>2, <1>7, <1>8, <1>9, <1>10
<1>12. /\ t = [alloc |-> t.alloc, node |-> t.node] /\ t.node = node /\ GoodTree(t, r) /\ Narrow(t.node)
       /\ m \in DOMAIN t.node /\ t.node[m].children = <<>> /\ b \in 0..Numbers - 1
  BY <1>1, <1>4, <1>5, <1>6, <1>7, <1>8, <1>9, <1>10
<1>13. ASSUME NEW K \in Nat, NEW level \in LevelsOf(t.node, K)
       PROVE  /\ GoodTree(new, r) /\ Narrow(new.node)
              /\ Extended(t.node, m, b, new.node)
              /\ ps # <<>> => new.node[m].children # <<>>
              /\ ps = <<>> => DOMAIN new.node = DOMAIN t.node
              /\ GrownLevels(t.node, level, m, new.node) \in LevelsOf(new.node, K + 1)
  BY <1>3, <1>12, CalculatedKeeps
<1> HIDE DEF new, n
<1>14. PICK K \in Nat : LevelsOf(t.node, K) # {}
  BY <1>5, <1>12
<1>15. PICK level \in LevelsOf(t.node, K) : TRUE
  BY <1>14
<1>16. /\ Rooted(node', m_Root') /\ BestLines(node', m_Root') /\ m_Alloc' \in PoolsFor(DOMAIN node')
       /\ Narrow(node') /\ Extended(t.node, m, b, node')
       /\ ps # <<>> => node'[m].children # <<>>
       /\ ps = <<>> => DOMAIN node' = DOMAIN t.node
  BY <1>1, <1>9, <1>11, <1>13, <1>15 DEF GoodTree
<1>17. \A L \in Nat : \A lvl \in LevelsOf(t.node, L) : GrownLevels(t.node, lvl, m, node') \in LevelsOf(node', L + 1)
  BY <1>11, <1>13
<1>18. Calculated(node, n, adding, node')
  BY <1>3, <1>8, <1>10, <1>12, <1>16, <1>17 DEF Calculated
<1>19. \E L \in Nat : LevelsOf(node', L) # {}
  <2>1. K + 1 \in Nat /\ LevelsOf(node', K + 1) # {}
    BY <1>15, <1>17
  <2>2. QED BY <2>1
<1>20. stack' \in Seq(DOMAIN node')
  <2>1. DOMAIN node \subseteq DOMAIN node'
    BY <1>12, <1>16 DEF Extended
  <2>2. Front(stack) \in Seq(DOMAIN node')
    <3> DEFINE f == Front(stack)
    <3>1. f \in Seq(DOMAIN node)
      BY <1>4
    <3> HIDE DEF f
    <3>2. f \in Seq(DOMAIN node')
      BY <2>1, <3>1
    <3>3. QED BY <3>2 DEF f
  <2>3. QED BY <1>1, <2>2
<1>21. TreeInv'
  BY <1>1, <1>4, <1>16, <1>19, <1>20 DEF TreeInv
<1> QED
  BY <1>18, <1>21 DEF n

LEMMA SetNextRootKeeps ==
    ASSUME TreeInv, SetNextRoot
    PROVE  /\ TreeInv'
           /\ \/ /\ m_Alloc' = m_Alloc /\ m_Root' = m_Root /\ node' = node
                 /\ m_Root = None \/ node[m_Root].children = <<>>
              \/ m_Root # None /\ m_Root' # None /\ Descended(node, m_Root, m_Root', node')
<1>1. /\ calls # <<>> /\ stack = <<>> /\ Return /\ Head(calls).op = "setNextRoot"
      /\ stack' = stack /\ adding' = adding /\ current' = current
  BY DEF SetNextRoot, Calls
<1>2. /\ calls' \in Seq(Call) /\ Head(calls) = calls[1] /\ 1 \in DOMAIN calls
  BY <1>1, ReturnKeepsCalls
<1>3. m_Root # None
  <2>1. ~NeedsNoRoot(calls[1])
    BY <1>1, <1>2 DEF NeedsNoRoot
  <2>2. QED BY <1>2, <2>1 DEF TreeInv
<1>4. /\ GoodTree(Now, m_Root) /\ Narrow(node) /\ m_Root \in DOMAIN node /\ Linked(node)
      /\ \E K \in Nat : LevelsOf(node, K) # {}
      /\ Now = [alloc |-> Now.alloc, node |-> Now.node] /\ Now.alloc = m_Alloc /\ Now.node = node
  BY <1>3, TreeIsGood
<1>5. stack' \in Seq(DOMAIN node')
  BY <1>1
<1>6. CASE node[m_Root].children = <<>>
  <2>1. m_Alloc' = m_Alloc /\ m_Root' = m_Root /\ node' = node
    BY <1>6 DEF SetNextRoot, Children, Now, core
  <2>2. TreeInv'
    <3>1. /\ m_Alloc \in PoolsFor(DOMAIN node)
          /\ Rooted(node, m_Root) /\ BestLines(node, m_Root) /\ Narrow(node)
          /\ \E K \in Nat : LevelsOf(node, K) # {}
          /\ adding \in 0..Numbers - 1 /\ current \in 0..Numbers - 1
      BY <1>3 DEF TreeInv
    <3>2. QED BY <1>1, <1>2, <1>3, <1>5, <2>1, <3>1 DEF TreeInv
  <2>3. QED BY <1>6, <2>1, <2>2
<1>7. CASE node[m_Root].children # <<>>
  <2>1. PICK t : t = Now
    OBVIOUS
  <2>2. PICK r : r = m_Root
    OBVIOUS
  <2> DEFINE s == t.node[r].children
             place == BestPlace(t, r)
             best == s[place]
             left == DeleteNodes([t EXCEPT !.node[r].children = RemoveAt(@, place)], {<<None, 1, r>>})
             new == NextRoot(t, r, place)
  <2>3. m_Root' = best /\ m_Alloc' = left.alloc /\ node' = [left.node EXCEPT ![best].parent = None]
    <3>1. m_Root # None /\ Children(Now, m_Root) # <<>>
      BY <1>3, <1>4, <1>7 DEF Children
    <3>2. LET place_1 == BestPlace(Now, m_Root)
              best_1 == Children(Now, m_Root)[place_1]
              left_1 == DeleteNodes([Now EXCEPT !.node[m_Root].children = RemoveAt(@, place_1)],
                                    {<<None, 1, m_Root>>})
          IN  m_Root' = best_1 /\ m_Alloc' = left_1.alloc /\ node' = [left_1.node EXCEPT ![best_1].parent = None]
      BY <3>1 DEF SetNextRoot
    <3>3. QED BY <2>1, <2>2, <3>2 DEF Children
  <2>4. /\ GoodTree(t, r) /\ Narrow(t.node) /\ r \in DOMAIN t.node /\ Linked(t.node)
        /\ \E K \in Nat : LevelsOf(t.node, K) # {}
        /\ t = [alloc |-> t.alloc, node |-> t.node] /\ t.node = node
    BY <1>4, <2>1, <2>2
  <2>5. place \in DOMAIN s
    <3>1. s # <<>> /\ s \in Seq(DOMAIN t.node)
      BY <1>7, <2>2, <2>4, ChildrenAreNodes
    <3>2. DOMAIN s \in SUBSET DOMAIN s /\ DOMAIN s # {}
      <4> HIDE DEF s
      <4>1. QED BY <3>1
    <3>3. Best(t, s, DOMAIN s) \in DOMAIN s
      BY <2>4, <3>2, BestIsHighest
    <3>4. QED BY <3>3 DEF BestPlace, Children
  <2> HIDE DEF place
  <2>6. PICK K \in Nat : LevelsOf(t.node, K) # {}
    BY <2>4
  <2>7. PICK level \in LevelsOf(t.node, K) : TRUE
    BY <2>6
  <2>8. GoodTree(new, best) /\ Narrow(new.node) /\ Descended(t.node, r, best, new.node)
    BY <2>4, <2>5, <2>7, NextRootKeeps
  <2>9. m_Alloc' = new.alloc /\ node' = new.node
    <3>1. new = [left EXCEPT !.node[best].parent = None]
      BY DEF NextRoot
    <3>2. left = [alloc |-> left.alloc, node |-> left.node]
      BY DEF DeleteNodes
    <3> HIDE DEF new, left, best
    <3>3. new.alloc = left.alloc /\ new.node = [left.node EXCEPT ![best].parent = None]
      BY <3>1, <3>2
    <3>4. QED BY <2>3, <3>3
  <2> HIDE DEF new, left, best
  <2>10. /\ Rooted(node', m_Root') /\ BestLines(node', m_Root') /\ Narrow(node')
         /\ m_Alloc' \in PoolsFor(DOMAIN node') /\ Descended(node, m_Root, m_Root', node')
    BY <2>2, <2>3, <2>4, <2>8, <2>9 DEF GoodTree
  <2>11. m_Root' # None
    <3>1. best \in Node
      BY <2>8 DEF GoodTree, Rooted, Linked
    <3>2. QED BY <2>3, <3>1 DEF Node, None
  <2>12. \E L \in Nat : LevelsOf(node', L) # {}
    <3>1. Linked(new.node) /\ DOMAIN new.node \subseteq DOMAIN t.node
      BY <2>8 DEF GoodTree, Rooted, Descended
    <3>2. \A p, x \in DOMAIN new.node : IsChild(new.node, p, x) => IsChild(t.node, p, x)
      BY <2>8 DEF Descended, IsChild
    <3>3. [m \in DOMAIN new.node |-> level[m]] \in LevelsOf(new.node, K)
      BY <2>7, <3>1, <3>2, LevelsAreKept
    <3>4. LevelsOf(node', K) # {}
      BY <2>9, <3>3
    <3>5. QED BY <3>4
  <2>13. TreeInv'
    <3>1. adding \in 0..Numbers - 1 /\ current \in 0..Numbers - 1
      BY DEF TreeInv
    <3>2. QED BY <1>1, <1>2, <1>5, <2>10, <2>11, <2>12, <3>1 DEF TreeInv
  <2>14. QED BY <1>3, <2>10, <2>11, <2>13
<1> QED
  BY <1>6, <1>7

LEMMA SetOjamaPiecesKeeps ==
    ASSUME TreeInv, SetOjamaPieces
    PROVE  /\ TreeInv' /\ m_Root # None /\ m_Root' = m_Root /\ DOMAIN node' = DOMAIN node
           /\ \A m \in DOMAIN node : /\ node'[m].block = node[m].block /\ node'[m].children = node[m].children
                                     /\ m # m_Root => node'[m].full = node[m].full
<1>1. /\ calls # <<>> /\ stack = <<>> /\ Return /\ Head(calls).op = "setOjamaPieces"
      /\ m_Alloc' = m_Alloc /\ m_Root' = m_Root
      /\ stack' = stack /\ adding' = adding /\ current' = current
  BY DEF SetOjamaPieces, Calls
<1>2. /\ calls' \in Seq(Call) /\ Head(calls) = calls[1] /\ 1 \in DOMAIN calls
  BY <1>1, ReturnKeepsCalls
<1>3. m_Root # None
  <2>1. ~NeedsNoRoot(calls[1])
    BY <1>1, <1>2 DEF NeedsNoRoot
  <2>2. QED BY <1>2, <2>1 DEF TreeInv
<1>4. /\ GoodTree(Now, m_Root) /\ Narrow(node) /\ m_Root \in DOMAIN node /\ Linked(node)
      /\ \E K \in Nat : LevelsOf(node, K) # {}
      /\ Now.alloc = m_Alloc /\ Now.node = node
  BY <1>3, TreeIsGood
<1>5. PICK full \in {node[m_Root].full, TRUE} : node' = [node EXCEPT ![m_Root].full = full]
  BY DEF SetOjamaPieces
<1>6. full \in BOOLEAN
  <2>1. node[m_Root].full \in BOOLEAN
    BY <1>4, ChildrenAreNodes DEF Objects
  <2>2. QED BY <1>5, <2>1
<1>7. PICK t : t = Now
  OBVIOUS
<1>8. PICK r : r = m_Root
  OBVIOUS
<1>9. PICK new : new = [alloc |-> t.alloc, node |-> [t.node EXCEPT ![r].full = full]]
  OBVIOUS
<1>10. t.alloc = m_Alloc /\ t.node = node /\ GoodTree(t, r) /\ Narrow(t.node) /\ \E K \in Nat : LevelsOf(t.node, K) # {}
  BY <1>4, <1>7, <1>8
<1>11. PICK K \in Nat : LevelsOf(t.node, K) # {}
  BY <1>10
<1>12. PICK level \in LevelsOf(t.node, K) : TRUE
  BY <1>11
<1>13. /\ GoodTree(new, r) /\ Narrow(new.node) /\ level \in LevelsOf(new.node, K)
       /\ DOMAIN new.node = DOMAIN t.node
       /\ \A m \in DOMAIN t.node : /\ new.node[m].block = t.node[m].block
                                   /\ new.node[m].children = t.node[m].children
                                   /\ m # r => new.node[m].full = t.node[m].full
  <2>1. new.alloc = t.alloc /\ new.node = [t.node EXCEPT ![r].full = full]
    BY <1>9
  <2>2. QED BY <1>6, <1>10, <1>11, <1>12, <2>1, FullKeeps
<1>14. node' = new.node /\ m_Alloc' = new.alloc
  BY <1>1, <1>5, <1>8, <1>9, <1>10
<1>15. /\ Rooted(node', m_Root') /\ BestLines(node', m_Root') /\ Narrow(node')
       /\ m_Alloc' \in PoolsFor(DOMAIN node') /\ DOMAIN node' = DOMAIN node /\ LevelsOf(node', K) # {}
  BY <1>1, <1>8, <1>10, <1>13, <1>14 DEF GoodTree
<1>16. TreeInv'
  <2>1. adding \in 0..Numbers - 1 /\ current \in 0..Numbers - 1
    BY DEF TreeInv
  <2>2. stack' \in Seq(DOMAIN node')
    BY <1>1
  <2>3. QED BY <1>1, <1>2, <1>3, <1>15, <2>1, <2>2 DEF TreeInv
<1> QED
  BY <1>1, <1>3, <1>8, <1>10, <1>13, <1>14, <1>16

LEMMA ClearKeeps ==
    ASSUME TreeInv, Clear
    PROVE  /\ TreeInv' /\ m_Root # None /\ m_Root' = m_Root /\ DOMAIN node' = {m_Root'}
           /\ [n \in {m_Root'} |-> 0] \in LevelsOf(node', 0)
<1>1. /\ calls # <<>> /\ stack = <<>> /\ Return /\ Head(calls).op = "clear"
      /\ m_Root' = m_Root
      /\ stack' = stack /\ adding' = adding /\ current' = current
  BY DEF Clear, Calls
<1>2. /\ calls' \in Seq(Call) /\ Head(calls) = calls[1] /\ 1 \in DOMAIN calls
  BY <1>1, ReturnKeepsCalls
<1>3. m_Root # None
  <2>1. ~NeedsNoRoot(calls[1])
    BY <1>1, <1>2 DEF NeedsNoRoot
  <2>2. QED BY <1>2, <2>1 DEF TreeInv
<1>4. /\ GoodTree(Now, m_Root) /\ m_Root \in DOMAIN node /\ Linked(node)
      /\ \E K \in Nat : LevelsOf(node, K) # {}
      /\ Now = [alloc |-> Now.alloc, node |-> Now.node] /\ Now.node = node
  BY <1>3, TreeIsGood
<1>5. PICK t : t = Now
  OBVIOUS
<1>6. PICK r : r = m_Root
  OBVIOUS
<1> DEFINE new == Bared(t, r)
<1>7. m_Alloc' = DropEmpty(new.alloc) /\ node' = new.node
  <2>1. LET bare == Bared(Now, m_Root)
        IN  m_Alloc' = DropEmpty(bare.alloc) /\ node' = bare.node
    BY DEF Clear, Bared
  <2>2. QED BY <1>5, <1>6, <2>1
<1>8. /\ t = [alloc |-> t.alloc, node |-> t.node] /\ GoodTree(t, r)
      /\ \E K \in Nat : LevelsOf(t.node, K) # {}
  BY <1>4, <1>5, <1>6
<1>9. PICK K \in Nat : LevelsOf(t.node, K) # {}
  BY <1>8
<1>10. PICK level \in LevelsOf(t.node, K) : TRUE
  BY <1>9
<1>11. /\ new.alloc \in PoolsFor({r}) /\ DOMAIN new.node = {r}
       /\ Rooted(new.node, r) /\ BestLines(new.node, r) /\ Narrow(new.node)
       /\ [n \in {r} |-> 0] \in LevelsOf(new.node, 0)
  BY <1>8, <1>10, BaredKeeps
<1> HIDE DEF new
<1>12. DropEmpty(new.alloc) \in PoolsFor({r})
  <2>1. r \in Node
    BY <1>11 DEF Rooted, Linked
  <2>2. {r} \in SUBSET Node
    BY <2>1
  <2>3. QED BY <1>11, <2>2, DropEmptyKeepsUsed
<1>13. LevelsOf(node', 0) # {}
  BY <1>7, <1>11
<1>14. TreeInv'
  <2>1. adding \in 0..Numbers - 1 /\ current \in 0..Numbers - 1
    BY DEF TreeInv
  <2>2. stack' \in Seq(DOMAIN node')
    BY <1>1
  <2>3. \E L \in Nat : LevelsOf(node', L) # {}
    BY <1>13
  <2>4. QED BY <1>1, <1>2, <1>3, <1>6, <1>7, <1>11, <1>12, <2>1, <2>2, <2>3 DEF TreeInv
<1> QED
  BY <1>1, <1>3, <1>6, <1>7, <1>11, <1>14

\* What the handlers hand to the core.
LEMMA AddsAreCalls ==
    ASSUME NEW b \in Nat, NEW d \in Nat
    PROVE  /\ [i \in 1..d |-> Add(Following(b, i - 1))] \in Seq(Call)
           /\ Add(Following(b, d)) \in Call
           /\ \A i \in 1..d : Add(Following(b, i - 1)) \in Call /\ NeedsNoRoot(Add(Following(b, i - 1)))
<1>1. ASSUME NEW k \in Nat PROVE Add(Following(b, k)) \in Call /\ NeedsNoRoot(Add(Following(b, k)))
  <2>1. Following(b, k) \in 0..Numbers - 1
    BY FollowingAdds
  <2>2. QED BY <2>1 DEF Add, Call, NeedsNoRoot
<1>2. ASSUME NEW i \in 1..d PROVE Add(Following(b, i - 1)) \in Call /\ NeedsNoRoot(Add(Following(b, i - 1)))
  <2>1. i - 1 \in Nat
    OBVIOUS
  <2>2. QED BY <1>1, <2>1
<1> DEFINE f == [i \in 1..d |-> Add(Following(b, i - 1))]
<1>3. f \in [1..d -> Call]
  BY <1>2
<1> HIDE DEF f
<1>4. f \in Seq(Call)
  BY <1>3
<1> QED
  BY <1>1, <1>2, <1>4 DEF f

\* A list with one more in front.
LEMMA OneInFront ==
    ASSUME NEW S, NEW a \in S, NEW s \in Seq(S)
    PROVE  /\ <<a>> \o s \in Seq(S) /\ DOMAIN (<<a>> \o s) = 1..Len(s) + 1 /\ (<<a>> \o s)[1] = a
           /\ \A i \in 1..Len(s) : (<<a>> \o s)[i + 1] = s[i]
<1> DEFINE q == <<a>> \o s
<1>1. q \in Seq(S) /\ Len(q) = Len(s) + 1 /\ q[1] = a /\ \A i \in 1..Len(s) : q[i + 1] = s[i]
  OBVIOUS
<1> HIDE DEF q
<1>2. DOMAIN q = 1..Len(s) + 1
  BY <1>1
<1> QED
  BY <1>1, <1>2 DEF q

LEMMA HandlersKeep ==
    ASSUME TreeInv, Initialize \/ OnNewBlock \/ ClearCore
    PROVE  TreeInv'
<1>1. current \in 0..Numbers - 1 /\ current \in Nat /\ adding \in 0..Numbers - 1
  BY NumbersAreMany DEF TreeInv
<1>2. CASE Initialize
  <2> DEFINE f == [i \in 1..Depth |-> Add(Following(current, i - 1))]
             first == <<[op |-> "setMapSize"]>>
  <2>1. /\ stack = <<>> /\ m_Root = None /\ calls' = first \o f
        /\ m_Alloc' = m_Alloc /\ m_Root' = m_Root /\ node' = node
        /\ stack' = stack /\ adding' = adding /\ current' = current
    BY <1>2 DEF Initialize, Idle, core
  <2>2. f \in Seq(Call) /\ \A i \in 1..Depth : f[i] \in Call /\ NeedsNoRoot(f[i])
    BY <1>1, NumbersAreMany, AddsAreCalls
  <2>3. DOMAIN f = 1..Depth
    OBVIOUS
  <2>4. [op |-> "setMapSize"] \in Call /\ NeedsNoRoot([op |-> "setMapSize"])
    BY DEF Call, NeedsNoRoot
  <2> HIDE DEF f
  <2>5. /\ calls' \in Seq(Call) /\ DOMAIN calls' = 1..Len(f) + 1 /\ calls'[1] = [op |-> "setMapSize"]
        /\ \A i \in 1..Len(f) : calls'[i + 1] = f[i]
    BY <2>1, <2>2, <2>4, OneInFront
  <2>6. \A i \in DOMAIN calls' : NeedsNoRoot(calls'[i])
    <3>1. Len(f) = Depth /\ Depth \in Nat
      BY <2>2, <2>3, NumbersAreMany
    <3>2. ASSUME NEW i \in 1..Depth + 1, i # 1 PROVE i - 1 \in 1..Depth /\ (i - 1) + 1 = i
      BY <3>1, <3>2
    <3>3. ASSUME NEW i \in 1..Depth + 1, i # 1 PROVE NeedsNoRoot(calls'[i])
      BY <2>2, <2>5, <3>1, <3>2, <3>3
    <3>4. QED BY <2>4, <2>5, <3>1, <3>3
  <2>7. node' = <<>> /\ m_Alloc' = <<>> /\ m_Alloc' \in PoolsFor(DOMAIN node')
    BY <2>1 DEF TreeInv
  <2>8. stack' \in Seq(DOMAIN node')
    BY <2>1
  <2>9. QED BY <1>1, <2>1, <2>5, <2>6, <2>7, <2>8 DEF TreeInv
<1>3. CASE OnNewBlock
  <2>1. /\ stack = <<>> /\ m_Root # None /\ current' = Following(current, 1)
        /\ m_Alloc' = m_Alloc /\ m_Root' = m_Root /\ node' = node /\ stack' = stack /\ adding' = adding
    BY <1>3 DEF OnNewBlock, Idle, core
  <2>2. PICK ojama \in BOOLEAN :
           calls' = <<[op |-> "setNextRoot"]>>
                    \o (IF ojama
                          THEN <<[op |-> "setOjamaPieces"], [op |-> "clear"]>> \o Rebuilt(current')
                          ELSE <<>>)
                    \o <<Add(Following(current', Depth - 1))>>
    BY <1>3 DEF OnNewBlock
  <2>3. current' \in 0..Numbers - 1 /\ current' \in Nat
    <3>1. Following(current, 1) \in 0..Numbers - 1
      BY <1>1, FollowingAdds
    <3>2. QED BY <2>1, <3>1, NumbersAreMany
  <2>4. Rebuilt(current') \in Seq(Call) /\ Add(Following(current', Depth - 1)) \in Call
    <3>1. PICK b : b = current'
      OBVIOUS
    <3>2. b \in Nat /\ Depth - 1 \in Nat
      BY <2>3, <3>1, NumbersAreMany
    <3>3. [i \in 1..Depth - 1 |-> Add(Following(b, i - 1))] \in Seq(Call) /\ Add(Following(b, Depth - 1)) \in Call
      BY <3>2, AddsAreCalls
    <3>4. QED BY <3>1, <3>3 DEF Rebuilt
  <2>5. calls' \in Seq(Call)
    <3> DEFINE a == <<[op |-> "setNextRoot"]>>
               b == <<[op |-> "setOjamaPieces"], [op |-> "clear"]>>
               q == Rebuilt(current')
               e == <<Add(Following(current', Depth - 1))>>
    <3>1. a \in Seq(Call) /\ b \in Seq(Call)
      BY DEF Call
    <3>2. e \in Seq(Call)
      BY <2>4
    <3>3. q \in Seq(Call)
      BY <2>4
    <3>4. calls' = a \o (IF ojama THEN b \o q ELSE <<>>) \o e
      BY <2>2
    <3> HIDE DEF a, b, q, e
    <3>5. QED BY <3>1, <3>2, <3>3, <3>4
  <2>6. /\ m_Alloc \in PoolsFor(DOMAIN node) /\ stack \in Seq(DOMAIN node)
        /\ Rooted(node, m_Root) /\ BestLines(node, m_Root) /\ Narrow(node)
        /\ \E K \in Nat : LevelsOf(node, K) # {}
    BY <2>1 DEF TreeInv
  <2>7. QED BY <1>1, <2>1, <2>3, <2>5, <2>6 DEF TreeInv
<1>4. CASE ClearCore
  <2>1. /\ calls' = <<>> /\ stack' = <<>> /\ adding' = adding
        /\ m_Alloc' = <<>> /\ m_Root' = None /\ node' = <<>> /\ current' = 0
    BY <1>4 DEF ClearCore, Idle
  <2>2. DOMAIN node' = {} /\ DOMAIN calls' = {} /\ stack' \in Seq(DOMAIN node') /\ calls' \in Seq(Call)
    BY <2>1
  <2>3. 0 \in 0..Numbers - 1
    BY NumbersAreMany
  <2>4. QED BY <1>1, <2>1, <2>2, <2>3, NoPools DEF TreeInv
<1> QED
  BY <1>2, <1>3, <1>4

LEMMA NextKeepsTree == TreeInv /\ [Next]_vars => TreeInv'
<1> SUFFICES ASSUME TreeInv, [Next]_vars PROVE TreeInv'
  OBVIOUS
<1>1. CASE SetMapSize
  BY <1>1, SetMapSizeKeeps
<1>2. CASE AddNextBlock
  BY <1>2, AddNextBlockKeeps
<1>3. CASE Descend
  BY <1>3, DescendKeeps
<1>4. CASE CalcNextStep
  BY <1>4, CalcNextStepKeeps
<1>5. CASE SetNextRoot
  BY <1>5, SetNextRootKeeps
<1>6. CASE SetOjamaPieces
  BY <1>6, SetOjamaPiecesKeeps
<1>7. CASE Clear
  BY <1>7, ClearKeeps
<1>8. CASE Initialize \/ OnNewBlock \/ ClearCore
  BY <1>8, HandlersKeep
<1>9. CASE UNCHANGED vars
  BY <1>9 DEF vars, core, TreeInv
<1> QED
  BY <1>1, <1>2, <1>3, <1>4, <1>5, <1>6, <1>7, <1>8, <1>9 DEF Next, Run

LEMMA TreeAlways == Spec => []TreeInv
<1> QED
  BY InitTree, NextKeepsTree, PTL DEF Spec

\* The nodes the tree is made of are those there are.
LEMMA AllIsReachable ==
    ASSUME TreeInv
    PROVE  Reachable = DOMAIN node
<1>1. CASE m_Root = None
  <2>1. node = <<>>
    BY <1>1 DEF TreeInv
  <2>2. QED BY <1>1, <2>1 DEF Reachable
<1>2. CASE m_Root # None
  <2>1. PICK nodes : nodes = node
    OBVIOUS
  <2>2. PICK r : r = m_Root
    OBVIOUS
  <2>3. Rooted(nodes, r) /\ \E K \in Nat : LevelsOf(nodes, K) # {}
    BY <1>2, <2>1, <2>2 DEF TreeInv
  <2>4. PICK K \in Nat : LevelsOf(nodes, K) # {}
    BY <2>3
  <2>5. PICK level \in LevelsOf(nodes, K) : TRUE
    BY <2>4
  <2>6. Under(nodes)[r] = DOMAIN nodes
    BY <2>3, <2>5, AllUnderRoot
  <2>7. QED BY <1>2, <2>1, <2>2, <2>6 DEF Reachable
<1> QED
  BY <1>1, <1>2

\* Type correctness: what a pointer of the tree or the stack points to is a node that is in
\* use, and the calls a handler makes are calls the core has.
THEOREM TypeCorrect == Spec => []TypeOK
<1>1. TreeInv => TypeOK
  <2> SUFFICES ASSUME TreeInv PROVE TypeOK
    OBVIOUS
  <2>1. m_Alloc \in Seq(Pool) /\ stack \in Seq(DOMAIN node) /\ {adding, current} \subseteq 0..Numbers - 1
        /\ calls \in Seq(Call)
    BY DEF TreeInv, PoolsFor
  <2>2. m_Root \in DOMAIN node \cup {None} /\ DOMAIN node \subseteq Node
    <3>1. CASE m_Root = None
      <4>1. node = <<>>
        BY <3>1 DEF TreeInv
      <4>2. DOMAIN node = {}
        BY <4>1
      <4>3. QED BY <3>1, <4>2
    <3>2. CASE m_Root # None
      BY <3>2, TreeIsGood DEF Linked
    <3>3. QED BY <3>1, <3>2
  <2>3. ASSUME NEW n \in DOMAIN node
        PROVE  /\ node[n].parent \in DOMAIN node \cup {None}
               /\ node[n].children \in Seq(DOMAIN node)
               /\ {node[n].value, node[n].own} \subseteq Nat
               /\ node[n].block \in 0..Numbers - 1
               /\ node[n].full \in BOOLEAN
    <3>1. m_Root # None
      <4>1. node = <<>> => DOMAIN node = {}
        OBVIOUS
      <4>2. QED BY <4>1 DEF TreeInv
    <3>2. Rooted(node, m_Root) /\ Linked(node)
      BY <3>1 DEF TreeInv, Rooted
    <3>3. node[n] \in Objects(DOMAIN node)
      BY <3>2, ChildrenAreNodes
    <3>4. node[n].parent \in DOMAIN node \cup {None}
      <4>1. CASE n = m_Root
        BY <3>2, <4>1 DEF Rooted
      <4>2. CASE n # m_Root
        BY <3>2, <4>2 DEF Rooted
      <4>3. QED BY <4>1, <4>2
    <3>5. QED BY <3>3, <3>4 DEF Objects
  <2>4. QED BY <2>1, <2>2, <2>3 DEF TypeOK, Call
<1> QED
  BY <1>1, TreeAlways, PTL

\* No block of the pools is lost and none is given out twice: whatever the search, pruning,
\* SetNextRoot and Clear do, a block is free, once, or a node of the tree under the root.
THEOREM PoolsLoseNothing == Spec => []NothingLeaks
<1>1. TreeInv => NothingLeaks
  BY AllIsReachable DEF TreeInv, PoolsFor, NothingLeaks
<1> QED
  BY <1>1, TreeAlways, PTL

\* What NextStep has on its stack is in use, whatever CalcNextStep prunes meanwhile.
THEOREM SearchStaysInTree == Spec => []StackIsLive
<1>1. TreeInv => StackIsLive
  <2> SUFFICES ASSUME TreeInv PROVE StackIsLive
    OBVIOUS
  <2>1. stack \in Seq(DOMAIN node) /\ Reachable = DOMAIN node
    BY AllIsReachable DEF TreeInv
  <2>2. \A i \in DOMAIN stack : stack[i] \in DOMAIN node
    BY <2>1
  <2>3. QED BY <2>1, <2>2 DEF StackIsLive, ToSet
<1> QED
  BY <1>1, TreeAlways, PTL

\* Pruning keeps a best line: a node is worth the most of its own value and of what the
\* children it still has are worth.
THEOREM BestLineSurvives == Spec => []BestLineKept
<1>1. TreeInv => BestLineKept
  <2> SUFFICES ASSUME TreeInv, NEW n \in Reachable \ {m_Root}
               PROVE  /\ \A c \in ToSet(node[n].children) : node[c].value <= node[n].value
                      /\ \/ node[n].value = node[n].own
                         \/ \E c \in ToSet(node[n].children) : node[c].value = node[n].value
    BY DEF BestLineKept
  <2>1. n \in DOMAIN node \ {m_Root} /\ m_Root # None
    <3>1. Reachable = DOMAIN node
      BY AllIsReachable
    <3>2. m_Root # None
      BY DEF Reachable
    <3>3. QED BY <3>1, <3>2
  <2>2. Rooted(node, m_Root) /\ BestLines(node, m_Root) /\ Linked(node)
    BY <2>1 DEF TreeInv, Rooted
  <2>3. /\ \A x \in DOMAIN node : IsChild(node, n, x) => node[x].value <= node[n].value
        /\ \/ node[n].value = node[n].own
           \/ \E x \in DOMAIN node : IsChild(node, n, x) /\ node[x].value = node[n].value
    BY <2>1, <2>2 DEF BestLines
  <2>4. \A i \in DOMAIN node[n].children : node[n].children[i] \in DOMAIN node
    BY <2>1, <2>2, ChildrenAreNodes
  <2>5. \A x : x \in ToSet(node[n].children) <=> x \in DOMAIN node /\ IsChild(node, n, x)
    BY <2>4 DEF ToSet, IsChild
  <2>6. QED BY <2>3, <2>5
<1> QED
  BY <1>1, TreeAlways, PTL

----------------------------------------------------------------------------
(* The order of the blocks: the second invariant.                                  *)

\* A node lies as deep under the root as its block comes after the base.
Ordered(nodes, r, base, level) ==
    /\ level[r] = 0
    /\ \A x \in DOMAIN nodes \ {r} : level[x] # 0 /\ nodes[x].block = Following(base, level[x] - 1)

\* The nodes NextStep has still to take from its stack, with those under them.
Awaited(nodes, st, todo) ==
    /\ todo \subseteq DOMAIN nodes
    /\ \A p \in todo, x \in DOMAIN nodes : IsChild(nodes, p, x) => x \in todo
    /\ \A x \in todo : (\E i \in DOMAIN st : st[i] = x) \/ \E p \in todo : IsChild(nodes, p, x)
    /\ \A i \in DOMAIN st : st[i] \in todo /\ \A p \in todo : ~IsChild(nodes, p, st[i])
    /\ \A i, j \in DOMAIN st : st[i] = st[j] => i = j

\* A leaf that has room lacks the last of the k blocks only while NextStep has still to take it.
Evened(nodes, level, todo, k) ==
    \A x \in DOMAIN nodes : nodes[x].children = <<>> /\ ~nodes[x].full =>
        level[x] = IF x \in todo THEN k - 1 ELSE k

\* A tree of k blocks from the base on, the last of which is being added.
Holds(nodes, r, st, base, k, level, todo) ==
    Ordered(nodes, r, base, level) /\ Awaited(nodes, st, todo) /\ Evened(nodes, level, todo, k)

HasBlocks(nodes, r, st, base, k) ==
    \E K \in Nat : \E level \in LevelsOf(nodes, K) : \E todo \in SUBSET DOMAIN nodes :
        Holds(nodes, r, st, base, k, level, todo)

\* With an empty stack nothing is awaited.
LEMMA NothingAwaited ==
    ASSUME NEW nodes, Linked(nodes), NEW K \in Nat, NEW level \in LevelsOf(nodes, K), NEW todo,
           Awaited(nodes, <<>>, todo)
    PROVE  todo = {}
<1> DEFINE S == DOMAIN nodes \ todo
<1>1. /\ todo \subseteq DOMAIN nodes
      /\ \A x \in todo : (\E i \in DOMAIN <<>> : <<>>[i] = x) \/ \E p \in todo : IsChild(nodes, p, x)
  BY DEF Awaited
<1>2. \A x \in todo : \E p \in todo : IsChild(nodes, p, x)
  BY <1>1
<1>3. ASSUME NEW x \in DOMAIN nodes, \A p \in DOMAIN nodes : IsChild(nodes, p, x) => p \in S PROVE x \in S
  BY <1>1, <1>2, <1>3
<1>4. DOMAIN nodes \subseteq S
  <2> HIDE DEF S
  <2>1. QED BY <1>3, TopDown
<1> QED
  BY <1>1, <1>4

\* AddNextBlock puts the root on the stack: every node is awaited.
LEMMA RootAwaited ==
    ASSUME NEW nodes, NEW r, Rooted(nodes, r), NEW base, NEW k \in Nat, HasBlocks(nodes, r, <<>>, base, k)
    PROVE  HasBlocks(nodes, r, <<r>>, base, k + 1)
<1> DEFINE D == DOMAIN nodes
<1>1. PICK K \in Nat : \E level \in LevelsOf(nodes, K) : \E todo \in SUBSET D :
          Holds(nodes, r, <<>>, base, k, level, todo)
  BY DEF HasBlocks
<1>2. PICK level \in LevelsOf(nodes, K) : \E todo \in SUBSET D : Holds(nodes, r, <<>>, base, k, level, todo)
  BY <1>1
<1>3. PICK todo \in SUBSET D : Holds(nodes, r, <<>>, base, k, level, todo)
  BY <1>2
<1>4. Linked(nodes) /\ r \in D
  BY DEF Rooted
<1>5. todo = {}
  BY <1>2, <1>3, <1>4, NothingAwaited DEF Holds
<1>6. Evened(nodes, level, D, k + 1)
  <2>1. (k + 1) - 1 = k
    OBVIOUS
  <2>2. QED BY <1>3, <1>5, <2>1 DEF Evened, Holds
<1>7. Awaited(nodes, <<r>>, D)
  <2>1. DOMAIN <<r>> = {1} /\ <<r>>[1] = r
    OBVIOUS
  <2>2. \A p \in D : ~IsChild(nodes, p, r)
    BY RootIsNoChild
  <2>3. \A x \in D : x = r \/ \E p \in D : IsChild(nodes, p, x)
    BY DEF Rooted
  <2>4. QED BY <1>4, <2>1, <2>2, <2>3 DEF Awaited
<1>8. Holds(nodes, r, <<r>>, base, k + 1, level, D)
  BY <1>3, <1>6, <1>7 DEF Holds
<1> QED
  BY <1>2, <1>8 DEF HasBlocks

\* A node taken from the stack is awaited no longer; its children, put there, are.
LEMMA ChildrenAwaited ==
    ASSUME NEW nodes, Linked(nodes), NEW st \in Seq(DOMAIN nodes), st # <<>>, NEW todo, Awaited(nodes, st, todo)
    PROVE  Awaited(nodes, Front(st) \o nodes[Last(st)].children, todo \ {Last(st)})
<1> DEFINE D == DOMAIN nodes
           n == Last(st)
           f == Front(st)
           s == nodes[n].children
           new == f \o s
           rest == todo \ {n}
<1>1. /\ todo \subseteq D
      /\ \A p \in todo, x \in D : IsChild(nodes, p, x) => x \in todo
      /\ \A x \in todo : (\E i \in DOMAIN st : st[i] = x) \/ \E p \in todo : IsChild(nodes, p, x)
      /\ \A i \in DOMAIN st : st[i] \in todo /\ \A p \in todo : ~IsChild(nodes, p, st[i])
      /\ \A i, j \in DOMAIN st : st[i] = st[j] => i = j
  BY DEF Awaited
<1>2. /\ n \in D /\ f \in Seq(D) /\ Len(st) \in DOMAIN st /\ n = st[Len(st)]
      /\ DOMAIN f = DOMAIN st \ {Len(st)} /\ \A i \in DOMAIN f : f[i] = st[i]
  BY FrontAndLast
<1> HIDE DEF f, n
<1>3. s \in Seq(D) /\ \A i \in DOMAIN s : s[i] \in D
  BY <1>2, ChildrenAreNodes
<1>4. n \in todo /\ \A p \in todo : ~IsChild(nodes, p, n)
  BY <1>1, <1>2
<1>5. \A i \in DOMAIN f : f[i] \in rest /\ \A p \in todo : ~IsChild(nodes, p, f[i])
  BY <1>1, <1>2
<1>6. \A i, j \in DOMAIN f : f[i] = f[j] => i = j
  BY <1>1, <1>2
<1>7. \A i \in DOMAIN s : IsChild(nodes, n, s[i]) /\ s[i] \in rest
  BY <1>1, <1>3, <1>4 DEF IsChild
<1>8. ASSUME NEW i \in DOMAIN s, NEW p \in rest PROVE ~IsChild(nodes, p, s[i])
  <2>1. p \in D /\ p # n /\ n \in D
    BY <1>1, <1>2
  <2> HIDE DEF D
  <2>2. QED BY <2>1 DEF Linked, IsChild, D
<1>9. \A i, j \in DOMAIN s : s[i] = s[j] => i = j
  BY <1>2 DEF Linked
<1>10. \A i \in DOMAIN f, j \in DOMAIN s : f[i] # s[j]
  BY <1>4, <1>5, <1>7
<1>11. /\ DOMAIN new = 1..Len(f) + Len(s) /\ Len(f) \in Nat /\ Len(s) \in Nat
       /\ DOMAIN f = 1..Len(f) /\ DOMAIN s = 1..Len(s)
       /\ \A i \in 1..Len(f) : new[i] = f[i]
       /\ \A i \in 1..Len(s) : new[Len(f) + i] = s[i]
  <2> HIDE DEF s
  <2>5. f \in Seq(D) /\ s \in Seq(D)
    BY <1>2, <1>3
  <2>1. Len(f) \in Nat /\ Len(s) \in Nat /\ DOMAIN f = 1..Len(f) /\ DOMAIN s = 1..Len(s)
    BY <2>5
  <2>2. new \in Seq(D) /\ Len(new) = Len(f) + Len(s)
    BY <1>2, <1>3
  <2>3. (\A i \in 1..Len(f) : new[i] = f[i]) /\ \A i \in 1..Len(s) : new[Len(f) + i] = s[i]
    BY <1>2, <1>3
  <2> HIDE DEF new
  <2>4. DOMAIN new = 1..Len(f) + Len(s)
    BY <2>1, <2>2
  <2>6. QED BY <2>1, <2>3, <2>4
<1> HIDE DEF new, s
<1>12. ASSUME NEW i \in DOMAIN new
       PROVE  \/ i \in DOMAIN f /\ new[i] = f[i]
              \/ i - Len(f) \in DOMAIN s /\ new[i] = s[i - Len(f)] /\ i \notin DOMAIN f
  <2>1. CASE i \in 1..Len(f)
    BY <1>11, <2>1
  <2>2. CASE i \notin 1..Len(f)
    <3>1. i - Len(f) \in 1..Len(s) /\ Len(f) + (i - Len(f)) = i
      BY <1>11, <2>2
    <3>2. new[i] = s[i - Len(f)]
      BY <1>11, <3>1
    <3>3. QED BY <1>11, <2>2, <3>1, <3>2
  <2>3. QED BY <2>1, <2>2
<1>13. rest \subseteq D /\ \A p \in rest, x \in D : IsChild(nodes, p, x) => x \in rest
  BY <1>1, <1>4
<1>14. ASSUME NEW x \in rest PROVE (\E i \in DOMAIN new : new[i] = x) \/ \E p \in rest : IsChild(nodes, p, x)
  <2>1. CASE \E i \in DOMAIN st : st[i] = x
    <3>1. PICK i \in DOMAIN st : st[i] = x
      BY <2>1
    <3>2. i \in DOMAIN f /\ f[i] = x
      BY <1>2, <3>1
    <3>3. i \in DOMAIN new /\ new[i] = x
      BY <1>11, <3>2
    <3>4. QED BY <3>3
  <2>2. CASE IsChild(nodes, n, x)
    <3>1. PICK i \in DOMAIN s : s[i] = x
      BY <2>2 DEF IsChild, s
    <3>2. Len(f) + i \in DOMAIN new /\ new[Len(f) + i] = x
      BY <1>11, <3>1
    <3>3. QED BY <3>2
  <2>3. QED BY <1>1, <2>1, <2>2
<1>15. \A i \in DOMAIN new : new[i] \in rest /\ \A p \in rest : ~IsChild(nodes, p, new[i])
  BY <1>5, <1>7, <1>8, <1>12
<1>16. ASSUME NEW i \in DOMAIN new, NEW j \in DOMAIN new, new[i] = new[j] PROVE i = j
  <2>1. CASE i \in DOMAIN f /\ j \in DOMAIN f
    BY <1>6, <1>11, <1>16, <2>1
  <2>2. CASE i \notin DOMAIN f /\ j \notin DOMAIN f
    <3>1. i - Len(f) = j - Len(f)
      BY <1>9, <1>12, <1>16, <2>2 DEF s
    <3>2. QED BY <1>11, <3>1
  <2>3. CASE i \in DOMAIN f /\ j \notin DOMAIN f
    BY <1>10, <1>12, <1>16, <2>3
  <2>4. CASE i \notin DOMAIN f /\ j \in DOMAIN f
    BY <1>10, <1>12, <1>16, <2>4
  <2>5. QED BY <2>1, <2>2, <2>3, <2>4
<1>17. Awaited(nodes, new, rest)
  BY <1>13, <1>14, <1>15, <1>16 DEF Awaited
<1> QED
  BY <1>17 DEF new, s, f, n

LEMMA BlocksWhileDescending ==
    ASSUME NEW nodes, Linked(nodes), NEW r, NEW st \in Seq(DOMAIN nodes), st # <<>>,
           nodes[Last(st)].children # <<>>, NEW base, NEW k, HasBlocks(nodes, r, st, base, k)
    PROVE  HasBlocks(nodes, r, Front(st) \o nodes[Last(st)].children, base, k)
<1> DEFINE D == DOMAIN nodes
           new == Front(st) \o nodes[Last(st)].children
<1>1. PICK K \in Nat : \E level \in LevelsOf(nodes, K) : \E todo \in SUBSET D :
          Holds(nodes, r, st, base, k, level, todo)
  BY DEF HasBlocks
<1>2. PICK level \in LevelsOf(nodes, K) : \E todo \in SUBSET D : Holds(nodes, r, st, base, k, level, todo)
  BY <1>1
<1>3. PICK todo \in SUBSET D : Holds(nodes, r, st, base, k, level, todo)
  BY <1>2
<1> DEFINE rest == todo \ {Last(st)}
<1>4. Awaited(nodes, new, rest)
  BY <1>3, ChildrenAwaited DEF Holds
<1>5. Evened(nodes, level, rest, k)
  BY <1>3 DEF Holds, Evened
<1>6. Holds(nodes, r, new, base, k, level, rest) /\ rest \in SUBSET D
  BY <1>3, <1>4, <1>5 DEF Holds
<1> HIDE DEF new, rest
<1>7. HasBlocks(nodes, r, new, base, k)
  BY <1>2, <1>6 DEF HasBlocks
<1> QED
  BY <1>7 DEF new

\* CalcNextStep gives a leaf that has room the last block.
LEMMA BlocksAfterCalculation ==
    ASSUME NEW old, Linked(old), NEW r \in DOMAIN old, NEW st \in Seq(DOMAIN old), st # <<>>,
           old[Last(st)].children = <<>>, NEW base, NEW k \in Nat \ {0}, HasBlocks(old, r, st, base, k),
           NEW new, Linked(new), Calculated(old, Last(st), Following(base, k - 1), new)
    PROVE  HasBlocks(new, r, Front(st), base, k)
<1> DEFINE D == DOMAIN old
           E == DOMAIN new
           n == Last(st)
           f == Front(st)
<1>1. PICK K \in Nat : \E level \in LevelsOf(old, K) : \E todo \in SUBSET D :
          Holds(old, r, st, base, k, level, todo)
  BY DEF HasBlocks
<1>2. PICK level \in LevelsOf(old, K) : \E todo \in SUBSET D : Holds(old, r, st, base, k, level, todo)
  BY <1>1
<1>3. PICK todo \in SUBSET D : Holds(old, r, st, base, k, level, todo)
  BY <1>2
<1>4. Ordered(old, r, base, level) /\ Awaited(old, st, todo) /\ Evened(old, level, todo, k)
  BY <1>3 DEF Holds
<1>5. n \in D /\ Len(st) \in DOMAIN st /\ n = st[Len(st)]
  BY FrontAndLast
<1>6. n \in todo
  BY <1>4, <1>5 DEF Awaited
<1> DEFINE rest == todo \ {n}
\* Without children, n leaves nothing on the stack.
<1>7. Awaited(old, f, rest)
  <2> DEFINE s == old[n].children
  <2>1. Awaited(old, f \o s, rest)
    <3>1. Awaited(old, Front(st) \o old[Last(st)].children, todo \ {Last(st)})
      BY <1>4, ChildrenAwaited
    <3>2. QED BY <3>1
  <2>2. f \in Seq(D) /\ s = <<>>
    BY FrontAndLast
  <2> HIDE DEF f, s
  <2>3. f \o s = f
    BY <2>2
  <2>4. QED BY <2>1, <2>3
<1>8. Calculated(old, n, Following(base, k - 1), new)
  OBVIOUS
<1> HIDE DEF f, n
<1>9. /\ D \subseteq E
      /\ \A m \in D : new[m].block = old[m].block /\ new[m].full = old[m].full
      /\ \A m \in D \ {n} : new[m].children = <<>> <=> old[m].children = <<>>
      /\ \A x \in E \ D : new[x].block = Following(base, k - 1) /\ IsChild(new, n, x)
      /\ \A p, x \in D : IsChild(new, p, x) <=> IsChild(old, p, x)
      /\ IF old[n].full THEN E = D ELSE new[n].children # <<>>
  BY <1>8 DEF Calculated, Extended
<1> DEFINE lvl == GrownLevels(old, level, n, new)
<1>10. K + 1 \in Nat /\ lvl \in LevelsOf(new, K + 1)
  BY <1>2, <1>8 DEF Calculated
<1>11. (\A m \in D : lvl[m] = level[m]) /\ \A x \in E \ D : lvl[x] = level[n] + 1
  BY <1>9 DEF GrownLevels
<1> HIDE DEF lvl
<1>12. \A x \in E \ D : level[n] = k - 1 /\ lvl[x] = k
  <2>1. E # D => ~old[n].full
    BY <1>9
  <2>2. old[n].children = <<>>
    BY DEF n
  <2>3. E # D => level[n] = k - 1
    BY <1>4, <1>5, <1>6, <2>1, <2>2 DEF Evened
  <2>4. QED BY <1>11, <2>3
<1>13. Ordered(new, r, base, lvl)
  <2>1. lvl[r] = 0
    BY <1>4, <1>11 DEF Ordered
  <2>2. ASSUME NEW x \in E \ {r} PROVE lvl[x] # 0 /\ new[x].block = Following(base, lvl[x] - 1)
    <3>1. CASE x \in D
      BY <1>4, <1>9, <1>11, <3>1 DEF Ordered
    <3>2. CASE x \notin D
      BY <1>9, <1>12, <3>2
    <3>3. QED BY <3>1, <3>2
  <2>3. QED BY <2>1, <2>2 DEF Ordered
<1>14. Awaited(new, f, rest)
  <2>1. /\ rest \subseteq D
        /\ \A p \in rest, x \in D : IsChild(old, p, x) => x \in rest
        /\ \A x \in rest : (\E i \in DOMAIN f : f[i] = x) \/ \E p \in rest : IsChild(old, p, x)
        /\ \A i \in DOMAIN f : f[i] \in rest /\ \A p \in rest : ~IsChild(old, p, f[i])
        /\ \A i, j \in DOMAIN f : f[i] = f[j] => i = j
    BY <1>7 DEF Awaited
  <2>2. ASSUME NEW p \in rest, NEW x \in E, IsChild(new, p, x) PROVE x \in rest
    <3>1. CASE x \in D
      BY <1>9, <2>1, <2>2, <3>1
    <3>2. CASE x \notin D
      <4>1. p # n /\ p \in D
        BY <2>1
      <4>2. IsChild(new, n, x) /\ n \in E
        BY <1>5, <1>9, <3>2
      <4>3. QED BY <1>9, <2>2, <4>1, <4>2 DEF Linked, IsChild
    <3>3. QED BY <3>1, <3>2
  <2> HIDE DEF rest
  <2>3. QED BY <1>9, <2>1, <2>2 DEF Awaited
<1>15. Evened(new, lvl, rest, k)
  <2> SUFFICES ASSUME NEW x \in E, new[x].children = <<>>, ~new[x].full
               PROVE  lvl[x] = IF x \in rest THEN k - 1 ELSE k
    BY DEF Evened
  <2>1. CASE x \in D
    <3>1. x # n
      BY <1>9, <2>1
    <3>2. old[x].children = <<>> /\ ~old[x].full
      BY <1>9, <2>1, <3>1
    <3>3. QED BY <1>4, <1>11, <2>1, <3>1, <3>2 DEF Evened
  <2>2. CASE x \notin D
    BY <1>12, <2>2
  <2>3. QED BY <2>1, <2>2
<1>16. Holds(new, r, f, base, k, lvl, rest) /\ rest \in SUBSET E
  BY <1>9, <1>13, <1>14, <1>15 DEF Holds
<1> HIDE DEF rest
<1>17. HasBlocks(new, r, f, base, k)
  BY <1>10, <1>16 DEF HasBlocks
<1> QED
  BY <1>17 DEF f

\* SetNextRoot: the base becomes the next block.
LEMMA BlocksAfterMove ==
    ASSUME NEW old, NEW r, Rooted(old, r), NEW new, NEW best, Rooted(new, best), Descended(old, r, best, new),
           NEW base \in Nat, NEW k \in Nat, HasBlocks(old, r, <<>>, base, k)
    PROVE  HasBlocks(new, best, <<>>, Following(base, 1), k - 1)
<1> DEFINE D == DOMAIN old
           E == DOMAIN new
<1>1. PICK K \in Nat : \E level \in LevelsOf(old, K) : \E todo \in SUBSET D :
          Holds(old, r, <<>>, base, k, level, todo)
  BY DEF HasBlocks
<1>2. PICK level \in LevelsOf(old, K) : \E todo \in SUBSET D : Holds(old, r, <<>>, base, k, level, todo)
  BY <1>1
<1>3. PICK todo \in SUBSET D : Holds(old, r, <<>>, base, k, level, todo)
  BY <1>2
<1>4. Linked(old) /\ Linked(new) /\ r \in D
  BY DEF Rooted
<1>5. todo = {}
  BY <1>2, <1>3, <1>4, NothingAwaited DEF Holds
<1>6. /\ IsChild(old, r, best) /\ E \subseteq D \ {r} /\ best \in E
      /\ \A m \in E : new[m].block = old[m].block /\ new[m].full = old[m].full /\ new[m].children = old[m].children
  BY DEF Descended
<1>7. /\ level \in [D -> 0..K]
      /\ \A m, x \in D : IsChild(old, m, x) => level[x] = level[m] + 1
  BY <1>2 DEF LevelsOf, IsChild
<1>8. level[r] = 0 /\ \A x \in D \ {r} : level[x] # 0 /\ old[x].block = Following(base, level[x] - 1)
  BY <1>3 DEF Holds, Ordered
<1>9. \A x \in E : level[x] \in 1..K
  BY <1>6, <1>7, <1>8
<1> DEFINE lvl == [m \in E |-> level[m] - 1]
<1>10. lvl \in [E -> 0..K] /\ \A m \in E : lvl[m] = level[m] - 1
  BY <1>9
<1> HIDE DEF lvl
<1>11. lvl \in LevelsOf(new, K)
  <2>1. ASSUME NEW m \in E, NEW i \in DOMAIN new[m].children
        PROVE  lvl[new[m].children[i]] = lvl[m] + 1
    <3>1. new[m].children[i] \in E
      BY <1>4, ChildrenAreNodes
    <3>2. IsChild(old, m, new[m].children[i])
      BY <1>6 DEF IsChild
    <3>3. level[new[m].children[i]] = level[m] + 1
      BY <1>6, <1>7, <3>1, <3>2
    <3>4. QED BY <1>9, <1>10, <3>1, <3>3
  <2>2. QED BY <1>10, <2>1 DEF LevelsOf
<1>12. Ordered(new, best, Following(base, 1), lvl)
  <2>1. level[best] = 1
    BY <1>4, <1>6, <1>7, <1>8
  <2>2. ASSUME NEW x \in E \ {best}
        PROVE  lvl[x] # 0 /\ new[x].block = Following(Following(base, 1), lvl[x] - 1)
    <3>1. PICK p \in E : IsChild(new, p, x)
      BY DEF Rooted
    <3>2. IsChild(old, p, x)
      BY <1>6, <3>1 DEF IsChild
    <3>3. level[x] = level[p] + 1 /\ level[p] \in 1..K /\ level[x] \in 1..K
      BY <1>6, <1>7, <1>9, <3>2
    <3>4. lvl[x] = level[x] - 1 /\ lvl[x] # 0 /\ lvl[x] - 1 \in Nat /\ 1 + (lvl[x] - 1) = level[x] - 1
      BY <1>10, <3>3
    <3>5. Following(Following(base, 1), lvl[x] - 1) = Following(base, 1 + (lvl[x] - 1))
      <4>1. PICK j : j = lvl[x] - 1
        OBVIOUS
      <4>2. j \in Nat /\ 1 \in Nat
        BY <3>4, <4>1
      <4>3. Following(Following(base, 1), j) = Following(base, 1 + j)
        BY <4>2, FollowingAdds
      <4>4. QED BY <4>1, <4>3
    <3>6. QED BY <1>6, <1>8, <3>4, <3>5
  <2>3. lvl[best] = 0
    BY <1>6, <1>10, <2>1
  <2>4. QED BY <2>2, <2>3 DEF Ordered
<1>13. Awaited(new, <<>>, {})
  BY DEF Awaited
<1>14. Evened(new, lvl, {}, k - 1)
  <2> SUFFICES ASSUME NEW x \in E, new[x].children = <<>>, ~new[x].full PROVE lvl[x] = k - 1
    BY DEF Evened
  <2>1. level[x] = k
    BY <1>3, <1>5, <1>6 DEF Holds, Evened
  <2>2. QED BY <1>10, <2>1
<1>15. Holds(new, best, <<>>, Following(base, 1), k - 1, lvl, {}) /\ {} \in SUBSET E
  BY <1>12, <1>13, <1>14 DEF Holds
<1> QED
  BY <1>11, <1>15 DEF HasBlocks

\* A bare root.
LEMMA BlocksOfBareRoot ==
    ASSUME NEW nodes, NEW r, DOMAIN nodes = {r}, [n \in {r} |-> 0] \in LevelsOf(nodes, 0), NEW base, NEW k,
           nodes[r].full \/ k = 0
    PROVE  HasBlocks(nodes, r, <<>>, base, k)
<1> DEFINE level == [n \in {r} |-> 0]
<1>1. level[r] = 0
  OBVIOUS
<1> HIDE DEF level
<1>2. Ordered(nodes, r, base, level) /\ Awaited(nodes, <<>>, {}) /\ Evened(nodes, level, {}, k)
  BY <1>1 DEF Ordered, Awaited, Evened
<1>3. Holds(nodes, r, <<>>, base, k, level, {}) /\ {} \in SUBSET DOMAIN nodes
  BY <1>2 DEF Holds
<1>4. level \in LevelsOf(nodes, 0) /\ 0 \in Nat
  BY DEF level
<1> QED
  BY <1>3, <1>4 DEF HasBlocks

\* A root without children has no room once it has been given a block.
LEMMA ChildlessRootIsFull ==
    ASSUME NEW nodes, NEW r, Rooted(nodes, r), nodes[r].children = <<>>,
           NEW b, NEW k \in Nat \ {0}, HasBlocks(nodes, r, <<>>, b, k)
    PROVE  /\ DOMAIN nodes = {r} /\ nodes[r].full
           /\ [n \in {r} |-> 0] \in LevelsOf(nodes, 0)
<1> DEFINE D == DOMAIN nodes
<1>1. PICK K \in Nat : \E level \in LevelsOf(nodes, K) : \E todo \in SUBSET D :
          Holds(nodes, r, <<>>, b, k, level, todo)
  BY DEF HasBlocks
<1>2. PICK level \in LevelsOf(nodes, K) : \E todo \in SUBSET D : Holds(nodes, r, <<>>, b, k, level, todo)
  BY <1>1
<1>3. PICK todo \in SUBSET D : Holds(nodes, r, <<>>, b, k, level, todo)
  BY <1>2
<1>4. Linked(nodes) /\ r \in D
  BY DEF Rooted
<1>5. todo = {}
  BY <1>2, <1>3, <1>4, NothingAwaited DEF Holds
<1>6. nodes[r].full
  <2>1. level[r] = 0
    BY <1>3 DEF Holds, Ordered
  <2>2. ~nodes[r].full => level[r] = k
    BY <1>3, <1>4, <1>5 DEF Holds, Evened
  <2>3. QED BY <2>1, <2>2
<1>7. \A x \in D : ~IsChild(nodes, r, x)
  BY DEF IsChild
<1>8. ASSUME NEW x \in D, \A p \in D : IsChild(nodes, p, x) => p \in {r} PROVE x \in {r}
  BY <1>7, <1>8 DEF Rooted
<1>9. D \subseteq {r}
  BY <1>2, <1>4, <1>8, TopDown
<1>10. D = {r}
  BY <1>4, <1>9
<1>11. [n \in {r} |-> 0] \in LevelsOf(nodes, 0)
  <2> DEFINE f == [n \in {r} |-> 0]
  <2>1. f \in [{r} -> 0..0]
    OBVIOUS
  <2>2. DOMAIN nodes[r].children = {}
    OBVIOUS
  <2> HIDE DEF f
  <2>3. f \in LevelsOf(nodes, 0)
    BY <1>10, <2>1, <2>2 DEF LevelsOf
  <2>4. QED BY <2>3 DEF f
<1> QED
  BY <1>6, <1>10, <1>11

\* The calls that are left: the operations ops, then the blocks from the k-th after c on.
Ops == {"setMapSize", "setNextRoot", "setOjamaPieces", "clear"}
Script(cs, ops, c, k) ==
    /\ Len(cs) = Len(ops) + (Depth - k)
    /\ \A i \in 1..Len(ops) : cs[i].op = ops[i]
    /\ \A i \in 1..Depth - k : cs[Len(ops) + i] = Add(Following(c, k + i - 1))

\* Without a root the core waits for setMapSize; with one the blocks known are added, or the
\* root is to move on, from a tree that starts a block earlier, or the tree is cleared.
Fresh ==
    m_Root = None /\ (calls = <<>> \/ Script(calls, <<"setMapSize">>, current, 0))

Adding(k) ==
    /\ m_Root # None
    /\ Script(calls, <<>>, current, k)
    /\ HasBlocks(node, m_Root, stack, current, k)
    /\ stack # <<>> => k # 0 /\ adding = Following(current, k - 1)

Moving ==
    /\ m_Root # None /\ stack = <<>>
    /\ \/ Script(calls, <<"setNextRoot">>, current, Depth - 1)
       \/ Script(calls, <<"setNextRoot", "setOjamaPieces", "clear">>, current, 0)
    /\ \E base \in 0..Numbers - 1 :
          current = Following(base, 1) /\ HasBlocks(node, m_Root, <<>>, base, Depth)

Clearing ==
    /\ m_Root # None /\ stack = <<>>
    /\ \/ Script(calls, <<"setOjamaPieces", "clear">>, current, 0)
       \/ Script(calls, <<"clear">>, current, 0)

BlockInv == Fresh \/ (\E k \in 0..Depth : Adding(k)) \/ Moving \/ Clearing

\* A script goes on with its next call.
LEMMA ScriptGoesOn ==
    ASSUME NEW cs \in Seq(Call), cs # <<>>, NEW ops \in Seq(Ops), NEW c, NEW k \in 0..Depth,
           Script(cs, ops, c, k)
    PROVE  /\ ops # <<>> => cs[1].op = ops[1] /\ Script(Tail(cs), Tail(ops), c, k)
           /\ ops = <<>> => /\ k + 1 \in 0..Depth /\ cs[1] = Add(Following(c, k))
                            /\ Script(Tail(cs), <<>>, c, k + 1)
<1>1. /\ Len(cs) = Len(ops) + (Depth - k)
      /\ \A i \in 1..Len(ops) : cs[i].op = ops[i]
      /\ \A i \in 1..Depth - k : cs[Len(ops) + i] = Add(Following(c, k + i - 1))
  BY DEF Script
<1>2. Depth \in Nat /\ Len(cs) \in Nat \ {0} /\ Len(ops) \in Nat
  BY NumbersAreMany
<1>3. Len(Tail(cs)) = Len(cs) - 1 /\ \A i \in 1..Len(cs) - 1 : Tail(cs)[i] = cs[i + 1]
  OBVIOUS
<1> DEFINE rest == Tail(cs)
<1> HIDE DEF rest
<1>4. Len(rest) = Len(cs) - 1 /\ \A i \in 1..Len(cs) - 1 : rest[i] = cs[i + 1]
  BY <1>3 DEF rest
<1>5. ASSUME ops # <<>> PROVE cs[1].op = ops[1] /\ Script(rest, Tail(ops), c, k)
  <2>1. Len(ops) \in Nat \ {0} /\ Len(Tail(ops)) = Len(ops) - 1
        /\ \A i \in 1..Len(ops) - 1 : Tail(ops)[i] = ops[i + 1]
    BY <1>5
  <2> DEFINE o == Tail(ops)
  <2> HIDE DEF o
  <2>2. Len(o) = Len(ops) - 1 /\ \A i \in 1..Len(ops) - 1 : o[i] = ops[i + 1]
    BY <2>1 DEF o
  <2>3. Len(rest) = Len(o) + (Depth - k)
    BY <1>1, <1>2, <1>4, <2>1, <2>2
  <2>4. ASSUME NEW i \in 1..Len(o) PROVE rest[i].op = o[i]
    <3>1. i \in 1..Len(ops) - 1 /\ i \in 1..Len(cs) - 1 /\ i + 1 \in 1..Len(ops)
      BY <1>1, <1>2, <2>1, <2>2
    <3>2. QED BY <1>1, <1>4, <2>2, <3>1
  <2>5. ASSUME NEW i \in 1..Depth - k PROVE rest[Len(o) + i] = Add(Following(c, k + i - 1))
    <3>1. Len(o) + i \in 1..Len(cs) - 1 /\ (Len(o) + i) + 1 = Len(ops) + i
      BY <1>1, <1>2, <2>1, <2>2
    <3>2. QED BY <1>1, <1>4, <3>1
  <2>6. cs[1].op = ops[1]
    BY <1>1, <2>1
  <2>7. QED BY <2>3, <2>4, <2>5, <2>6 DEF Script, o
<1>6. ASSUME ops = <<>>
      PROVE  k + 1 \in 0..Depth /\ cs[1] = Add(Following(c, k)) /\ Script(rest, <<>>, c, k + 1)
  <2>1. Len(ops) = 0 /\ Len(<<>>) = 0
    BY <1>6
  <2>2. k + 1 \in 0..Depth /\ Len(rest) = 0 + (Depth - (k + 1))
    BY <1>1, <1>2, <1>4, <2>1
  <2>3. cs[1] = Add(Following(c, k))
    <3>1. 1 \in 1..Depth - k /\ k + 1 - 1 = k /\ 0 + 1 = 1
      BY <1>2, <2>2
    <3>2. QED BY <1>1, <2>1, <3>1
  <2>4. ASSUME NEW i \in 1..Depth - (k + 1) PROVE rest[0 + i] = Add(Following(c, (k + 1) + i - 1))
    <3>1. i + 1 \in 1..Depth - k /\ i \in 1..Len(cs) - 1 /\ 0 + i = i /\ 0 + (i + 1) = i + 1
      BY <1>1, <1>2, <2>1, <2>2
    <3>2. k + (i + 1) - 1 = (k + 1) + i - 1
      BY <1>2
    <3>3. rest[i] = cs[i + 1]
      BY <1>4, <3>1
    <3>4. QED BY <1>1, <2>1, <3>1, <3>2, <3>3
  <2>5. \A i \in 1..Len(<<>>) : rest[i].op = <<>>[i]
    BY <2>1
  <2>6. QED BY <2>1, <2>2, <2>3, <2>4, <2>5 DEF Script
<1> QED
  BY <1>5, <1>6 DEF rest

\* The call that is next says where the script is.
LEMMA CallTellsPhase ==
    ASSUME TreeInv, BlockInv, calls # <<>>, stack = <<>>, Return
    PROVE  /\ Head(calls).op = "setMapSize" => Script(calls', <<>>, current, 0)
           /\ Head(calls).op = "addNextBlock" =>
                 \E k \in 0..Depth : /\ Adding(k) /\ k + 1 \in 0..Depth /\ Script(calls', <<>>, current, k + 1)
                                     /\ Head(calls).block = Following(current, k)
           /\ Head(calls).op = "setNextRoot" =>
                 Moving /\ \/ Script(calls', <<>>, current, Depth - 1)
                           \/ Script(calls', <<"setOjamaPieces", "clear">>, current, 0)
           /\ Head(calls).op = "setOjamaPieces" => Script(calls', <<"clear">>, current, 0)
           /\ Head(calls).op = "clear" => Script(calls', <<>>, current, 0)
<1>1. calls \in Seq(Call) /\ calls' = Tail(calls) /\ Head(calls) = calls[1]
  BY RestOfCalls DEF TreeInv, Return
<1>2. 0 \in 0..Depth /\ Depth - 1 \in 0..Depth
  BY NumbersAreMany
<1>3. ASSUME NEW ops \in Seq(Ops), NEW k \in 0..Depth, Script(calls, ops, current, k)
      PROVE  /\ ops # <<>> => Head(calls).op = ops[1] /\ Script(calls', Tail(ops), current, k)
             /\ ops = <<>> => /\ k + 1 \in 0..Depth /\ Head(calls) = Add(Following(current, k))
                              /\ Script(calls', <<>>, current, k + 1)
  <2>1. PICK cs : cs = calls
    OBVIOUS
  <2>2. PICK c : c = current
    OBVIOUS
  <2>3. cs \in Seq(Call) /\ cs # <<>> /\ Script(cs, ops, c, k)
    BY <1>1, <1>3, <2>1, <2>2
  <2>4. /\ ops # <<>> => cs[1].op = ops[1] /\ Script(Tail(cs), Tail(ops), c, k)
        /\ ops = <<>> => /\ k + 1 \in 0..Depth /\ cs[1] = Add(Following(c, k))
                         /\ Script(Tail(cs), <<>>, c, k + 1)
    BY <2>3, ScriptGoesOn
  <2>5. QED BY <1>1, <2>1, <2>2, <2>4
<1>4. ASSUME NEW o \in Ops, NEW k \in 0..Depth, Script(calls, <<o>>, current, k)
      PROVE  Head(calls).op = o /\ Script(calls', <<>>, current, k)
  <2>1. <<o>> \in Seq(Ops) /\ <<o>> # <<>> /\ <<o>>[1] = o /\ Tail(<<o>>) = <<>>
    OBVIOUS
  <2>2. QED BY <1>3, <1>4, <2>1
<1>5. ASSUME NEW o \in Ops, NEW p \in Ops, Script(calls, <<o, p>>, current, 0)
      PROVE  Head(calls).op = o /\ Script(calls', <<p>>, current, 0)
  <2>1. <<o, p>> \in Seq(Ops) /\ <<o, p>> # <<>> /\ <<o, p>>[1] = o /\ Tail(<<o, p>>) = <<p>>
    OBVIOUS
  <2>2. QED BY <1>2, <1>3, <1>5, <2>1
<1>6. ASSUME NEW o \in Ops, NEW p \in Ops, NEW q \in Ops, Script(calls, <<o, p, q>>, current, 0)
      PROVE  Head(calls).op = o /\ Script(calls', <<p, q>>, current, 0)
  <2>1. <<o, p, q>> \in Seq(Ops) /\ <<o, p, q>> # <<>> /\ <<o, p, q>>[1] = o /\ Tail(<<o, p, q>>) = <<p, q>>
    OBVIOUS
  <2>2. QED BY <1>2, <1>3, <1>6, <2>1
<1>7. "setMapSize" \in Ops /\ "setNextRoot" \in Ops /\ "setOjamaPieces" \in Ops /\ "clear" \in Ops
  BY DEF Ops
<1>8. CASE Fresh
  <2>1. Script(calls, <<"setMapSize">>, current, 0)
    BY <1>8 DEF Fresh
  <2>2. Head(calls).op = "setMapSize" /\ Script(calls', <<>>, current, 0)
    BY <1>2, <1>4, <1>7, <2>1
  <2>3. QED BY <2>2
<1>9. ASSUME NEW k \in 0..Depth, Adding(k)
      PROVE  /\ Head(calls).op = "addNextBlock" /\ k + 1 \in 0..Depth
             /\ Head(calls).block = Following(current, k) /\ Script(calls', <<>>, current, k + 1)
  <2>1. Script(calls, <<>>, current, k) /\ <<>> \in Seq(Ops)
    BY <1>9 DEF Adding
  <2>2. k + 1 \in 0..Depth /\ Head(calls) = Add(Following(current, k)) /\ Script(calls', <<>>, current, k + 1)
    BY <1>3, <2>1
  <2>3. QED BY <2>2 DEF Add
<1>10. CASE Moving
  <2>1. CASE Script(calls, <<"setNextRoot">>, current, Depth - 1)
    <3>1. Head(calls).op = "setNextRoot" /\ Script(calls', <<>>, current, Depth - 1)
      BY <1>2, <1>4, <1>7, <2>1
    <3>2. QED BY <1>10, <3>1
  <2>2. CASE Script(calls, <<"setNextRoot", "setOjamaPieces", "clear">>, current, 0)
    <3>1. Head(calls).op = "setNextRoot" /\ Script(calls', <<"setOjamaPieces", "clear">>, current, 0)
      BY <1>6, <1>7, <2>2
    <3>2. QED BY <1>10, <3>1
  <2>3. QED BY <1>10, <2>1, <2>2 DEF Moving
<1>11. CASE Clearing
  <2>1. CASE Script(calls, <<"setOjamaPieces", "clear">>, current, 0)
    <3>1. Head(calls).op = "setOjamaPieces" /\ Script(calls', <<"clear">>, current, 0)
      BY <1>5, <1>7, <2>1
    <3>2. QED BY <3>1
  <2>2. CASE Script(calls, <<"clear">>, current, 0)
    <3>1. Head(calls).op = "clear" /\ Script(calls', <<>>, current, 0)
      BY <1>2, <1>4, <1>7, <2>2
    <3>2. QED BY <3>1
  <2>3. QED BY <1>11, <2>1, <2>2 DEF Clearing
<1> QED
  BY <1>8, <1>9, <1>10, <1>11 DEF BlockInv

LEMMA InitBlocks == Init => BlockInv
  BY DEF Init, BlockInv, Fresh

LEMMA SetMapSizeKeepsBlocks ==
    ASSUME TreeInv, BlockInv, SetMapSize
    PROVE  BlockInv'
<1>1. calls # <<>> /\ stack = <<>> /\ Return /\ Head(calls).op = "setMapSize" /\ stack' = stack /\ current' = current
  BY DEF SetMapSize, Calls
<1>2. Script(calls', <<>>, current, 0)
  BY <1>1, CallTellsPhase
<1>3. m_Root' # None /\ DOMAIN node' = {m_Root'} /\ [n \in {m_Root'} |-> 0] \in LevelsOf(node', 0)
  BY SetMapSizeKeeps
<1>4. HasBlocks(node', m_Root', <<>>, current, 0)
  <2>1. PICK nodes : nodes = node'
    OBVIOUS
  <2>2. PICK r : r = m_Root'
    OBVIOUS
  <2>3. PICK c : c = current
    OBVIOUS
  <2>4. HasBlocks(nodes, r, <<>>, c, 0)
    BY <1>3, <2>1, <2>2, BlocksOfBareRoot
  <2>5. QED BY <2>1, <2>2, <2>3, <2>4
<1>5. 0 \in 0..Depth
  BY NumbersAreMany
<1> QED
  BY <1>1, <1>2, <1>3, <1>4, <1>5 DEF BlockInv, Adding

LEMMA AddNextBlockKeepsBlocks ==
    ASSUME TreeInv, BlockInv, AddNextBlock
    PROVE  BlockInv'
<1>1. /\ calls # <<>> /\ stack = <<>> /\ Return /\ Head(calls).op = "addNextBlock"
      /\ adding' = Head(calls).block
      /\ stack' = IF m_Root = None THEN <<>> ELSE <<m_Root>>
      /\ m_Root' = m_Root /\ node' = node /\ current' = current
  BY DEF AddNextBlock, Calls, core
<1>2. PICK k \in 0..Depth : /\ Adding(k) /\ k + 1 \in 0..Depth /\ Script(calls', <<>>, current, k + 1)
                            /\ Head(calls).block = Following(current, k)
  BY <1>1, CallTellsPhase
<1>3. m_Root # None /\ HasBlocks(node, m_Root, <<>>, current, k)
  BY <1>1, <1>2 DEF Adding
<1>4. HasBlocks(node, m_Root, <<m_Root>>, current, k + 1)
  <2>1. PICK nodes : nodes = node
    OBVIOUS
  <2>2. PICK r : r = m_Root
    OBVIOUS
  <2>3. PICK c : c = current
    OBVIOUS
  <2>4. k \in Nat /\ Rooted(nodes, r) /\ HasBlocks(nodes, r, <<>>, c, k)
    BY <1>3, <2>1, <2>2, <2>3, NumbersAreMany DEF TreeInv
  <2>5. HasBlocks(nodes, r, <<r>>, c, k + 1)
    BY <2>4, RootAwaited
  <2>6. QED BY <2>1, <2>2, <2>3, <2>5
<1>5. (k + 1) - 1 = k /\ k + 1 # 0
  BY NumbersAreMany
<1>6. Adding(k + 1)'
  BY <1>1, <1>2, <1>3, <1>4, <1>5 DEF Adding
<1> QED
  BY <1>2, <1>6 DEF BlockInv

\* While the stack is in use blocks are added.
LEMMA StackTellsPhase ==
    ASSUME TreeInv, BlockInv, stack # <<>>
    PROVE  \E k \in 0..Depth : Adding(k) /\ k # 0 /\ adding = Following(current, k - 1)
<1>1. ~Fresh
  BY DEF Fresh, TreeInv
<1>2. ~Moving /\ ~Clearing
  BY DEF Moving, Clearing
<1>3. PICK k \in 0..Depth : Adding(k)
  BY <1>1, <1>2 DEF BlockInv
<1> QED
  BY <1>3 DEF Adding

LEMMA DescendKeepsBlocks ==
    ASSUME TreeInv, BlockInv, Descend
    PROVE  BlockInv'
<1>1. /\ stack # <<>> /\ node[Last(stack)].children # <<>>
      /\ stack' = Front(stack) \o node[Last(stack)].children
      /\ m_Root' = m_Root /\ node' = node /\ adding' = adding /\ calls' = calls /\ current' = current
  BY DEF Descend, core, Children, Now
<1>2. PICK k \in 0..Depth : Adding(k) /\ k # 0 /\ adding = Following(current, k - 1)
  BY <1>1, StackTellsPhase
<1>3. HasBlocks(node, m_Root, stack', current, k)
  <2>1. PICK nodes : nodes = node
    OBVIOUS
  <2>2. PICK r : r = m_Root
    OBVIOUS
  <2>3. PICK c : c = current
    OBVIOUS
  <2>4. PICK st : st = stack
    OBVIOUS
  <2>5. /\ Linked(nodes) /\ st \in Seq(DOMAIN nodes) /\ st # <<>> /\ nodes[Last(st)].children # <<>>
        /\ HasBlocks(nodes, r, st, c, k)
    BY <1>1, <1>2, <2>1, <2>2, <2>3, <2>4, StackHasRoot DEF Adding, TreeInv
  <2>6. HasBlocks(nodes, r, Front(st) \o nodes[Last(st)].children, c, k)
    BY <2>5, BlocksWhileDescending
  <2>7. QED BY <1>1, <2>1, <2>2, <2>3, <2>4, <2>6
<1>4. Adding(k)'
  BY <1>1, <1>2, <1>3 DEF Adding
<1> QED
  BY <1>4 DEF BlockInv

LEMMA CalcNextStepKeepsBlocks ==
    ASSUME TreeInv, BlockInv, CalcNextStep
    PROVE  BlockInv'
<1>1. /\ stack # <<>> /\ node[Last(stack)].children = <<>> /\ stack' = Front(stack)
      /\ m_Root' = m_Root /\ adding' = adding /\ calls' = calls /\ current' = current
  BY DEF CalcNextStep, Children, Now
<1>2. PICK k \in 0..Depth : Adding(k) /\ k # 0 /\ adding = Following(current, k - 1)
  BY <1>1, StackTellsPhase
<1>3. TreeInv' /\ Calculated(node, Last(stack), adding, node')
  BY CalcNextStepKeeps
<1>4. HasBlocks(node', m_Root, stack', current, k)
  <2>1. PICK old : old = node
    OBVIOUS
  <2>2. PICK r : r = m_Root
    OBVIOUS
  <2>3. PICK c : c = current
    OBVIOUS
  <2>4. PICK st : st = stack
    OBVIOUS
  <2>5. PICK new : new = node'
    OBVIOUS
  <2>6. Linked(old) /\ r \in DOMAIN old /\ st \in Seq(DOMAIN old) /\ st # <<>> /\ old[Last(st)].children = <<>>
    <3>1. m_Root # None /\ stack \in Seq(DOMAIN node)
      BY <1>1 DEF TreeInv
    <3>2. QED BY <1>1, <2>1, <2>2, <2>4, <3>1, TreeIsGood
  <2>7. k \in Nat \ {0} /\ HasBlocks(old, r, st, c, k)
    BY <1>2, <2>1, <2>2, <2>3, <2>4, NumbersAreMany DEF Adding
  <2>8. Linked(new)
    <3>1. m_Root' # None
      BY <1>1 DEF TreeInv
    <3>2. Rooted(node', m_Root')
      BY <1>3, <3>1 DEF TreeInv
    <3>3. QED BY <2>5, <3>2 DEF Rooted
  <2>9. Calculated(old, Last(st), Following(c, k - 1), new)
    BY <1>2, <1>3, <2>1, <2>3, <2>4, <2>5
  <2>10. HasBlocks(new, r, Front(st), c, k)
    BY <2>6, <2>7, <2>8, <2>9, BlocksAfterCalculation
  <2>11. QED BY <1>1, <2>2, <2>3, <2>4, <2>5, <2>10
<1>5. Adding(k)'
  BY <1>1, <1>2, <1>4 DEF Adding
<1> QED
  BY <1>5 DEF BlockInv

LEMMA SetNextRootKeepsBlocks ==
    ASSUME TreeInv, BlockInv, SetNextRoot
    PROVE  BlockInv'
<1>1. /\ calls # <<>> /\ stack = <<>> /\ Return /\ Head(calls).op = "setNextRoot"
      /\ stack' = stack /\ adding' = adding /\ current' = current
  BY DEF SetNextRoot, Calls
<1>2. Moving /\ \/ Script(calls', <<>>, current, Depth - 1)
                \/ Script(calls', <<"setOjamaPieces", "clear">>, current, 0)
  BY <1>1, CallTellsPhase
<1>3. m_Root # None
  BY <1>2 DEF Moving
<1>4. PICK base \in 0..Numbers - 1 : current = Following(base, 1) /\ HasBlocks(node, m_Root, <<>>, base, Depth)
  BY <1>2 DEF Moving
<1>5. /\ TreeInv'
      /\ \/ /\ m_Root' = m_Root /\ node' = node
            /\ node[m_Root].children = <<>>
         \/ m_Root' # None /\ Descended(node, m_Root, m_Root', node')
  BY <1>3, SetNextRootKeeps
<1>6. m_Root' # None
  BY <1>3, <1>5
<1>7. HasBlocks(node', m_Root', <<>>, current, Depth - 1)
  <2>1. PICK old : old = node
    OBVIOUS
  <2>2. PICK r : r = m_Root
    OBVIOUS
  <2>3. PICK c : c = current
    OBVIOUS
  <2>4. PICK new : new = node'
    OBVIOUS
  <2>5. PICK best : best = m_Root'
    OBVIOUS
  <2>6. /\ Rooted(old, r) /\ Rooted(new, best) /\ HasBlocks(old, r, <<>>, base, Depth)
        /\ Depth \in Nat \ {0} /\ base \in Nat /\ c = Following(base, 1)
    <3>1. Rooted(node, m_Root)
      BY <1>3 DEF TreeInv
    <3>2. Rooted(node', m_Root')
      BY <1>5, <1>6 DEF TreeInv
    <3>3. QED BY <1>4, <2>1, <2>2, <2>3, <2>4, <2>5, <3>1, <3>2, NumbersAreMany
  <2>7. CASE m_Root' = m_Root /\ node' = node /\ node[m_Root].children = <<>>
    <3>1. old[r].children = <<>> /\ new = old /\ best = r
      BY <2>1, <2>2, <2>4, <2>5, <2>7
    <3>2. DOMAIN old = {r} /\ old[r].full /\ [n \in {r} |-> 0] \in LevelsOf(old, 0)
      BY <2>6, <3>1, ChildlessRootIsFull
    <3>3. HasBlocks(old, r, <<>>, c, Depth - 1)
      BY <3>2, BlocksOfBareRoot
    <3>4. QED BY <2>3, <2>4, <2>5, <3>1, <3>3
  <2>8. CASE Descended(node, m_Root, m_Root', node')
    <3>1. Descended(old, r, best, new)
      BY <2>1, <2>2, <2>4, <2>5, <2>8
    <3>2. HasBlocks(new, best, <<>>, Following(base, 1), Depth - 1)
      BY <2>6, <3>1, BlocksAfterMove
    <3>3. QED BY <2>3, <2>4, <2>5, <2>6, <3>2
  <2>9. QED BY <1>5, <2>7, <2>8
<1>8. CASE Script(calls', <<>>, current, Depth - 1)
  <2>1. Depth - 1 \in 0..Depth
    BY NumbersAreMany
  <2>2. Adding(Depth - 1)'
    BY <1>1, <1>6, <1>7, <1>8 DEF Adding
  <2>3. QED BY <2>1, <2>2 DEF BlockInv
<1>9. CASE Script(calls', <<"setOjamaPieces", "clear">>, current, 0)
  BY <1>1, <1>6, <1>9 DEF BlockInv, Clearing
<1> QED
  BY <1>2, <1>8, <1>9

LEMMA SetOjamaPiecesKeepsBlocks ==
    ASSUME TreeInv, BlockInv, SetOjamaPieces
    PROVE  BlockInv'
<1>1. calls # <<>> /\ stack = <<>> /\ Return /\ Head(calls).op = "setOjamaPieces" /\ stack' = stack /\ current' = current
  BY DEF SetOjamaPieces, Calls
<1>2. Script(calls', <<"clear">>, current, 0)
  BY <1>1, CallTellsPhase
<1>3. m_Root' # None
  BY SetOjamaPiecesKeeps
<1> QED
  BY <1>1, <1>2, <1>3 DEF BlockInv, Clearing

LEMMA ClearKeepsBlocks ==
    ASSUME TreeInv, BlockInv, Clear
    PROVE  BlockInv'
<1>1. calls # <<>> /\ stack = <<>> /\ Return /\ Head(calls).op = "clear" /\ stack' = stack /\ current' = current
  BY DEF Clear, Calls
<1>2. Script(calls', <<>>, current, 0)
  BY <1>1, CallTellsPhase
<1>3. m_Root' # None /\ DOMAIN node' = {m_Root'} /\ [n \in {m_Root'} |-> 0] \in LevelsOf(node', 0)
  BY ClearKeeps
<1>4. HasBlocks(node', m_Root', <<>>, current, 0)
  <2>1. PICK nodes : nodes = node'
    OBVIOUS
  <2>2. PICK r : r = m_Root'
    OBVIOUS
  <2>3. PICK c : c = current
    OBVIOUS
  <2>4. HasBlocks(nodes, r, <<>>, c, 0)
    BY <1>3, <2>1, <2>2, BlocksOfBareRoot
  <2>5. QED BY <2>1, <2>2, <2>3, <2>4
<1>5. 0 \in 0..Depth
  BY NumbersAreMany
<1> QED
  BY <1>1, <1>2, <1>3, <1>4, <1>5 DEF BlockInv, Adding

LEMMA InitializeKeepsBlocks ==
    ASSUME TreeInv, BlockInv, Initialize
    PROVE  BlockInv'
<1> DEFINE f == [i \in 1..Depth |-> Add(Following(current, i - 1))]
           a == [op |-> "setMapSize"]
<1>1. m_Root' = None /\ current' = current /\ calls' = <<a>> \o f
  BY DEF Initialize, core
<1>2. f \in Seq(Call) /\ a \in Call /\ Depth \in Nat
  <2>1. current \in Nat
    BY NumbersAreMany DEF TreeInv
  <2>2. PICK c : c = current
    OBVIOUS
  <2>3. [i \in 1..Depth |-> Add(Following(c, i - 1))] \in Seq(Call) /\ Depth \in Nat
    BY <2>1, <2>2, NumbersAreMany, AddsAreCalls
  <2>4. QED BY <2>2, <2>3 DEF Call
<1>3. Len(f) = Depth /\ \A i \in 1..Depth : f[i] = Add(Following(current, i - 1))
  BY <1>2
<1> HIDE DEF f
<1>4. /\ calls' \in Seq(Call) /\ DOMAIN calls' = 1..Len(f) + 1 /\ calls'[1] = a
      /\ \A i \in 1..Len(f) : calls'[i + 1] = f[i]
  BY <1>1, <1>2, OneInFront
<1>5. Script(calls', <<"setMapSize">>, current, 0)
  <2>1. Len(calls') = 1 + (Depth - 0)
    <3>1. DOMAIN calls' = 1..Len(calls') /\ Len(calls') \in Nat
      BY <1>4
    <3>2. QED BY <1>2, <1>3, <1>4, <3>1
  <2>2. ASSUME NEW i \in 1..Depth - 0 PROVE calls'[1 + i] = Add(Following(current, 0 + i - 1))
    <3>1. i \in 1..Depth /\ 1 + i = i + 1 /\ 0 + i - 1 = i - 1
      BY <1>2
    <3>2. QED BY <1>3, <1>4, <3>1
  <2>3. Len(<<"setMapSize">>) = 1 /\ <<"setMapSize">>[1] = "setMapSize"
    OBVIOUS
  <2>4. \A i \in 1..1 : calls'[i].op = <<"setMapSize">>[i]
    BY <1>4, <2>3
  <2>5. QED BY <2>1, <2>2, <2>3, <2>4 DEF Script
<1> QED
  BY <1>1, <1>5 DEF BlockInv, Fresh

\* A handler finds all blocks that are known in the tree.
LEMMA IdleHasAll ==
    ASSUME TreeInv, BlockInv, Idle, m_Root # None
    PROVE  HasBlocks(node, m_Root, <<>>, current, Depth)
<1>1. calls = <<>> /\ stack = <<>> /\ Len(calls) = 0
  BY DEF Idle
<1>2. Len(<<"setNextRoot">>) = 1 /\ Len(<<"setNextRoot", "setOjamaPieces", "clear">>) = 3
      /\ Len(<<"setOjamaPieces", "clear">>) = 2 /\ Len(<<"clear">>) = 1
      /\ Depth - (Depth - 1) = 1 /\ Depth - 0 = Depth /\ Depth \in Nat /\ Depth >= 2
  BY NumbersAreMany
<1>3. ~Fresh
  BY DEF Fresh
<1>4. ~Moving /\ ~Clearing
  BY <1>1, <1>2 DEF Moving, Clearing, Script
<1>5. PICK k \in 0..Depth : Adding(k)
  BY <1>3, <1>4 DEF BlockInv
<1>6. 0 = Len(<<>>) + (Depth - k)
  BY <1>1, <1>5 DEF Adding, Script
<1>7. k = Depth
  BY <1>2, <1>6
<1> QED
  BY <1>1, <1>5, <1>7 DEF Adding

LEMMA OnNewBlockKeepsBlocks ==
    ASSUME TreeInv, BlockInv, OnNewBlock
    PROVE  BlockInv'
<1>1. /\ Idle /\ m_Root # None /\ current' = Following(current, 1)
      /\ m_Root' = m_Root /\ node' = node /\ stack' = stack /\ stack = <<>>
  BY DEF OnNewBlock, Idle, core
<1>2. HasBlocks(node, m_Root, <<>>, current, Depth) /\ current \in 0..Numbers - 1
  BY <1>1, IdleHasAll DEF TreeInv
<1>3. HasBlocks(node', m_Root', <<>>, current, Depth)
  BY <1>1, <1>2
<1>4. PICK c : c = current'
  OBVIOUS
<1>5. c \in Nat
  <2>1. current \in Nat /\ Numbers \in Nat
    BY <1>2, NumbersAreMany
  <2>2. Following(current, 1) \in 0..Numbers - 1
    BY <2>1, FollowingAdds
  <2>3. QED BY <1>1, <1>4, <2>1, <2>2
<1>6. PICK ojama \in BOOLEAN :
         calls' = <<[op |-> "setNextRoot"]>>
                  \o (IF ojama
                        THEN <<[op |-> "setOjamaPieces"], [op |-> "clear"]>> \o Rebuilt(c)
                        ELSE <<>>)
                  \o <<Add(Following(c, Depth - 1))>>
  BY <1>4 DEF OnNewBlock
<1> DEFINE x == [op |-> "setNextRoot"]
           y == [op |-> "setOjamaPieces"]
           z == [op |-> "clear"]
           e == Add(Following(c, Depth - 1))
           q == Rebuilt(c)
<1>7. x \in Call /\ y \in Call /\ z \in Call /\ x.op = "setNextRoot" /\ y.op = "setOjamaPieces" /\ z.op = "clear"
  BY DEF Call
<1>8. Depth \in Nat /\ Depth - 1 \in Nat /\ Depth >= 2
  BY NumbersAreMany
<1>9. [i \in 1..Depth - 1 |-> Add(Following(c, i - 1))] \in Seq(Call) /\ e \in Call
  BY <1>5, <1>8, AddsAreCalls
<1>10. q \in Seq(Call) /\ Len(q) = Depth - 1 /\ \A i \in 1..Depth - 1 : q[i] = Add(Following(c, i - 1))
  BY <1>8, <1>9 DEF Rebuilt
<1>11. CASE ~ojama
  <2>1. calls' = <<x>> \o <<>> \o <<e>>
    BY <1>6, <1>11
  <2> HIDE DEF x, y, z, q
  <2>2. Len(calls') = 2 /\ calls'[1] = x /\ calls'[2] = e
    <3> HIDE DEF e
    <3>1. QED BY <2>1
  <2>3. Script(calls', <<"setNextRoot">>, current', Depth - 1)
    <3>1. Depth - (Depth - 1) = 1
      BY <1>8
    <3>2. Len(<<"setNextRoot">>) = 1 /\ <<"setNextRoot">>[1] = "setNextRoot"
      OBVIOUS
    <3>3. \A i \in 1..1 : calls'[1 + i] = Add(Following(c, (Depth - 1) + i - 1))
      <4>1. (Depth - 1) + 1 - 1 = Depth - 1 /\ 1 + 1 = 2
        BY <1>8
      <4>2. calls'[1 + 1] = Add(Following(c, (Depth - 1) + 1 - 1))
        BY <2>2, <4>1
      <4>3. QED BY <4>2
    <3>4. \A i \in 1..1 : calls'[i].op = <<"setNextRoot">>[i]
      BY <1>7, <2>2, <3>2
    <3>5. Len(calls') = 1 + 1
      BY <2>2
    <3>6. QED BY <1>4, <3>1, <3>2, <3>3, <3>4, <3>5 DEF Script
  <2>4. QED BY <1>1, <1>2, <1>3, <2>3 DEF BlockInv, Moving
<1>12. CASE ojama
  <2>1. calls' = <<x>> \o (<<y, z>> \o q) \o <<e>>
    BY <1>6, <1>12
  <2> DEFINE d == Len(q)
  <2> HIDE DEF x, y, z, q, e
  <2>2. /\ Len(calls') = d + 4 /\ calls'[1] = x /\ calls'[2] = y /\ calls'[3] = z
        /\ (\A i \in 1..d : calls'[3 + i] = q[i]) /\ calls'[d + 4] = e
    <3> DEFINE m == <<y, z>> \o q
               l == <<x>> \o m
    <3>1. m \in Seq(Call) /\ Len(m) = d + 2 /\ m[1] = y /\ m[2] = z /\ \A i \in 1..d : m[2 + i] = q[i]
      BY <1>7, <1>10
    <3> HIDE DEF m
    <3>2. l \in Seq(Call) /\ Len(l) = Len(m) + 1 /\ l[1] = x /\ \A i \in 1..Len(m) : l[i + 1] = m[i]
      BY <1>7, <3>1
    <3>3. calls' = l \o <<e>>
      BY <2>1 DEF m
    <3> HIDE DEF l
    <3>4. d \in Nat
      BY <1>10
    <3>5. Len(l) = d + 3 /\ l[1] = x /\ l[2] = y /\ l[3] = z /\ \A i \in 1..d : l[3 + i] = q[i]
      <4>1. Len(m) = d + 2 /\ 1 \in 1..Len(m) /\ 2 \in 1..Len(m)
        BY <3>1, <3>4
      <4>2. l[1 + 1] = y /\ l[2 + 1] = z
        BY <3>1, <3>2, <4>1
      <4>3. ASSUME NEW i \in 1..d PROVE l[3 + i] = q[i]
        <5>1. 2 + i \in 1..Len(m) /\ (2 + i) + 1 = 3 + i
          BY <3>4, <4>1
        <5>2. QED BY <3>1, <3>2, <5>1
      <4>4. QED BY <3>2, <3>4, <4>1, <4>2, <4>3
    <3>6. /\ Len(calls') = Len(l) + 1 /\ calls'[Len(l) + 1] = e
          /\ \A i \in 1..Len(l) : calls'[i] = l[i]
      BY <1>9, <3>2, <3>3
    <3>7. \A i \in 1..d : 3 + i \in 1..Len(l)
      BY <3>4, <3>5
    <3>8. 1 \in 1..Len(l) /\ 2 \in 1..Len(l) /\ 3 \in 1..Len(l) /\ Len(l) + 1 = d + 4
      BY <3>4, <3>5
    <3>9. QED BY <3>5, <3>6, <3>7, <3>8
  <2>3. d = Depth - 1 /\ d + 4 = 3 + Depth
    BY <1>8, <1>10
  <2> HIDE DEF d
  <2>4. Script(calls', <<"setNextRoot", "setOjamaPieces", "clear">>, current', 0)
    <3> DEFINE o == <<"setNextRoot", "setOjamaPieces", "clear">>
    <3>1. Len(o) = 3 /\ o[1] = "setNextRoot" /\ o[2] = "setOjamaPieces" /\ o[3] = "clear"
      OBVIOUS
    <3> HIDE DEF o
    <3>2. \A i \in 1..3 : calls'[i].op = o[i]
      <4>1. calls'[1].op = o[1] /\ calls'[2].op = o[2] /\ calls'[3].op = o[3]
        BY <1>7, <2>2, <3>1
      <4>2. \A i \in 1..3 : i = 1 \/ i = 2 \/ i = 3
        OBVIOUS
      <4>3. QED BY <4>1, <4>2
    <3>3. ASSUME NEW i \in 1..Depth PROVE calls'[3 + i] = Add(Following(c, 0 + i - 1))
      <4>1. 0 + i - 1 = i - 1
        BY <1>8
      <4>2. CASE i = Depth
        <5>1. calls'[3 + i] = e
          BY <2>2, <2>3, <4>2
        <5>2. QED BY <4>1, <4>2, <5>1 DEF e
      <4>3. CASE i # Depth
        <5>1. i \in 1..Depth - 1
          BY <1>8, <4>3
        <5>2. calls'[3 + i] = q[i] /\ q[i] = Add(Following(c, i - 1))
          BY <1>10, <2>2, <2>3, <5>1
        <5>3. QED BY <4>1, <5>2
      <4>4. QED BY <4>2, <4>3
    <3>4. Depth - 0 = Depth /\ Len(calls') = 3 + Depth
      BY <1>8, <2>2, <2>3
    <3>5. Script(calls', o, c, 0)
      BY <3>1, <3>2, <3>3, <3>4 DEF Script
    <3>6. QED BY <1>4, <3>5 DEF o
  <2>5. QED BY <1>1, <1>2, <1>3, <2>4 DEF BlockInv, Moving
<1> QED
  BY <1>11, <1>12

LEMMA NextKeepsBlocks == TreeInv /\ BlockInv /\ [Next]_vars => BlockInv'
<1> SUFFICES ASSUME TreeInv, BlockInv, [Next]_vars PROVE BlockInv'
  OBVIOUS
<1>1. CASE SetMapSize
  BY <1>1, SetMapSizeKeepsBlocks
<1>2. CASE AddNextBlock
  BY <1>2, AddNextBlockKeepsBlocks
<1>3. CASE Descend
  BY <1>3, DescendKeepsBlocks
<1>4. CASE CalcNextStep
  BY <1>4, CalcNextStepKeepsBlocks
<1>5. CASE SetNextRoot
  BY <1>5, SetNextRootKeepsBlocks
<1>6. CASE SetOjamaPieces
  BY <1>6, SetOjamaPiecesKeepsBlocks
<1>7. CASE Clear
  BY <1>7, ClearKeepsBlocks
<1>8. CASE Initialize
  BY <1>8, InitializeKeepsBlocks
<1>9. CASE OnNewBlock
  BY <1>9, OnNewBlockKeepsBlocks
<1>10. CASE ClearCore
  BY <1>10 DEF ClearCore, Idle, BlockInv, Fresh
<1>11. CASE UNCHANGED vars
  BY <1>11 DEF vars, core, BlockInv, Fresh, Adding, Moving, Clearing
<1> QED
  BY <1>1, <1>2, <1>3, <1>4, <1>5, <1>6, <1>7, <1>8, <1>9, <1>10, <1>11 DEF Next, Run

LEMMA BlocksAlways == Spec => []BlockInv
<1> QED
  BY InitBlocks, NextKeepsBlocks, TreeAlways, PTL DEF Spec

\* A line of placements uses the blocks in the order they are dealt: however the calls of the
\* handlers, the search and the moves to the best child follow each other, once the calls are
\* made the root's children place the block that moves, and every other child the one after
\* its parent's.
THEOREM LinesFollowTheDeal == Spec => []BlocksInOrder
<1>1. TreeInv /\ BlockInv => BlocksInOrder
  <2> SUFFICES ASSUME TreeInv, BlockInv, Idle, m_Root # None,
                      NEW n \in Reachable, NEW c \in ToSet(node[n].children)
               PROVE  node[c].block = IF n = m_Root THEN current ELSE Following(node[n].block, 1)
    BY DEF BlocksInOrder, Idle
  <2>1. n \in DOMAIN node /\ Linked(node) /\ current \in Nat /\ current < Numbers
    BY AllIsReachable, TreeIsGood, NumbersAreMany DEF TreeInv
  <2>2. PICK K \in Nat : \E level \in LevelsOf(node, K) : Ordered(node, m_Root, current, level)
    BY IdleHasAll DEF HasBlocks, Holds
  <2>3. PICK level \in LevelsOf(node, K) : Ordered(node, m_Root, current, level)
    BY <2>2
  <2>4. PICK i \in DOMAIN node[n].children : node[n].children[i] = c
    BY DEF ToSet
  <2>5. c \in DOMAIN node
    BY <2>1, <2>4, ChildrenAreNodes
  <2>6. /\ level[c] = level[n] + 1 /\ level[n] \in Nat
    BY <2>1, <2>4, <2>5 DEF LevelsOf
  <2>7. /\ level[m_Root] = 0
        /\ \A x \in DOMAIN node \ {m_Root} : level[x] # 0 /\ node[x].block = Following(current, level[x] - 1)
    BY <2>3 DEF Ordered
  <2>8. c # m_Root /\ node[c].block = Following(current, level[n])
    <3>1. level[c] # 0 /\ level[c] - 1 = level[n]
      BY <2>6
    <3>2. QED BY <2>5, <2>7, <3>1
  <2>9. CASE n = m_Root
    BY <2>1, <2>7, <2>8, <2>9, FollowingAdds
  <2>10. CASE n # m_Root
    <3>1. level[n] # 0 /\ node[n].block = Following(current, level[n] - 1)
      BY <2>1, <2>7, <2>10
    <3>2. level[n] - 1 \in Nat /\ (level[n] - 1) + 1 = level[n]
      BY <2>6, <3>1
    <3>3. PICK j \in Nat : j = level[n] - 1
      BY <3>2
    <3>4. Following(Following(current, j), 1) = Following(current, j + 1)
      BY <2>1, FollowingAdds
    <3>5. Following(node[n].block, 1) = Following(current, level[n])
      BY <3>1, <3>2, <3>3, <3>4
    <3>6. QED BY <2>8, <2>10, <3>5
  <2>11. QED BY <2>9, <2>10
<1> QED
  BY <1>1, TreeAlways, BlocksAlways, PTL

================================================================================
