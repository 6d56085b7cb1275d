------------------------------ MODULE PuzzlePools ------------------------------
(* The memory of the search tree (PuzzleAllocator and m_Alloc of PuzzleAI.cpp): a   *)
(* list of pools of equal size, each with the list of its free blocks.  A node is   *)
(* the pool and the block it lies in.  Of a free list only how often it holds a     *)
(* block matters, not the order of the blocks.                                      *)
EXTENDS Naturals, Sequences

CONSTANT PoolSize  \* PUZZLE_NODE_MAX_COUNT

ASSUME PoolAssumption == PoolSize \in Nat \ {0}

Block == 1..PoolSize
Node == (Nat \ {0}) \X Block
Pool == [id : Nat \ {0}, free : [Block -> Nat]]

\* Initialize: every block is free.
NewPool(id) == [id |-> id, free |-> [b \in Block |-> 1]]

FreeBlocks(pool) == {b \in Block : pool.free[b] > 0}

\* All blocks are on the free list.
IsEmpty(pool) == FreeBlocks(pool) = Block

Ids(alloc) == {alloc[i].id : i \in DOMAIN alloc}

\* The pool that AddAllocator appends has an address no other has.
FreshId(alloc) == CHOOSE id \in 1..Len(alloc) + 1 : id \notin Ids(alloc)
AddAllocator(alloc) == Append(alloc, NewPool(FreshId(alloc)))

\* AllocNode tries the pools in turn, and adds one if none has a free block.
WithRoom(alloc) == {i \in DOMAIN alloc : FreeBlocks(alloc[i]) # {}}
Stocked(alloc) == IF WithRoom(alloc) = {} THEN AddAllocator(alloc) ELSE alloc
Supplier(alloc) == CHOOSE i \in WithRoom(alloc) : \A j \in WithRoom(alloc) : i <= j
FirstBlock(pool) == CHOOSE b \in FreeBlocks(pool) : \A c \in FreeBlocks(pool) : b <= c

AllocatedNode(alloc) ==
    LET pool == Stocked(alloc)[Supplier(Stocked(alloc))]
    IN  <<pool.id, FirstBlock(pool)>>

AllocNode(alloc) ==
    LET a == Stocked(alloc)
        i == Supplier(a)
    IN  [j \in DOMAIN a |-> IF j = i THEN [a[j] EXCEPT !.free[FirstBlock(a[j])] = @ - 1] ELSE a[j]]

\* A plausible slip in Deallocate: the block is forgotten.
DeallocateNothing(alloc, times) == alloc

\* Deallocate puts a block on the list of the pool it lies in, here times[n] times for each
\* of its nodes n; a pointer of no pool is ignored.
Deallocate(alloc, times) ==
    [i \in DOMAIN alloc |->
        [alloc[i] EXCEPT !.free =
            [b \in Block |-> @[b] + IF <<alloc[i].id, b>> \in DOMAIN times
                                      THEN times[<<alloc[i].id, b>>] ELSE 0]]]

\* The end of Clear: pools nobody uses are deleted.
DropEmpty(alloc) ==
    LET used[i \in 0..Len(alloc)] ==
            IF i = 0 THEN <<>>
            ELSE IF IsEmpty(alloc[i]) THEN used[i - 1] ELSE Append(used[i - 1], alloc[i])
    IN  used[Len(alloc)]

(* Every block of a pool is either in use or on the free list, there once, and what *)
(* is in use lies in a pool.                                                        *)
Partitioned(alloc, used) ==
    /\ \A i, j \in DOMAIN alloc : alloc[i].id = alloc[j].id => i = j
    /\ \A i \in DOMAIN alloc, b \in Block :
          alloc[i].free[b] = IF <<alloc[i].id, b>> \in used THEN 0 ELSE 1
    /\ \A n \in used : n[1] \in Ids(alloc)
================================================================================
