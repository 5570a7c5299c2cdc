-------------------------------- MODULE TlsfHeap --------------------------------
(* A client of one TLSF heap: it allocates with any size and alignment and      *)
(* frees what it was given, in any order (device/src/amd/am/mm/manager.rs,      *)
(* palloc and pfree; tensor/src/memory_planner/mod.rs, process of the events).  *)
EXTENDS Tlsf

CONSTANTS HeapSize,
          HeapRequests,   \* the sizes asked for
          Alignments,
          MaxAllocs       \* bound: allocations

VARIABLES heap,      \* TlsfAllocator
          grants,    \* the allocations the client holds: [at, size, align]
          allocs     \* allocations made

heapVars == <<heap, grants, allocs>>

HeapInit ==
    /\ heap = NewHeap(HeapSize)
    /\ grants = {}
    /\ allocs = 0

\* A request no bucket can serve is refused with nothing changed: no step.
HeapAlloc(req, align) ==
    /\ allocs < MaxAllocs
    /\ ~OutOfMemory(heap, req, align)
    /\ LET a == Alloc(heap, req, align)
       IN /\ heap' = a.heap
          /\ grants' = grants \cup {[at |-> a.at, size |-> Request(req), align |-> align]}
    /\ allocs' = allocs + 1

HeapFree(g) ==
    /\ heap' = Free(heap, g.at)
    /\ grants' = grants \ {g}
    /\ UNCHANGED allocs

HeapNext ==
    \/ \E req \in HeapRequests, align \in Alignments : HeapAlloc(req, align)
    \/ \E g \in grants : HeapFree(g)

HeapSpec == HeapInit /\ [][HeapNext]_heapVars

\* What the client holds is aligned, inside the heap, and shared with nobody: the bucket
\* search never hands out a block shorter than the request, and coalescing never swallows a
\* block in use (alloc, free).
GrantsDisjoint ==
    \A g \in grants :
        /\ g.at % g.align = 0
        /\ g.at + g.size <= HeapSize
        /\ \A other \in grants \ {g} : g.at + g.size <= other.at \/ other.at + other.size <= g.at

\* The block list tiles the heap with exact back pointers, no two free blocks are adjacent,
\* and the buckets file exactly the free blocks, whatever the order of allocations and frees
\* (split_block, merge_right, merge_block).
HeapCoalesced ==
    LET starts == Starts(heap)
    IN /\ 0 \in starts /\ heap.blocks[0].prev = NoBlock
       /\ \A s \in starts :
            \/ NextOf(heap, s) = HeapSize
            \/ /\ NextOf(heap, s) \in starts
               /\ heap.blocks[NextOf(heap, s)].prev = s
               /\ ~(IsFree(heap, s) /\ IsFree(heap, NextOf(heap, s)))
       /\ \A s \in starts \ {0} : heap.blocks[s].prev \in starts
       /\ Len(heap.lists) = Cardinality({s \in starts : IsFree(heap, s)})
       /\ \A i \in 1..Len(heap.lists) : IsFree(heap, heap.lists[i])

=================================================================================
