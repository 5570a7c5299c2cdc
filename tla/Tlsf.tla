---------------------------------- MODULE Tlsf ----------------------------------
(* The two-level segregated fit allocator of tensor/src/memory_planner/tlsf.rs *)
(* (its twin, device/src/amd/am/mm/tlsf.rs, serves the bare-metal driver).  A   *)
(* heap is a record:                                                            *)
(*   blocks   start -> [size, prev, free], the address-ordered block list; the  *)
(*            next block of b starts at b + size, past the end at the last one  *)
(*   lists    the starts of the free blocks in the order they were filed: the   *)
(*            FIFO of a bucket is the subsequence of its members                *)
EXTENDS Integers, Sequences, FiniteSets, SequencesExt

CONSTANTS MIN_BLOCK,   \* block_size
          L2_BITS      \* bit_length(lv2_cnt)

ASSUME TlsfAssumption == MIN_BLOCK \in Nat \ {0} /\ L2_BITS \in Nat \ {0}

NoBlock == -1

BitLength(n) == IF n = 0 THEN 0 ELSE CHOOSE k \in 1..n : 2^(k - 1) <= n /\ n < 2^k

AtLeast(a, b) == IF a > b THEN a ELSE b

RoundUp(n, granule) == ((n + granule - 1) \div granule) * granule

\* What one second-level bucket of blocks of this size spans.
Granule(size) == 2^AtLeast(0, BitLength(size) - L2_BITS)

\* The bucket of a size, as the position at which the search visits it.
Bucket(size) ==
    BitLength(size) * 2^L2_BITS + (size - 2^(BitLength(size) - 1)) \div Granule(size)

NewHeap(size) ==
    [blocks |-> [s \in {0} |-> [size |-> size, prev |-> NoBlock, free |-> TRUE]], lists |-> <<0>>]

Starts(h) == DOMAIN h.blocks
SizeOf(h, s) == h.blocks[s].size
NextOf(h, s) == s + SizeOf(h, s)
IsFree(h, s) == s \in Starts(h) /\ h.blocks[s].free

\* Lets the block after s, if there is one, point back at p.
PrevPatched(blocks, s, p) == IF s \in DOMAIN blocks THEN [blocks EXCEPT ![s].prev = p] ELSE blocks

SplitBlock(h, s, head) ==
    LET rest == s + head
        cut  == [b \in Starts(h) \cup {rest} |->
                    IF b = s THEN [h.blocks[s] EXCEPT !.size = head]
                    ELSE IF b = rest THEN [size |-> SizeOf(h, s) - head, prev |-> s, free |-> TRUE]
                    ELSE h.blocks[b]]
    IN [blocks |-> PrevPatched(cut, NextOf(h, s), rest),
        lists  |-> Remove(h.lists, s) \o <<s, rest>>]

\* The block at s takes its free right neighbour in.
Absorb(h, s) ==
    LET n == NextOf(h, s)
    IN [blocks |-> [b \in Starts(h) \ {n} |->
                        IF b = s THEN [h.blocks[s] EXCEPT !.size = @ + SizeOf(h, n)] ELSE h.blocks[b]],
        lists  |-> Append(Remove(Remove(h.lists, s), n), s)]

MergeRight(h, s) ==
    LET merged == FoldLeft(LAMBDA acc, i : IF IsFree(acc, NextOf(acc, s)) THEN Absorb(acc, s) ELSE acc,
                           h, [i \in 1..Cardinality(Starts(h)) |-> i])
    IN [merged EXCEPT !.blocks = PrevPatched(@, NextOf(merged, s), s)]

\* The start of the run of free blocks that ends at s.
Leftmost(h, s) ==
    FoldLeft(LAMBDA at, i : IF IsFree(h, h.blocks[at].prev) THEN h.blocks[at].prev ELSE at,
             s, [i \in 1..Cardinality(Starts(h)) |-> i])

\* Mutant: a freed block is merged with what follows it only.
MergeForward(h, s) == MergeRight(h, s)

MergeBlock(h, s) == MergeRight(h, Leftmost(h, s))

\* Mutant: the search does not round the request up to its bucket's granule.
SearchExact(req, align) == req + align - 1

\* The size alloc searches for: any block of its bucket holds the request.
SearchSize(req, align) ==
    LET size == req + align - 1 IN RoundUp(size, Granule(size))

\* The blocks the search may take, in the order of their filing.
Candidates(h, size) == SelectSeq(h.lists, LAMBDA s : Bucket(SizeOf(h, s)) >= Bucket(size))

\* The first block filed in the first bucket the search finds non-empty.
Chosen(h, size) ==
    LET found == Candidates(h, size)
        best  == CHOOSE i \in 1..Len(found) :
                    \A j \in 1..Len(found) :
                        LET bi == Bucket(SizeOf(h, found[i]))
                            bj == Bucket(SizeOf(h, found[j]))
                        IN bi < bj \/ (bi = bj /\ i <= j)
    IN found[best]

Taken(h, s) == [blocks |-> [h.blocks EXCEPT ![s].free = FALSE], lists |-> Remove(h.lists, s)]

Request(req) == AtLeast(req, MIN_BLOCK)

OutOfMemory(h, req, align) == Candidates(h, SearchSize(Request(req), align)) = <<>>

\* Where alloc puts the request, and the heap it leaves.
Alloc(h, req, align) ==
    LET size    == Request(req)
        s       == Chosen(h, SearchSize(size, align))
        at      == RoundUp(s, align)
        headed  == IF at = s THEN h ELSE SplitBlock(h, s, at - s)
        trimmed == IF SizeOf(headed, at) > size THEN SplitBlock(headed, at, size) ELSE headed
    IN [at |-> at, heap |-> Taken(trimmed, at)]

\* free of a block that is not free; a free one, or an unknown offset, is an error.
Free(h, s) ==
    MergeBlock([blocks |-> [h.blocks EXCEPT ![s].free = TRUE], lists |-> Append(h.lists, s)], s)

=================================================================================
