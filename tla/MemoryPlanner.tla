----------------------------- MODULE MemoryPlanner -----------------------------
(* From an unrolled schedule to a captured graph: instantiate_schedule's trip   *)
(* edges (tensor/src/schedule.rs), the Kahn levels (runtime/src/leveling.rs),   *)
(* the memory planner that shares storage between levels                        *)
(* (tensor/src/memory_planner/mod.rs), the byte-range hazards of graph capture  *)
(* and the graph's execution (runtime/src/execution_plan.rs).                   *)
EXTENDS Tlsf, FiniteSetsExt

CONSTANTS Programs,       \* sequences of items [id, trip, deps, reads, writes]
          NoTrip,         \* the trip of an item outside the schedule loop
          PlanBuffer,
          Excluded,       \* buffers exclusion_reason keeps: outputs, inputs, aliased, gated ...
          SizeChoices,    \* the assignments of byte sizes to buffers
          LaneOf,         \* PlanBuffer -> its device, whose arena it is packed in; all buffers have one class and type
          PlannerModes    \* the modes chosen from: "arena", "remap", "disabled"

VARIABLES program,    \* the schedule
          sizes,      \* PlanBuffer -> bytes
          mode,       \* PlannerMode
          phase,      \* "level", "plan", "capture", "run" or "error"
          levels,     \* the items levelled so far -> their level
          pos,        \* events or kernels done in this phase
          heaps,      \* tlsfs: lane -> heap
          pools,      \* free_pools: [lane, size] -> stack of handles
          handle,     \* PlanBuffer -> the handle the plan uses: [mem, off, size]
          gaveUp,     \* the arena rewrite was abandoned
          writers, readers,   \* GraphHazards: sets of [range, kernel]
          edges,      \* item -> its predecessors in the graph
          started, ended,  \* kernels of the graph
          content     \* bytes written so far -> the item that wrote them last

plannerVars == <<program, sizes, mode, phase, levels, pos, heaps, pools, handle, gaveUp,
                 writers, readers, edges, started, ended, content>>

planned == <<heaps, pools, handle, gaveUp>>
graphed == <<writers, readers, edges, started, ended, content>>

Items == DOMAIN program
Touched(i) == program[i].reads \cup program[i].writes
Eligible == (UNION {Touched(i) : i \in Items}) \ Excluded

\* A buffer's own allocation: exactly its bytes.
Own(b) == [mem |-> b, off |-> 0, size |-> sizes[b]]

Rounded(b) == RoundUp(sizes[b], MIN_BLOCK)

PlannerInit ==
    /\ program \in Programs
    /\ sizes \in SizeChoices
    /\ mode \in PlannerModes
    /\ phase = "level" /\ pos = 0
    /\ levels = [i \in {} |-> 0]
    /\ heaps = [lane \in {} |-> NewHeap(0)]
    /\ pools = [key \in {} |-> <<>>]
    /\ handle = [b \in PlanBuffer |-> Own(b)]
    /\ gaveUp = FALSE
    /\ writers = {} /\ readers = {}
    /\ edges = [i \in {} |-> {}]
    /\ started = {} /\ ended = {}
    /\ content = [c \in {} |-> 0]

-----------------------------------------------------------------------------
(* Levels. *)

\* Mutant: the trips of a loop carry no edge to each other.
NoTripEdges(i) == {}

\* Every item of a trip depends on every item of the trip before.
TripEdges(i) ==
    {j \in 1..(i - 1) : /\ program[i].trip # NoTrip /\ program[j].trip # NoTrip
                        /\ program[j].trip = program[i].trip - 1}

Repeated == \E i, j \in Items : i # j /\ program[i].id = program[j].id

\* The items a callable id may name: with repeated ids, the earlier ones.
Named(i, id) == {j \in Items : program[j].id = id /\ (Repeated => j < i)}

Unknown == \E i \in Items : \E id \in program[i].deps : Named(i, id) = {}

Predecessors(i) == {Max(Named(i, id)) : id \in program[i].deps} \cup TripEdges(i)

Levelled == DOMAIN levels
Ready == {i \in Items \ Levelled : Predecessors(i) \subseteq Levelled}

Wave ==
    /\ phase = "level" /\ ~Unknown /\ Ready # {}
    /\ levels' = [i \in Levelled \cup Ready |-> IF i \in Levelled THEN levels[i] ELSE pos]
    /\ IF Levelled \cup Ready = Items THEN phase' = "plan" /\ pos' = 0 ELSE pos' = pos + 1 /\ UNCHANGED phase
    /\ UNCHANGED <<program, sizes, mode, planned, graphed>>

\* An id nobody has, or a cycle.
LevelError ==
    /\ phase = "level" /\ (~Unknown => Ready = {})
    /\ phase' = "error"
    /\ UNCHANGED <<program, sizes, mode, levels, pos, planned, graphed>>

-----------------------------------------------------------------------------
(* Liveness and the planner. *)

LevelsOf(b) == {levels[i] : i \in {j \in Items : b \in Touched(j)}}

\* Mutant: storage is given back at the last level that uses it.
FreeAtLast(b) == Max(LevelsOf(b))

FreeLevel(b) == Max(LevelsOf(b)) + 1

AllocEvent(b) == [at |-> Min(LevelsOf(b)), alloc |-> TRUE, buffer |-> b]
FreeEvent(b) == [at |-> FreeLevel(b), alloc |-> FALSE, buffer |-> b]

\* Sorted by (level, is_alloc, buffer id): at one level frees come first.
Precedes(e, f) ==
    \/ e.at < f.at
    \/ e.at = f.at /\ ~e.alloc /\ f.alloc
    \/ e.at = f.at /\ e.alloc = f.alloc /\ e.buffer < f.buffer

Events ==
    IF mode = "disabled" THEN {} ELSE {AllocEvent(b) : b \in Eligible} \cup {FreeEvent(b) : b \in Eligible}

\* Mutant: the arena is as large as the buffers put side by side.
BudgetTight == AtLeast(FoldSet(LAMBDA b, sum : sum + Rounded(b), 0, Eligible), MIN_BLOCK)

Budget == AtLeast(2 * FoldSet(LAMBDA b, sum : sum + Rounded(b), 0, Eligible), MIN_BLOCK)

HeapOf(lane) == IF lane \in DOMAIN heaps THEN heaps[lane] ELSE NewHeap(Budget)

WithHeap(lane, heap) == [l \in DOMAIN heaps \cup {lane} |-> IF l = lane THEN heap ELSE heaps[l]]

Event == CHOOSE e \in Events : Cardinality({f \in Events : Precedes(f, e)}) = pos

Pending == phase = "plan" /\ pos < Cardinality(Events)

\* An arena that is too small ends the plan: every buffer keeps its own allocation.
ArenaAlloc ==
    /\ Pending /\ mode = "arena" /\ Event.alloc
    /\ LET b == Event.buffer
           lane == LaneOf[b]
           a == Alloc(HeapOf(lane), Rounded(b), 1)
       IN IF OutOfMemory(HeapOf(lane), Rounded(b), 1)
          THEN /\ gaveUp' = TRUE
               /\ handle' = [c \in PlanBuffer |-> Own(c)]
               /\ phase' = "capture" /\ pos' = 0
               /\ UNCHANGED heaps
          ELSE /\ heaps' = WithHeap(lane, a.heap)
               /\ handle' = [handle EXCEPT ![b] = [mem |-> lane, off |-> a.at, size |-> sizes[b]]]
               /\ pos' = pos + 1
               /\ UNCHANGED <<phase, gaveUp>>
    /\ UNCHANGED <<program, sizes, mode, levels, pools, graphed>>

ArenaFree ==
    /\ Pending /\ mode = "arena" /\ ~Event.alloc
    /\ LET lane == LaneOf[Event.buffer]
       IN heaps' = WithHeap(lane, Free(HeapOf(lane), handle[Event.buffer].off))
    /\ pos' = pos + 1
    /\ UNCHANGED <<program, sizes, mode, phase, levels, pools, handle, gaveUp, graphed>>

PoolKey(b) == [lane |-> LaneOf[b], size |-> Rounded(b)]
Pooled(b) == IF PoolKey(b) \in DOMAIN pools THEN pools[PoolKey(b)] ELSE <<>>
WithPool(b, stack) ==
    [key \in DOMAIN pools \cup {PoolKey(b)} |-> IF key = PoolKey(b) THEN stack ELSE pools[key]]

\* A pooled buffer of the same key, the last one given back, or the buffer itself.
PoolAlloc ==
    /\ Pending /\ mode = "remap" /\ Event.alloc
    /\ LET b == Event.buffer
           pool == Pooled(b)
       IN IF pool = <<>> THEN UNCHANGED <<handle, pools>>
          ELSE /\ handle' = [handle EXCEPT ![b] = Last(pool)]
               /\ pools' = WithPool(b, Front(pool))
    /\ pos' = pos + 1
    /\ UNCHANGED <<program, sizes, mode, phase, levels, heaps, gaveUp, graphed>>

PoolFree ==
    /\ Pending /\ mode = "remap" /\ ~Event.alloc
    /\ LET b == Event.buffer IN pools' = WithPool(b, Append(Pooled(b), handle[b]))
    /\ pos' = pos + 1
    /\ UNCHANGED <<program, sizes, mode, phase, levels, heaps, handle, gaveUp, graphed>>

PlanEnds ==
    /\ phase = "plan" /\ pos = Cardinality(Events)
    /\ phase' = "capture" /\ pos' = 0
    /\ UNCHANGED <<program, sizes, mode, levels, planned, graphed>>

-----------------------------------------------------------------------------
(* Graph capture: GraphHazards over the byte ranges of the handles. *)

\* Level by level, and by index within a level.
EmittedBefore(i) == {j \in Items : levels[j] < levels[i] \/ (levels[j] = levels[i] /\ j < i)}
Emitted == CHOOSE i \in Items : Cardinality(EmittedBefore(i)) = pos

RangeAt(b) == [mem |-> handle[b].mem, start |-> handle[b].off, end |-> handle[b].off + handle[b].size]

\* Mutant: two accesses conflict when their addresses are equal.
SameAddress(a, b) == a.mem = b.mem /\ a.start = b.start

RangesOverlap(a, b) == a.mem = b.mem /\ a.start < b.end /\ b.start < a.end

Covers(w, r) == w.mem = r.mem /\ w.start <= r.start /\ r.end <= w.end

Capture ==
    /\ phase = "capture" /\ pos < Cardinality(Items)
    /\ LET i == Emitted
           writes == {RangeAt(b) : b \in program[i].writes}
           reads == {RangeAt(b) : b \in program[i].reads \ program[i].writes}
           hit(accesses, ranges) == {a.kernel : a \in {x \in accesses : \E r \in ranges : RangesOverlap(x.range, r)}}
           kept(accesses) == {a \in accesses : ~\E w \in writes : Covers(w, a.range)}
       IN /\ edges' = [k \in DOMAIN edges \cup {i} |->
                          IF k = i THEN (hit(writers, reads \cup writes) \cup hit(readers, writes)) \ {i}
                          ELSE edges[k]]
          /\ readers' = kept(readers \cup {[range |-> r, kernel |-> i] : r \in reads})
          /\ writers' = kept(writers) \cup {[range |-> w, kernel |-> i] : w \in writes}
    /\ IF pos + 1 = Cardinality(Items) THEN phase' = "run" /\ pos' = 0 ELSE pos' = pos + 1 /\ UNCHANGED phase
    /\ UNCHANGED <<program, sizes, mode, levels, planned, started, ended, content>>

-----------------------------------------------------------------------------
(* The graph runs: only its edges order the kernels. *)

CellsAt(b) == {<<handle[b].mem, x>> : x \in handle[b].off..(handle[b].off + sizes[b] - 1)}

KernelStarts(i) ==
    /\ phase = "run" /\ i \notin started \cup ended
    /\ edges[i] \subseteq ended
    /\ started' = started \cup {i}
    /\ UNCHANGED <<program, sizes, mode, phase, levels, pos, planned, writers, readers, edges, ended, content>>

KernelEnds(i) ==
    /\ i \in started
    /\ started' = started \ {i}
    /\ ended' = ended \cup {i}
    /\ LET stored == UNION {CellsAt(b) : b \in program[i].writes}
       IN content' = [c \in DOMAIN content \cup stored |-> IF c \in stored THEN i ELSE content[c]]
    /\ UNCHANGED <<program, sizes, mode, phase, levels, pos, planned, writers, readers, edges>>

\* The graph has run, or the schedule was refused: any other state in which no step is left
\* is a deadlock of the graph.
PlannerDone ==
    /\ phase = "error" \/ (phase = "run" /\ ended = Items)
    /\ UNCHANGED plannerVars

PlannerNext ==
    \/ Wave \/ LevelError
    \/ ArenaAlloc \/ ArenaFree \/ PoolAlloc \/ PoolFree \/ PlanEnds
    \/ Capture
    \/ \E i \in Items : KernelStarts(i) \/ KernelEnds(i)
    \/ PlannerDone

PlannerSpec == PlannerInit /\ [][PlannerNext]_plannerVars

-----------------------------------------------------------------------------
Holds(c) == IF c \in DOMAIN content THEN content[c] ELSE 0

\* The item whose value of b the schedule, run in order, shows to item i.
Producer(i, b) == Max({0} \cup {j \in 1..(i - 1) : b \in program[j].writes})

\* However the planner shares storage and however the graph overlaps its kernels, a kernel
\* reads of every buffer exactly what the schedule run in order would have put there, for as
\* long as it runs, and the buffers the caller sees end with their last value
\* (memory_planner, GraphHazards::record, compute_topological_levels).
PlanKeepsData ==
    /\ \A i \in started : \A b \in program[i].reads : \A c \in CellsAt(b) : Holds(c) = Producer(i, b)
    /\ phase = "run" /\ ended = Items =>
         \A b \in Excluded : \A c \in CellsAt(b) : Holds(c) = Producer(Len(program) + 1, b)

\* Twice the rounded bytes are enough whatever fragmentation the level order causes: the
\* arena plan is never abandoned (memory_plan_arena's budget).
BudgetSuffices == ~gaveUp

\* A buffer's storage is at least as long as the buffer (process_events).
\* It fails in the remap mode, whose pools go by the rounded size.
StorageFits == phase \in {"capture", "run"} => \A b \in Eligible : sizes[b] <= handle[b].size

=================================================================================
