---------------------------- MODULE MCMemoryPlanner ----------------------------
(* Every data-flow schedule of five kernels, and a loop of two trips.       *)
EXTENDS MemoryPlanner

Output == 6

Item(id, trip, deps, reads, writes) ==
    [id |-> id, trip |-> trip, deps |-> deps, reads |-> reads, writes |-> writes]

\* Item i writes buffer i, the last one the output, and reads buffers written before it; every
\* buffer is read.
Reads ==
    {r \in {<<{}, a, b, c, d>> : a \in SUBSET {1}, b \in SUBSET (1..2), c \in SUBSET (1..3), d \in SUBSET (1..4)} :
        UNION {r[i] : i \in 1..5} = 1..4}
Flows == {[i \in 1..5 |-> Item(i, NoTrip, r[i], r[i], IF i = 5 THEN {Output} ELSE {i})] : r \in Reads}

\* Two chains: buffer 5 of the first may be laid over buffers 1 and 2 while the second reads 2.
Chains == <<Item(1, NoTrip, {}, {}, {1}), Item(2, NoTrip, {}, {}, {2}),
            Item(3, NoTrip, {2}, {2}, {3}), Item(4, NoTrip, {1}, {1}, {4}),
            Item(5, NoTrip, {4}, {4}, {5}), Item(6, NoTrip, {3, 5}, {3, 5}, {Output})>>

\* Item 1 writes buffer 1; each trip computes buffer 2 from it and updates it; the last item reads it.
Loop == <<Item(1, NoTrip, {}, {}, {1}),
          Item(2, 0, {1}, {1}, {2}), Item(3, 0, {2}, {1, 2}, {1}),
          Item(2, 1, {1}, {1}, {2}), Item(3, 1, {2}, {1, 2}, {1}),
          Item(4, NoTrip, {3}, {1}, {Output})>>

\* A cycle, and an id that no item has.
Cyclic == <<Item(1, NoTrip, {2}, {}, {1}), Item(2, NoTrip, {1}, {1}, {Output})>>
Dangling == <<Item(1, NoTrip, {7}, {}, {1})>>

MCPrograms == Flows \cup {Chains, Loop, Cyclic, Dangling}
\* Byte sizes of the buffers.
MCSizes == {<<1, 3, 1, 2, 3, 1>>, <<1, 1, 5, 1, 3, 1>>, <<3, 3, 3, 3, 3, 1>>, <<1, 1, 1, 9, 3, 1>>}
MCLanes == [b \in 1..6 |-> IF b = 3 THEN 101 ELSE 100]

=================================================================================
