------------------------------- MODULE UOpIntern -------------------------------
(* Hash consing of the IR's nodes (ir/src/uop/hash_consing.rs): UOp::new looks *)
(* a structure up in a lock-free table of Weak references and interns a new    *)
(* node if no live one is there; dropping the last Arc of a node retires its   *)
(* entry and tears its graph down without recursing once per node.             *)
EXTENDS Naturals, Sequences, SequencesExt

CONSTANTS Builder,      \* threads that build and drop graphs
          UNode,        \* allocations; one is used again when nothing refers to it
          Arity,        \* operation -> number of children
          MaxNews,      \* how many nodes a thread asks for
          MaxDepth      \* nesting of UOp::drop the comment in the code speaks of

ASSUME InternAssumption ==
    /\ DOMAIN Arity # {} /\ \A f \in DOMAIN Arity : Arity[f] \in Nat
    /\ MaxNews \in Nat /\ MaxDepth \in Nat

VARIABLES structure,    \* node -> its operation and children (children by identity)
          strong,       \* node -> number of Arcs
          uops,         \* the table: nodes with an entry, which holds a Weak
          handles,      \* thread -> nodes it keeps an Arc of
          making,       \* thread -> where UOp::new is, its operation, nodes at hand
          frames,       \* thread -> UOp::drop activations, innermost last
          draining,     \* thread -> TEARDOWN.0
          deferred,     \* thread -> TEARDOWN.1, payloads taken from dying nodes
          asked         \* thread -> calls of UOp::new so far

internVars == <<structure, strong, uops, handles, making, frames, draining, deferred, asked>>

Payload(f, kids) == [op |-> f, kids |-> kids]
NoContent == [op |-> "none", kids |-> <<>>]
Idle == [at |-> "idle", op |-> NoContent, found |-> {}, node |-> {}]

InternInit ==
    /\ structure = [n \in UNode |-> NoContent]
    /\ strong = [n \in UNode |-> 0]
    /\ uops = {}
    /\ handles = [t \in Builder |-> {}]
    /\ making = [t \in Builder |-> Idle]
    /\ frames = [t \in Builder |-> <<>>]
    /\ draining = [t \in Builder |-> FALSE]
    /\ deferred = [t \in Builder |-> <<>>]
    /\ asked = [t \in Builder |-> 0]

Live(n) == strong[n] > 0
Occurrences(n, kids) == Cardinality({i \in DOMAIN kids : kids[i] = n})

\* An allocation is free once no Arc, no Weak and no activation of drop is left.
Unused(n) ==
    /\ ~Live(n) /\ n \notin uops
    /\ \A t \in Builder : \A i \in DOMAIN frames[t] : frames[t][i].node # n
    /\ \A t \in Builder : n \notin making[t].found \cup making[t].node

\* Probe and InternKey compare with entries whose node can be upgraded only.
Matches(e, c) == Live(e) /\ structure[e] = c

\* Dropping one Arc: the last one activates UOp::drop in this thread.
Release(t, n) ==
    /\ strong' = [strong EXCEPT ![n] = @ - 1]
    /\ frames' = IF strong[n] = 1
                 THEN [frames EXCEPT ![t] = Append(@, [node |-> n, at |-> "retire", rest |-> <<>>])]
                 ELSE frames
--------------------------------------------------------------------------------
(* UOp::new                                                                    *)

\* The thread is between two activations of drop and between two steps of new.
Calm(t) == frames[t] = <<>>
MakingAt(t, from) == Calm(t) /\ making[t].at = from
MakingTo(t, to) == making' = [making EXCEPT ![t].at = to]

\* The caller clones the children's Arcs into the operation it passes.
New(t, f, kids) ==
    /\ MakingAt(t, "idle") /\ asked[t] < MaxNews
    /\ \A i \in DOMAIN kids : kids[i] \in handles[t]
    /\ strong' = [n \in UNode |-> strong[n] + Occurrences(n, kids)]
    /\ asked' = [asked EXCEPT ![t] = @ + 1]
    /\ making' = [making EXCEPT ![t] = [Idle EXCEPT !.at = "probe", !.op = Payload(f, kids)]]
    /\ UNCHANGED <<structure, uops, handles, frames, draining, deferred>>

\* Probe::equivalent upgrades the entry it compares with, ...
Probe(t) ==
    /\ MakingAt(t, "probe")
    /\ \/ \E e \in uops :
            /\ Matches(e, making[t].op)
            /\ strong' = [strong EXCEPT ![e] = @ + 1]
            /\ making' = [making EXCEPT ![t].at = "probed", ![t].found = {e}]
       \/ /\ \A e \in uops : ~Matches(e, making[t].op)
          /\ MakingTo(t, "alloc") /\ UNCHANGED strong
    /\ UNCHANGED <<structure, uops, handles, frames, draining, deferred, asked>>

\* ... and drops that Arc again, by now perhaps the last one.
Probed(t) ==
    /\ MakingAt(t, "probed")
    /\ \E e \in making[t].found : Release(t, e)
    /\ MakingTo(t, "upgrade")
    /\ UNCHANGED <<structure, uops, handles, draining, deferred, asked>>

\* What the call returns; a second Arc of a node the thread keeps is dropped.
Returns(t, n, arcs) ==
    /\ handles' = [handles EXCEPT ![t] = @ \cup {n}]
    /\ strong' = [arcs EXCEPT ![n] = IF n \in handles[t] THEN @ - 1 ELSE @]

\* The fast path: the operation passed in is dropped, its children live on in the
\* node found.
Upgrade(t) ==
    /\ MakingAt(t, "upgrade")
    /\ \E e \in making[t].found :
        \/ /\ Live(e)
           /\ Returns(t, e, [n \in UNode |->
                strong[n] + (IF n = e THEN 1 ELSE 0) - Occurrences(n, making[t].op.kids)])
           /\ making' = [making EXCEPT ![t] = Idle]
        \/ /\ ~Live(e)
           /\ making' = [making EXCEPT ![t].at = "alloc", ![t].found = {}]
           /\ UNCHANGED <<handles, strong>>
    /\ UNCHANGED <<structure, uops, frames, draining, deferred, asked>>

AllocNode(t) ==
    /\ MakingAt(t, "alloc")
    /\ \E n \in UNode :
        /\ Unused(n) /\ n = CHOOSE m \in UNode : Unused(m)
        /\ structure' = [structure EXCEPT ![n] = making[t].op]
        /\ strong' = [strong EXCEPT ![n] = 1]
        /\ making' = [making EXCEPT ![t].at = "compute", ![t].node = {n}]
    /\ UNCHANGED <<uops, handles, frames, draining, deferred, asked>>

\* compute of the lock-free map (external): without an entry that compares equal
\* the new one goes in, in one step.
Compute(t) ==
    /\ MakingAt(t, "compute")
    /\ \E n \in making[t].node :
        \/ \E e \in uops :
            /\ Matches(e, structure[n])
            /\ strong' = [strong EXCEPT ![e] = @ + 1]
            /\ making' = [making EXCEPT ![t].at = "compared", ![t].found = {e}]
            /\ UNCHANGED <<uops, handles>>
        \/ /\ \A e \in uops : ~Matches(e, structure[n])
           /\ uops' = uops \cup {n}
           /\ Returns(t, n, strong)
           /\ making' = [making EXCEPT ![t] = Idle]
    /\ UNCHANGED <<structure, frames, draining, deferred, asked>>

Compared(t) ==
    /\ MakingAt(t, "compared")
    /\ \E e \in making[t].found : Release(t, e)
    /\ MakingTo(t, "decide")
    /\ UNCHANGED <<structure, uops, handles, draining, deferred, asked>>

\* The closure of compute: a node that still lives is returned and the new one
\* dropped; otherwise the new entry takes the place of the dead one, unless that
\* is gone by now, and compute starts over.
Decide(t) ==
    /\ MakingAt(t, "decide")
    /\ \E e \in making[t].found, n \in making[t].node :
        \/ /\ Live(e)
           /\ Returns(t, e, [strong EXCEPT ![e] = @ + 1])
           /\ making' = [making EXCEPT ![t].at = "lost", ![t].found = {}]
           /\ UNCHANGED uops
        \/ /\ ~Live(e) /\ e \in uops
           /\ uops' = (uops \ {e}) \cup {n}
           /\ Returns(t, n, strong)
           /\ making' = [making EXCEPT ![t] = Idle]
        \/ /\ ~Live(e) /\ e \notin uops
           /\ making' = [making EXCEPT ![t].at = "compute", ![t].found = {}]
           /\ UNCHANGED <<uops, handles, strong>>
    /\ UNCHANGED <<structure, frames, draining, deferred, asked>>

\* The loser of an insertion race drops the node it allocated.
Lost(t) ==
    /\ MakingAt(t, "lost")
    /\ \E n \in making[t].node : Release(t, n)
    /\ making' = [making EXCEPT ![t] = Idle]
    /\ UNCHANGED <<structure, uops, handles, draining, deferred, asked>>

\* A graph goes out of scope.
DropHandle(t, n) ==
    /\ MakingAt(t, "idle") /\ n \in handles[t]
    /\ handles' = [handles EXCEPT ![t] = @ \ {n}]
    /\ Release(t, n)
    /\ UNCHANGED <<structure, uops, making, draining, deferred, asked>>
--------------------------------------------------------------------------------
(* Drop for UOp                                                                *)

Top(t) == Last(frames[t])
Inner(t, at) == ~Calm(t) /\ Top(t).at = at
SetTop(t, fr) == [frames EXCEPT ![t] = Append(Front(@), fr)]

\* A mutant of OwnEntry: the entry is found by what the node holds.
OwnEntryByStructure(n) == {e \in uops : structure[e] = structure[n]}

\* The entries a dying node's drop takes out of the table: ByPtr.
OwnEntry(n) == {n} \cap uops

Retire(t) ==
    /\ Inner(t, "retire")
    /\ uops' = uops \ OwnEntry(Top(t).node)
    /\ frames' = SetTop(t, [Top(t) EXCEPT !.at = "inspect"])
    /\ UNCHANGED <<structure, strong, handles, making, draining, deferred, asked>>

\* A child dies with the node if the node's Arc of it is the only one.
HasDying(n) == \E i \in DOMAIN structure[n].kids : strong[structure[n].kids[i]] = 1

\* Without a dying child the drop glue releases the children; with one, the
\* payload is queued if a drain is active in this thread, else drained here.
Inspect(t) ==
    /\ Inner(t, "inspect")
    /\ LET n == Top(t).node
           kids == structure[n].kids
       IN /\ structure' = [structure EXCEPT ![n] = NoContent]
          /\ \/ /\ ~HasDying(n)
                /\ frames' = SetTop(t, [Top(t) EXCEPT !.at = "glue", !.rest = kids])
                /\ UNCHANGED <<draining, deferred>>
             \/ /\ HasDying(n) /\ draining[t]
                /\ deferred' = [deferred EXCEPT ![t] = Append(@, kids)]
                /\ frames' = [frames EXCEPT ![t] = Front(@)]
                /\ UNCHANGED draining
             \/ /\ HasDying(n) /\ ~draining[t]
                /\ draining' = [draining EXCEPT ![t] = TRUE]
                /\ frames' = SetTop(t, [Top(t) EXCEPT !.at = "drain", !.rest = kids])
                /\ UNCHANGED deferred
    /\ UNCHANGED <<strong, uops, handles, making, asked>>

\* The children of a payload are released one after the other.
ReleaseKid(t) ==
    /\ Inner(t, "glue") \/ Inner(t, "drain")
    /\ Top(t).rest # <<>>
    /\ LET kid == Head(Top(t).rest)
           popped == SetTop(t, [Top(t) EXCEPT !.rest = Tail(@)])
       IN /\ strong' = [strong EXCEPT ![kid] = @ - 1]
          /\ frames' = IF strong[kid] = 1
                       THEN [popped EXCEPT ![t] = Append(@, [node |-> kid, at |-> "retire", rest |-> <<>>])]
                       ELSE popped
    /\ UNCHANGED <<structure, uops, handles, making, draining, deferred, asked>>

GlueDone(t) ==
    /\ Inner(t, "glue") /\ Top(t).rest = <<>>
    /\ frames' = [frames EXCEPT ![t] = Front(@)]
    /\ UNCHANGED <<structure, strong, uops, handles, making, draining, deferred, asked>>

\* The flag that a drain is active, once the queue is empty.
DrainOver(t) == [draining EXCEPT ![t] = FALSE]

\* A mutant of Drain: the root's payload only.
DrainRootOnly(t) ==
    /\ Inner(t, "drain") /\ Top(t).rest = <<>>
    /\ frames' = [frames EXCEPT ![t] = Front(@)]
    /\ draining' = DrainOver(t)
    /\ UNCHANGED <<structure, strong, uops, handles, making, deferred, asked>>

\* The outermost activation takes the payloads from the queue, last one first.
Drain(t) ==
    /\ Inner(t, "drain") /\ Top(t).rest = <<>>
    /\ \/ /\ deferred[t] # <<>>
          /\ frames' = SetTop(t, [Top(t) EXCEPT !.rest = Last(deferred[t])])
          /\ deferred' = [deferred EXCEPT ![t] = Front(@)]
          /\ UNCHANGED draining
       \/ /\ deferred[t] = <<>>
          /\ frames' = [frames EXCEPT ![t] = Front(@)]
          /\ draining' = DrainOver(t)
          /\ UNCHANGED deferred
    /\ UNCHANGED <<structure, strong, uops, handles, making, asked>>

InternNext == \E t \in Builder :
    \/ \E f \in DOMAIN Arity : \E kids \in [1..Arity[f] -> handles[t]] : New(t, f, kids)
    \/ Probe(t) \/ Probed(t) \/ Upgrade(t) \/ AllocNode(t) \/ Compute(t) \/ Compared(t)
    \/ Decide(t) \/ Lost(t)
    \/ \E n \in handles[t] : DropHandle(t, n)
    \/ Retire(t) \/ Inspect(t) \/ ReleaseKid(t) \/ GlueDone(t) \/ Drain(t)

InternSpec == InternInit /\ [][InternNext]_internVars
--------------------------------------------------------------------------------
(* Properties                                                                  *)

\* Pointer equality works across threads (the promise of UOp::new): nodes that
\* threads hold and that have the same operation and children are the same node.
OneNodePerStructure ==
    \A t, u \in Builder : \A m \in handles[t], n \in handles[u] :
        structure[m] = structure[n] => m = n

\* Nothing leaks: when no thread builds or drops, the table holds exactly the
\* live nodes, and every Arc of a node belongs to a handle or to a live parent,
\* so that no payload was forgotten in a teardown queue.
Quiet == \A t \in Builder : Calm(t) /\ making[t].at = "idle"
ArcsOfParents(n) ==
    UNION {{<<p, i>> : i \in {i \in DOMAIN structure[p].kids : structure[p].kids[i] = n}} : p \in {p \in UNode : Live(p)}}
Arcs(n) == Cardinality({t \in Builder : n \in handles[t]}) + Cardinality(ArcsOfParents(n))
NothingLeaks ==
    Quiet => /\ uops = {n \in UNode : Live(n)}
             /\ \A n \in UNode : strong[n] = Arcs(n)

\* The comment in Drop: nested drops only enqueue their payload, "so the glue
\* recursion stays constant-depth".
ShallowTeardown == \A t \in Builder : Len(frames[t]) <= MaxDepth

=================================================================================
