----------------------------- MODULE TensorRegistry -----------------------------
(* Realizing tensors that share graphs (tensor/src/tensor_registry.rs and      *)
(* Tensor::realize): the registry of tensors, the index from BUFFER identities *)
(* to storages, and the broadcast that replaces a realized graph in every      *)
(* tensor.  A graph is a chain of operations over one base.                    *)
EXTENDS Naturals, FiniteSets

CONSTANTS Realizer,     \* threads, each realizing one tensor
          Tensor,       \* registry entries
          FirstGraph,   \* tensor -> its graph at first
          Tasks,        \* the assignments of tensors to threads considered
          Inputs,       \* identities whose storage was bound by from_slice
          Identity,     \* numbers of BUFFER nodes, Inputs among them
          Storage,      \* numbers of device buffers, Inputs among them
          Const,        \* the base of a graph without a buffer
          NoStore, NoStorage

VARIABLES uop,          \* tensor -> graph
          attached,     \* tensor -> the storage in its OnceLock
          buffers,      \* identity -> storage: the index BUFFERS
          contents,     \* storage -> what it holds
          task,         \* thread -> the tensor it realizes
          realizing,    \* thread -> where realize is
          local         \* thread -> its local variables

\* What is an input is bound, and graphs are over identities or a constant.
ASSUME RegistryAssumption ==
    /\ Inputs \subseteq Identity \cap Storage /\ Const \notin Identity /\ NoStorage \notin Storage
    /\ FirstGraph \in [Tensor -> [base : Identity \cup {Const},
                                 store : {FirstGraph[x].store : x \in Tensor} \cup {NoStore}, height : Nat]]

registryVars == <<uop, attached, buffers, contents, task, realizing, local>>

\* `height` operations over the base, or over AFTER(base, STORE(base, store)).
Graph(b, s, h) == [base |-> b, store |-> s, height |-> h]
HasIdentity(g) == g.base # Const /\ g.store = NoStore /\ g.height = 0
IsConst(g) == g.base = Const /\ g.height = 0
IsAssign(g) == g.store # NoStore /\ g.height = 0
Contiguous(g) == [g EXCEPT !.height = @ + 1]
OnDevice(g) == g.base # Const

HasSubgraph(g, old) == g.base = old.base /\ g.store = old.store /\ g.height >= old.height
Substitute(g, old, new) ==
    IF HasSubgraph(g, old) THEN Graph(new.base, new.store, new.height + g.height - old.height) ELSE g

Fresh == Graph(Const, NoStore, 0)
Locals == [old |-> Fresh, graph |-> Fresh, new |-> Fresh, input |-> NoStorage, output |-> NoStorage,
           todo |-> {}, affected |-> {}, sources |-> <<>>]

RegistryInit ==
    /\ uop = FirstGraph
    /\ attached = [x \in Tensor |-> IF HasIdentity(FirstGraph[x]) THEN FirstGraph[x].base ELSE NoStorage]
    /\ buffers = [b \in Identity |-> IF b \in Inputs THEN b ELSE NoStorage]
    /\ contents = [s \in Storage |-> [root |-> IF s \in Inputs THEN s ELSE 0, height |-> 0]]
    /\ task \in Tasks
    /\ realizing = [t \in Realizer |-> "start"]
    /\ local = [t \in Realizer |-> Locals]

\* The drop hook takes an identity out of the index with its last node.
Referenced(b) ==
    \/ b \in Inputs
    \/ \E x \in Tensor : uop[x].base = b
    \/ \E t \in Realizer : b \in {local[t].old.base, local[t].graph.base, local[t].new.base}
    \/ \E t \in Realizer : \E x \in DOMAIN local[t].sources : local[t].sources[x].base = b
GetBuffer(b) == IF b # Const /\ Referenced(b) THEN buffers[b] ELSE NoStorage

\* OnceLock::set keeps the first value.
SetOnce(x, s) == IF attached[x] = NoStorage THEN [attached EXCEPT ![x] = s] ELSE attached

Target(t) == task[t]
RealizeAt(t, from) == realizing[t] = from
RealizeTo(t, to) == realizing' = [realizing EXCEPT ![t] = to]
--------------------------------------------------------------------------------
(* Tensor::realize up to its plan                                              *)

Enter(t) ==
    /\ RealizeAt(t, "start")
    /\ RealizeTo(t, IF HasIdentity(uop[Target(t)]) THEN "ensure" ELSE "const")
    /\ UNCHANGED <<uop, attached, buffers, contents, task, local>>

\* ensure_buffer reads the identity, then looks it up.
EnsureBuffer(t) ==
    /\ RealizeAt(t, "ensure")
    /\ local' = [local EXCEPT ![t] = [Locals EXCEPT !.new = uop[Target(t)]]]
    /\ RealizeTo(t, "attach")
    /\ UNCHANGED <<uop, attached, buffers, contents, task>>

Attach(t) ==
    /\ RealizeAt(t, "attach")
    /\ LET s == GetBuffer(local[t].new.base)
       IN attached' = IF s = NoStorage THEN attached ELSE SetOnce(Target(t), s)
    /\ local' = [local EXCEPT ![t] = Locals]
    /\ RealizeTo(t, "done")
    /\ UNCHANGED <<uop, buffers, contents, task>>

\* A constant is wrapped in CONTIGUOUS: a read, and a store later.
WrapConst(t) ==
    /\ RealizeAt(t, "const")
    /\ \/ IsConst(uop[Target(t)]) /\ RealizeTo(t, "wrap")
          /\ local' = [local EXCEPT ![t].new = Contiguous(uop[Target(t)])]
       \/ ~IsConst(uop[Target(t)]) /\ RealizeTo(t, "old") /\ UNCHANGED local
    /\ UNCHANGED <<uop, attached, buffers, contents, task>>

StoreWrapped(t) ==
    /\ RealizeAt(t, "wrap")
    /\ uop' = [uop EXCEPT ![Target(t)] = local[t].new]
    /\ RealizeTo(t, "old")
    /\ UNCHANGED <<attached, buffers, contents, task, local>>

ReadOld(t) ==
    /\ RealizeAt(t, "old")
    /\ local' = [local EXCEPT ![t].old = uop[Target(t)]]
    /\ RealizeTo(t, "plan")
    /\ UNCHANGED <<uop, attached, buffers, contents, task>>

\* prepare_plan_with reads the graph once more.  Another realize may have made
\* it a BUFFER by now: nothing is scheduled and adopt_concurrently_realized
\* takes that buffer.
PreparePlan(t) ==
    /\ RealizeAt(t, "plan")
    /\ local' = [local EXCEPT ![t].graph = uop[Target(t)]]
    /\ RealizeTo(t, IF HasIdentity(uop[Target(t)]) THEN "adopt" ELSE "bind")
    /\ UNCHANGED <<uop, attached, buffers, contents, task>>

Adopt(t) ==
    /\ RealizeAt(t, "adopt")
    /\ RealizeTo(t, IF HasIdentity(uop[Target(t)]) THEN "ensure" ELSE "failed")
    /\ UNCHANGED <<uop, attached, buffers, contents, task, local>>

\* bind_graph_buffers: a BUFFER without storage, as Tensor::empty makes it ...
BindCheck(t) ==
    /\ RealizeAt(t, "bind")
    /\ RealizeTo(t, IF OnDevice(local[t].graph) /\ GetBuffer(local[t].graph.base) = NoStorage
             THEN "allocate" ELSE "collect")
    /\ UNCHANGED <<uop, attached, buffers, contents, task, local>>

StoragesInUse ==
    {buffers[b] : b \in Identity} \cup {attached[x] : x \in Tensor}
        \cup (UNION {{local[t].input, local[t].output} : t \in Realizer}) \cup Inputs
NewStorage == CHOOSE s \in Storage : s \notin StoragesInUse
NewIdentity == CHOOSE b \in Identity : buffers[b] = NoStorage /\ ~Referenced(b)

\* ... is allocated and registered, whatever the index holds by then.
Allocate(t) ==
    /\ RealizeAt(t, "allocate")
    /\ buffers' = [buffers EXCEPT ![local[t].graph.base] = NewStorage]
    /\ RealizeTo(t, "collect")
    /\ UNCHANGED <<uop, attached, contents, task, local>>

\* The plan takes its input from the index; an in-place assign is its own output,
\* any other graph gets a new one.
Collect(t) ==
    /\ RealizeAt(t, "collect")
    /\ LET g == local[t].graph
           input == GetBuffer(g.base)
       IN local' = [local EXCEPT ![t].input = input,
                               ![t].output = IF IsAssign(g) THEN input ELSE NewStorage]
    /\ RealizeTo(t, "execute")
    /\ UNCHANGED <<uop, attached, buffers, contents, task>>

\* What a graph computes from what its input holds.
Computes(g, held) ==
    LET root == IF g.store # NoStore THEN [root |-> g.store, height |-> 0]
                ELSE IF g.base = Const THEN [root |-> Const, height |-> 0] ELSE held
    IN [root EXCEPT !.height = @ + g.height]

ExecutePlan(t) ==
    /\ RealizeAt(t, "execute")
    /\ LET g == local[t].graph
           held == IF OnDevice(g) THEN contents[local[t].input] ELSE Fresh
       IN contents' = [s \in Storage |->
            CASE s = local[t].output -> Computes(g, held)
              [] s = local[t].input /\ g.store # NoStore -> Computes([g EXCEPT !.height = 0], held)
              [] OTHER -> contents[s]]
    /\ RealizeTo(t, "register")
    /\ UNCHANGED <<uop, attached, buffers, task, local>>

\* An error of the plan ends the call; storages bound so far stay in the index.
RealizeFails(t) ==
    /\ RealizeAt(t, "collect") \/ RealizeAt(t, "execute")
    /\ local' = [local EXCEPT ![t] = Locals]
    /\ RealizeTo(t, "failed")
    /\ UNCHANGED <<uop, attached, buffers, contents, task>>
--------------------------------------------------------------------------------
(* finalize_realize and the broadcast                                          *)

\* realized_identity and the index's half of register_buffer: an assign keeps
\* the identity it stored into, with the storage the index has for it.
Register(t) ==
    /\ RealizeAt(t, "register")
    /\ \/ /\ IsAssign(local[t].old)
          /\ local' = [local EXCEPT ![t].new = Graph(local[t].old.base, NoStore, 0),
                                  ![t].output = GetBuffer(local[t].old.base)]
          /\ UNCHANGED buffers
       \/ /\ ~IsAssign(local[t].old)
          /\ local' = [local EXCEPT ![t].new = Graph(NewIdentity, NoStore, 0)]
          /\ buffers' = [buffers EXCEPT ![NewIdentity] = local[t].output]
    /\ RealizeTo(t, "entry")
    /\ UNCHANGED <<uop, attached, contents, task>>

\* The entry's half of register_buffer: a set that is lost is only logged.
RegisterEntry(t) ==
    /\ RealizeAt(t, "entry")
    /\ attached' = SetOnce(Target(t), local[t].output)
    /\ RealizeTo(t, "setuop")
    /\ UNCHANGED <<uop, buffers, contents, task, local>>

SetUop(t) ==
    /\ RealizeAt(t, "setuop")
    /\ uop' = [uop EXCEPT ![Target(t)] = local[t].new]
    /\ RealizeTo(t, "setbuffer")
    /\ UNCHANGED <<attached, buffers, contents, task, local>>

SetBuffer(t) ==
    /\ RealizeAt(t, "setbuffer")
    /\ attached' = SetOnce(Target(t), local[t].output)
    /\ RealizeTo(t, "reread")
    /\ UNCHANGED <<uop, buffers, contents, task, local>>

\* The map of the broadcast: the graph realize started from -> the tensor's now.
Reread(t) ==
    /\ RealizeAt(t, "reread")
    /\ local' = [local EXCEPT ![t].new = uop[Target(t)], ![t].todo = Tensor]
    /\ RealizeTo(t, IF uop[Target(t)] = local[t].old THEN "done" ELSE "scan")
    /\ UNCHANGED <<uop, attached, buffers, contents, task>>

\* Phase 1, one entry after the other: tensors of that device that contain the
\* old graph.
Scan(t) ==
    /\ RealizeAt(t, "scan")
    /\ \/ \E x \in local[t].todo :
            /\ x = CHOOSE y \in local[t].todo : TRUE
            /\ local' = [local EXCEPT ![t].todo = @ \ {x},
                   ![t].affected = @ \cup IF OnDevice(uop[x]) /\ HasSubgraph(uop[x], local[t].old) THEN {x} ELSE {}]
            /\ UNCHANGED realizing
       \/ /\ local[t].todo = {}
          /\ local' = [local EXCEPT ![t].todo = local[t].affected]
          /\ RealizeTo(t, "snapshot")
    /\ UNCHANGED <<uop, attached, buffers, contents, task>>

\* Phase 2: the graphs of the affected tensors, read again.
Snapshot(t) ==
    /\ RealizeAt(t, "snapshot")
    /\ local' = [local EXCEPT ![t].sources = [x \in local[t].affected |-> uop[x]]]
    /\ RealizeTo(t, "apply")
    /\ UNCHANGED <<uop, attached, buffers, contents, task>>

\* A mutant of Updated: the substitution of the snapshot is written back.
UpdatedBlind(x, source, old, new) == Substitute(source, old, new)

\* Phases 3 and 4 for one tensor under its write lock: an entry that has changed
\* since the snapshot is substituted again from its current graph.
Updated(x, source, old, new) ==
    IF uop[x] = source THEN Substitute(source, old, new) ELSE Substitute(uop[x], old, new)

Apply(t) ==
    /\ RealizeAt(t, "apply")
    /\ \/ \E x \in local[t].todo :
            LET source == local[t].sources[x]
            IN /\ local' = [local EXCEPT ![t].todo = @ \ {x}]
               /\ uop' = IF HasSubgraph(source, local[t].old)
                         THEN [uop EXCEPT ![x] = Updated(x, source, local[t].old, local[t].new)]
                         ELSE uop
               /\ UNCHANGED realizing
       \/ /\ local[t].todo = {}
          /\ local' = [local EXCEPT ![t] = Locals]
          /\ RealizeTo(t, "done")
          /\ UNCHANGED uop
    /\ UNCHANGED <<attached, buffers, contents, task>>

RegistryNext == \E t \in Realizer :
    \/ Enter(t) \/ EnsureBuffer(t) \/ Attach(t) \/ WrapConst(t) \/ StoreWrapped(t) \/ ReadOld(t)
    \/ PreparePlan(t) \/ Adopt(t) \/ BindCheck(t) \/ Allocate(t) \/ Collect(t) \/ ExecutePlan(t)
    \/ RealizeFails(t)
    \/ Register(t) \/ RegisterEntry(t) \/ SetUop(t) \/ SetBuffer(t) \/ Reread(t)
    \/ Scan(t) \/ Snapshot(t) \/ Apply(t)

RegistrySpec == RegistryInit /\ [][RegistryNext]_registryVars
--------------------------------------------------------------------------------
(* Properties                                                                  *)

\* What a tensor's data is to be, whatever is realized around it.
Meaning(g) ==
    Computes(IF IsConst(g) THEN Contiguous(g) ELSE g, [root |-> IF g.base \in Inputs THEN g.base ELSE 0, height |-> 0])

\* Once realize has returned, the buffer a tensor holds is the one its graph
\* resolves to through the index, and it holds the tensor's data, although other
\* threads realize tensors that share its graph.
IdentitiesAgree ==
    \A t \in Realizer : realizing[t] = "done" =>
        LET x == Target(t)
        IN /\ HasIdentity(uop[x]) /\ attached[x] # NoStorage
           /\ GetBuffer(uop[x].base) = attached[x]
           /\ contents[attached[x]] = Meaning(FirstGraph[x])

\* A bound identity means one storage for every plan that refers to it (the doc
\* of bind_graph_buffers).
OneStoragePerIdentity ==
    \A t \in Realizer : realizing[t] \in {"execute", "register"} /\ OnDevice(local[t].graph) =>
        local[t].input = buffers[local[t].graph.base]

=================================================================================
