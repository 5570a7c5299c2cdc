---------------------------- MODULE MCTensorRegistry ----------------------------
(* Tensors over one input buffer (1), a constant, and a placeholder (2) as     *)
(* Tensor::empty makes it, which w is assigned to and e reads.                 *)
EXTENDS TensorRegistry

Tensors ==
    [a |-> Graph(1, NoStore, 1), b |-> Graph(1, NoStore, 1),
     d |-> Graph(1, NoStore, 2), c |-> Graph(Const, NoStore, 0),
     w |-> Graph(2, 7, 0), e |-> Graph(2, NoStore, 1)]
TensorNames == DOMAIN Tensors

\* Each thread realizes a tensor of its own.
OnesOf(names) == {f \in [Realizer -> names] : \A t, u \in Realizer : t # u => f[t] # f[u]}
SharedGraphs == OnesOf({"a", "b", "c", "d", "w"})
SharedPlaceholder == OnesOf({"w", "e"})

RegistryOver == (\A t \in Realizer : realizing[t] \in {"done", "failed"}) /\ UNCHANGED registryVars

=================================================================================
