------------------------------ MODULE MCUOpIntern ------------------------------
(* Small instances of UOpIntern: chains of one-child operations over a leaf,   *)
(* and a two-child operation that may name the same child twice.               *)
EXTENDS UOpIntern

ChainOps == [a |-> 0, f |-> 1]
PairOps == [a |-> 0, g |-> 2]

\* Every thread has built and dropped all it wanted.
InternOver ==
    /\ Quiet /\ \A t \in Builder : handles[t] = {} /\ asked[t] = MaxNews
    /\ UNCHANGED internVars

=================================================================================
