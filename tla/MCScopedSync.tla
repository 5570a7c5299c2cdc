------------------------------ MODULE MCScopedSync ------------------------------
(* Two plans over two storages: p1 writes s1 with a kernel and then reads it   *)
(* on the host (a staged copy leg), p2 computes s2 from s1.                    *)
EXTENDS ScopedSync, TLC

CONSTANTS p1, p2, s1, s2

KernelOp(r, w) == [host |-> FALSE, reads |-> r, writes |-> w]
HostRead(r) == [host |-> TRUE, reads |-> r, writes |-> {}]

TwoPlans == p1 :> <<KernelOp({}, {s1}), HostRead({s1})>> @@ p2 :> <<KernelOp({s1}, {s2})>>

Threads == Permutations(SyncThread)

=================================================================================
