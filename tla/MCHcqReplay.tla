------------------------------ MODULE MCHcqReplay ------------------------------
(* Plans of up to MaxOps kernels and copies over two cells of one device.      *)
EXTENDS HcqReplay

Cell1(a) == [id |-> 1, owner |-> Device, start |-> a, end |-> a + 1]
KernelOf(r, w) == [lane |-> FinalLane, kind |-> "execute", reads |-> {Cell1(r)}, writes |-> {Cell1(w)}]
CopyOf(r, w) == [lane |-> Lane(Device, "copy"), kind |-> "copy", reads |-> {Cell1(r)}, writes |-> {Cell1(w)}]

ReplayOperations == {KernelOf(0, 0), KernelOf(0, 1), KernelOf(1, 0), CopyOf(0, 1), CopyOf(1, 0)}

\* Exchanging the cells in a plan whose operations all touch both gives a plan
\* that behaves alike: of the two, the one that reads cell 0 first.
OneOfMirrored(p) == KernelOf(0, 0) \in Range(p) \/ p[1] \in {KernelOf(0, 1), CopyOf(0, 1)}

=================================================================================
