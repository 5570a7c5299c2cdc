----------------------------- MODULE MCKernargArena -----------------------------
(* PM4 dispatches bump once, AQL dispatches twice.                             *)
EXTENDS KernargArena

Sizes == {<<1>>, <<3>>, <<1, 2>>, <<2, 2>>}

=================================================================================
