------------------------------- MODULE MCDevices -------------------------------
(* Who may use what of a device when: kernel arguments (KernargArena),         *)
(* storages under scoped waits (ScopedSync), a lane's scratch (LaneScratch),   *)
(* the ranges of a TLSF heap (TlsfHeap) and lanes in owners' sessions          *)
(* (OwnerSession).  The five share no state: each behaviour exercises one of   *)
(* them and leaves the others as they start.                                   *)
EXTENDS MCKernargArena, MCScopedSync, LaneScratch, TlsfHeap, MCOwnerSession

VARIABLE part

Interchangeable == Threads \cup Symm

DevicesInit ==
    /\ part \in {"kernargs", "storages", "scratch", "heap", "sessions"}
    /\ ArenaInit /\ SyncInit /\ HeapInit
    /\ part # "scratch" => pm4 = TRUE
    /\ ScratchInit
    /\ part # "sessions" => who = CHOOSE w \in [Thread -> Owner] : TRUE
    /\ Init

\* Only the arena's dispatches have to go on until all of them are through.
MayStop == part # "kernargs" /\ UNCHANGED <<arenaVars, syncVars, scratchVars, heapVars, vars, part>>

DevicesNext ==
    \/ part = "kernargs" /\ ArenaNext /\ UNCHANGED <<syncVars, scratchVars, heapVars, vars, part>>
    \/ part = "storages" /\ SyncNext /\ UNCHANGED <<arenaVars, scratchVars, heapVars, vars, part>>
    \/ part = "scratch" /\ ScratchNext /\ UNCHANGED <<arenaVars, syncVars, heapVars, vars, part>>
    \/ part = "heap" /\ HeapNext /\ UNCHANGED <<arenaVars, syncVars, scratchVars, vars, part>>
    \/ part = "sessions" /\ Next /\ UNCHANGED <<arenaVars, syncVars, scratchVars, heapVars, part>>
    \/ MayStop

DevicesSpec ==
    DevicesInit /\ [][DevicesNext]_<<arenaVars, syncVars, scratchVars, heapVars, vars, part>>

=================================================================================
