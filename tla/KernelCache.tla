------------------------------- MODULE KernelCache -------------------------------
(* The process-wide cache of compiled programs (runtime/src/kernel_cache.rs)   *)
(* as its two callers in KernelSite::compile use it: a prepare that publishes, *)
(* and an ephemeral one that reads the cache and keeps what it compiled.       *)
(* The key is the program's content hash with the compiler's; two optimizer    *)
(* keys may render to one program, so the flight above does not serialise it.  *)
EXTENDS Naturals, Sequences

CONSTANTS Thread, Key,
          Modes,      \* the values PrepareConfig::ephemeral takes
          MaxCalls    \* bound: calls each thread makes

ASSUME KernelAssumption == Modes \subseteq BOOLEAN /\ MaxCalls \in Nat

VARIABLES map,        \* Key -> the published kernel, or NoKernel
          pc, want,   \* Thread -> step, Thread -> key of its call
          ephemeral,  \* threads whose current call must not publish
          mine,       \* Thread -> the kernel it compiled, or NoKernel
          got,        \* Thread -> what its last call returned, or NoKernel
          made,       \* the kernels compiled so far: key, and the caller's mode
          calls

\* A kernel (an Arc<CachedKernel>) is its place in `made`.
NoKernel == 0
Kernel == 1..Len(made)

vars == <<map, pc, want, ephemeral, mine, got, made, calls>>

\* Types, and a caller owns an unpublished kernel exactly while it publishes it.
TypeOK ==
    /\ map \in [Key -> Kernel \cup {NoKernel}]
    /\ pc \in [Thread -> {"idle", "get", "compile", "publish"}]
    /\ want \in [Thread -> Key]
    /\ ephemeral \in SUBSET Thread
    /\ mine \in [Thread -> Kernel \cup {NoKernel}]
    /\ got \in [Thread -> Kernel \cup {NoKernel}]
    /\ made \in Seq([key : Key, ephemeral : BOOLEAN])
    /\ calls \in [Thread -> 0..MaxCalls]
    /\ \A t \in Thread : (pc[t] = "publish") <=> (mine[t] # NoKernel)

Init ==
    /\ map = [k \in Key |-> NoKernel]
    /\ pc = [t \in Thread |-> "idle"]
    /\ want \in [Thread -> Key]
    /\ ephemeral = {}
    /\ mine = [t \in Thread |-> NoKernel]
    /\ got = [t \in Thread |-> NoKernel]
    /\ made = <<>>
    /\ calls = [t \in Thread |-> 0]

Call(t, k, eph) ==
    /\ pc[t] = "idle" /\ calls[t] < MaxCalls
    /\ pc' = [pc EXCEPT ![t] = "get"]
    /\ want' = [want EXCEPT ![t] = k]
    /\ ephemeral' = IF eph THEN ephemeral \cup {t} ELSE ephemeral \ {t}
    /\ got' = [got EXCEPT ![t] = NoKernel]
    /\ calls' = [calls EXCEPT ![t] = @ + 1]
    /\ UNCHANGED <<map, mine, made>>

Return(t, kernel) ==
    /\ pc' = [pc EXCEPT ![t] = "idle"]
    /\ got' = [got EXCEPT ![t] = kernel]
    /\ mine' = [mine EXCEPT ![t] = NoKernel]

\* map.get: the fast path of get_or_compile_kernel, and cached_kernel.
Get(t) ==
    /\ pc[t] = "get"
    /\ IF map[want[t]] # NoKernel
       THEN Return(t, map[want[t]])
       ELSE pc' = [pc EXCEPT ![t] = "compile"] /\ UNCHANGED <<got, mine>>
    /\ UNCHANGED <<map, want, ephemeral, made, calls>>

\* Mutant: an ephemeral prepare publishes like any other.
NeverKeeps(t) == FALSE

\* KernelSite::compile: an ephemeral prepare returns before the publication.
Keeps(t) == t \in ephemeral

\* compile_fn: an error leaves the cache alone; an ephemeral caller keeps the
\* kernel, any other goes on to publish it.
Compile(t) ==
    /\ pc[t] = "compile"
    /\ \/ Return(t, NoKernel) /\ UNCHANGED made
       \/ /\ made' = Append(made, [key |-> want[t], ephemeral |-> t \in ephemeral])
          /\ IF Keeps(t)
             THEN Return(t, Len(made'))
             ELSE /\ mine' = [mine EXCEPT ![t] = Len(made')]
                  /\ pc' = [pc EXCEPT ![t] = "publish"]
                  /\ UNCHANGED got
    /\ UNCHANGED <<map, want, ephemeral, calls>>

\* Mutant: a plain insert, the last writer wins.
LastWins(t) == mine[t]

\* What map.compute leaves in the entry, and the caller returns: the kernel
\* already there, or else the caller's own.
Winner(t) == IF map[want[t]] # NoKernel THEN map[want[t]] ELSE mine[t]

Publish(t) ==
    /\ pc[t] = "publish"
    /\ map' = [map EXCEPT ![want[t]] = Winner(t)]
    /\ Return(t, Winner(t))
    /\ UNCHANGED <<want, ephemeral, made, calls>>

\* A call returns its kernel; nothing else needs to run.
Finished ==
    /\ \A t \in Thread : pc[t] = "idle" /\ calls[t] = MaxCalls
    /\ UNCHANGED vars

Next ==
    \/ \E t \in Thread :
        \/ Get(t) \/ Compile(t) \/ Publish(t)
        \/ \E k \in Key, eph \in Modes : Call(t, k, eph)
    \/ Finished

Spec == Init /\ [][Next]_vars

---------------------------------------------------------------------------------
(* Properties.                                                                 *)

\* However many threads compile a key at once, every publishing call that
\* returns a kernel returns the same one, and a published kernel is never
\* replaced: dispatches keep resolving through it for the process's lifetime.
PublishedAgree ==
    \A t \in Thread : pc[t] = "idle" /\ t \notin ephemeral /\ got[t] # NoKernel
        => map[want[t]] = got[t]

\* What is published under a key was compiled for it, and never by an ephemeral
\* prepare: "what must not amortise is never published".
PublishedBelong ==
    \A k \in Key : map[k] # NoKernel => made[map[k]] = [key |-> k, ephemeral |-> FALSE]

=================================================================================
