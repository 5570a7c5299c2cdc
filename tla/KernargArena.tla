------------------------------ MODULE KernargArena ------------------------------
(* The kernel-argument arena one device shares between its lanes               *)
(* (device/src/amd/kernarg.rs, KernargArena::bump) as a dispatch uses it       *)
(* (device/src/amd/program.rs execute_on, device/src/amd/queue.rs              *)
(* submit_hcq_dispatch): reserve the kernarg record, wait for ring headroom,   *)
(* on AQL reserve the control stream too, write them, publish; the GPU reads   *)
(* them when it executes the job.  Each lane has one dispatch at a time, the   *)
(* one of its lease's holder.  Offsets are in units of bytes scaled down.      *)
EXTENDS Naturals, Sequences, FiniteSets

CONSTANTS ArenaLane,  \* the lanes of the device
          ARENA_BYTES, ALIGN,
          MAX_INFLIGHT,  \* RING_MAX_INFLIGHT
          Requests,   \* the sizes a dispatch bumps for: <<kernargs>> or <<kernargs, control>>
          MaxDispatches  \* bound: dispatches per lane

ASSUME ArenaAssumption ==
    /\ ARENA_BYTES \in Nat \ {0} /\ ALIGN \in Nat \ {0} /\ MAX_INFLIGHT \in Nat \ {0}
    /\ \A r \in Requests : \A i \in DOMAIN r : r[i] \in 1..ARENA_BYTES
    /\ MaxDispatches \in Nat

VARIABLES cursor,
          argStep,    \* Lane -> step of the dispatch on it
          need,       \* Lane -> sizes still to be bumped for
          job,        \* Lane -> the number of its current dispatch
          published,  \* Lane -> jobs published
          retired,    \* Lane -> jobs the GPU has finished
          target,     \* Lane -> what its drain waits for: Lane -> published snapshot
          live        \* reservations granted and not yet retired

arenaVars == <<cursor, argStep, need, job, published, retired, target, live>>

ArenaInit ==
    /\ cursor = 0
    /\ argStep = [l \in ArenaLane |-> "idle"]
    /\ need = [l \in ArenaLane |-> <<>>]
    /\ job = [l \in ArenaLane |-> 0]
    /\ published = [l \in ArenaLane |-> 0]
    /\ retired = [l \in ArenaLane |-> 0]
    /\ target = [l \in ArenaLane |-> [m \in ArenaLane |-> 0]]
    /\ live = {}

DispatchArgs(l, request) ==
    /\ argStep[l] = "idle" /\ job[l] < MaxDispatches
    /\ job' = [job EXCEPT ![l] = @ + 1]
    /\ need' = [need EXCEPT ![l] = request]
    /\ argStep' = [argStep EXCEPT ![l] = "bump"]
    /\ UNCHANGED <<cursor, published, retired, target, live>>

Aligned == ((cursor + ALIGN - 1) \div ALIGN) * ALIGN

\* Mutant: the request may end one byte past the arena.
FitsLoosely(size) == Aligned + size <= ARENA_BYTES + 1

Fits(size) == Aligned + size <= ARENA_BYTES

\* The reservation [lo, lo + size) is granted; kernargs are followed by the wait
\* for ring headroom, the control stream by the publication.
Grant(l, lo) ==
    /\ live' = live \cup {[lane |-> l, job |-> job[l], lo |-> lo, hi |-> lo + Head(need[l])]}
    /\ cursor' = lo + Head(need[l])
    /\ need' = [need EXCEPT ![l] = Tail(@)]
    /\ argStep' = [argStep EXCEPT ![l] = "headroom"]

\* bump, under the cursor lock: take the next aligned bytes, or find that they
\* do not fit, drop the lock and go to drain the device.
Bump(l) ==
    /\ argStep[l] = "bump"
    /\ IF Fits(Head(need[l]))
       THEN Grant(l, Aligned) /\ UNCHANGED target
       ELSE /\ argStep' = [argStep EXCEPT ![l] = "drain"]
            /\ target' = [target EXCEPT ![l] = published]
            /\ UNCHANGED <<cursor, need, live>>
    /\ UNCHANGED <<job, published, retired>>

\* Mutant: the wrap does not wait for the GPU.
DrainedAtOnce(l) == TRUE

\* synchronize_all: what was published when the drain began has retired.
Drained(l) == \A m \in ArenaLane : retired[m] >= target[l][m]

Drain(l) ==
    /\ argStep[l] = "drain" /\ Drained(l)
    /\ argStep' = [argStep EXCEPT ![l] = "reset"]
    /\ UNCHANGED <<cursor, need, job, published, retired, target, live>>

\* bump, after the drain: retake the lock and start over at 0, whatever the
\* cursor is by now.
Reset(l) ==
    /\ argStep[l] = "reset"
    /\ Grant(l, 0)
    /\ UNCHANGED <<job, published, retired, target>>

\* wait_dispatch_headroom, then the control stream's bump or the publication.
ArenaHeadroom(l) ==
    /\ argStep[l] = "headroom"
    /\ published[l] - retired[l] <= MAX_INFLIGHT
    /\ IF need[l] # <<>>
       THEN argStep' = [argStep EXCEPT ![l] = "bump"] /\ UNCHANGED published
       ELSE /\ argStep' = [argStep EXCEPT ![l] = "idle"]
            /\ published' = [published EXCEPT ![l] = @ + 1]
    /\ UNCHANGED <<cursor, need, job, retired, target, live>>

\* The GPU finishes the lane's next job and no longer reads its arguments.
Retire(l) ==
    /\ retired[l] < published[l]
    /\ retired' = [retired EXCEPT ![l] = @ + 1]
    /\ live' = {r \in live : ~(r.lane = l /\ r.job = retired'[l])}
    /\ UNCHANGED <<cursor, argStep, need, job, published, target>>

Finished ==
    /\ \A l \in ArenaLane : argStep[l] = "idle" /\ retired[l] = MaxDispatches
    /\ UNCHANGED arenaVars

ArenaNext ==
    \/ \E l \in ArenaLane :
        \/ Bump(l) \/ Drain(l) \/ Reset(l) \/ ArenaHeadroom(l) \/ Retire(l)
        \/ \E request \in Requests : DispatchArgs(l, request)
    \/ Finished

ArenaSpec == ArenaInit /\ [][ArenaNext]_arenaVars

---------------------------------------------------------------------------------
(* Properties.                                                                 *)

\* "Concurrent lanes never share a slot", and a wrap never clobbers kernargs the
\* GPU is still consuming: bytes reserved for a dispatch belong to it alone from
\* the bump until the GPU has finished the job, and lie inside the arena.
SlotsDisjoint ==
    /\ \A r \in live : r.lo % ALIGN = 0 /\ r.hi <= ARENA_BYTES
    /\ \A r, s \in live : r # s => r.hi <= s.lo \/ s.hi <= r.lo

=================================================================================
