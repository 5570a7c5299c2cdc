------------------------------ MODULE OwnerSession ------------------------------
(* Direct dispatch on AMD compute lanes: OwnerCtx (device/src/amd/connector.rs) *)
(* and its session of one leased lane, the lane's PM4 timeline                  *)
(* (device/src/amd/signal.rs, Timeline), submit_hcq_dispatch                    *)
(* (device/src/amd/queue.rs) and the device-wide drain synchronize_all.         *)
(* Several host threads share the owners.  The GPU runs each lane's ring in     *)
(* order, writing the job's counter value to the lane's signal slot when the    *)
(* job has ended.  The GPU is healthy: a wait blocks until its value is there,  *)
(* and one that never could be (the code gives up after 30 s and poisons the    *)
(* device) is an unreachable wait.                                              *)
EXTENDS LaneLease, Naturals, Sequences, FiniteSets

CONSTANTS Thread, NoThread, NoLane,
          WRAP_WATERMARK,     \* TIMELINE_WRAP_WATERMARK
          RING_MAX_INFLIGHT,
          MaxJobs, MaxCalls   \* bounds: jobs dispatched, calls per thread

ASSUME SessionAssumption ==
    /\ NoThread \notin Thread /\ NoLane \notin Lane
    /\ WRAP_WATERMARK \in Nat \ {0} /\ RING_MAX_INFLIGHT \in Nat \ {0}
    /\ MaxJobs \in Nat /\ MaxCalls \in Nat

Owner == Client

VARIABLES session,    \* Owner -> the lane of its session lease, or NoLane
          sessionLock,\* Owner -> the thread in its session mutex, or NoThread
          newest,     \* Owner -> its newest finalizer [lane, value], or NoToken
          counter,    \* Lane -> Timeline::value, the next value to hand out
          signal,     \* Lane -> the slot the GPU writes
          ring,       \* Lane -> published jobs the GPU has not retired
          jobs,       \* every job published: its owner, lane and value
          ended,      \* jobs the GPU has executed
          pc, who,    \* Thread -> step; Thread -> the owner its call is for
          awaited,      \* Thread -> the finalizer it waits for
          taken,      \* Thread -> the lane of a lease it took out of a session
          todo,       \* Thread -> lanes its synchronize_all has yet to drain
          covers,     \* Thread -> jobs its synchronisation must see ended
          calls

owners == <<session, sessionLock, newest>>
laneVars == <<counter, signal, ring, jobs, ended>>
callVars == <<who, awaited, taken, todo, covers, calls>>
vars == <<holder, owners, laneVars, pc, callVars>>

NoToken == [lane |-> NoLane, value |-> 0]

Init ==
    /\ LeaseInit
    /\ session = [o \in Owner |-> NoLane]
    /\ sessionLock = [o \in Owner |-> NoThread]
    /\ newest = [o \in Owner |-> NoToken]
    /\ counter = [l \in Lane |-> 1]
    /\ signal = [l \in Lane |-> 0]
    /\ ring = [l \in Lane |-> <<>>]
    /\ jobs = <<>> /\ ended = {}
    /\ pc = [t \in Thread |-> "idle"]
    /\ who \in [Thread -> Owner]
    /\ awaited = [t \in Thread |-> NoToken]
    /\ taken = [t \in Thread |-> NoLane]
    /\ todo = [t \in Thread |-> {}]
    /\ covers = [t \in Thread |-> {}]
    /\ calls = [t \in Thread |-> 0]

Goto(t, label) == pc' = [pc EXCEPT ![t] = label]

Reached(tok) == tok # NoToken => signal[tok.lane] >= tok.value

Lock(o, t) == sessionLock[o] = NoThread /\ sessionLock' = [sessionLock EXCEPT ![o] = t]
Unlock(o) == sessionLock' = [sessionLock EXCEPT ![o] = NoThread]

OwnedBy(o) == {j \in 1..Len(jobs) : jobs[j].owner = o}

(* PlanContext::dispatch, the session mutex held from its start to its end.    *)

Dispatch(t, o) ==
    /\ pc[t] = "idle" /\ calls[t] < MaxCalls /\ Len(jobs) < MaxJobs
    /\ Lock(o, t)
    /\ Goto(t, "dispatch")
    /\ who' = [who EXCEPT ![t] = o]
    /\ calls' = [calls EXCEPT ![t] = @ + 1]
    /\ UNCHANGED <<holder, session, newest, laneVars, awaited, taken, todo, covers>>

\* Mutant: a new session leases a lane without retiring the previous epoch.
EpochUnfenced(o) == NoToken

\* What a dispatch without a session waits for before it leases a lane.
Epoch(o) == newest[o]

\* With a session, its lane is used; without one, the previous epoch is waited
\* for first, because the next lane may be another.
OpenSession(t) ==
    /\ pc[t] = "dispatch"
    /\ LET o == who[t] IN
       IF session[o] # NoLane
       THEN Goto(t, "headroom") /\ UNCHANGED awaited
       ELSE /\ Goto(t, "await")
            /\ awaited' = [awaited EXCEPT ![t] = Epoch(o)]
    /\ UNCHANGED <<holder, owners, laneVars, who, taken, todo, covers, calls>>

AwaitEpoch(t) ==
    /\ pc[t] = "await" /\ Reached(awaited[t])
    /\ Goto(t, "lease")
    /\ UNCHANGED <<holder, owners, laneVars, callVars>>

\* QueuePool::acquire, as LaneLease abstracts it.
LeaseLane(t) ==
    /\ pc[t] = "lease"
    /\ \E l \in Lane :
        /\ Lease(who[t], l)
        /\ session' = [session EXCEPT ![who[t]] = l]
    /\ Goto(t, "headroom")
    /\ UNCHANGED <<sessionLock, newest, laneVars, callVars>>

\* The steps before the reservation that can fail (the acquisition, scratch,
\* kernargs, lowering): the session's lease, if there is one, is dropped with the
\* error.
DispatchFails(t) ==
    /\ pc[t] \in {"lease", "headroom"}
    /\ Goto(t, "fail")
    /\ UNCHANGED <<holder, owners, laneVars, callVars>>

\* Mutant: the failed dispatch forgets its lease.
DropSessionLeaks(t) ==
    /\ pc[t] = "fail"
    /\ session' = [session EXCEPT ![who[t]] = NoLane]
    /\ Unlock(who[t])
    /\ Goto(t, "idle")
    /\ UNCHANGED <<holder, newest, laneVars, callVars>>

DropSession(t) ==
    /\ pc[t] = "fail"
    /\ IF session[who[t]] = NoLane THEN UNCHANGED holder ELSE Release(who[t], session[who[t]])
    /\ session' = [session EXCEPT ![who[t]] = NoLane]
    /\ Unlock(who[t])
    /\ Goto(t, "idle")
    /\ UNCHANGED <<newest, laneVars, callVars>>

\* wait_dispatch_headroom: at most RING_MAX_INFLIGHT reserved and not retired.
RingHeadroom(l) == signal[l] + RING_MAX_INFLIGHT >= counter[l] - 1

\* ensure_pm4_headroom: past the watermark, drain the lane and reset the slot ...
Headroom(t) ==
    /\ pc[t] = "headroom"
    /\ LET l == session[who[t]] IN
       IF counter[l] > WRAP_WATERMARK
       THEN /\ signal[l] >= counter[l] - 1
            /\ signal' = [signal EXCEPT ![l] = 0]
            /\ Goto(t, "reset")
       ELSE /\ RingHeadroom(l)
            /\ Goto(t, "ready")
            /\ UNCHANGED signal
    /\ UNCHANGED <<holder, owners, counter, ring, jobs, ended, callVars>>

\* ... then the counter (Timeline::reset_after_drain stores them in this order).
ResetCounter(t) ==
    /\ pc[t] = "reset"
    /\ counter' = [counter EXCEPT ![session[who[t]]] = 1]
    /\ Goto(t, "ready")
    /\ UNCHANGED <<holder, owners, signal, ring, jobs, ended, callVars>>

\* Timeline::next
Reserve(t) ==
    /\ pc[t] = "ready"
    /\ LET l == session[who[t]] IN
       /\ awaited' = [awaited EXCEPT ![t] = [lane |-> l, value |-> counter[l]]]
       /\ counter' = [counter EXCEPT ![l] = @ + 1]
    /\ Goto(t, "doorbell")
    /\ UNCHANGED <<holder, owners, signal, ring, jobs, ended, who, taken, todo, covers, calls>>

\* Mutant: the reservation of a dispatch that fails stays consumed.
CounterKept(t) == counter

\* Timeline::rollback: undo the last reservation, if it is still the last.
RolledBack(t) ==
    LET l == awaited[t].lane IN
    [counter EXCEPT ![l] = IF @ = awaited[t].value + 1 THEN awaited[t].value ELSE @]

\* TimelineReservation::drop after an error or panic before the doorbell.
Withdraw(t) ==
    /\ pc[t] = "doorbell"
    /\ counter' = RolledBack(t)
    /\ Goto(t, "fail")
    /\ UNCHANGED <<holder, owners, signal, ring, jobs, ended, callVars>>

Doorbell(t) ==
    /\ pc[t] = "doorbell"
    /\ LET l == awaited[t].lane IN
       /\ jobs' = Append(jobs, [owner |-> who[t], lane |-> l, value |-> awaited[t].value])
       /\ ring' = [ring EXCEPT ![l] = Append(@, Len(jobs'))]
    /\ Goto(t, "newest")
    /\ UNCHANGED <<holder, owners, counter, signal, ended, callVars>>

\* set_newest, and the end of the call.
SetNewest(t) ==
    /\ pc[t] = "newest"
    /\ newest' = [newest EXCEPT ![who[t]] = awaited[t]]
    /\ Unlock(who[t])
    /\ Goto(t, "idle")
    /\ UNCHANGED <<holder, session, laneVars, callVars>>

(* OwnerCtx::synchronize and finish_replay.                                    *)

\* Under the session mutex: take the lease and, to synchronize, the newest
\* finalizer.  synchronize frees the mutex before it drops the lease,
\* finish_session only after.
TakeSession(t, o, sync) ==
    /\ pc[t] = "idle" /\ calls[t] < MaxCalls
    /\ sessionLock[o] = NoThread
    /\ taken' = [taken EXCEPT ![t] = session[o]]
    /\ session' = [session EXCEPT ![o] = NoLane]
    /\ awaited' = [awaited EXCEPT ![t] = IF sync THEN newest[o] ELSE NoToken]
    /\ covers' = [covers EXCEPT ![t] = IF sync THEN OwnedBy(o) ELSE {}]
    /\ who' = [who EXCEPT ![t] = o]
    /\ calls' = [calls EXCEPT ![t] = @ + 1]
    /\ sessionLock' = IF sync THEN sessionLock ELSE [sessionLock EXCEPT ![o] = t]
    /\ Goto(t, "release")
    /\ UNCHANGED <<holder, newest, laneVars, todo>>

\* drop(lease)
ReleaseLane(t) ==
    /\ pc[t] = "release"
    /\ IF taken[t] = NoLane THEN UNCHANGED holder ELSE Release(who[t], taken[t])
    /\ taken' = [taken EXCEPT ![t] = NoLane]
    /\ sessionLock' = [o \in Owner |-> IF sessionLock[o] = t THEN NoThread ELSE sessionLock[o]]
    /\ Goto(t, "wait")
    /\ UNCHANGED <<session, newest, laneVars, who, awaited, todo, covers, calls>>

WaitToken(t) ==
    /\ pc[t] = "wait" /\ Reached(awaited[t])
    /\ Goto(t, "synced")
    /\ UNCHANGED <<holder, owners, laneVars, callVars>>

(* AmdDeviceCore::synchronize_all: drain every lane, without any lease.        *)

SynchronizeAll(t) ==
    /\ pc[t] = "idle" /\ calls[t] < MaxCalls
    /\ todo' = [todo EXCEPT ![t] = Lane]
    /\ covers' = [covers EXCEPT ![t] = 1..Len(jobs)]
    /\ calls' = [calls EXCEPT ![t] = @ + 1]
    /\ Goto(t, "drain")
    /\ UNCHANGED <<holder, owners, laneVars, who, awaited, taken>>

\* Mutant: the drain stops one value short.
DrainShort(l) == IF counter[l] > 2 THEN counter[l] - 2 ELSE 0

\* Timeline::drain waits for the last value handed out.
DrainTarget(l) == counter[l] - 1

DrainLane(t) ==
    /\ pc[t] = "drain"
    /\ \/ /\ todo[t] = {}
          /\ Goto(t, "synced")
          /\ UNCHANGED <<awaited, todo>>
       \/ \E l \in todo[t] :
            /\ todo' = [todo EXCEPT ![t] = @ \ {l}]
            /\ awaited' = [awaited EXCEPT ![t] =
                            IF DrainTarget(l) = 0 THEN NoToken
                            ELSE [lane |-> l, value |-> DrainTarget(l)]]
            /\ Goto(t, "drainWait")
    /\ UNCHANGED <<holder, owners, laneVars, who, taken, covers, calls>>

DrainWait(t) ==
    /\ pc[t] = "drainWait" /\ Reached(awaited[t])
    /\ Goto(t, "drain")
    /\ UNCHANGED <<holder, owners, laneVars, callVars>>

\* The synchronising call returns.
Return(t) ==
    /\ pc[t] = "synced"
    /\ covers' = [covers EXCEPT ![t] = {}]
    /\ awaited' = [awaited EXCEPT ![t] = NoToken]
    /\ Goto(t, "idle")
    /\ UNCHANGED <<holder, owners, laneVars, who, taken, todo, calls>>

(* The GPU: execute the job at the head of a ring, then store its value.       *)

ExecuteJob(l) ==
    /\ ring[l] # <<>> /\ Head(ring[l]) \notin ended
    /\ ended' = ended \cup {Head(ring[l])}
    /\ UNCHANGED <<holder, owners, counter, signal, ring, jobs, pc, callVars>>

Signal(l) ==
    /\ ring[l] # <<>> /\ Head(ring[l]) \in ended
    /\ signal' = [signal EXCEPT ![l] = jobs[Head(ring[l])].value]
    /\ ring' = [ring EXCEPT ![l] = Tail(@)]
    /\ UNCHANGED <<holder, owners, counter, jobs, ended, pc, callVars>>

HostStep(t) ==
    \/ OpenSession(t) \/ AwaitEpoch(t) \/ LeaseLane(t) \/ DropSession(t) \/ Headroom(t)
    \/ ResetCounter(t) \/ Reserve(t) \/ Doorbell(t) \/ SetNewest(t) \/ ReleaseLane(t)
    \/ WaitToken(t) \/ DrainLane(t) \/ DrainWait(t) \/ Return(t)

Call(t) ==
    \/ \E o \in Owner : Dispatch(t, o) \/ \E sync \in BOOLEAN : TakeSession(t, o, sync)
    \/ SynchronizeAll(t)

GpuStep(l) == ExecuteJob(l) \/ Signal(l)

Next == (\E t \in Thread : HostStep(t) \/ DispatchFails(t) \/ Withdraw(t) \/ Call(t)) \/ (\E l \in Lane : GpuStep(l))

Spec == Init /\ [][Next]_vars

---------------------------------------------------------------------------------
(* Properties.                                                                 *)

\* An owner's kernels execute in the order it dispatched them, on whatever lanes
\* its sessions run and whichever of its threads dispatched them.
OwnerOrder ==
    \A j \in ended : \A i \in OwnedBy(jobs[j].owner) : i < j => i \in ended

\* A synchronisation that returns has seen the end of every job published when
\* it began: the owner's own for `synchronize`, everybody's for the drain.
SynchronizeCovers == \A t \in Thread : pc[t] = "synced" => covers[t] \subseteq ended

\* A lane's timeline has been reset: it has carried more jobs than its counter
\* has handed out since.
Wrapped == \E l \in Lane : Cardinality({j \in 1..Len(jobs) : jobs[j].lane = l}) >= counter[l]

Waiting(t) == pc[t] \in {"await", "wait", "drainWait"} /\ awaited[t] # NoToken

\* A wait in progress can be satisfied: its value has been handed out in the
\* timeline's current generation, or is the next one (a drain may snapshot a
\* reservation that is withdrawn; the next dispatch then carries its value).
\* This is what ensure_pm4_headroom is for: otherwise a wait is "for a full-u64
\* target the slot can never reach -> false 30 s timeout".
WaitsReachable ==
    \A t \in Thread : Waiting(t) => awaited[t].value <= counter[awaited[t].lane]

\* A drain waits for a reservation that was withdrawn, until the next dispatch.
DrainsWithdrawn == \E t \in Thread : Waiting(t) /\ awaited[t].value = counter[awaited[t].lane]

\* While no timeline has wrapped, no drain waits for a withdrawn reservation and
\* there is a lane per owner, a call under way always leaves the host or the GPU
\* a step to take: no cycle of session mutex, lease and wait, also after failed
\* dispatches.  Calls are finite, so each returns.
NoCallStuck ==
    \/ Wrapped \/ DrainsWithdrawn
    \/ \A t \in Thread : pc[t] = "idle"
    \/ ENABLED ((\E t \in Thread : HostStep(t)) \/ (\E l \in Lane : GpuStep(l)))

\* The values the GPU will store on a lane continue the one it has stored,
\* without a hole or a repetition, across failed dispatches, other owners'
\* sessions and wraps: "queue publication authority guarantees there can be no
\* later reservation".  A hole would hold the back-pressure and every drain.
TimelineDense ==
    \A l \in Lane : \A i \in 1..Len(ring[l]) : jobs[ring[l][i]].value = signal[l] + i

=================================================================================
