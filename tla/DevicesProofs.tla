------------------------------ MODULE DevicesProofs ------------------------------
(* Safety of the use of a device's lanes and memory for any number of lanes,   *)
(* owners, threads, kernels and calls: dispatches in owners' sessions          *)
(* (OwnerSession), a lane's scratch (LaneScratch), and the argument arena with *)
(* one lane (KernargArena), where wraps need room for the jobs in flight.      *)
EXTENDS OwnerSession, LaneScratch, KernargArena, SequenceTheorems, TLAPS

---------------------------------------------------------------------------------
(* OwnerSession: the types                                                     *)

Token == [lane : Lane \cup {NoLane}, value : Nat]
JobRecord == [owner : Owner, lane : Lane, value : Nat]
Step == {"idle", "dispatch", "await", "lease", "headroom", "reset", "ready", "doorbell", "newest", "fail",
         "release", "wait", "synced", "drain", "drainWait"}

HostTypeOK ==
    /\ holder \in [Lane -> Owner \cup {Nobody}]
    /\ session \in [Owner -> Lane \cup {NoLane}]
    /\ sessionLock \in [Owner -> Thread \cup {NoThread}]
    /\ newest \in [Owner -> Token]
    /\ pc \in [Thread -> Step]
    /\ who \in [Thread -> Owner]
    /\ awaited \in [Thread -> Token]
    /\ taken \in [Thread -> Lane \cup {NoLane}]
    /\ todo \in [Thread -> SUBSET Lane]
    /\ covers \in [Thread -> SUBSET Nat]

LaneTypeOK ==
    /\ counter \in [Lane -> Nat \ {0}] /\ signal \in [Lane -> Nat]
    /\ ring \in [Lane -> Seq(Nat)]
    /\ jobs \in Seq(JobRecord) /\ ended \subseteq 1..Len(jobs)

---------------------------------------------------------------------------------
(* Who holds what                                                              *)

InDispatch(t) ==
    pc[t] \in {"dispatch", "await", "lease", "headroom", "reset", "ready", "doorbell", "newest", "fail"}

\* A dispatch holds its owner's session mutex, and from the lease on a session.
Dispatching(t) ==
    /\ InDispatch(t) => sessionLock[who[t]] = t
    /\ pc[t] \in {"headroom", "reset", "ready", "doorbell", "newest"} => session[who[t]] # NoLane
    /\ pc[t] \in {"await", "lease"} => session[who[t]] = NoLane
    /\ pc[t] \in {"doorbell", "newest"} => awaited[t].lane = session[who[t]]

\* A lease is in its owner's session or with the one thread that took it out.
Leased ==
    /\ \A o \in Owner : session[o] # NoLane => holder[session[o]] = o
    /\ \A t \in Thread : taken[t] # NoLane =>
          /\ pc[t] = "release" /\ holder[taken[t]] = who[t]
          /\ \A o \in Owner : session[o] # taken[t]
          /\ \A u \in Thread : taken[u] = taken[t] => u = t

\* A thread that has a value of lane l in hand or is resetting it.
Busy(t, l) == pc[t] \in {"doorbell", "reset"} /\ session[who[t]] = l

---------------------------------------------------------------------------------
(* The lanes' timelines                                                        *)

\* What is on a lane's ring: its jobs, in the order they were published, with
\* the values that follow the one stored.
RingOK(l) ==
    /\ \A i \in 1..Len(ring[l]) : /\ ring[l][i] \in 1..Len(jobs)
                                  /\ jobs[ring[l][i]].lane = l
                                  /\ jobs[ring[l][i]].value = signal[l] + i
    /\ \A i, j \in 1..Len(ring[l]) : i < j => ring[l][i] < ring[l][j]

\* The counter is one ahead of the ring, unless a thread is about to publish or reset.
CounterOK(l) == (\A t \in Thread : ~Busy(t, l)) => counter[l] = signal[l] + Len(ring[l]) + 1

InHand(t) ==
    LET l == session[who[t]] IN
    /\ pc[t] = "doorbell" => /\ awaited[t].value = signal[l] + Len(ring[l]) + 1
                             /\ counter[l] = awaited[t].value + 1
    /\ pc[t] = "reset" => signal[l] = 0 /\ Len(ring[l]) = 0

\* A job that has not ended is on its lane's ring.
Unended == 1..Len(jobs) \ ended
OnRing(i) == \E k \in 1..Len(ring[jobs[i].lane]) : ring[jobs[i].lane][k] = i

Timelines ==
    /\ \A l \in Lane : RingOK(l) /\ CounterOK(l)
    /\ \A t \in Thread : InHand(t)
    /\ \A i \in Unended : OnRing(i)

---------------------------------------------------------------------------------
(* What a token stands for                                                     *)

\* Reaching the token means that job i has ended.
Behind(i, tok) == jobs[i].lane = tok.lane /\ jobs[i].value <= tok.value

Unfinished(o) == {i \in Unended : jobs[i].owner = o}

\* The newest finalizer stands for all of the owner's jobs, except between a
\* doorbell and set_newest; a session's lane carries all that are under way.
OwnerOK(o) ==
    /\ (\A t \in Thread : pc[t] = "newest" => who[t] # o) => \A i \in Unfinished(o) : Behind(i, newest[o])
    /\ session[o] # NoLane => \A i \in Unfinished(o) : jobs[i].lane = session[o]

ThreadOK(t) ==
    /\ pc[t] \in {"await", "newest"} => \A i \in Unfinished(who[t]) : Behind(i, awaited[t])
    /\ pc[t] = "lease" => Unfinished(who[t]) = {}
    /\ covers[t] \subseteq 1..Len(jobs)
    /\ pc[t] \in {"release", "wait"} => \A i \in covers[t] \ ended : Behind(i, awaited[t])
    /\ pc[t] = "drain" => \A i \in covers[t] \ ended : jobs[i].lane \in todo[t]
    /\ pc[t] = "drainWait" => \A i \in covers[t] \ ended : jobs[i].lane \in todo[t] \/ Behind(i, awaited[t])
    /\ pc[t] = "synced" => covers[t] \subseteq ended

Order ==
    /\ \A o \in Owner : OwnerOK(o)
    /\ \A t \in Thread : ThreadOK(t)
    /\ OwnerOrder

Holding == HostTypeOK /\ LaneTypeOK /\ (\A t \in Thread : Dispatching(t)) /\ Leased

SessionInv == Holding /\ Timelines /\ Order

---------------------------------------------------------------------------------
(* Holding is preserved                                                        *)

\* Every host or GPU step preserves the types of what the host keeps.
LEMMA HostTypes == ASSUME Holding, [Next]_vars PROVE HostTypeOK'
<1> USE SessionAssumption
<1>0. HostTypeOK /\ LaneTypeOK /\ NoToken \in Token
  BY DEF Holding, NoToken, Token
<1>1. ASSUME NEW t \in Thread, NEW o \in Owner, Dispatch(t, o) PROVE HostTypeOK'
  BY <1>0, <1>1 DEF HostTypeOK, Dispatch, Lock, Goto, Step
<1>2. ASSUME NEW t \in Thread, OpenSession(t) PROVE HostTypeOK'
  BY <1>0, <1>2 DEF HostTypeOK, OpenSession, Epoch, Goto, Step, owners
<1>3. ASSUME NEW t \in Thread, AwaitEpoch(t) \/ WaitToken(t) \/ DrainWait(t) \/ DispatchFails(t) PROVE HostTypeOK'
  BY <1>0, <1>3 DEF HostTypeOK, AwaitEpoch, WaitToken, DrainWait, DispatchFails, Goto, Step, owners, callVars
<1>4. ASSUME NEW t \in Thread, LeaseLane(t) PROVE HostTypeOK'
  BY <1>0, <1>4 DEF HostTypeOK, LeaseLane, Lease, Goto, Step, callVars
<1>5. ASSUME NEW t \in Thread, DropSession(t) PROVE HostTypeOK'
  BY <1>0, <1>5 DEF HostTypeOK, DropSession, Release, Unlock, Goto, Step, callVars
<1>6. ASSUME NEW t \in Thread, Headroom(t) \/ ResetCounter(t) \/ Withdraw(t) \/ Doorbell(t) PROVE HostTypeOK'
  BY <1>0, <1>6 DEF HostTypeOK, Headroom, ResetCounter, Withdraw, Doorbell, Goto, Step, owners, callVars
<1>7. ASSUME NEW t \in Thread, Reserve(t) PROVE HostTypeOK'
  <2>1. session[who[t]] \in Lane \cup {NoLane}
    BY <1>0 DEF HostTypeOK
  <2>2. PICK tok : /\ awaited' = [awaited EXCEPT ![t] = tok]
                   /\ tok = [lane |-> session[who[t]], value |-> counter[session[who[t]]]]
    BY <1>7 DEF Reserve
  <2>3. session[who[t]] # NoLane
    BY <1>7 DEF Holding, Dispatching, Reserve
  <2>4. tok \in Token
    BY <1>0, <2>1, <2>2, <2>3 DEF Token, LaneTypeOK
  <2> QED BY <1>0, <1>7, <2>2, <2>4 DEF HostTypeOK, Reserve, Goto, Step, owners
<1>8. ASSUME NEW t \in Thread, SetNewest(t) PROVE HostTypeOK'
  BY <1>0, <1>8 DEF HostTypeOK, SetNewest, Unlock, Goto, Step, callVars
<1>9. ASSUME NEW t \in Thread, NEW o \in Owner, NEW sync \in BOOLEAN, TakeSession(t, o, sync) PROVE HostTypeOK'
  <2>1. OwnedBy(o) \in SUBSET Nat
    BY <1>0, LenProperties DEF OwnedBy, LaneTypeOK
  <2>2. PICK tok \in Token, seen \in SUBSET Nat :
          awaited' = [awaited EXCEPT ![t] = tok] /\ covers' = [covers EXCEPT ![t] = seen]
    BY <1>0, <1>9, <2>1 DEF TakeSession, HostTypeOK
  <2>3. sessionLock' \in [Owner -> Thread \cup {NoThread}]
    BY <1>0, <1>9 DEF TakeSession, HostTypeOK
  <2>4. /\ taken' = [taken EXCEPT ![t] = session[o]] /\ session' = [session EXCEPT ![o] = NoLane]
        /\ who' = [who EXCEPT ![t] = o] /\ pc' = [pc EXCEPT ![t] = "release"]
        /\ UNCHANGED <<holder, newest, todo>>
    BY <1>9 DEF TakeSession, Goto
  <2> QED BY <1>0, <2>2, <2>3, <2>4 DEF HostTypeOK, Step
<1>10. ASSUME NEW t \in Thread, ReleaseLane(t) PROVE HostTypeOK'
  BY <1>0, <1>10 DEF HostTypeOK, ReleaseLane, Release, Goto, Step
<1>11. ASSUME NEW t \in Thread, SynchronizeAll(t) PROVE HostTypeOK'
  <2>1. 1..Len(jobs) \in SUBSET Nat
    BY <1>0, LenProperties DEF LaneTypeOK
  <2> QED BY <1>0, <1>11, <2>1 DEF HostTypeOK, SynchronizeAll, Goto, Step, owners
<1>12. ASSUME NEW t \in Thread, DrainLane(t) PROVE HostTypeOK'
  <2>1. CASE todo[t] = {} /\ Goto(t, "synced") /\ UNCHANGED <<awaited, todo>>
    BY <1>0, <1>12, <2>1 DEF HostTypeOK, DrainLane, Goto, Step, owners
  <2>2. ASSUME NEW l \in todo[t], todo' = [todo EXCEPT ![t] = @ \ {l}],
               awaited' = [awaited EXCEPT ![t] = IF DrainTarget(l) = 0 THEN NoToken
                                                 ELSE [lane |-> l, value |-> DrainTarget(l)]],
               Goto(t, "drainWait")
        PROVE  HostTypeOK'
    <3>1. l \in Lane
      BY <1>0, <2>2 DEF HostTypeOK
    <3>2. DrainTarget(l) \in Nat
      <4>1. counter[l] \in Nat \ {0}
        BY <1>0, <3>1 DEF LaneTypeOK
      <4> QED BY <4>1 DEF DrainTarget
    <3>3. PICK tok \in Token : awaited' = [awaited EXCEPT ![t] = tok]
      BY <1>0, <2>2, <3>1, <3>2 DEF Token
    <3> QED BY <1>0, <1>12, <2>2, <3>3 DEF HostTypeOK, DrainLane, Goto, Step, owners
  <2> QED BY <1>12, <2>1, <2>2 DEF DrainLane
<1>13. ASSUME NEW t \in Thread, Return(t) PROVE HostTypeOK'
  BY <1>0, <1>13 DEF HostTypeOK, Return, Goto, Step, owners
<1>14. ASSUME NEW l \in Lane, GpuStep(l) PROVE HostTypeOK'
  BY <1>0, <1>14 DEF HostTypeOK, GpuStep, ExecuteJob, Signal, owners, callVars
<1>15. CASE UNCHANGED vars
  BY <1>0, <1>15 DEF HostTypeOK, vars, owners, callVars
<1> QED BY <1>1, <1>2, <1>3, <1>4, <1>5, <1>6, <1>7, <1>8, <1>9, <1>10, <1>11, <1>12, <1>13, <1>14, <1>15
        DEF Next, HostStep, Call

\* Every step preserves the types of the lanes.
LEMMA LaneTypes == ASSUME SessionInv, [Next]_vars PROVE LaneTypeOK'
<1> USE SessionAssumption
<1>0. HostTypeOK /\ LaneTypeOK
  BY DEF SessionInv, Holding
<1>1. ASSUME NEW t \in Thread, NEW o \in Owner, NEW sync \in BOOLEAN,
             \/ Dispatch(t, o) \/ TakeSession(t, o, sync) \/ SynchronizeAll(t)
             \/ OpenSession(t) \/ AwaitEpoch(t) \/ LeaseLane(t) \/ DispatchFails(t) \/ DropSession(t)
             \/ SetNewest(t) \/ ReleaseLane(t) \/ WaitToken(t) \/ DrainLane(t) \/ DrainWait(t) \/ Return(t)
      PROVE  LaneTypeOK'
  <2>1. UNCHANGED laneVars
    BY <1>1 DEF Dispatch, TakeSession, SynchronizeAll, OpenSession, AwaitEpoch, LeaseLane, DispatchFails, DropSession,
                SetNewest, ReleaseLane, WaitToken, DrainLane, DrainWait, Return
  <2> QED BY <1>0, <2>1 DEF LaneTypeOK, laneVars
<1>2. ASSUME NEW t \in Thread, Headroom(t) PROVE LaneTypeOK'
  <2>1. UNCHANGED <<counter, ring, jobs, ended>> /\ (UNCHANGED signal \/ signal' = [signal EXCEPT ![session[who[t]]] = 0])
    BY <1>2 DEF Headroom
  <2>2. signal' \in [Lane -> Nat]
    <3>1. signal \in [Lane -> Nat]
      BY <1>0 DEF LaneTypeOK
    <3> QED BY <2>1, <3>1
  <2> QED BY <1>0, <2>1, <2>2 DEF LaneTypeOK
<1>3. ASSUME NEW t \in Thread, ResetCounter(t) PROVE LaneTypeOK'
  <2>1. UNCHANGED <<signal, ring, jobs, ended>> /\ counter' = [counter EXCEPT ![session[who[t]]] = 1]
    BY <1>3 DEF ResetCounter
  <2>2. counter' \in [Lane -> Nat \ {0}]
    <3>1. counter \in [Lane -> Nat \ {0}]
      BY <1>0 DEF LaneTypeOK
    <3>2. \A l \in Lane : counter'[l] \in Nat \ {0}
      BY <2>1, <3>1
    <3> QED BY <2>1, <3>1, <3>2
  <2> QED BY <1>0, <2>1, <2>2 DEF LaneTypeOK
<1>4. ASSUME NEW t \in Thread, Reserve(t) PROVE LaneTypeOK'
  <2>1. UNCHANGED <<signal, ring, jobs, ended>> /\ counter' = [counter EXCEPT ![session[who[t]]] = @ + 1]
    BY <1>4 DEF Reserve
  <2>2. counter' \in [Lane -> Nat \ {0}]
    <3>1. counter \in [Lane -> Nat \ {0}]
      BY <1>0 DEF LaneTypeOK
    <3>2. \A l \in Lane : counter'[l] \in Nat \ {0}
      BY <2>1, <3>1
    <3> QED BY <2>1, <3>1, <3>2
  <2> QED BY <1>0, <2>1, <2>2 DEF LaneTypeOK
<1>5. ASSUME NEW t \in Thread, Withdraw(t) PROVE LaneTypeOK'
  <2>1. pc[t] = "doorbell" /\ counter' = RolledBack(t) /\ UNCHANGED <<signal, ring, jobs, ended>>
    BY <1>5 DEF Withdraw
  <2>2. awaited[t].lane = session[who[t]] /\ session[who[t]] \in Lane
    BY <1>0, <2>1 DEF SessionInv, Holding, Dispatching, HostTypeOK
  <2>3. awaited[t].value = signal[session[who[t]]] + Len(ring[session[who[t]]]) + 1
    BY <2>1 DEF SessionInv, Timelines, InHand
  <2>4. awaited[t].value \in Nat \ {0}
    BY <1>0, <2>2, <2>3, LenProperties DEF LaneTypeOK
  <2> QED BY <1>0, <2>1, <2>2, <2>4 DEF LaneTypeOK, RolledBack
<1>6. ASSUME NEW t \in Thread, Doorbell(t) PROVE LaneTypeOK'
  <2>1. /\ pc[t] = "doorbell" /\ UNCHANGED <<counter, signal, ended>>
        /\ jobs' = Append(jobs, [owner |-> who[t], lane |-> awaited[t].lane, value |-> awaited[t].value])
        /\ ring' = [ring EXCEPT ![awaited[t].lane] = Append(@, Len(jobs'))]
    BY <1>6 DEF Doorbell
  <2>2. awaited[t].lane \in Lane /\ awaited[t].value \in Nat /\ who[t] \in Owner
    BY <1>0, <2>1 DEF SessionInv, Holding, Dispatching, HostTypeOK, Token
  <2>3. [owner |-> who[t], lane |-> awaited[t].lane, value |-> awaited[t].value] \in JobRecord
    BY <2>2 DEF JobRecord
  <2>4. jobs' \in Seq(JobRecord)
    BY <1>0, <2>1, <2>3, AppendProperties DEF LaneTypeOK
  <2>5. Len(jobs') \in Nat /\ ended' \subseteq 1..Len(jobs')
    <3>1. Len(jobs) \in Nat /\ Len(jobs') = Len(jobs) + 1 /\ ended \subseteq 1..Len(jobs) /\ ended' = ended
      BY <1>0, <2>1, <2>3, AppendProperties, LenProperties DEF LaneTypeOK
    <3> QED BY <3>1
  <2>6. Append(ring[awaited[t].lane], Len(jobs')) \in Seq(Nat)
    BY <1>0, <2>2, <2>5, AppendProperties DEF LaneTypeOK
  <2> QED BY <1>0, <2>1, <2>2, <2>4, <2>5, <2>6 DEF LaneTypeOK
<1>7. ASSUME NEW l \in Lane, ExecuteJob(l) PROVE LaneTypeOK'
  <2>1. ring[l] # <<>> /\ ended' = ended \cup {Head(ring[l])} /\ UNCHANGED <<counter, signal, ring, jobs>>
    BY <1>7 DEF ExecuteJob
  <2>2. Len(ring[l]) \in Nat \ {0} /\ Head(ring[l]) = ring[l][1]
    BY <1>0, <2>1, LenProperties, EmptySeq DEF LaneTypeOK
  <2>3. Head(ring[l]) \in 1..Len(jobs)
    BY <2>2 DEF SessionInv, Timelines, RingOK
  <2> QED BY <1>0, <2>1, <2>3 DEF LaneTypeOK
<1>8. ASSUME NEW l \in Lane, Signal(l) PROVE LaneTypeOK'
  <2>1. /\ ring[l] # <<>> /\ signal' = [signal EXCEPT ![l] = jobs[Head(ring[l])].value]
        /\ ring' = [ring EXCEPT ![l] = Tail(@)] /\ UNCHANGED <<counter, jobs, ended>>
    BY <1>8 DEF Signal
  <2>2. Tail(ring[l]) \in Seq(Nat) /\ Len(ring[l]) \in Nat \ {0} /\ Head(ring[l]) = ring[l][1]
    BY <1>0, <2>1, HeadTailProperties, LenProperties, EmptySeq DEF LaneTypeOK
  <2>3. jobs[Head(ring[l])].value = signal[l] + 1
    BY <2>2 DEF SessionInv, Timelines, RingOK
  <2> QED BY <1>0, <2>1, <2>2, <2>3 DEF LaneTypeOK
<1>9. CASE UNCHANGED vars
  BY <1>0, <1>9 DEF LaneTypeOK, vars, laneVars
<1>10. BOOLEAN # {} /\ \A t \in Thread : who[t] \in Owner
  BY <1>0 DEF HostTypeOK
<1> QED BY <1>1, <1>2, <1>3, <1>4, <1>5, <1>6, <1>7, <1>8, <1>9, <1>10 DEF Next, HostStep, Call, GpuStep

\* Two dispatches under way are for different owners, and none is for an owner
\* whose mutex is free.
LEMMA Apart ==
    ASSUME Holding, NEW t \in Thread, NEW u \in Thread, u # t, InDispatch(u),
           NEW o \in Owner, sessionLock[o] \in {t, NoThread}
    PROVE  who[u] # o
  BY SessionAssumption DEF Holding, Dispatching

\* What a step of one thread leaves to another.
Kept(u) ==
    /\ pc'[u] = pc[u] /\ who'[u] = who[u] /\ awaited'[u] = awaited[u]
    /\ taken'[u] = taken[u] /\ todo'[u] = todo[u] /\ covers'[u] = covers[u]
    /\ InDispatch(u) => session'[who[u]] = session[who[u]] /\ sessionLock'[who[u]] = sessionLock[who[u]]

HostAction(t) == HostStep(t) \/ DispatchFails(t) \/ Withdraw(t) \/ Call(t)

\* A thread's step leaves the calls of the others alone, and the sessions and
\* mutexes that their dispatches use.
LEMMA Others ==
    ASSUME Holding, NEW t \in Thread, HostAction(t), NEW u \in Thread, u # t
    PROVE  Kept(u)
<1> USE SessionAssumption
<1>0. HostTypeOK /\ Dispatching(t) /\ Dispatching(u)
  BY DEF Holding
<1>1. ASSUME NEW o \in Owner, Dispatch(t, o) PROVE Kept(u)
  <2>1. InDispatch(u) => who[u] # o
    BY <1>1, Apart DEF Dispatch, Lock
  <2> QED BY <1>0, <1>1, <2>1 DEF Kept, Dispatch, Lock, Goto, HostTypeOK
<1>2. CASE \/ OpenSession(t) \/ AwaitEpoch(t) \/ WaitToken(t) \/ DrainWait(t) \/ DispatchFails(t) \/ Headroom(t)
           \/ ResetCounter(t)
  BY <1>0, <1>2 DEF Kept, HostTypeOK, OpenSession, AwaitEpoch, WaitToken, DrainWait, DispatchFails, Headroom,
                    ResetCounter, owners, callVars, Goto
<1>3. CASE \/ Withdraw(t) \/ Doorbell(t) \/ Reserve(t) \/ SynchronizeAll(t) \/ DrainLane(t) \/ Return(t)
  BY <1>0, <1>3 DEF Kept, HostTypeOK, Withdraw, Doorbell, Reserve, SynchronizeAll, DrainLane, Return, owners, callVars,
                    Goto
<1>4. CASE LeaseLane(t) \/ DropSession(t) \/ SetNewest(t)
  <2>1. sessionLock[who[t]] = t /\ who[t] \in Owner /\ InDispatch(t)
    BY <1>0, <1>4 DEF LeaseLane, DropSession, SetNewest, Dispatching, InDispatch, HostTypeOK
  <2>2. InDispatch(u) => who[u] # who[t]
    BY <2>1, Apart
  <2> QED BY <1>0, <1>4, <2>1, <2>2 DEF Kept, LeaseLane, DropSession, SetNewest, Unlock, Goto, HostTypeOK, callVars
<1>5. ASSUME NEW o \in Owner, NEW sync \in BOOLEAN, TakeSession(t, o, sync) PROVE Kept(u)
  <2>1. InDispatch(u) => who[u] # o
    BY <1>5, Apart DEF TakeSession
  <2> QED BY <1>0, <1>5, <2>1 DEF Kept, TakeSession, Goto, HostTypeOK
<1>6. CASE ReleaseLane(t)
  BY <1>0, <1>6 DEF Kept, ReleaseLane, Goto, HostTypeOK, Dispatching
<1> QED BY <1>1, <1>2, <1>3, <1>4, <1>5, <1>6 DEF HostAction, HostStep, Call

\* Every step keeps the mutex, the session and the token of each dispatch.
LEMMA DispatchingStep == ASSUME Holding, [Next]_vars PROVE \A u \in Thread : Dispatching(u)'
<1> USE SessionAssumption
<1>0. HostTypeOK /\ \A u \in Thread : Dispatching(u)
  BY DEF Holding
<1>1. ASSUME NEW t \in Thread, HostAction(t) PROVE \A u \in Thread : Dispatching(u)'
  <2>1. ASSUME NEW u \in Thread, u # t PROVE Dispatching(u)'
    <3>1. Kept(u)
      BY <1>1, <2>1, Others
    <3> QED BY <1>0, <3>1 DEF Kept, Dispatching, InDispatch
  <2>2. ASSUME NEW o \in Owner, Dispatch(t, o) PROVE Dispatching(t)'
    BY <1>0, <2>2 DEF HostTypeOK, Dispatch, Lock, Goto, Dispatching, InDispatch
  <2>3. ASSUME OpenSession(t) \/ AwaitEpoch(t) \/ DispatchFails(t) \/ Headroom(t) PROVE Dispatching(t)'
    BY <1>0, <2>3 DEF HostTypeOK, OpenSession, AwaitEpoch, DispatchFails, Headroom, callVars, owners, Goto,
                      Dispatching, InDispatch
  <2>4. ASSUME ResetCounter(t) \/ Withdraw(t) \/ Doorbell(t) \/ Reserve(t) PROVE Dispatching(t)'
    BY <1>0, <2>4 DEF HostTypeOK, ResetCounter, Withdraw, Doorbell, Reserve, callVars, owners, Goto,
                      Dispatching, InDispatch
  <2>5. ASSUME WaitToken(t) \/ DrainWait(t) \/ SynchronizeAll(t) \/ DrainLane(t) \/ Return(t) PROVE Dispatching(t)'
    BY <1>0, <2>5 DEF HostTypeOK, WaitToken, DrainWait, SynchronizeAll, DrainLane, Return, Goto,
                      Dispatching, InDispatch
  <2>6. ASSUME LeaseLane(t) PROVE Dispatching(t)'
    <3>1. PICK l \in Lane : session' = [session EXCEPT ![who[t]] = l]
      BY <2>6 DEF LeaseLane
    <3> QED BY <1>0, <2>6, <3>1 DEF LeaseLane, Goto, HostTypeOK, Dispatching, InDispatch, callVars
  <2>7. ASSUME DropSession(t) \/ SetNewest(t) \/ ReleaseLane(t) PROVE Dispatching(t)'
    BY <1>0, <2>7 DEF DropSession, SetNewest, ReleaseLane, Goto, HostTypeOK, Dispatching, InDispatch
  <2>8. ASSUME NEW o \in Owner, NEW sync \in BOOLEAN, TakeSession(t, o, sync) PROVE Dispatching(t)'
    BY <1>0, <2>8 DEF HostTypeOK, TakeSession, Goto, Dispatching, InDispatch
  <2>9. Dispatching(t)'
    BY <1>1, <2>2, <2>3, <2>4, <2>5, <2>6, <2>7, <2>8 DEF HostAction, HostStep, Call
  <2> QED BY <2>1, <2>9
<1>2. ASSUME NEW l \in Lane, GpuStep(l) PROVE \A u \in Thread : Dispatching(u)'
  BY <1>0, <1>2 DEF GpuStep, ExecuteJob, Signal, owners, callVars, Dispatching, InDispatch
<1>3. CASE UNCHANGED vars
  BY <1>0, <1>3 DEF vars, owners, callVars, Dispatching, InDispatch
<1> QED BY <1>1, <1>2, <1>3 DEF Next, HostAction

\* Every step keeps a lease in one place, with its holder.
LEMMA LeasedStep == ASSUME Holding, [Next]_vars PROVE Leased'
<1> USE SessionAssumption, NobodyAssumption DEF Owner
<1>0. HostTypeOK /\ Leased
  BY DEF Holding
<1>1. ASSUME NEW t \in Thread, NEW o \in Owner, Dispatch(t, o) PROVE Leased'
  BY <1>0, <1>1 DEF HostTypeOK, Leased, Dispatch, Goto
<1>2. ASSUME NEW t \in Thread,
             \/ OpenSession(t) \/ AwaitEpoch(t) \/ WaitToken(t) \/ DrainWait(t) \/ DispatchFails(t) \/ Headroom(t)
             \/ ResetCounter(t) \/ Withdraw(t) \/ Doorbell(t) \/ Reserve(t) \/ SynchronizeAll(t) \/ DrainLane(t)
             \/ Return(t) \/ SetNewest(t)
      PROVE  Leased'
  <2>1. UNCHANGED <<holder, session, who, taken>> /\ pc[t] # "release" /\ \E p \in Step : pc' = [pc EXCEPT ![t] = p]
    BY <1>2 DEF OpenSession, AwaitEpoch, WaitToken, DrainWait, DispatchFails, Headroom, ResetCounter, Withdraw,
                Doorbell, Reserve, SynchronizeAll, DrainLane, Return, SetNewest, owners, callVars, Goto, Step
  <2> QED BY <1>0, <2>1 DEF HostTypeOK, Leased
<1>3. ASSUME NEW t \in Thread, LeaseLane(t) PROVE Leased'
  <2>1. PICK l \in Lane : /\ holder[l] = Nobody /\ holder' = [holder EXCEPT ![l] = who[t]]
                          /\ session' = [session EXCEPT ![who[t]] = l]
    BY <1>3 DEF LeaseLane, Lease
  <2>2. /\ \A o \in Owner : session[o] # l
        /\ \A u \in Thread : taken[u] # l
    BY <1>0, <2>1 DEF Leased, HostTypeOK
  <2>3. UNCHANGED <<who, taken>> /\ pc[t] = "lease" /\ pc' = [pc EXCEPT ![t] = "headroom"]
    BY <1>3 DEF LeaseLane, Goto, callVars
  <2> QED BY <1>0, <2>1, <2>2, <2>3 DEF HostTypeOK, Leased
<1>4. ASSUME NEW t \in Thread, DropSession(t) PROVE Leased'
  <2>1. /\ UNCHANGED <<who, taken>> /\ pc[t] = "fail" /\ pc' = [pc EXCEPT ![t] = "idle"]
        /\ session' = [session EXCEPT ![who[t]] = NoLane]
    BY <1>4 DEF DropSession, Goto, callVars
  <2>2. CASE session[who[t]] = NoLane
    BY <1>0, <1>4, <2>1, <2>2 DEF HostTypeOK, Leased, DropSession
  <2>3. CASE session[who[t]] # NoLane
    <3>1. holder' = [holder EXCEPT ![session[who[t]]] = Nobody]
      BY <1>4, <2>3 DEF DropSession, Release
    <3>2. \A o \in Owner : session[o] = session[who[t]] => o = who[t]
      BY <1>0, <2>3 DEF HostTypeOK, Leased
    <3> QED BY <1>0, <2>1, <2>3, <3>1, <3>2 DEF HostTypeOK, Leased
  <2> QED BY <2>2, <2>3
<1>5. ASSUME NEW t \in Thread, NEW o \in Owner, NEW sync \in BOOLEAN, TakeSession(t, o, sync) PROVE Leased'
  <2>1. /\ taken' = [taken EXCEPT ![t] = session[o]] /\ session' = [session EXCEPT ![o] = NoLane]
        /\ who' = [who EXCEPT ![t] = o] /\ pc' = [pc EXCEPT ![t] = "release"] /\ holder' = holder /\ pc[t] = "idle"
    BY <1>5 DEF TakeSession, Goto
  <2>2. \A p \in Owner : session[p] = session[o] /\ session[o] # NoLane => p = o
    BY <1>0 DEF HostTypeOK, Leased
  <2>3. taken[t] = NoLane
    BY <1>0, <2>1 DEF HostTypeOK, Leased
  <2> QED BY <1>0, <2>1, <2>2, <2>3 DEF HostTypeOK, Leased
<1>6. ASSUME NEW t \in Thread, ReleaseLane(t) PROVE Leased'
  <2>1. /\ UNCHANGED <<who, session>> /\ pc' = [pc EXCEPT ![t] = "wait"] /\ taken' = [taken EXCEPT ![t] = NoLane]
    BY <1>6 DEF ReleaseLane, Goto
  <2>2. CASE taken[t] = NoLane
    BY <1>0, <1>6, <2>1, <2>2 DEF HostTypeOK, Leased, ReleaseLane
  <2>3. CASE taken[t] # NoLane
    <3>1. holder' = [holder EXCEPT ![taken[t]] = Nobody]
      BY <1>6, <2>3 DEF ReleaseLane, Release
    <3> QED BY <1>0, <2>1, <2>3, <3>1 DEF HostTypeOK, Leased
  <2> QED BY <2>2, <2>3
<1>7. ASSUME NEW l \in Lane, GpuStep(l) PROVE Leased'
  BY <1>0, <1>7 DEF GpuStep, ExecuteJob, Signal, owners, callVars, Leased
<1>8. CASE UNCHANGED vars
  BY <1>0, <1>8 DEF vars, owners, callVars, Leased
<1> QED BY <1>1, <1>2, <1>3, <1>4, <1>5, <1>6, <1>7, <1>8 DEF Next, HostStep, Call

---------------------------------------------------------------------------------
(* Timelines are preserved                                                     *)

\* One dispatch at a time uses a lane.
LEMMA OneOnLane ==
    ASSUME Holding, NEW t \in Thread, NEW u \in Thread, InDispatch(t), InDispatch(u),
           session[who[t]] = session[who[u]], session[who[t]] # NoLane
    PROVE  t = u
  BY DEF Holding, HostTypeOK, Leased, Dispatching

\* Steps that leave the lanes alone keep the timelines.
LEMMA QuietTimelines ==
    ASSUME SessionInv, UNCHANGED laneVars, NEW t \in Thread, \A u \in Thread \ {t} : Kept(u),
           pc[t] \notin {"doorbell", "reset"}, pc'[t] \notin {"doorbell", "reset"}
    PROVE  Timelines'
<1>0. Timelines /\ UNCHANGED <<counter, signal, ring, jobs, ended>>
  BY DEF SessionInv, laneVars
<1>1. ASSUME NEW u \in Thread PROVE InHand(u)' /\ \A l \in Lane : Busy(u, l)' = Busy(u, l)
  <2>1. CASE u = t
    BY <2>1 DEF InHand, Busy
  <2>2. CASE u # t
    <3>1. Kept(u) /\ InHand(u)
      BY <1>0, <2>2 DEF Timelines
    <3> QED BY <1>0, <3>1 DEF Kept, InHand, Busy, InDispatch
  <2> QED BY <2>1, <2>2
<1>2. ASSUME NEW l \in Lane PROVE RingOK(l)' /\ CounterOK(l)'
  <2>1. RingOK(l) /\ CounterOK(l)
    BY <1>0 DEF Timelines
  <2>2. RingOK(l)'
    BY <1>0, <2>1 DEF RingOK
  <2>3. CounterOK(l)'
    BY <1>0, <1>1, <2>1 DEF CounterOK
  <2> QED BY <2>2, <2>3
<1>3. \A i \in Unended' : OnRing(i)'
  BY <1>0 DEF Timelines, Unended, OnRing
<1> QED BY <1>1, <1>2, <1>3 DEF Timelines

\* A dispatch that changes its own lane keeps the timelines of the others.
LEMMA OwnLane ==
    ASSUME SessionInv, NEW t \in Thread, \A u \in Thread \ {t} : Kept(u),
           NEW l \in Lane, l = session[who[t]], InDispatch(t),
           session'[who'[t]] = l,
           \A m \in Lane \ {l} : counter'[m] = counter[m] /\ signal'[m] = signal[m] /\ ring'[m] = ring[m],
           \A i \in 1..Len(jobs) : jobs'[i] = jobs[i], Len(jobs) \in Nat, Len(jobs') \in Nat, Len(jobs) <= Len(jobs'),
           RingOK(l)', CounterOK(l)', InHand(t)'
    PROVE  (\A m \in Lane : RingOK(m)' /\ CounterOK(m)') /\ (\A u \in Thread : InHand(u)')
<1>0. Timelines /\ Holding /\ l # NoLane
  BY SessionAssumption DEF SessionInv
<1>1. ASSUME NEW u \in Thread, u # t PROVE InHand(u)' /\ ~Busy(u, l) /\ \A m \in Lane : Busy(u, m)' = Busy(u, m)
  <2>1. Kept(u) /\ InHand(u)
    BY <1>0, <1>1 DEF Timelines
  <2>2. InDispatch(u) => session[who[u]] # l
    BY <1>0, <1>1, OneOnLane
  <2>3. ASSUME NEW m \in Lane PROVE Busy(u, m)' = Busy(u, m)
    BY <2>1 DEF Kept, Busy, InDispatch
  <2>4. CASE pc[u] \in {"doorbell", "reset"}
    <3>1. InDispatch(u) /\ session[who[u]] \in Lane \ {l}
      BY <1>0, <2>2, <2>4 DEF InDispatch, Holding, Dispatching, HostTypeOK
    <3>2. session'[who'[u]] = session[who[u]] /\ pc'[u] = pc[u] /\ awaited'[u] = awaited[u]
      BY <2>1, <3>1 DEF Kept
    <3>3. InHand(u)'
      BY <2>1, <3>1, <3>2 DEF InHand
    <3> QED BY <2>3, <3>1, <3>3 DEF Busy
  <2>5. CASE pc[u] \notin {"doorbell", "reset"}
    BY <2>1, <2>3, <2>5 DEF Kept, InHand, Busy
  <2> QED BY <2>4, <2>5
<1>2. ASSUME NEW m \in Lane, m # l PROVE RingOK(m)' /\ CounterOK(m)'
  <2>1. RingOK(m) /\ CounterOK(m) /\ counter'[m] = counter[m] /\ signal'[m] = signal[m] /\ ring'[m] = ring[m]
    BY <1>0, <1>2 DEF Timelines
  <2>2. RingOK(m)'
    BY <2>1 DEF RingOK
  <2>3. ~Busy(t, m)' /\ ~Busy(t, m)
    BY <1>2 DEF Busy
  <2>4. (\A u \in Thread : ~Busy(u, m)') => \A u \in Thread : ~Busy(u, m)
    BY <1>1, <2>3
  <2> QED BY <2>1, <2>2, <2>4 DEF CounterOK
<1> QED BY <1>1, <1>2

\* ensure_pm4_headroom and reset_after_drain.
LEMMA HeadroomTimelines ==
    ASSUME SessionInv, NEW t \in Thread, Headroom(t) \/ ResetCounter(t) PROVE Timelines'
<1>0. Timelines /\ Holding /\ HostTypeOK /\ LaneTypeOK /\ Dispatching(t)
  BY DEF SessionInv, Holding
<1>1. PICK l \in Lane : l = session[who[t]] /\ InDispatch(t)
  BY <1>0 DEF Dispatching, HostTypeOK, Headroom, ResetCounter, InDispatch
<1>2. \A u \in Thread \ {t} : Kept(u)
  BY <1>0, Others DEF HostAction, HostStep
<1>3. /\ UNCHANGED <<session, who, ring, jobs, ended>>
      /\ Len(jobs) \in Nat /\ Len(ring[l]) \in Nat /\ signal[l] \in Nat /\ counter[l] \in Nat
  BY <1>0, LenProperties DEF Headroom, ResetCounter, owners, callVars, LaneTypeOK
<1>4. \A u \in Thread : u # t => ~Busy(u, l)
  BY <1>0, <1>1, SessionAssumption, OneOnLane DEF Busy, InDispatch
<1>5. RingOK(l) /\ CounterOK(l) /\ InHand(t)
  BY <1>0 DEF Timelines
<1>6. /\ \A m \in Lane \ {l} : counter'[m] = counter[m] /\ signal'[m] = signal[m]
      /\ RingOK(l)' /\ CounterOK(l)' /\ InHand(t)'
  <2>1. CASE Headroom(t) /\ counter[l] > WRAP_WATERMARK
    <3>1. /\ pc[t] = "headroom" /\ pc'[t] = "reset" /\ counter' = counter
          /\ signal[l] >= counter[l] - 1 /\ signal' = [signal EXCEPT ![l] = 0]
      BY <1>0, <1>1, <2>1 DEF Headroom, Goto, HostTypeOK
    <3>2. counter[l] = signal[l] + Len(ring[l]) + 1
      BY <1>4, <1>5, <3>1 DEF CounterOK, Busy
    <3>3. Len(ring[l]) = 0 /\ signal'[l] = 0
      BY <1>0, <1>3, <3>1, <3>2 DEF LaneTypeOK
    <3>4. Busy(t, l)'
      BY <1>1, <1>3, <3>1 DEF Busy
    <3>5. \A m \in Lane \ {l} : counter'[m] = counter[m] /\ signal'[m] = signal[m]
      BY <1>0, <3>1 DEF LaneTypeOK
    <3>6. RingOK(l)'
      BY <1>3, <3>3 DEF RingOK
    <3>7. CounterOK(l)'
      BY <3>4 DEF CounterOK
    <3>8. InHand(t)'
      BY <1>1, <1>3, <3>1, <3>3 DEF InHand
    <3> QED BY <3>5, <3>6, <3>7, <3>8
  <2>2. CASE Headroom(t) /\ ~(counter[l] > WRAP_WATERMARK)
    <3>1. pc[t] = "headroom" /\ pc'[t] = "ready" /\ UNCHANGED <<counter, signal>>
      BY <1>0, <1>1, <2>2 DEF Headroom, Goto, HostTypeOK
    <3>2. counter[l] = signal[l] + Len(ring[l]) + 1
      BY <1>4, <1>5, <3>1 DEF CounterOK, Busy
    <3> QED BY <1>3, <1>5, <3>1, <3>2 DEF RingOK, CounterOK, InHand
  <2>3. CASE ResetCounter(t)
    <3>1. /\ pc[t] = "reset" /\ pc'[t] = "ready" /\ counter' = [counter EXCEPT ![l] = 1] /\ signal' = signal
      BY <1>0, <1>1, <2>3 DEF ResetCounter, Goto, HostTypeOK
    <3>2. signal[l] = 0 /\ Len(ring[l]) = 0
      BY <1>1, <1>5, <3>1 DEF InHand
    <3>3. counter'[l] = 1 /\ \A m \in Lane \ {l} : counter'[m] = counter[m]
      BY <1>0, <3>1 DEF LaneTypeOK
    <3> QED BY <1>3, <3>1, <3>2, <3>3 DEF RingOK, CounterOK, InHand
  <2> QED BY <2>1, <2>2, <2>3
<1>7. (\A m \in Lane : RingOK(m)' /\ CounterOK(m)') /\ (\A u \in Thread : InHand(u)')
  BY <1>1, <1>2, <1>3, <1>6, OwnLane
<1>8. \A i \in Unended' : OnRing(i)'
  BY <1>0, <1>3 DEF Timelines, Unended, OnRing
<1> QED BY <1>7, <1>8 DEF Timelines

\* A reservation and its withdrawal: the counter runs ahead of the ring by the
\* one value in hand, and rollback always finds its value the last.
LEMMA ReserveTimelines ==
    ASSUME SessionInv, NEW t \in Thread, Reserve(t) \/ Withdraw(t) PROVE Timelines'
<1>0. Timelines /\ Holding /\ HostTypeOK /\ LaneTypeOK /\ Dispatching(t)
  BY DEF SessionInv, Holding
<1>1. PICK l \in Lane : l = session[who[t]] /\ InDispatch(t)
  BY <1>0 DEF Dispatching, HostTypeOK, Reserve, Withdraw, InDispatch
<1>2. \A u \in Thread \ {t} : Kept(u)
  BY <1>0, Others DEF HostAction, HostStep
<1>3. /\ UNCHANGED <<session, who, signal, ring, jobs, ended>>
      /\ Len(jobs) \in Nat /\ Len(ring[l]) \in Nat /\ signal[l] \in Nat /\ counter[l] \in Nat
  BY <1>0, LenProperties DEF Reserve, Withdraw, owners, callVars, LaneTypeOK
<1>4. \A u \in Thread : u # t => ~Busy(u, l)
  BY <1>0, <1>1, SessionAssumption, OneOnLane DEF Busy, InDispatch
<1>5. RingOK(l) /\ CounterOK(l) /\ InHand(t)
  BY <1>0 DEF Timelines
<1>6. (\A m \in Lane \ {l} : counter'[m] = counter[m]) /\ CounterOK(l)' /\ InHand(t)'
  <2>1. CASE Reserve(t)
    <3>1. /\ pc[t] = "ready" /\ pc'[t] = "doorbell" /\ counter' = [counter EXCEPT ![l] = @ + 1]
          /\ awaited'[t] = [lane |-> l, value |-> counter[l]]
      BY <1>0, <1>1, <2>1 DEF Reserve, Goto, HostTypeOK
    <3>2. counter[l] = signal[l] + Len(ring[l]) + 1
      BY <1>4, <1>5, <3>1 DEF CounterOK, Busy
    <3>3. counter'[l] = counter[l] + 1 /\ awaited'[t].value = counter[l]
      BY <1>0, <3>1 DEF LaneTypeOK
    <3>4. Busy(t, l)'
      BY <1>1, <1>3, <3>1 DEF Busy
    <3>5. \A m \in Lane \ {l} : counter'[m] = counter[m]
      BY <1>0, <3>1 DEF LaneTypeOK
    <3>6. CounterOK(l)'
      BY <3>4 DEF CounterOK
    <3>7. InHand(t)'
      BY <1>1, <1>3, <3>1, <3>2, <3>3 DEF InHand
    <3> QED BY <3>5, <3>6, <3>7
  <2>2. CASE Withdraw(t)
    <3>1. pc[t] = "doorbell" /\ pc'[t] = "fail" /\ counter' = RolledBack(t) /\ awaited[t].lane = l
      BY <1>0, <1>1, <2>2 DEF Withdraw, Goto, HostTypeOK, Dispatching
    <3>2. awaited[t].value = signal[l] + Len(ring[l]) + 1 /\ counter[l] = awaited[t].value + 1
      BY <1>1, <1>5, <3>1 DEF InHand
    <3>3. counter'[l] = signal[l] + Len(ring[l]) + 1 /\ \A m \in Lane \ {l} : counter'[m] = counter[m]
      BY <1>0, <3>1, <3>2 DEF RolledBack, LaneTypeOK
    <3> QED BY <1>3, <3>1, <3>3 DEF CounterOK, InHand
  <2> QED BY <2>1, <2>2
<1>7. RingOK(l)'
  BY <1>3, <1>5 DEF RingOK
<1>8. (\A m \in Lane : RingOK(m)' /\ CounterOK(m)') /\ (\A u \in Thread : InHand(u)')
  BY <1>1, <1>2, <1>3, <1>6, <1>7, OwnLane
<1>9. \A i \in Unended' : OnRing(i)'
  BY <1>0, <1>3 DEF Timelines, Unended, OnRing
<1> QED BY <1>8, <1>9 DEF Timelines

\* What a published job adds: the next value, at the end of the ring.
LEMMA Published ==
    ASSUME SessionInv, NEW t \in Thread, Doorbell(t)
    PROVE  \E l \in Lane, n \in Nat \ {0} :
             /\ l = session[who[t]] /\ l = awaited[t].lane /\ InDispatch(t) /\ pc[t] = "doorbell" /\ pc'[t] = "newest"
             /\ n = Len(jobs) + 1 /\ Len(jobs') = n /\ \A i \in 1..Len(jobs) : jobs'[i] = jobs[i]
             /\ jobs'[n].owner = who[t] /\ jobs'[n].lane = l /\ jobs'[n].value = awaited[t].value
             /\ awaited[t].value = signal[l] + Len(ring[l]) + 1
             /\ Len(ring[l]) \in Nat /\ Len(ring'[l]) = Len(ring[l]) + 1 /\ ring'[l][Len(ring'[l])] = n
             /\ \A i \in 1..Len(ring[l]) : ring'[l][i] = ring[l][i]
             /\ \A m \in Lane \ {l} : ring'[m] = ring[m]
             /\ session' = session /\ sessionLock' = sessionLock /\ newest' = newest /\ who' = who /\ awaited' = awaited
             /\ covers' = covers /\ todo' = todo /\ counter' = counter /\ signal' = signal /\ ended' = ended
<1>0. Timelines /\ Holding /\ HostTypeOK /\ LaneTypeOK /\ Dispatching(t)
  BY DEF SessionInv, Holding
<1>1. PICK l \in Lane : l = session[who[t]] /\ l = awaited[t].lane /\ InDispatch(t) /\ pc[t] = "doorbell"
  BY <1>0 DEF Dispatching, HostTypeOK, Doorbell, InDispatch
<1> DEFINE r == [owner |-> who[t], lane |-> l, value |-> awaited[t].value]
<1>2. /\ jobs' = Append(jobs, r) /\ ring' = [ring EXCEPT ![l] = Append(@, Len(jobs'))]
      /\ pc'[t] = "newest"
      /\ UNCHANGED <<session, sessionLock, newest, who, awaited, covers, todo, counter, signal, ended>>
  BY <1>0, <1>1 DEF Doorbell, Goto, HostTypeOK, owners, callVars
<1>3. r \in JobRecord /\ r.owner = who[t] /\ r.lane = l /\ r.value = awaited[t].value
  BY <1>0 DEF JobRecord, HostTypeOK, Token
<1>4. PICK n \in Nat \ {0} : /\ n = Len(jobs) + 1 /\ Len(jobs') = n /\ jobs'[n] = r
                             /\ \A i \in 1..Len(jobs) : jobs'[i] = jobs[i]
  <2> HIDE DEF r
  <2>1. jobs \in Seq(JobRecord) /\ Len(jobs) \in Nat
    BY <1>0, LenProperties DEF LaneTypeOK
  <2> QED BY <1>2, <1>3, <2>1, AppendProperties
<1>5. ring[l] \in Seq(Nat) /\ Len(ring[l]) \in Nat /\ ring'[l] = Append(ring[l], n) /\ \A m \in Lane \ {l} : ring'[m] = ring[m]
  BY <1>0, <1>2, <1>4, LenProperties DEF LaneTypeOK
<1>6. /\ Len(ring'[l]) = Len(ring[l]) + 1 /\ ring'[l][Len(ring'[l])] = n
      /\ \A i \in 1..Len(ring[l]) : ring'[l][i] = ring[l][i]
  BY <1>5, AppendProperties
<1>7. awaited[t].value = signal[l] + Len(ring[l]) + 1
  BY <1>0, <1>1 DEF Timelines, InHand
<1> QED BY <1>1, <1>2, <1>3, <1>4, <1>5, <1>6, <1>7

\* The doorbell.
LEMMA DoorbellTimelines == ASSUME SessionInv, NEW t \in Thread, Doorbell(t) PROVE Timelines'
<1>0. Timelines /\ Holding /\ HostTypeOK /\ LaneTypeOK /\ Dispatching(t)
  BY DEF SessionInv, Holding
<1>1. PICK l \in Lane, n \in Nat \ {0} :
             /\ l = session[who[t]] /\ l = awaited[t].lane /\ InDispatch(t) /\ pc[t] = "doorbell" /\ pc'[t] = "newest"
             /\ n = Len(jobs) + 1 /\ Len(jobs') = n /\ \A i \in 1..Len(jobs) : jobs'[i] = jobs[i]
             /\ jobs'[n].owner = who[t] /\ jobs'[n].lane = l /\ jobs'[n].value = awaited[t].value
             /\ awaited[t].value = signal[l] + Len(ring[l]) + 1
             /\ Len(ring[l]) \in Nat /\ Len(ring'[l]) = Len(ring[l]) + 1 /\ ring'[l][Len(ring'[l])] = n
             /\ \A i \in 1..Len(ring[l]) : ring'[l][i] = ring[l][i]
             /\ \A m \in Lane \ {l} : ring'[m] = ring[m]
             /\ session' = session /\ sessionLock' = sessionLock /\ newest' = newest /\ who' = who /\ awaited' = awaited
             /\ covers' = covers /\ todo' = todo /\ counter' = counter /\ signal' = signal /\ ended' = ended
  BY Published
<1>2. \A u \in Thread \ {t} : Kept(u)
  BY <1>0, Others DEF HostAction, HostStep
<1>3. Len(jobs) \in Nat /\ signal[l] \in Nat /\ counter[l] \in Nat /\ RingOK(l) /\ InHand(t)
  BY <1>0, LenProperties DEF LaneTypeOK, Timelines
<1>a. PICK k \in Nat : k = Len(ring[l])
  BY <1>1
<1>b. /\ Len(ring'[l]) = k + 1 /\ ring'[l][k + 1] = n /\ Len(jobs) = n - 1 /\ Len(jobs') = n
      /\ jobs'[n].lane = l /\ jobs'[n].value = signal[l] + (k + 1) /\ signal' = signal /\ counter' = counter
  <2>1. Len(ring'[l]) = Len(ring[l]) + 1 /\ ring'[l][Len(ring'[l])] = n
    BY <1>1
  <2>2. n = Len(jobs) + 1 /\ Len(jobs') = n
    BY <1>1
  <2>3. jobs'[n].lane = l /\ jobs'[n].value = signal[l] + Len(ring[l]) + 1 /\ signal' = signal /\ counter' = counter
    BY <1>1
  <2>4. signal[l] + Len(ring[l]) + 1 = signal[l] + (k + 1) /\ Len(jobs) = n - 1
    BY <1>3, <1>a, <2>2
  <2> QED BY <1>a, <2>1, <2>2, <2>3, <2>4
<1>c. ASSUME NEW i \in 1..k
      PROVE  /\ ring'[l][i] = ring[l][i] /\ ring[l][i] \in 1..(n - 1)
             /\ jobs'[ring[l][i]].lane = l /\ jobs'[ring[l][i]].value = signal[l] + i
  <2>1. ring'[l][i] = ring[l][i]
    BY <1>1, <1>a
  <2>2. ring[l][i] \in 1..Len(jobs) /\ jobs[ring[l][i]].lane = l /\ jobs[ring[l][i]].value = signal[l] + i
    BY <1>3, <1>a DEF RingOK
  <2>3. jobs'[ring[l][i]] = jobs[ring[l][i]]
    BY <1>1, <2>2
  <2> QED BY <1>b, <2>1, <2>2, <2>3
<1>d. \A i, j \in 1..k : i < j => ring[l][i] < ring[l][j]
  BY <1>3, <1>a DEF RingOK
<1>4. RingOK(l)'
  <2>1. ASSUME NEW i \in 1..(k + 1)
        PROVE  ring'[l][i] \in 1..n /\ jobs'[ring'[l][i]].lane = l /\ jobs'[ring'[l][i]].value = signal[l] + i
    <3>1. CASE i = k + 1
      BY <1>b, <3>1
    <3>2. CASE i # k + 1
      <4>1. i \in 1..k
        BY <3>2
      <4> QED BY <1>c, <4>1
    <3> QED BY <3>1, <3>2
  <2>2. ASSUME NEW i \in 1..(k + 1), NEW j \in 1..(k + 1), i < j PROVE ring'[l][i] < ring'[l][j]
    <3>1. i \in 1..k
      BY <2>2
    <3>2. CASE j = k + 1
      BY <1>b, <1>c, <3>1, <3>2
    <3>3. CASE j # k + 1
      <4>1. j \in 1..k
        BY <3>3
      <4> QED BY <1>c, <1>d, <2>2, <3>1, <4>1
    <3> QED BY <3>2, <3>3
  <2> QED BY <1>b, <2>1, <2>2 DEF RingOK
<1>5. CounterOK(l)' /\ InHand(t)'
  <2>1. counter[l] = awaited[t].value + 1 /\ awaited[t].value = signal[l] + k + 1
    BY <1>1, <1>3, <1>a DEF InHand
  <2>2. counter'[l] = signal'[l] + Len(ring'[l]) + 1
    BY <1>3, <1>b, <2>1
  <2>3. pc'[t] = "newest"
    BY <1>1
  <2> QED BY <2>2, <2>3 DEF CounterOK, InHand
<1>6. (\A m \in Lane : RingOK(m)' /\ CounterOK(m)') /\ (\A u \in Thread : InHand(u)')
  <2>1. /\ \A m \in Lane \ {l} : counter'[m] = counter[m] /\ signal'[m] = signal[m] /\ ring'[m] = ring[m]
        /\ Len(jobs') \in Nat /\ Len(jobs) <= Len(jobs') /\ session'[who'[t]] = l
    <3>1. /\ \A m \in Lane \ {l} : ring'[m] = ring[m]
          /\ counter' = counter /\ signal' = signal /\ session' = session /\ who' = who /\ session[who[t]] = l
      BY <1>1
    <3>2. Len(jobs') \in Nat /\ Len(jobs) <= Len(jobs')
      BY <1>b
    <3> QED BY <3>1, <3>2
  <2>2. l = session[who[t]] /\ InDispatch(t) /\ \A i \in 1..Len(jobs) : jobs'[i] = jobs[i]
    BY <1>1
  <2> QED BY <1>2, <1>3, <1>4, <1>5, <2>1, <2>2, OwnLane
<1>7. ASSUME NEW i \in Unended' PROVE OnRing(i)'
  <2>1. CASE i = n
    <3>1. k + 1 \in 1..Len(ring'[l])
      BY <1>b
    <3> QED BY <1>b, <2>1, <3>1 DEF OnRing
  <2>2. CASE i # n
    <3>1. i \in Unended /\ i \in 1..Len(jobs)
      BY <1>1, <1>3, <1>7, <2>2 DEF Unended
    <3>2. PICK m \in Lane : m = jobs[i].lane /\ m = jobs'[i].lane
      <4>1. jobs[i] \in JobRecord
        BY <1>0, <3>1, ElementOfSeq DEF LaneTypeOK
      <4> QED BY <1>1, <3>1, <4>1 DEF JobRecord
    <3>3. PICK p \in 1..Len(ring[m]) : ring[m][p] = i
      BY <1>0, <3>1, <3>2 DEF Timelines, OnRing
    <3>4. CASE m = l
      <4>1. p \in 1..k /\ p \in 1..(k + 1)
        BY <1>a, <3>3, <3>4
      <4>2. p \in 1..Len(ring'[m]) /\ ring'[m][p] = i
        BY <1>b, <1>c, <3>3, <3>4, <4>1
      <4> QED BY <3>2, <4>2 DEF OnRing
    <3>5. CASE m # l
      <4>1. ring'[m] = ring[m]
        BY <1>1, <3>5
      <4> QED BY <3>2, <3>3, <4>1 DEF OnRing
    <3> QED BY <3>4, <3>5
  <2> QED BY <2>1, <2>2
<1> QED BY <1>6, <1>7 DEF Timelines

\* The GPU: executing changes nothing a timeline is about, and a store moves the
\* signal to the value at the head of the ring.
LEMMA GpuTimelines == ASSUME SessionInv, NEW l \in Lane, GpuStep(l) PROVE Timelines'
<1>0. Timelines /\ Holding /\ HostTypeOK /\ LaneTypeOK
  BY DEF SessionInv, Holding
<1>1. UNCHANGED <<counter, jobs, pc, who, session, awaited>> /\ ring[l] # <<>>
  BY DEF GpuStep, ExecuteJob, Signal, owners, callVars
<1>2. CASE ExecuteJob(l)
  <2>1. UNCHANGED <<signal, ring>> /\ ended \subseteq ended'
    BY <1>2 DEF ExecuteJob
  <2>2. \A i \in Unended' : i \in Unended
    BY <1>1, <2>1 DEF Unended
  <2>3. \A m \in Lane : RingOK(m)'
    BY <1>0, <1>1, <2>1 DEF Timelines, RingOK
  <2>4. \A m \in Lane : CounterOK(m)'
    BY <1>0, <1>1, <2>1 DEF Timelines, CounterOK, Busy
  <2>5. \A u \in Thread : InHand(u)'
    BY <1>0, <1>1, <2>1 DEF Timelines, InHand
  <2>6. \A i \in Unended' : OnRing(i)'
    BY <1>0, <1>1, <2>1, <2>2 DEF Timelines, OnRing
  <2> QED BY <2>3, <2>4, <2>5, <2>6 DEF Timelines
<1>3. CASE Signal(l)
  <2>1. /\ signal' = [signal EXCEPT ![l] = jobs[Head(ring[l])].value]
        /\ ring' = [ring EXCEPT ![l] = Tail(@)] /\ ended' = ended /\ Head(ring[l]) \in ended
    BY <1>3 DEF Signal
  <2>2. /\ Len(ring[l]) \in Nat \ {0} /\ Head(ring[l]) = ring[l][1] /\ Len(Tail(ring[l])) = Len(ring[l]) - 1
        /\ \A i \in 1..Len(ring[l]) - 1 : Tail(ring[l])[i] = ring[l][i + 1]
    <3>1. ring[l] \in Seq(Nat)
      BY <1>0 DEF LaneTypeOK
    <3>2. Len(ring[l]) \in Nat \ {0}
      BY <1>1, <3>1, LenProperties, EmptySeq
    <3>3. Tail(ring[l]) \in Seq(Nat) /\ Len(Tail(ring[l])) = Len(ring[l]) - 1
      BY <1>1, <3>1, HeadTailProperties
    <3>4. ASSUME NEW i \in 1..Len(ring[l]) - 1 PROVE Tail(ring[l])[i] = ring[l][i + 1]
      BY <1>1, <3>1, <3>2, <3>3, HeadTailProperties
    <3>5. Head(ring[l]) = ring[l][1]
      BY <3>1, <3>2
    <3> QED BY <3>2, <3>3, <3>4, <3>5
  <2>3. jobs[Head(ring[l])].value = signal[l] + 1 /\ signal[l] \in Nat /\ RingOK(l) /\ CounterOK(l)
    <3>1. RingOK(l) /\ CounterOK(l)
      BY <1>0 DEF Timelines
    <3>2. signal[l] \in Nat
      BY <1>0 DEF LaneTypeOK
    <3>3. 1 \in 1..Len(ring[l]) /\ Head(ring[l]) = ring[l][1]
      BY <2>2
    <3>4. jobs[ring[l][1]].value = signal[l] + 1
      BY <3>1, <3>3 DEF RingOK
    <3> QED BY <3>1, <3>2, <3>3, <3>4
  <2>4. /\ signal'[l] = signal[l] + 1 /\ Len(ring'[l]) = Len(ring[l]) - 1
        /\ \A i \in 1..Len(ring[l]) - 1 : ring'[l][i] = ring[l][i + 1]
        /\ \A m \in Lane \ {l} : signal'[m] = signal[m] /\ ring'[m] = ring[m]
    BY <1>0, <2>1, <2>2, <2>3 DEF LaneTypeOK
  <2>a. PICK k \in Nat : Len(ring[l]) = k + 1 /\ Len(ring'[l]) = k
    <3>1. Len(ring[l]) - 1 \in Nat /\ Len(ring[l]) = (Len(ring[l]) - 1) + 1
      BY <2>2
    <3> QED BY <2>4, <3>1
  <2>5. RingOK(l)'
    <3>1. ASSUME NEW i \in 1..k
          PROVE  /\ ring'[l][i] = ring[l][i + 1] /\ i + 1 \in 1..(k + 1) /\ ring'[l][i] \in 1..Len(jobs)
                 /\ jobs[ring'[l][i]].lane = l /\ jobs[ring'[l][i]].value = signal'[l] + i
      <4>1. i + 1 \in 1..(k + 1) /\ i \in 1..Len(ring[l]) - 1 /\ signal[l] + (i + 1) = signal'[l] + i
        <5>1. i + 1 \in 1..(k + 1)
          OBVIOUS
        <5>2. Len(ring[l]) - 1 = k
          BY <2>a
        <5>3. signal[l] \in Nat /\ signal'[l] = signal[l] + 1
          BY <2>3, <2>4
        <5> QED BY <5>1, <5>2, <5>3
      <4>2. ring'[l][i] = ring[l][i + 1]
        BY <2>4, <4>1
      <4>3. /\ ring[l][i + 1] \in 1..Len(jobs) /\ jobs[ring[l][i + 1]].lane = l
            /\ jobs[ring[l][i + 1]].value = signal[l] + (i + 1)
        BY <2>3, <2>a, <4>1 DEF RingOK
      <4> QED BY <4>1, <4>2, <4>3
    <3>2. ASSUME NEW i \in 1..k, NEW j \in 1..k, i < j PROVE ring'[l][i] < ring'[l][j]
      <4>1. i + 1 \in 1..(k + 1) /\ j + 1 \in 1..(k + 1) /\ i + 1 < j + 1
        BY <3>2
      <4>2. ring[l][i + 1] < ring[l][j + 1]
        BY <2>3, <2>a, <4>1 DEF RingOK
      <4> QED BY <3>1, <4>2
    <3>3. jobs' = jobs /\ Len(ring'[l]) = k
      BY <1>1, <2>a
    <3>4. \A i \in 1..k : /\ ring'[l][i] \in 1..Len(jobs') /\ jobs'[ring'[l][i]].lane = l
                          /\ jobs'[ring'[l][i]].value = signal'[l] + i
      BY <3>1, <3>3
    <3>5. \A i, j \in 1..k : i < j => ring'[l][i] < ring'[l][j]
      BY <3>2
    <3> QED BY <3>3, <3>4, <3>5 DEF RingOK
  <2>6. signal'[l] + Len(ring'[l]) = signal[l] + Len(ring[l])
    <3>1. signal[l] \in Nat /\ signal'[l] = signal[l] + 1
      BY <2>3, <2>4
    <3> QED BY <2>a, <3>1
  <2>7. ASSUME NEW m \in Lane PROVE RingOK(m)' /\ CounterOK(m)'
    <3>0. \A u \in Thread : Busy(u, m)' = Busy(u, m)
      BY <1>1 DEF Busy
    <3>1. CASE m = l
      <4>1. counter'[l] = counter[l] /\ CounterOK(l)
        BY <1>1, <2>3
      <4>2. CounterOK(l)'
        BY <2>6, <3>0, <3>1, <4>1 DEF CounterOK
      <4> QED BY <2>5, <3>1, <4>2
    <3>2. CASE m # l
      <4>1. signal'[m] = signal[m] /\ ring'[m] = ring[m] /\ RingOK(m) /\ CounterOK(m)
        BY <1>0, <2>4, <3>2 DEF Timelines
      <4> QED BY <1>1, <3>0, <4>1 DEF RingOK, CounterOK
    <3> QED BY <3>1, <3>2
  <2>8. ASSUME NEW u \in Thread PROVE InHand(u)'
    <3>1. InHand(u) /\ Dispatching(u)
      BY <1>0 DEF Timelines, Holding
    <3>2. CASE session[who[u]] = l
      BY <1>1, <2>2, <2>6, <3>1, <3>2 DEF InHand
    <3>3. CASE session[who[u]] \in Lane \ {l}
      BY <1>1, <2>4, <3>1, <3>3 DEF InHand
    <3>4. CASE session[who[u]] \notin Lane
      BY <1>0, <1>1, <3>1, <3>4 DEF InHand, Dispatching, HostTypeOK
    <3> QED BY <3>2, <3>3, <3>4
  <2>9. ASSUME NEW i \in Unended' PROVE OnRing(i)'
    <3>1. i \in Unended /\ i \in 1..Len(jobs) /\ i \notin ended
      BY <1>1, <2>1, <2>9 DEF Unended
    <3>2. PICK m \in Lane : m = jobs[i].lane /\ m = jobs'[i].lane
      <4>1. jobs[i] \in JobRecord
        BY <1>0, <3>1, ElementOfSeq DEF LaneTypeOK
      <4> QED BY <1>1, <3>1, <4>1 DEF JobRecord
    <3>3. PICK p \in 1..Len(ring[m]) : ring[m][p] = i
      BY <1>0, <3>1, <3>2 DEF Timelines, OnRing
    <3>4. CASE m # l
      BY <2>4, <3>2, <3>3, <3>4 DEF OnRing
    <3>5. CASE m = l
      <4>1. p # 1
        BY <2>1, <2>2, <3>1, <3>3, <3>5
      <4>2. p - 1 \in 1..Len(ring'[l]) /\ ring'[l][p - 1] = i
        BY <2>2, <2>4, <3>3, <3>5, <4>1
      <4> QED BY <3>2, <3>5, <4>2 DEF OnRing
    <3> QED BY <3>4, <3>5
  <2> QED BY <2>7, <2>8, <2>9 DEF Timelines
<1> QED BY <1>2, <1>3 DEF GpuStep

---------------------------------------------------------------------------------
(* Order is preserved                                                          *)

\* A job under way sits on its lane's ring, ahead of the stored value.
LEMMA UnderWay ==
    ASSUME SessionInv, NEW i \in Unended
    PROVE  \E l \in Lane, k \in Nat \ {0} :
             /\ jobs[i].lane = l /\ jobs[i].owner \in Owner /\ i \in Nat /\ i \in 1..Len(jobs) /\ i \notin ended
             /\ Len(ring[l]) \in Nat /\ k <= Len(ring[l]) /\ ring[l][k] = i
             /\ signal[l] \in Nat /\ jobs[i].value = signal[l] + k
<1>0. Timelines /\ LaneTypeOK
  BY DEF SessionInv, Holding
<1>1. i \in 1..Len(jobs) /\ i \notin ended /\ OnRing(i)
  BY <1>0 DEF Unended, Timelines
<1>2. jobs \in Seq(JobRecord) /\ Len(jobs) \in Nat
  BY <1>0, LenProperties DEF LaneTypeOK
<1>3. jobs[i] \in JobRecord
  BY <1>1, <1>2, ElementOfSeq
<1>4. PICK l \in Lane : jobs[i].lane = l /\ jobs[i].owner \in Owner
  BY <1>3 DEF JobRecord
<1>5. PICK k \in 1..Len(ring[l]) : ring[l][k] = i
  BY <1>1, <1>4 DEF OnRing
<1>6. Len(ring[l]) \in Nat /\ signal[l] \in Nat
  BY <1>0, LenProperties DEF LaneTypeOK
<1>7. jobs[i].value = signal[l] + k
  <2>1. RingOK(l)
    BY <1>0 DEF Timelines
  <2>2. jobs[ring[l][k]].value = signal[l] + k
    BY <1>5, <2>1 DEF RingOK
  <2> QED BY <1>5, <2>2
<1>8. k \in Nat \ {0} /\ k <= Len(ring[l]) /\ i \in Nat
  BY <1>1, <1>2, <1>5, <1>6
<1> QED BY <1>1, <1>4, <1>5, <1>6, <1>7, <1>8

\* What a wait establishes: no job behind a token that is reached is under way.
LEMMA ReachedEnded ==
    ASSUME SessionInv, NEW i \in Unended, NEW tok \in Token, Behind(i, tok), Reached(tok)
    PROVE  FALSE
<1>1. PICK l \in Lane, k \in Nat \ {0} : jobs[i].lane = l /\ signal[l] \in Nat /\ jobs[i].value = signal[l] + k
  BY UnderWay
<1>2. tok.lane = l /\ tok.value \in Nat /\ signal[l] + k <= tok.value
  BY <1>1 DEF Behind, Token
<1>3. tok # NoToken
  BY <1>2, SessionAssumption DEF NoToken
<1>4. signal[l] >= tok.value
  BY <1>2, <1>3 DEF Reached
<1> QED BY <1>1, <1>2, <1>4

\* What a drain relies on: a job under way has a value that was handed out.
LEMMA BelowCounter ==
    ASSUME SessionInv, NEW i \in Unended, NEW l \in Lane, jobs[i].lane = l
    PROVE  jobs[i].value \in Nat \ {0} /\ counter[l] - 1 \in Nat /\ jobs[i].value <= counter[l] - 1
<1>1. PICK k \in Nat \ {0} : /\ Len(ring[l]) \in Nat /\ k <= Len(ring[l])
                             /\ signal[l] \in Nat /\ jobs[i].value = signal[l] + k
  BY UnderWay
<1>2. CounterOK(l) /\ \A t \in Thread : InHand(t)
  BY DEF SessionInv, Timelines
<1>3. CASE \A t \in Thread : ~Busy(t, l)
  <2>1. counter[l] = signal[l] + Len(ring[l]) + 1
    BY <1>2, <1>3 DEF CounterOK
  <2> QED BY <1>1, <2>1
<1>4. ASSUME NEW t \in Thread, Busy(t, l)
      PROVE  jobs[i].value \in Nat \ {0} /\ counter[l] - 1 \in Nat /\ jobs[i].value <= counter[l] - 1
  <2>1. pc[t] \in {"doorbell", "reset"} /\ session[who[t]] = l
    BY <1>4 DEF Busy
  <2>2. pc[t] # "reset"
    BY <1>1, <1>2, <2>1 DEF InHand
  <2>3. awaited[t].value = signal[l] + Len(ring[l]) + 1 /\ counter[l] = awaited[t].value + 1
    BY <1>2, <2>1, <2>2 DEF InHand
  <2> QED BY <1>1, <2>3
<1> QED BY <1>3, <1>4

\* Nobody is between a doorbell and set_newest for an owner whose mutex is free
\* or ours: the newest finalizer stands for all of its jobs under way.
LEMMA NewestCovers ==
    ASSUME SessionInv, NEW t \in Thread, pc[t] # "newest", NEW o \in Owner, sessionLock[o] \in {t, NoThread}
    PROVE  \A i \in Unfinished(o) : Behind(i, newest[o])
<1>1. ASSUME NEW u \in Thread, pc[u] = "newest" PROVE who[u] # o
  BY <1>1, Apart DEF SessionInv, InDispatch
<1> QED BY <1>1 DEF SessionInv, Order, OwnerOK

\* Steps that publish and end no job leave the others' part of the order alone.
LEMMA QuietThread ==
    ASSUME SessionInv, jobs' = jobs, ended' = ended, NEW u \in Thread, Kept(u)
    PROVE  ThreadOK(u)'
<1>1. ThreadOK(u)
  BY DEF SessionInv, Order
<1> QED BY <1>1 DEF Kept, ThreadOK, Unfinished, Unended, Behind

\* Such a step keeps every owner's part if it leaves the finalizers alone, and
\* opens no session.
LEMMA QuietOwners ==
    ASSUME SessionInv, jobs' = jobs, ended' = ended, newest' = newest,
           NEW t \in Thread, \A u \in Thread \ {t} : Kept(u), pc[t] # "newest",
           \A o \in Owner : session'[o] \in {session[o], NoLane}
    PROVE  \A o \in Owner : OwnerOK(o)'
<1> SUFFICES ASSUME NEW o \in Owner PROVE OwnerOK(o)'
  OBVIOUS
<1>1. OwnerOK(o) /\ Unfinished(o)' = Unfinished(o)
  BY DEF SessionInv, Order, Unfinished, Unended
<1>2. \A i \in Unfinished(o) : Behind(i, newest[o])' = Behind(i, newest[o])
  BY DEF Behind
<1>3. (\A u \in Thread : pc'[u] = "newest" => who'[u] # o) => \A u \in Thread : pc[u] = "newest" => who[u] # o
  BY DEF Kept
<1>4. (\A u \in Thread : pc'[u] = "newest" => who'[u] # o) => \A i \in Unfinished(o) : Behind(i, newest[o])'
  BY <1>1, <1>2, <1>3 DEF OwnerOK
<1>5. session'[o] # NoLane => \A i \in Unfinished(o) : jobs'[i].lane = session'[o]
  BY <1>1 DEF OwnerOK
<1> QED BY <1>1, <1>4, <1>5 DEF OwnerOK

\* ... and with it the whole order, if the thread's own part holds.
LEMMA QuietOrder ==
    ASSUME SessionInv, jobs' = jobs, ended' = ended,
           NEW t \in Thread, \A u \in Thread \ {t} : Kept(u),
           \A o \in Owner : OwnerOK(o)', ThreadOK(t)'
    PROVE  Order'
<1>1. \A u \in Thread : ThreadOK(u)'
  BY QuietThread
<1>2. OwnerOrder'
  BY DEF SessionInv, Order, OwnerOrder, OwnedBy
<1> QED BY <1>1, <1>2 DEF Order

\* The steps of a dispatch before the doorbell that open no session.
LEMMA DispatchOrder ==
    ASSUME SessionInv, NEW t \in Thread,
           \/ \E o \in Owner : Dispatch(t, o)
           \/ OpenSession(t) \/ AwaitEpoch(t) \/ DispatchFails(t) \/ DropSession(t)
           \/ Headroom(t) \/ ResetCounter(t) \/ Reserve(t) \/ Withdraw(t)
    PROVE  Order'
<1>0. Holding /\ HostTypeOK /\ ThreadOK(t) /\ Dispatching(t)
  BY DEF SessionInv, Holding, Order
<1>1. \A u \in Thread \ {t} : Kept(u)
  BY <1>0, Others DEF HostAction, HostStep, Call
<1>2. jobs' = jobs /\ ended' = ended /\ newest' = newest /\ covers' = covers
  BY DEF Dispatch, OpenSession, AwaitEpoch, DispatchFails, DropSession, Headroom, ResetCounter, Reserve, Withdraw,
         owners, laneVars, callVars
<1>3. pc[t] # "newest"
  BY DEF Dispatch, OpenSession, AwaitEpoch, DispatchFails, DropSession, Headroom, ResetCounter, Reserve, Withdraw
<1>4. \A o \in Owner : session'[o] \in {session[o], NoLane}
  <2>1. session' = session \/ session' = [session EXCEPT ![who[t]] = NoLane]
    BY DEF Dispatch, OpenSession, AwaitEpoch, DispatchFails, DropSession, Headroom, ResetCounter, Reserve, Withdraw,
           owners
  <2> QED BY <1>0, <2>1 DEF HostTypeOK
<1>5. covers'[t] \subseteq 1..Len(jobs')
  BY <1>0, <1>2 DEF ThreadOK
<1>6. ThreadOK(t)'
  <2>1. CASE pc'[t] \in {"dispatch", "headroom", "fail", "idle", "reset", "ready", "doorbell"}
    BY <1>5, <2>1 DEF ThreadOK
  <2>2. CASE AwaitEpoch(t)
    <3>1. pc[t] = "await" /\ pc'[t] = "lease" /\ Reached(awaited[t]) /\ awaited[t] \in Token /\ who' = who
      BY <1>0, <2>2 DEF AwaitEpoch, Goto, HostTypeOK, callVars
    <3>2. Unfinished(who[t]) = {}
      <4>1. ASSUME NEW i \in Unfinished(who[t]) PROVE FALSE
        <5>1. Behind(i, awaited[t]) /\ i \in Unended
          BY <1>0, <3>1, <4>1 DEF ThreadOK, Unfinished
        <5> QED BY <3>1, <5>1, ReachedEnded
      <4> QED BY <4>1
    <3>3. (Unfinished(who[t]) = {})'
      BY <1>2, <3>1, <3>2 DEF Unfinished, Unended
    <3> QED BY <1>5, <3>1, <3>3 DEF ThreadOK
  <2>3. CASE OpenSession(t) /\ pc'[t] = "await"
    <3>1. /\ pc[t] = "dispatch" /\ awaited'[t] = newest[who[t]] /\ who' = who /\ who[t] \in Owner
      BY <1>0, <2>3 DEF OpenSession, Goto, HostTypeOK, Epoch
    <3>2. \A i \in Unfinished(who[t]) : Behind(i, newest[who[t]])
      BY <1>0, <3>1, NewestCovers DEF Dispatching, InDispatch
    <3>3. \A i \in Unfinished(who[t])' : Behind(i, awaited[t])'
      BY <1>2, <3>1, <3>2 DEF Unfinished, Unended, Behind
    <3> QED BY <1>5, <2>3, <3>1, <3>3 DEF ThreadOK
  <2>4. pc'[t] \in {"dispatch", "headroom", "fail", "idle", "reset", "ready", "doorbell"} \/ AwaitEpoch(t)
        \/ (OpenSession(t) /\ pc'[t] = "await")
    BY <1>0 DEF Dispatch, OpenSession, DispatchFails, DropSession, Headroom, ResetCounter, Reserve, Withdraw, Goto,
                HostTypeOK
  <2> QED BY <2>1, <2>2, <2>3, <2>4
<1>7. \A o \in Owner : OwnerOK(o)'
  BY <1>1, <1>2, <1>3, <1>4, QuietOwners
<1> QED BY <1>1, <1>2, <1>6, <1>7, QuietOrder

\* The steps of a synchronisation.
LEMMA SyncOrder ==
    ASSUME SessionInv, NEW t \in Thread,
           \/ \E o \in Owner : \E sync \in BOOLEAN : TakeSession(t, o, sync)
           \/ SynchronizeAll(t) \/ ReleaseLane(t) \/ WaitToken(t) \/ DrainLane(t) \/ DrainWait(t) \/ Return(t)
    PROVE  Order'
<1>0. Holding /\ HostTypeOK /\ LaneTypeOK /\ ThreadOK(t)
  BY DEF SessionInv, Holding, Order
<1>1. \A u \in Thread \ {t} : Kept(u)
  BY <1>0, Others DEF HostAction, HostStep, Call
<1>2. jobs' = jobs /\ ended' = ended /\ newest' = newest
  BY DEF TakeSession, SynchronizeAll, ReleaseLane, WaitToken, DrainLane, DrainWait, Return, owners, laneVars
<1>3. pc[t] # "newest"
  BY DEF TakeSession, SynchronizeAll, ReleaseLane, WaitToken, DrainLane, DrainWait, Return
<1>4. \A o \in Owner : session'[o] \in {session[o], NoLane}
  <2>1. session' = session \/ \E o \in Owner : session' = [session EXCEPT ![o] = NoLane]
    BY DEF TakeSession, SynchronizeAll, ReleaseLane, WaitToken, DrainLane, DrainWait, Return, owners
  <2> QED BY <1>0, <2>1 DEF HostTypeOK
<1>5. \A i \in 1..Len(jobs) : i \notin ended => i \in Unended
  BY DEF Unended
<1>6. covers[t] \subseteq 1..Len(jobs)
  BY <1>0 DEF ThreadOK
<1>7. ASSUME NEW o \in Owner, NEW sync \in BOOLEAN, TakeSession(t, o, sync) PROVE ThreadOK(t)'
  <2>1. /\ pc'[t] = "release" /\ sessionLock[o] = NoThread
        /\ awaited'[t] = (IF sync THEN newest[o] ELSE NoToken) /\ covers'[t] = (IF sync THEN OwnedBy(o) ELSE {})
    BY <1>0, <1>7 DEF TakeSession, Goto, HostTypeOK
  <2>2. \A i \in Unfinished(o) : Behind(i, newest[o])
    BY <1>3, <2>1, NewestCovers
  <2>3. covers'[t] \subseteq 1..Len(jobs)
    BY <2>1 DEF OwnedBy
  <2>4. ASSUME NEW i \in covers'[t], i \notin ended PROVE Behind(i, awaited[t])'
    <3>1. sync /\ covers'[t] = OwnedBy(o) /\ awaited'[t] = newest[o]
      BY <2>1, <2>4
    <3>2. i \in Unfinished(o)
      BY <1>5, <2>4, <3>1 DEF OwnedBy, Unfinished
    <3> QED BY <1>2, <2>2, <3>1, <3>2 DEF Behind
  <2> QED BY <1>2, <2>1, <2>3, <2>4 DEF ThreadOK
<1>8. ASSUME SynchronizeAll(t) PROVE ThreadOK(t)'
  <2>1. pc'[t] = "drain" /\ todo'[t] = Lane /\ covers'[t] = 1..Len(jobs)
    BY <1>0, <1>8 DEF SynchronizeAll, Goto, HostTypeOK
  <2>2. \A i \in 1..Len(jobs) : i \notin ended => jobs[i].lane \in Lane
    BY <1>5, UnderWay
  <2> QED BY <1>2, <2>1, <2>2 DEF ThreadOK
<1>9. ASSUME ReleaseLane(t) PROVE ThreadOK(t)'
  <2>1. pc[t] = "release" /\ pc'[t] = "wait" /\ awaited' = awaited /\ covers' = covers
    BY <1>0, <1>9 DEF ReleaseLane, Goto, HostTypeOK
  <2> QED BY <1>0, <1>2, <2>1 DEF ThreadOK, Behind
<1>10. ASSUME WaitToken(t) PROVE ThreadOK(t)'
  <2>1. pc[t] = "wait" /\ pc'[t] = "synced" /\ Reached(awaited[t]) /\ awaited[t] \in Token /\ covers' = covers
    BY <1>0, <1>10 DEF WaitToken, Goto, HostTypeOK, callVars
  <2>2. ASSUME NEW i \in covers[t], i \notin ended PROVE FALSE
    <3>1. i \in Unended /\ Behind(i, awaited[t])
      BY <1>0, <1>5, <1>6, <2>1, <2>2 DEF ThreadOK
    <3> QED BY <2>1, <3>1, ReachedEnded
  <2> QED BY <1>2, <1>6, <2>1, <2>2 DEF ThreadOK
<1>11. ASSUME DrainLane(t) PROVE ThreadOK(t)'
  <2>0. covers' = covers /\ pc[t] = "drain" /\ \A i \in covers[t] \ ended : jobs[i].lane \in todo[t]
    BY <1>0, <1>11 DEF DrainLane, ThreadOK
  <2>1. CASE todo[t] = {} /\ Goto(t, "synced")
    <3>1. pc'[t] = "synced" /\ covers[t] \subseteq ended
      BY <1>0, <2>0, <2>1 DEF Goto, HostTypeOK
    <3> QED BY <1>2, <1>6, <2>0, <3>1 DEF ThreadOK
  <2>2. ASSUME NEW l \in todo[t], todo' = [todo EXCEPT ![t] = @ \ {l}],
               awaited' = [awaited EXCEPT ![t] = IF DrainTarget(l) = 0 THEN NoToken
                                                 ELSE [lane |-> l, value |-> DrainTarget(l)]],
               Goto(t, "drainWait")
        PROVE  ThreadOK(t)'
    <3>1. /\ l \in Lane /\ pc'[t] = "drainWait" /\ todo'[t] = todo[t] \ {l}
          /\ awaited'[t] = IF DrainTarget(l) = 0 THEN NoToken ELSE [lane |-> l, value |-> DrainTarget(l)]
      BY <1>0, <2>2 DEF Goto, HostTypeOK
    <3>2. ASSUME NEW i \in covers[t], i \notin ended PROVE jobs[i].lane \in todo'[t] \/ Behind(i, awaited[t])'
      <4>1. i \in Unended /\ jobs[i].lane \in todo[t]
        BY <1>5, <1>6, <2>0, <3>2
      <4>2. CASE jobs[i].lane # l
        BY <3>1, <4>1, <4>2
      <4>3. CASE jobs[i].lane = l
        <5>1. jobs[i].value \in Nat \ {0} /\ counter[l] - 1 \in Nat /\ jobs[i].value <= counter[l] - 1
          BY <3>1, <4>1, <4>3, BelowCounter
        <5>2. awaited'[t].lane = l /\ awaited'[t].value = counter[l] - 1
          BY <3>1, <5>1 DEF DrainTarget
        <5> QED BY <1>2, <4>3, <5>1, <5>2 DEF Behind
      <4> QED BY <4>2, <4>3
    <3> QED BY <1>2, <1>6, <2>0, <3>1, <3>2 DEF ThreadOK
  <2> QED BY <1>11, <2>1, <2>2 DEF DrainLane
<1>12. ASSUME DrainWait(t) PROVE ThreadOK(t)'
  <2>1. /\ pc[t] = "drainWait" /\ pc'[t] = "drain" /\ Reached(awaited[t]) /\ awaited[t] \in Token
        /\ covers' = covers /\ todo' = todo
    BY <1>0, <1>12 DEF DrainWait, Goto, HostTypeOK, callVars
  <2>2. ASSUME NEW i \in covers[t], i \notin ended PROVE jobs[i].lane \in todo[t]
    <3>1. i \in Unended /\ (jobs[i].lane \in todo[t] \/ Behind(i, awaited[t]))
      BY <1>0, <1>5, <1>6, <2>1, <2>2 DEF ThreadOK
    <3> QED BY <2>1, <3>1, ReachedEnded
  <2> QED BY <1>2, <1>6, <2>1, <2>2 DEF ThreadOK
<1>13. ASSUME Return(t) PROVE ThreadOK(t)'
  <2>1. pc'[t] = "idle" /\ covers'[t] = {}
    BY <1>0, <1>13 DEF Return, Goto, HostTypeOK
  <2> QED BY <2>1 DEF ThreadOK
<1>14. ThreadOK(t)'
  BY <1>7, <1>8, <1>9, <1>10, <1>11, <1>12, <1>13
<1>15. \A o \in Owner : OwnerOK(o)'
  BY <1>1, <1>2, <1>3, <1>4, QuietOwners
<1> QED BY <1>1, <1>2, <1>14, <1>15, QuietOrder

\* A session opens only when nothing of its owner is under way, and set_newest
\* records a finalizer that stands for all that is.
LEMMA LeaseOrder ==
    ASSUME SessionInv, NEW t \in Thread, LeaseLane(t) \/ SetNewest(t) PROVE Order'
<1>0. Holding /\ HostTypeOK /\ ThreadOK(t) /\ Dispatching(t) /\ \A o \in Owner : OwnerOK(o)
  BY DEF SessionInv, Holding, Order
<1>1. \A u \in Thread \ {t} : Kept(u)
  BY <1>0, Others DEF HostAction, HostStep
<1>2. jobs' = jobs /\ ended' = ended /\ covers' = covers /\ who' = who /\ who[t] \in Owner /\ sessionLock[who[t]] = t
  BY <1>0 DEF LeaseLane, SetNewest, laneVars, callVars, HostTypeOK, Dispatching, InDispatch
<1>3. ThreadOK(t)'
  <2>1. pc'[t] \in {"headroom", "idle"}
    BY <1>0 DEF LeaseLane, SetNewest, Goto, HostTypeOK
  <2> QED BY <1>0, <1>2, <2>1 DEF ThreadOK
<1>4. \A o \in Owner : Unfinished(o)' = Unfinished(o)
  BY <1>2 DEF Unfinished, Unended
<1>5. ASSUME NEW o \in Owner, o # who[t] PROVE OwnerOK(o)'
  <2>1. session'[o] = session[o] /\ newest'[o] = newest[o]
    BY <1>0, <1>5 DEF LeaseLane, SetNewest, HostTypeOK
  <2>2. (\A u \in Thread : pc'[u] = "newest" => who'[u] # o) => \A u \in Thread : pc[u] = "newest" => who[u] # o
    BY <1>1, <1>2, <1>5 DEF Kept
  <2> QED BY <1>0, <1>2, <1>4, <2>1, <2>2 DEF OwnerOK, Behind
<1>6. OwnerOK(who[t])'
  <2>1. CASE LeaseLane(t)
    <3>1. Unfinished(who[t]) = {}
      BY <1>0, <2>1 DEF LeaseLane, ThreadOK
    <3> QED BY <1>2, <1>4, <3>1 DEF OwnerOK
  <2>2. CASE SetNewest(t)
    <3>1. pc[t] = "newest" /\ newest'[who[t]] = awaited[t] /\ session' = session
      BY <1>0, <1>2, <2>2 DEF SetNewest, HostTypeOK
    <3>2. \A i \in Unfinished(who[t]) : Behind(i, awaited[t])
      BY <1>0, <3>1 DEF ThreadOK
    <3>3. \A i \in Unfinished(who[t]) : jobs'[i].lane = newest'[who[t]].lane /\ jobs'[i].value <= newest'[who[t]].value
      BY <1>2, <3>1, <3>2 DEF Behind
    <3>4. session'[who[t]] # NoLane => \A i \in Unfinished(who[t]) : jobs'[i].lane = session'[who[t]]
      BY <1>0, <1>2, <3>1 DEF OwnerOK
    <3>5. who'[t] = who[t]
      BY <1>2
    <3> QED BY <1>2, <1>4, <3>3, <3>4, <3>5 DEF OwnerOK, Behind
  <2> QED BY <2>1, <2>2
<1> QED
  <2>1. \A o \in Owner : OwnerOK(o)'
    BY <1>2, <1>5, <1>6
  <2> QED BY <1>1, <1>2, <1>3, <2>1, QuietOrder

\* The doorbell: the new job comes after all of its owner's under way, on the
\* same lane, and the token in hand stands for all of them.
LEMMA DoorbellOrder == ASSUME SessionInv, NEW t \in Thread, Doorbell(t) PROVE Order'
<1>0. Holding /\ HostTypeOK /\ LaneTypeOK /\ Order /\ ThreadOK(t) /\ Dispatching(t)
  BY DEF SessionInv, Holding, Order
<1>1. PICK l \in Lane, n \in Nat \ {0} :
             /\ l = session[who[t]] /\ l = awaited[t].lane /\ InDispatch(t) /\ pc[t] = "doorbell" /\ pc'[t] = "newest"
             /\ n = Len(jobs) + 1 /\ Len(jobs') = n /\ \A i \in 1..Len(jobs) : jobs'[i] = jobs[i]
             /\ jobs'[n].owner = who[t] /\ jobs'[n].lane = l /\ jobs'[n].value = awaited[t].value
             /\ awaited[t].value = signal[l] + Len(ring[l]) + 1
             /\ session' = session /\ newest' = newest /\ who' = who /\ awaited' = awaited
             /\ covers' = covers /\ ended' = ended
  BY Published
<1>2. \A u \in Thread \ {t} : Kept(u)
  BY <1>0, Others DEF HostAction, HostStep
<1>3. /\ Len(jobs) \in Nat /\ n = Len(jobs) + 1 /\ Len(jobs') = n /\ ended' = ended
      /\ ended \subseteq 1..Len(jobs) /\ \A i \in 1..Len(jobs) : jobs'[i] = jobs[i]
  BY <1>0, <1>1, LenProperties DEF LaneTypeOK
<1>4. /\ jobs'[n].owner = who[t] /\ jobs'[n].lane = l /\ jobs'[n].value = awaited[t].value
      /\ l = session[who[t]] /\ session' = session /\ newest' = newest /\ who' = who /\ awaited' = awaited
      /\ covers' = covers /\ pc[t] = "doorbell" /\ pc'[t] = "newest" /\ l = awaited[t].lane
  BY <1>1
<1>5. \A i \in Unended' : (i \in Unended /\ i \in 1..Len(jobs)) \/ i = n
  BY <1>3 DEF Unended
<1>6. \A o \in Owner : \A i \in Unfinished(o)' : (i \in Unfinished(o) /\ i \in 1..Len(jobs)) \/ (i = n /\ o = who[t])
  BY <1>3, <1>4, <1>5 DEF Unfinished
<1>7. sessionLock[who[t]] = t /\ who[t] \in Owner /\ session[who[t]] # NoLane
  BY <1>0, <1>4 DEF Dispatching, InDispatch, HostTypeOK
<1>8. ASSUME NEW o \in Owner PROVE OwnerOK(o)'
  <2>0. OwnerOK(o)
    BY <1>0 DEF Order
  <2>1. CASE o = who[t]
    <3>1. \A i \in Unfinished(o)' : jobs'[i].lane = session'[o]
      BY <1>3, <1>4, <1>6, <1>7, <2>0, <2>1 DEF OwnerOK
    <3>2. pc'[t] = "newest" /\ who'[t] = o
      BY <1>4, <2>1
    <3> QED BY <3>1, <3>2 DEF OwnerOK
  <2>2. CASE o # who[t]
    <3>1. \A i \in Unfinished(o)' : i \in Unfinished(o) /\ jobs'[i] = jobs[i]
      BY <1>3, <1>6, <2>2
    <3>2. (\A u \in Thread : pc'[u] = "newest" => who'[u] # o) => \A u \in Thread : pc[u] = "newest" => who[u] # o
      BY <1>2, <1>4 DEF Kept
    <3> QED BY <1>4, <2>0, <3>1, <3>2 DEF OwnerOK, Behind
  <2> QED BY <2>1, <2>2
<1>9. ThreadOK(t)'
  <2>1. ASSUME NEW i \in Unfinished(who[t])' PROVE Behind(i, awaited[t])'
    <3>1. awaited[t].value \in Nat
      BY <1>0 DEF HostTypeOK, Token
    <3>2. CASE i = n
      BY <1>4, <3>1, <3>2 DEF Behind
    <3>3. CASE i \in Unfinished(who[t]) /\ i \in 1..Len(jobs)
      <4>1. i \in Unended /\ jobs[i].lane = l
        BY <1>0, <1>4, <1>7, <3>3 DEF Order, OwnerOK, Unfinished
      <4>2. PICK k \in Nat \ {0} : /\ Len(ring[l]) \in Nat /\ k <= Len(ring[l])
                                   /\ signal[l] \in Nat /\ jobs[i].value = signal[l] + k
        BY <4>1, UnderWay
      <4>3. awaited[t].value = signal[l] + Len(ring[l]) + 1
        BY <1>1
      <4>4. jobs[i].value <= awaited[t].value
        BY <4>2, <4>3
      <4>5. jobs'[i] = jobs[i] /\ awaited' = awaited /\ awaited[t].lane = l
        BY <1>3, <1>4, <3>3
      <4> QED BY <4>1, <4>4, <4>5 DEF Behind
    <3> QED BY <1>4, <1>6, <1>7, <2>1, <3>2, <3>3
  <2>2. covers'[t] \subseteq 1..Len(jobs')
    BY <1>0, <1>3, <1>4 DEF ThreadOK
  <2>3. pc'[t] = "newest" /\ who'[t] = who[t]
    BY <1>4
  <2> QED BY <1>4, <2>1, <2>2, <2>3 DEF ThreadOK
<1>10. ASSUME NEW u \in Thread, u # t PROVE ThreadOK(u)'
  <2>0. Kept(u) /\ ThreadOK(u) /\ who[u] \in Owner
    BY <1>0, <1>2, <1>10 DEF Order, HostTypeOK
  <2>1. pc[u] \in {"await", "newest", "lease"} => \A i \in Unfinished(who[u])' : i \in Unfinished(who[u]) /\ jobs'[i] = jobs[i]
    <3>1. pc[u] \in {"await", "newest", "lease"} => who[u] # who[t]
      BY <1>0, <1>7, <1>10, Apart DEF InDispatch
    <3>2. PICK o \in Owner : o = who[u] /\ o = who'[u]
      BY <2>0 DEF Kept
    <3>3. o # who[t] => \A i \in Unfinished(o)' : i \in Unfinished(o) /\ jobs'[i] = jobs[i]
      BY <1>3, <1>6
    <3> QED BY <3>1, <3>2, <3>3 DEF Unfinished
  <2>2. covers[u] \subseteq 1..Len(jobs) /\ covers[u] \subseteq 1..Len(jobs') /\ \A i \in covers[u] : jobs'[i] = jobs[i]
    BY <1>3, <2>0 DEF ThreadOK
  <2>3. /\ pc'[u] = pc[u] /\ who'[u] = who[u] /\ awaited'[u] = awaited[u] /\ todo'[u] = todo[u] /\ covers'[u] = covers[u]
        /\ ended' = ended
    BY <1>3, <2>0 DEF Kept
  <2>4. pc'[u] \in {"await", "newest"} => \A i \in Unfinished(who[u])' : Behind(i, awaited[u])'
    BY <2>0, <2>1, <2>3 DEF ThreadOK, Behind
  <2>5. pc'[u] = "lease" => Unfinished(who[u])' = {}
    BY <2>0, <2>1, <2>3 DEF ThreadOK
  <2>6. pc'[u] \in {"release", "wait"} => \A i \in covers'[u] \ ended' : Behind(i, awaited[u])'
    BY <2>0, <2>2, <2>3 DEF ThreadOK, Behind
  <2>7. pc'[u] = "drain" => \A i \in covers'[u] \ ended' : jobs'[i].lane \in todo'[u]
    BY <2>0, <2>2, <2>3 DEF ThreadOK
  <2>8. pc'[u] = "drainWait" => \A i \in covers'[u] \ ended' : jobs'[i].lane \in todo'[u] \/ Behind(i, awaited[u])'
    BY <2>0, <2>2, <2>3 DEF ThreadOK, Behind
  <2>9. (pc'[u] = "synced" => covers'[u] \subseteq ended') /\ covers'[u] \subseteq 1..Len(jobs')
    BY <2>0, <2>2, <2>3 DEF ThreadOK
  <2> QED BY <2>4, <2>5, <2>6, <2>7, <2>8, <2>9 DEF ThreadOK
<1>11. OwnerOrder'
  <2> SUFFICES ASSUME NEW j \in ended', NEW i \in OwnedBy(jobs[j].owner)', i < j PROVE i \in ended'
    BY DEF OwnerOrder
  <2>1. j \in 1..Len(jobs) /\ j \in ended /\ jobs'[j] = jobs[j]
    BY <1>3
  <2>2. i \in 1..Len(jobs) /\ jobs'[i] = jobs[i]
    <3>1. i \in 1..Len(jobs')
      BY DEF OwnedBy
    <3>2. i \in 1..Len(jobs)
      BY <1>3, <2>1, <3>1
    <3> QED BY <1>3, <3>2
  <2>3. i \in OwnedBy(jobs[j].owner)
    BY <2>1, <2>2 DEF OwnedBy
  <2> QED BY <1>0, <1>3, <2>1, <2>3 DEF Order, OwnerOrder
<1> QED BY <1>8, <1>9, <1>10, <1>11 DEF Order

\* The GPU: the head of a ring is the oldest of its owner's jobs under way,
\* because they are all on one lane.
LEMMA GpuOrder == ASSUME SessionInv, NEW l \in Lane, GpuStep(l) PROVE Order'
<1>0. Holding /\ HostTypeOK /\ LaneTypeOK /\ Timelines /\ Order
  BY DEF SessionInv, Holding
<1>1. /\ jobs' = jobs /\ pc' = pc /\ who' = who /\ session' = session /\ newest' = newest /\ awaited' = awaited
      /\ covers' = covers /\ todo' = todo /\ ended \subseteq ended'
  BY DEF GpuStep, ExecuteJob, Signal, owners, callVars
<1>2. \A o \in Owner : Unfinished(o)' \subseteq Unfinished(o)
  BY <1>1 DEF Unfinished, Unended
<1>3. ASSUME NEW o \in Owner PROVE OwnerOK(o)'
  <2>1. OwnerOK(o)
    BY <1>0 DEF Order
  <2> QED BY <1>1, <1>2, <2>1 DEF OwnerOK, Behind
<1>4. ASSUME NEW u \in Thread PROVE ThreadOK(u)'
  <2>1. ThreadOK(u) /\ who[u] \in Owner
    BY <1>0 DEF Order, HostTypeOK
  <2>2. Unfinished(who[u])' \subseteq Unfinished(who[u])
    BY <1>1 DEF Unfinished, Unended
  <2>3. pc'[u] \in {"await", "newest"} => \A i \in Unfinished(who[u])' : Behind(i, awaited[u])'
    BY <1>1, <2>1, <2>2 DEF ThreadOK, Behind
  <2>4. pc'[u] = "lease" => Unfinished(who[u])' = {}
    BY <1>1, <2>1, <2>2 DEF ThreadOK
  <2>5. pc'[u] \in {"release", "wait"} => \A i \in covers'[u] \ ended' : Behind(i, awaited[u])'
    BY <1>1, <2>1 DEF ThreadOK, Behind
  <2>6. pc'[u] = "drain" => \A i \in covers'[u] \ ended' : jobs'[i].lane \in todo'[u]
    BY <1>1, <2>1 DEF ThreadOK
  <2>7. pc'[u] = "drainWait" => \A i \in covers'[u] \ ended' : jobs'[i].lane \in todo'[u] \/ Behind(i, awaited[u])'
    BY <1>1, <2>1 DEF ThreadOK, Behind
  <2>8. (pc'[u] = "synced" => covers'[u] \subseteq ended') /\ covers'[u] \subseteq 1..Len(jobs')
    BY <1>1, <2>1 DEF ThreadOK
  <2> QED BY <2>3, <2>4, <2>5, <2>6, <2>7, <2>8 DEF ThreadOK
<1>5. OwnerOrder'
  <2>1. CASE Signal(l)
    <3>1. ended' = ended
      BY <2>1 DEF Signal
    <3> QED BY <1>0, <1>1, <3>1 DEF Order, OwnerOrder, OwnedBy
  <2>2. CASE ExecuteJob(l)
    <3>1. PICK h : h = Head(ring[l]) /\ ended' = ended \cup {h} /\ h \notin ended /\ ring[l] # <<>>
      BY <2>2 DEF ExecuteJob
    <3>2. ring[l] \in Seq(Nat) /\ RingOK(l)
      BY <1>0 DEF LaneTypeOK, Timelines
    <3>3. Len(ring[l]) \in Nat \ {0} /\ ring[l][1] = h
      BY <3>1, <3>2, LenProperties, EmptySeq
    <3>4. h \in 1..Len(jobs) /\ h \in Nat /\ 1 \in 1..Len(ring[l])
      <4>1. 1 \in 1..Len(ring[l]) /\ Len(jobs) \in Nat
        BY <1>0, <3>3, LenProperties DEF LaneTypeOK
      <4>2. ring[l][1] \in 1..Len(jobs)
        BY <3>2, <4>1 DEF RingOK
      <4> QED BY <3>3, <4>1, <4>2
    <3>5. h \in Unended
      BY <3>1, <3>4 DEF Unended
    <3>6. PICK o \in Owner : o = jobs[h].owner
      BY <3>5, UnderWay
    <3>7. jobs[h].lane = l
      BY <3>2, <3>3, <3>4 DEF RingOK
    <3>8. ASSUME NEW i \in Unfinished(o), i < h PROVE FALSE
      <4>1. i \in Unended /\ h \in Unfinished(o) /\ OwnerOK(o)
        BY <1>0, <3>5, <3>6 DEF Unfinished, Order
      <4>2. jobs[i].lane = jobs[h].lane
        <5>1. CASE session[o] # NoLane
          BY <4>1, <5>1 DEF OwnerOK
        <5>2. CASE session[o] = NoLane
          <6>1. \A u \in Thread : pc[u] = "newest" => who[u] # o
            BY <1>0, <5>2 DEF Holding, Dispatching
          <6>2. Behind(i, newest[o]) /\ Behind(h, newest[o])
            BY <4>1, <6>1 DEF OwnerOK
          <6> QED BY <6>2 DEF Behind
        <5> QED BY <5>1, <5>2
      <4>3. PICK k \in Nat \ {0} : k <= Len(ring[l]) /\ ring[l][k] = i /\ i \in Nat
        BY <3>7, <4>1, <4>2, UnderWay
      <4>4. k # 1
        BY <3>3, <3>4, <3>8, <4>3
      <4>5. k \in 1..Len(ring[l]) /\ 1 < k
        BY <3>3, <4>3, <4>4
      <4>6. ring[l][1] < ring[l][k]
        BY <3>2, <3>4, <4>5 DEF RingOK
      <4> QED BY <3>3, <3>4, <3>8, <4>3, <4>6
    <3>9. ASSUME NEW j \in ended', NEW i \in OwnedBy(jobs[j].owner), i < j PROVE i \in ended'
      <4>1. CASE j \in ended
        BY <1>0, <1>1, <3>9, <4>1 DEF Order, OwnerOrder
      <4>2. CASE j = h
        <5>1. i \in ended \/ i \in Unfinished(o)
          BY <3>6, <3>9, <4>2 DEF OwnedBy, Unfinished, Unended
        <5> QED BY <1>1, <3>8, <3>9, <4>2, <5>1
      <4> QED BY <3>1, <4>1, <4>2
    <3>10. \A j \in ended' : OwnedBy(jobs[j].owner)' = OwnedBy(jobs[j].owner)
      BY <1>1 DEF OwnedBy
    <3> QED BY <3>9, <3>10 DEF OwnerOrder
  <2> QED BY <2>1, <2>2 DEF GpuStep
<1> QED BY <1>3, <1>4, <1>5 DEF Order

---------------------------------------------------------------------------------
(* The invariant and what follows from it                                      *)

\* Before the first dispatch the invariant holds.
LEMMA SessionBegins == Init => SessionInv
<1> SUFFICES ASSUME Init PROVE SessionInv
  OBVIOUS
<1> USE SessionAssumption, NobodyAssumption
<1>0. Len(<<>>) = 0 /\ <<>> \in Seq(Nat) /\ <<>> \in Seq(JobRecord) /\ NoToken \in Token
  BY DEF NoToken, Token
<1>1. HostTypeOK
  BY <1>0 DEF Init, LeaseInit, HostTypeOK, Step
<1>2. LaneTypeOK
  BY <1>0 DEF Init, LaneTypeOK
<1>3. \A t \in Thread : Dispatching(t)
  BY DEF Init, Dispatching, InDispatch
<1>4. Leased
  BY <1>1 DEF Init, Leased, HostTypeOK
<1>5. jobs = <<>> /\ ended = {} /\ Unended = {}
  BY <1>0 DEF Init, Unended
<1>6. Timelines
  <2>1. \A l \in Lane : ring[l] = <<>> /\ counter[l] = 1 /\ signal[l] = 0
    BY DEF Init
  <2>2. \A l \in Lane : RingOK(l) /\ CounterOK(l)
    BY <1>0, <2>1 DEF RingOK, CounterOK
  <2>3. \A t \in Thread : InHand(t)
    BY DEF Init, InHand
  <2> QED BY <1>5, <2>2, <2>3 DEF Timelines
<1>7. Order
  <2>1. \A o \in Owner : OwnerOK(o)
    BY <1>5 DEF OwnerOK, Unfinished
  <2>2. \A t \in Thread : ThreadOK(t)
    BY DEF Init, ThreadOK
  <2>3. OwnerOrder
    BY <1>5 DEF OwnerOrder
  <2> QED BY <2>1, <2>2, <2>3 DEF Order
<1> QED BY <1>1, <1>2, <1>3, <1>4, <1>6, <1>7 DEF SessionInv, Holding

\* The steps that leave the lanes alone.
LEMMA HostTimelines ==
    ASSUME SessionInv, NEW t \in Thread,
           \/ \E o \in Owner : Dispatch(t, o) \/ \E sync \in BOOLEAN : TakeSession(t, o, sync)
           \/ SynchronizeAll(t)
           \/ OpenSession(t) \/ AwaitEpoch(t) \/ LeaseLane(t) \/ DispatchFails(t) \/ DropSession(t)
           \/ SetNewest(t) \/ ReleaseLane(t) \/ WaitToken(t) \/ DrainLane(t) \/ DrainWait(t) \/ Return(t)
    PROVE  Timelines'
<1>0. Holding /\ HostTypeOK
  BY DEF SessionInv, Holding
<1>1. \A u \in Thread \ {t} : Kept(u)
  BY <1>0, Others DEF HostAction, HostStep, Call
<1>2. UNCHANGED laneVars
  BY DEF Dispatch, TakeSession, SynchronizeAll, OpenSession, AwaitEpoch, LeaseLane, DispatchFails, DropSession,
         SetNewest, ReleaseLane, WaitToken, DrainLane, DrainWait, Return
<1>3. pc[t] \notin {"doorbell", "reset"} /\ pc'[t] \notin {"doorbell", "reset"}
  BY <1>0 DEF Dispatch, TakeSession, SynchronizeAll, OpenSession, AwaitEpoch, LeaseLane, DispatchFails, DropSession,
              SetNewest, ReleaseLane, WaitToken, DrainLane, DrainWait, Return, Goto, HostTypeOK
<1> QED BY <1>1, <1>2, <1>3, QuietTimelines

\* Every step of a thread, a lane or the GPU preserves the invariant.
LEMMA SessionStep == SessionInv /\ [Next]_vars => SessionInv'
<1> SUFFICES ASSUME SessionInv, [Next]_vars PROVE SessionInv'
  OBVIOUS
<1>1. Holding'
  <2>1. Holding
    BY DEF SessionInv
  <2> QED BY <2>1, HostTypes, LaneTypes, DispatchingStep, LeasedStep DEF Holding
<1>2. Timelines' /\ Order'
  <2>1. CASE UNCHANGED vars
    <3>1. /\ holder' = holder /\ session' = session /\ sessionLock' = sessionLock /\ newest' = newest
          /\ counter' = counter /\ signal' = signal /\ ring' = ring /\ jobs' = jobs /\ ended' = ended
          /\ pc' = pc /\ who' = who /\ awaited' = awaited /\ todo' = todo /\ covers' = covers
      BY <2>1 DEF vars, owners, laneVars, callVars
    <3>2. Timelines'
      BY <3>1 DEF SessionInv, Timelines, RingOK, CounterOK, Busy, InHand, Unended, OnRing
    <3>3. Order'
      BY <3>1 DEF SessionInv, Order, OwnerOK, ThreadOK, OwnerOrder, OwnedBy, Unfinished, Unended, Behind
    <3> QED BY <3>2, <3>3
  <2>2. ASSUME NEW l \in Lane, GpuStep(l) PROVE Timelines' /\ Order'
    BY <2>2, GpuTimelines, GpuOrder
  <2>3. ASSUME NEW t \in Thread, HostAction(t) PROVE Timelines'
    BY <2>3, HostTimelines, HeadroomTimelines, ReserveTimelines, DoorbellTimelines DEF HostAction, HostStep, Call
  <2>4. ASSUME NEW t \in Thread, HostAction(t) PROVE Order'
    BY <2>4, DispatchOrder, SyncOrder, LeaseOrder, DoorbellOrder DEF HostAction, HostStep, Call
  <2> QED BY <2>1, <2>2, <2>3, <2>4 DEF Next, HostAction
<1> QED BY <1>1, <1>2 DEF SessionInv

\* Every behaviour of the owners' sessions keeps SessionInv.
THEOREM SessionInvariance == Spec => []SessionInv
  BY SessionBegins, SessionStep, PTL DEF Spec

\* The values on a lane's ring continue the stored one without a hole or a
\* repetition, for any number of lanes, owners and threads and any watermark:
\* Timeline::rollback after a failed dispatch always finds its value the last
\* one handed out, and the two stores of reset_after_drain are never seen apart.
THEOREM SessionTimelineDense == Spec => []TimelineDense
<1>1. SessionInv => TimelineDense
  BY DEF SessionInv, Timelines, RingOK, TimelineDense
<1> QED BY <1>1, SessionInvariance, PTL

\* An owner's kernels end in the order it dispatched them, though its sessions
\* move between lanes that the GPU runs in any order: PlanContext::dispatch
\* waits for the newest finalizer before it leases another lane.
THEOREM SessionOwnerOrder == Spec => []OwnerOrder
<1>1. SessionInv => OwnerOrder
  BY DEF SessionInv, Order
<1> QED BY <1>1, SessionInvariance, PTL

\* OwnerCtx::synchronize, which takes its finalizer under the session mutex and
\* waits without it, and the lock-free drain of AmdDeviceCore::synchronize_all
\* return only when every job published before them has ended.
THEOREM SessionSynchronizeCovers == Spec => []SynchronizeCovers
<1>1. SessionInv => SynchronizeCovers
  BY DEF SessionInv, Order, ThreadOK, SynchronizeCovers
<1> QED BY <1>1, SessionInvariance, PTL

\* The owners' sessions use the lanes as the pool's leases promise: a lane is
\* given to one owner at a time and given back by the owner that has it, also
\* when a dispatch fails and when synchronize drops the lease after the mutex.
THEOREM SessionRefinesLease == Spec => LeaseSpec
<1>1. Init => LeaseInit
  BY DEF Init
<1>2. SessionInv /\ [Next]_vars => [LeaseNext]_holder
  <2> SUFFICES ASSUME SessionInv, [Next]_vars PROVE [LeaseNext]_holder
    OBVIOUS
  <2>0. HostTypeOK
    BY DEF SessionInv, Holding
  <2>1. ASSUME NEW t \in Thread, LeaseLane(t) PROVE LeaseNext
    BY <2>0, <2>1 DEF LeaseLane, LeaseNext, HostTypeOK, Owner
  <2>2. ASSUME NEW t \in Thread, DropSession(t) PROVE [LeaseNext]_holder
    BY <2>0, <2>2 DEF DropSession, LeaseNext, HostTypeOK, Owner
  <2>3. ASSUME NEW t \in Thread, ReleaseLane(t) PROVE [LeaseNext]_holder
    BY <2>0, <2>3 DEF ReleaseLane, LeaseNext, HostTypeOK, Owner
  <2>4. ASSUME NEW t \in Thread, NEW o \in Owner, NEW sync \in BOOLEAN,
               \/ Dispatch(t, o) \/ TakeSession(t, o, sync) \/ SynchronizeAll(t)
               \/ OpenSession(t) \/ AwaitEpoch(t) \/ DispatchFails(t) \/ Headroom(t) \/ ResetCounter(t) \/ Reserve(t)
               \/ Withdraw(t) \/ Doorbell(t) \/ SetNewest(t) \/ WaitToken(t) \/ DrainLane(t) \/ DrainWait(t) \/ Return(t)
        PROVE  UNCHANGED holder
    BY <2>4 DEF Dispatch, TakeSession, SynchronizeAll, OpenSession, AwaitEpoch, DispatchFails, Headroom, ResetCounter,
                Reserve, Withdraw, Doorbell, SetNewest, WaitToken, DrainLane, DrainWait, Return
  <2>5. ASSUME NEW l \in Lane, GpuStep(l) PROVE UNCHANGED holder
    BY <2>5 DEF GpuStep, ExecuteJob, Signal
  <2>6. CASE UNCHANGED vars
    BY <2>6 DEF vars
  <2>7. BOOLEAN # {} /\ \A t \in Thread : who[t] \in Owner
    BY <2>0 DEF HostTypeOK
  <2> QED BY <2>1, <2>2, <2>3, <2>4, <2>5, <2>6, <2>7 DEF Next, HostStep, Call
<1> QED BY <1>1, <1>2, SessionInvariance, PTL DEF Spec, LeaseSpec

---------------------------------------------------------------------------------
(* LaneScratch: the invariant                                                  *)

Scratch == [id : Nat \ {0}, size : Nat]
Kernel == [need : Nat, uses : Scratch]

ScratchTypeOK ==
    /\ scratch \in Scratch /\ firmware \in Scratch /\ descriptor \in Scratch /\ old \in Scratch
    /\ backing \in Seq(BOOLEAN)
    /\ commands \in Seq(Kernel) /\ running \in Kernel \cup {Nothing}
    /\ segment \in Nat

\* A scratch that was allocated and not freed.
Held(s) == s.id \in 1..Len(backing) /\ Live(s)

\* The allocations a kernel may meet exist, until a drained lane frees its own.
Backed ==
    \/ Held(scratch) /\ (pm4 \/ Held(firmware))
    \/ scratchStep = "closed" /\ GrowDrained

\* A grow has drained the lane, and what it will free is no longer used.
Growing ==
    /\ scratchStep \in {"alloc", "unmap", "write", "free"} => GrowDrained
    /\ scratchStep \in {"unmap", "write", "free"} => old.id # scratch.id /\ segment <= scratch.size
    /\ scratchStep = "free" => pm4 \/ firmware = scratch
    /\ scratchStep = "pack" => segment <= scratch.size

\* The firmware uses what the host keeps, except during a grow or after one that
\* failed: torn, or at a device that takes no more dispatches.
InStep ==
    \/ pm4 \/ torn \/ firmware = scratch
    \/ scratchStep \in {"unmap", "write"}
    \/ scratchStep \in {"idle", "close", "closed"} /\ faulted

\* What kernel c will run on.
Provided(c) ==
    IF pm4 THEN Held(c.uses) /\ c.need <= c.uses.size
    ELSE torn \/ c.need <= firmware.size

ScratchInv ==
    /\ ScratchTypeOK /\ Backed /\ Growing /\ InStep
    /\ \A i \in 1..Len(commands) : Provided(commands[i])
    /\ running # Nothing => Held(running.uses) /\ (torn \/ running.need <= running.uses.size)

---------------------------------------------------------------------------------
(* LaneScratch is safe                                                         *)

\* A further allocation leaves those that exist alone, and exists.
LEMMA HeldAfterGrow ==
    ASSUME ScratchTypeOK, backing' = Append(backing, TRUE)
    PROVE  /\ backing' \in Seq(BOOLEAN) /\ Len(backing) \in Nat /\ Len(backing') = Len(backing) + 1
           /\ backing'[Len(backing) + 1] = TRUE
           /\ \A i \in 1..Len(backing) : i \in 1..Len(backing') /\ backing'[i] = backing[i]
<1>1. backing \in Seq(BOOLEAN) /\ Len(backing) \in Nat /\ TRUE \in BOOLEAN
  BY LenProperties DEF ScratchTypeOK
<1>2. /\ Append(backing, TRUE) \in Seq(BOOLEAN) /\ Len(Append(backing, TRUE)) = Len(backing) + 1
      /\ Append(backing, TRUE)[Len(backing) + 1] = TRUE
      /\ \A i \in 1..Len(backing) : Append(backing, TRUE)[i] = backing[i]
  BY <1>1, AppendProperties
<1> QED BY <1>1, <1>2

\* Freeing one allocation leaves the others alone.
LEMMA HeldAfterFree ==
    ASSUME ScratchTypeOK, NEW k, backing' = [backing EXCEPT ![k] = FALSE]
    PROVE  /\ backing' \in Seq(BOOLEAN) /\ Len(backing') = Len(backing)
           /\ \A i \in 1..Len(backing) : i # k => backing'[i] = backing[i]
<1>1. backing \in Seq(BOOLEAN) /\ FALSE \in BOOLEAN
  BY DEF ScratchTypeOK
<1>2. CASE k \in 1..Len(backing)
  BY <1>1, <1>2, ExceptSeq
<1>3. CASE k \notin 1..Len(backing)
  <2>1. DOMAIN backing = 1..Len(backing)
    BY <1>1, LenProperties
  <2>2. backing' = backing
    BY <1>1, <1>3, <2>1
  <2> QED BY <1>1, <2>2
<1> QED BY <1>2, <1>3

\* Host steps of a dispatch that change no allocation and no queue.
LEMMA ScratchQuiet ==
    ASSUME ScratchInv,
           \/ \E size \in SegmentSizes : BeginDispatch(size)
           \/ DrainForGrow \/ Unmap \/ CloseLane \/ FaultLane \/ UNCHANGED scratchVars
    PROVE  ScratchInv'
<1>0. /\ ScratchTypeOK /\ Backed /\ Growing /\ InStep /\ \A i \in 1..Len(commands) : Provided(commands[i])
      /\ running # Nothing => Held(running.uses) /\ (torn \/ running.need <= running.uses.size)
  BY DEF ScratchInv
<1>1. /\ descriptor' = descriptor /\ firmware' = firmware /\ commands' = commands /\ running' = running
      /\ pm4' = pm4 /\ scratch' = scratch /\ backing' = backing /\ old' = old /\ (torn => torn')
      /\ (faulted => faulted')
  BY DEF BeginDispatch, DrainForGrow, Unmap, CloseLane, FaultLane, scratchVars, queueVars
<1>2. segment' \in Nat
  BY <1>0, ScratchAssumption DEF ScratchTypeOK, BeginDispatch, DrainForGrow, Unmap, CloseLane, FaultLane, scratchVars
<1>3. ScratchTypeOK'
  BY <1>0, <1>1, <1>2 DEF ScratchTypeOK
<1>4. Backed'
  <2>1. scratchStep' = "closed" <=> scratchStep = "closed"
    BY DEF BeginDispatch, DrainForGrow, Unmap, CloseLane, FaultLane, scratchVars, GoOn
  <2> QED BY <1>0, <1>1, <2>1 DEF Backed, Held, Live, GrowDrained
<1>5. Growing'
  BY <1>0, <1>1 DEF Growing, GrowDrained, BeginDispatch, DrainForGrow, Unmap, CloseLane, FaultLane, scratchVars, GoOn
<1>6. InStep'
  BY <1>0, <1>1 DEF InStep, BeginDispatch, DrainForGrow, Unmap, CloseLane, FaultLane, scratchVars, GoOn
<1>7. \A i \in 1..Len(commands') : Provided(commands[i])'
  BY <1>0, <1>1 DEF Provided, Held, Live
<1>8. running' # Nothing => Held(running.uses)' /\ (torn' \/ running'.need <= running'.uses.size)
  BY <1>0, <1>1 DEF Held, Live
<1> QED BY <1>3, <1>4, <1>5, <1>6, <1>7, <1>8 DEF ScratchInv, Nothing

\* The steps that replace the scratch find the lane drained.
LEMMA ScratchGrow ==
    ASSUME ScratchInv, Grow \/ WriteAndRemap \/ FreeOld PROVE ScratchInv'
<1>0. ScratchTypeOK /\ Backed /\ Growing /\ InStep
  BY DEF ScratchInv
<1>1. /\ commands = <<>> /\ running = Nothing /\ commands' = commands /\ running' = running /\ pm4' = pm4
      /\ segment' = segment /\ Len(commands) = 0
  BY <1>0 DEF Growing, GrowDrained, Grow, WriteAndRemap, FreeOld, queueVars
<1>2. Held(scratch) /\ (pm4 \/ Held(firmware))
  BY <1>0 DEF Backed, Grow, WriteAndRemap, FreeOld
<1>3. CASE Grow /\ backing' = Append(backing, TRUE)
  <2>2. /\ backing' \in Seq(BOOLEAN) /\ Len(backing) \in Nat /\ Len(backing') = Len(backing) + 1
        /\ backing'[Len(backing) + 1] = TRUE
        /\ \A i \in 1..Len(backing) : i \in 1..Len(backing') /\ backing'[i] = backing[i]
    BY <1>0, <1>3, HeldAfterGrow
  <2>3. /\ scratch' = [id |-> 1 + Len(backing), size |-> segment] /\ old' = scratch
        /\ firmware' = firmware /\ descriptor' = descriptor /\ scratchStep' \in {"free", "unmap"}
        /\ (scratchStep' = "free" => pm4)
    <3>1. backing' # backing
      BY <2>2
    <3> QED BY <1>3, <3>1 DEF Grow, Fresh, GoOn, queueVars
  <2>4. scratch'.id = Len(backing) + 1 /\ scratch'.size = segment /\ scratch' \in Scratch
    BY <1>0, <2>2, <2>3 DEF Scratch, ScratchTypeOK
  <2>5. ScratchTypeOK'
    BY <1>0, <1>1, <2>2, <2>3, <2>4 DEF ScratchTypeOK, Nothing
  <2>6. Held(scratch)' /\ (pm4 \/ Held(firmware)')
    <3>1. scratch'.id \in 1..Len(backing') /\ backing'[scratch'.id] = TRUE
      BY <2>2, <2>4
    <3>2. pm4 \/ (firmware'.id \in 1..Len(backing') /\ backing'[firmware'.id] = backing[firmware.id])
      BY <1>2, <2>2, <2>3 DEF Held
    <3> QED BY <1>2, <3>1, <3>2, <2>3 DEF Held, Live
  <2>7. old'.id # scratch'.id
    BY <1>2, <2>2, <2>3, <2>4 DEF Held
  <2>8. segment' <= scratch'.size
    BY <1>0, <1>1, <2>4 DEF ScratchTypeOK
  <2>9. Growing'
    BY <1>1, <2>3, <2>7, <2>8 DEF Growing, GrowDrained, Nothing
  <2>10. Backed' /\ InStep'
    BY <1>1, <2>3, <2>6 DEF Backed, InStep
  <2> QED BY <1>1, <2>5, <2>9, <2>10 DEF ScratchInv, Nothing
<1>4. CASE Grow /\ ~(backing' = Append(backing, TRUE))
  <2>1. /\ UNCHANGED <<scratch, backing, old, descriptor, firmware, torn, faulted>>
        /\ scratchStep = "alloc" /\ scratchStep' = "idle"
    BY <1>4 DEF Grow, GoOn, queueVars
  <2>2. ScratchTypeOK'
    BY <1>0, <1>1, <2>1 DEF ScratchTypeOK, Nothing
  <2>3. Backed'
    BY <1>1, <1>2, <2>1 DEF Backed, Held, Live
  <2>4. Growing' /\ InStep'
    BY <1>0, <1>1, <2>1 DEF Growing, InStep
  <2> QED BY <1>1, <2>2, <2>3, <2>4 DEF ScratchInv, Nothing
<1>5. CASE WriteAndRemap
  <2>1. /\ UNCHANGED <<scratch, backing, old, torn>> /\ scratchStep = "write" /\ descriptor' = scratch
        /\ \/ firmware' = scratch /\ scratchStep' = "free"
           \/ firmware' = firmware /\ scratchStep' = "idle" /\ faulted'
    BY <1>5 DEF WriteAndRemap, ReadOnRemap, GoOn
  <2>2. ScratchTypeOK'
    BY <1>0, <1>1, <2>1 DEF ScratchTypeOK, Nothing
  <2>3. Backed'
    BY <1>1, <1>2, <2>1 DEF Backed, Held, Live
  <2>4. Growing'
    BY <1>0, <1>1, <2>1 DEF Growing, GrowDrained, Nothing
  <2>5. InStep'
    BY <2>1 DEF InStep
  <2> QED BY <1>1, <2>2, <2>3, <2>4, <2>5 DEF ScratchInv, Nothing
<1>6. CASE FreeOld
  <2>1. /\ UNCHANGED <<scratch, old, torn, faulted, descriptor, firmware>> /\ scratchStep = "free"
        /\ scratchStep' = "pack" /\ backing' = [backing EXCEPT ![old.id] = FALSE]
    BY <1>6 DEF FreeOld, GoOn, queueVars
  <2>2. old.id # scratch.id /\ (pm4 \/ firmware = scratch) /\ segment <= scratch.size
    BY <1>0, <2>1 DEF Growing
  <2>3. /\ backing' \in Seq(BOOLEAN) /\ Len(backing') = Len(backing)
        /\ \A i \in 1..Len(backing) : i # old.id => backing'[i] = backing[i]
    BY <1>0, <2>1, HeldAfterFree
  <2>4. ScratchTypeOK'
    BY <1>0, <1>1, <2>1, <2>3 DEF ScratchTypeOK, Nothing
  <2>5. Held(scratch)'
    <3>1. scratch'.id \in 1..Len(backing') /\ backing'[scratch'.id] = backing[scratch.id]
      BY <1>2, <2>1, <2>2, <2>3 DEF Held
    <3> QED BY <1>2, <3>1 DEF Held, Live
  <2>6. Backed'
    BY <1>1, <2>1, <2>2, <2>5 DEF Backed
  <2>7. Growing' /\ InStep'
    BY <1>1, <2>1, <2>2 DEF Growing, InStep
  <2> QED BY <1>1, <2>4, <2>6, <2>7 DEF ScratchInv, Nothing
<1> QED BY <1>3, <1>4, <1>5, <1>6

\* Publishing, the GPU's steps and the end of the lane.
LEMMA ScratchUse ==
    ASSUME ScratchInv, PackAndPublish \/ DropLane \/ BeginKernel \/ EndKernel PROVE ScratchInv'
<1>0. /\ ScratchTypeOK /\ Backed /\ Growing /\ InStep /\ \A i \in 1..Len(commands) : Provided(commands[i])
      /\ running # Nothing => Held(running.uses) /\ (torn \/ running.need <= running.uses.size)
  BY DEF ScratchInv
<1>1. /\ descriptor' = descriptor /\ firmware' = firmware /\ pm4' = pm4 /\ scratch' = scratch /\ old' = old
      /\ segment' = segment /\ torn' = torn
  BY DEF PackAndPublish, DropLane, BeginKernel, EndKernel, queueVars
<1>2. commands \in Seq(Kernel) /\ Len(commands) \in Nat
  BY <1>0, LenProperties DEF ScratchTypeOK
<1>3. CASE PackAndPublish
  <2> DEFINE c == [need |-> segment, uses |-> scratch]
  <2>1. /\ commands' = Append(commands, c) /\ running' = running /\ backing' = backing /\ faulted' = faulted
        /\ scratchStep = "pack" /\ scratchStep' = "idle"
    BY <1>3 DEF PackAndPublish, GoOn
  <2>2. c \in Kernel /\ c.need = segment /\ c.uses = scratch
    BY <1>0 DEF Kernel, ScratchTypeOK
  <2>3. Provided(c)
    <3>1. Held(scratch) /\ (pm4 \/ torn \/ firmware = scratch) /\ segment <= scratch.size
      BY <1>0, <2>1 DEF Backed, InStep, Growing
    <3> HIDE DEF c
    <3> QED BY <2>2, <3>1 DEF Provided
  <2> HIDE DEF c
  <2>4. /\ commands' \in Seq(Kernel) /\ Len(commands') = Len(commands) + 1 /\ commands'[Len(commands) + 1] = c
        /\ \A i \in 1..Len(commands) : commands'[i] = commands[i]
    BY <1>2, <2>1, <2>2, AppendProperties
  <2>5. ScratchTypeOK'
    BY <1>0, <1>1, <2>1, <2>4 DEF ScratchTypeOK
  <2>6. Backed' /\ Growing' /\ InStep'
    BY <1>0, <1>1, <2>1 DEF Backed, Growing, InStep, Held, Live
  <2>7. ASSUME NEW i \in 1..Len(commands') PROVE Provided(commands[i])'
    <3>1. PICK d : d = commands'[i] /\ Provided(d)
      <4>1. CASE i = Len(commands) + 1
        BY <2>3, <2>4, <4>1
      <4>2. CASE i # Len(commands) + 1
        <5>1. i \in 1..Len(commands)
          BY <1>2, <2>4, <2>7, <4>2
        <5> QED BY <1>0, <2>4, <5>1
      <4> QED BY <4>1, <4>2
    <3>2. Provided(d)'
      BY <1>1, <2>1, <3>1 DEF Provided, Held, Live
    <3> QED BY <3>1, <3>2 DEF Provided, Held, Live
  <2>8. running' # Nothing => Held(running.uses)' /\ (torn' \/ running'.need <= running'.uses.size)
    BY <1>0, <1>1, <2>1 DEF Held, Live
  <2> QED BY <2>5, <2>6, <2>7, <2>8 DEF ScratchInv, Nothing
<1>4. CASE BeginKernel
  <2>1. /\ running = Nothing /\ commands # <<>> /\ commands' = Tail(commands)
        /\ running' = [need |-> Head(commands).need, uses |-> IF pm4 THEN Head(commands).uses ELSE firmware]
        /\ backing' = backing /\ faulted' = faulted /\ scratchStep' = scratchStep
    BY <1>4 DEF BeginKernel
  <2>2. Len(commands) \in Nat \ {0} /\ Head(commands) = commands[1] /\ 1 \in 1..Len(commands)
    BY <1>2, <2>1, EmptySeq
  <2>3. PICK c \in Kernel : c = Head(commands) /\ Provided(c)
    <3>1. commands[1] \in Kernel
      BY <1>2, <2>2, ElementOfSeq
    <3> QED BY <1>0, <2>2, <3>1
  <2>4. commands' \in Seq(Kernel) /\ Len(commands') = Len(commands) - 1
    BY <1>2, <2>1, HeadTailProperties
  <2>5. ASSUME NEW i \in 1..Len(commands') PROVE Provided(commands[i])'
    <3>1. i \in Nat /\ i + 1 \in 1..Len(commands)
      BY <2>2, <2>4
    <3>2. commands'[i] = commands[i + 1]
      BY <1>2, <2>1, <2>4, HeadTailProperties
    <3>3. PICK d : d = commands'[i] /\ Provided(d)
      BY <1>0, <3>1, <3>2
    <3>4. Provided(d)'
      BY <1>1, <2>1, <3>3 DEF Provided, Held, Live
    <3> QED BY <3>3, <3>4 DEF Provided, Held, Live
  <2>6. ~GrowDrained
    BY <2>1 DEF GrowDrained
  <2>7. Held(scratch) /\ (pm4 \/ Held(firmware))
    BY <1>0, <2>6 DEF Backed
  <2>8. c.need \in Nat /\ c.uses \in Scratch /\ firmware \in Scratch
    BY <1>0, <2>3 DEF Kernel, ScratchTypeOK
  <2>9. PICK s \in Scratch : /\ s = (IF pm4 THEN c.uses ELSE firmware) /\ Held(s) /\ (torn \/ c.need <= s.size)
    BY <2>3, <2>7, <2>8 DEF Provided
  <2>10. running' = [need |-> c.need, uses |-> s] /\ running'.need = c.need /\ running'.uses = s
    BY <2>1, <2>3, <2>9
  <2>11. running' \in Kernel
    BY <2>8, <2>9, <2>10 DEF Kernel
  <2>12. ScratchTypeOK'
    BY <1>0, <1>1, <2>1, <2>4, <2>11 DEF ScratchTypeOK
  <2>13. Backed'
    BY <1>1, <2>1, <2>7 DEF Backed, Held, Live
  <2>14. Growing' /\ InStep'
    BY <1>0, <1>1, <2>1, <2>6 DEF Growing, InStep
  <2>15. Held(running.uses)' /\ (torn' \/ running'.need <= running'.uses.size)
    BY <1>1, <2>1, <2>9, <2>10 DEF Held, Live
  <2> QED BY <2>5, <2>12, <2>13, <2>14, <2>15 DEF ScratchInv
<1>5. CASE EndKernel
  <2>1. /\ running # Nothing /\ running' = Nothing /\ commands' = commands /\ backing' = backing /\ faulted' = faulted
        /\ scratchStep' = scratchStep
    BY <1>5 DEF EndKernel
  <2>2. ScratchTypeOK'
    BY <1>0, <1>1, <2>1 DEF ScratchTypeOK, Nothing
  <2>3. Held(scratch) /\ (pm4 \/ Held(firmware)) /\ ~GrowDrained
    BY <1>0, <2>1 DEF Backed, GrowDrained
  <2>4. Backed'
    BY <1>1, <2>1, <2>3 DEF Backed, Held, Live
  <2>5. Growing' /\ InStep'
    BY <1>0, <1>1, <2>1, <2>3 DEF Growing, InStep
  <2>6. \A i \in 1..Len(commands') : Provided(commands[i])'
    BY <1>0, <1>1, <2>1 DEF Provided, Held, Live
  <2> QED BY <2>1, <2>2, <2>4, <2>5, <2>6 DEF ScratchInv, Nothing
<1>6. CASE DropLane
  <2>1. /\ commands' = commands /\ running' = running /\ scratchStep = "close" /\ scratchStep' = "closed"
        /\ \/ backing' = backing /\ faulted' = faulted
           \/ ~faulted /\ GrowDrained /\ faulted' /\ backing' = backing
           \/ ~faulted /\ GrowDrained /\ faulted' = faulted /\ backing' = [backing EXCEPT ![scratch.id] = FALSE]
    BY <1>6 DEF DropLane, GoOn, queueVars
  <2>2. Growing' /\ InStep'
    BY <1>0, <1>1, <2>1 DEF Growing, InStep
  <2>3. CASE backing' = backing
    <3>1. ScratchTypeOK'
      BY <1>0, <1>1, <2>1, <2>3 DEF ScratchTypeOK, Nothing
    <3>2. Backed'
      BY <1>0, <1>1, <2>1, <2>3 DEF Backed, Held, Live, GrowDrained
    <3>3. \A i \in 1..Len(commands') : Provided(commands[i])'
      BY <1>0, <1>1, <2>1, <2>3 DEF Provided, Held, Live
    <3>4. running' # Nothing => Held(running.uses)' /\ (torn' \/ running'.need <= running'.uses.size)
      BY <1>0, <1>1, <2>1, <2>3 DEF Held, Live
    <3> QED BY <2>2, <3>1, <3>2, <3>3, <3>4 DEF ScratchInv, Nothing
  <2>4. CASE GrowDrained /\ backing' = [backing EXCEPT ![scratch.id] = FALSE]
    <3>1. backing' \in Seq(BOOLEAN)
      BY <1>0, <2>4, HeldAfterFree
    <3>2. ScratchTypeOK'
      BY <1>0, <1>1, <2>1, <3>1 DEF ScratchTypeOK, Nothing
    <3>3. commands' = <<>> /\ running' = Nothing /\ Len(commands') = 0
      BY <2>1, <2>4 DEF GrowDrained
    <3>4. Backed'
      BY <2>1, <3>3 DEF Backed, GrowDrained, Nothing
    <3> QED BY <2>2, <3>2, <3>3, <3>4 DEF ScratchInv, Nothing
  <2> QED BY <2>1, <2>3, <2>4
<1> QED BY <1>3, <1>4, <1>5, <1>6

\* The first queue of a lane has its descriptor and its scratch.
LEMMA ScratchBegins == ScratchInit => ScratchInv
<1> SUFFICES ASSUME ScratchInit PROVE ScratchInv
  OBVIOUS
<1>1. scratch \in Scratch /\ scratch.id = 1 /\ firmware = scratch /\ descriptor = scratch /\ old = scratch
  BY ScratchAssumption DEF ScratchInit, Scratch
<1>2. <<TRUE>> \in Seq(BOOLEAN) /\ Len(<<TRUE>>) = 1 /\ <<TRUE>>[1] = TRUE
  OBVIOUS
<1>3. commands = <<>> /\ running = Nothing /\ Len(commands) = 0 /\ commands \in Seq(Kernel) /\ segment = 0
  BY DEF ScratchInit
<1>4. backing = <<TRUE>> /\ scratchStep = "idle"
  BY DEF ScratchInit
<1>5. Held(scratch)
  BY <1>1, <1>2, <1>4 DEF Held, Live
<1>6. ScratchTypeOK
  BY <1>1, <1>2, <1>3, <1>4 DEF ScratchTypeOK
<1>7. Backed /\ Growing /\ InStep
  BY <1>1, <1>4, <1>5 DEF Backed, Growing, InStep
<1> QED BY <1>3, <1>6, <1>7 DEF ScratchInv

\* A kernel runs on scratch that exists and is large enough, for any segment
\* sizes and any number of grows, failures and faults, unless an unmap failed
\* after the new state was stored: a grow frees the old allocation only when the
\* lane is drained and the firmware has read the new descriptor.
THEOREM ScratchSafe == ScratchSpec => []ScratchSuffices
<1>1. ScratchInv /\ [ScratchNext]_scratchVars => ScratchInv'
  BY ScratchQuiet, ScratchGrow, ScratchUse DEF ScratchNext
<1>2. ScratchInv => ScratchSuffices
  <2> SUFFICES ASSUME ScratchInv, running # Nothing PROVE Live(running.uses) /\ (torn \/ running.uses.size >= running.need)
    BY DEF ScratchSuffices
  <2>1. running \in Kernel /\ Held(running.uses) /\ (torn \/ running.need <= running.uses.size)
    BY DEF ScratchInv, ScratchTypeOK
  <2>2. running.need \in Nat /\ running.uses.size \in Nat
    BY <2>1 DEF Kernel, Scratch
  <2> QED BY <2>1, <2>2 DEF Held
<1> QED BY <1>1, <1>2, ScratchBegins, PTL DEF ScratchSpec

---------------------------------------------------------------------------------
(* KernargArena, with one lane                                                 *)

\* The bytes that bumps for the sizes s may move the cursor by.
Left(s) ==
    IF Len(s) = 0 THEN 0
    ELSE IF Len(s) = 1 THEN s[1] + ALIGN - 1
    ELSE s[1] + s[2] + 2 * (ALIGN - 1)

\* The lane is the only one, a dispatch needs at most W bytes, and the arena has
\* room for the dispatches the ring lets be in flight, and one more.
Roomy(W) ==
    /\ \A l, m \in ArenaLane : l = m
    /\ W \in Nat /\ (MAX_INFLIGHT + 3) * W <= ARENA_BYTES
    /\ \A s \in Requests : s \in Seq(Nat) /\ Len(s) \in {1, 2} /\ Left(s) <= W

Slot == [lane : ArenaLane, job : Nat, lo : Nat, hi : Nat]

ArenaTypeOK ==
    /\ cursor \in Nat
    /\ argStep \in [ArenaLane -> {"idle", "bump", "drain", "reset", "headroom"}]
    /\ need \in [ArenaLane -> Seq(Nat)]
    /\ job \in [ArenaLane -> Nat] /\ published \in [ArenaLane -> Nat] /\ retired \in [ArenaLane -> Nat]
    /\ target \in [ArenaLane -> [ArenaLane -> Nat]]
    /\ live \in SUBSET Slot

\* Where the dispatch of the lane is.
ArenaLaneOK(W, l) ==
    /\ retired[l] <= published[l] /\ published[l] <= retired[l] + MAX_INFLIGHT + 1
    /\ job[l] = IF argStep[l] = "idle" THEN published[l] ELSE published[l] + 1
    /\ argStep[l] \in {"bump", "drain", "reset"} => Len(need[l]) \in {1, 2}
    /\ argStep[l] = "headroom" => Len(need[l]) \in {0, 1}
    /\ argStep[l] = "idle" => Len(need[l]) = 0
    /\ Left(need[l]) <= W
    /\ argStep[l] \in {"drain", "reset"} => ~Fits(Head(need[l])) /\ target[l][l] = published[l]
    /\ argStep[l] = "reset" => retired[l] = published[l]

\* A reservation lies behind the cursor, or it is the record of a dispatch whose
\* control stream was the first to wrap: it lies at the end of the arena, and the
\* cursor has not come further than the dispatches since then can have moved it.
Placed(W, r) ==
    \/ r.hi <= cursor
    \/ ARENA_BYTES <= r.lo + W /\ cursor + Left(need[r.lane]) <= (job[r.lane] - r.job + 1) * W

SlotOK(W, r) ==
    /\ retired[r.lane] < r.job /\ r.job <= job[r.lane]
    /\ r.hi <= ARENA_BYTES /\ r.lo % ALIGN = 0
    /\ r.job = job[r.lane] => Len(need[r.lane]) # 2
    /\ r.job = job[r.lane] /\ Len(need[r.lane]) # 0 => r.hi = cursor /\ cursor + Left(need[r.lane]) <= W + r.lo
    /\ Placed(W, r)

Separate == \A r, s \in live : r # s => r.hi <= s.lo \/ s.hi <= r.lo

ArenaInv(W) ==
    /\ ArenaTypeOK
    /\ \A l \in ArenaLane : ArenaLaneOK(W, l)
    /\ \A r \in live : SlotOK(W, r)
    /\ Separate

\* next_multiple_of: the cursor moves up by less than the alignment.
LEMMA AlignedUp ==
    ASSUME cursor \in Nat
    PROVE  Aligned \in Nat /\ Aligned % ALIGN = 0 /\ cursor <= Aligned /\ Aligned <= cursor + ALIGN - 1
<1>1. ALIGN \in Nat \ {0}
  BY ArenaAssumption
<1>2. ASSUME NEW x \in Nat PROVE (x \div ALIGN) * ALIGN <= x /\ x < (x \div ALIGN) * ALIGN + ALIGN /\ x \div ALIGN \in Nat
  BY <1>1
<1>3. ASSUME NEW q \in Nat PROVE q * ALIGN \in Nat /\ (q * ALIGN) % ALIGN = 0
  BY <1>1
<1>4. cursor + ALIGN - 1 \in Nat
  BY <1>1
<1> DEFINE x == cursor + ALIGN - 1
<1>5. x \in Nat /\ Aligned = (x \div ALIGN) * ALIGN
  BY <1>4 DEF Aligned
<1> HIDE DEF x
<1>6. Aligned <= x /\ x < Aligned + ALIGN /\ Aligned \in Nat /\ Aligned % ALIGN = 0
  BY <1>2, <1>3, <1>5
<1> QED BY <1>1, <1>6 DEF x

\* What is left after the first of the sizes.
LEMMA LeftTail ==
    ASSUME NEW s \in Seq(Nat), Len(s) \in {1, 2}
    PROVE  /\ Head(s) \in Nat /\ Tail(s) \in Seq(Nat) /\ Len(Tail(s)) = Len(s) - 1
           /\ Left(Tail(s)) \in Nat
           /\ Left(s) = Left(Tail(s)) + Head(s) + ALIGN - 1
<1>1. ALIGN \in Nat \ {0}
  BY ArenaAssumption
<1>2. /\ Head(s) = s[1] /\ s[1] \in Nat /\ Tail(s) \in Seq(Nat) /\ Len(Tail(s)) = Len(s) - 1
      /\ Len(s) = 2 => Tail(s)[1] = s[2] /\ s[2] \in Nat
  OBVIOUS
<1>3. CASE Len(s) = 1
  <2>1. Len(Tail(s)) = 0 /\ Left(s) = s[1] + ALIGN - 1
    BY <1>2, <1>3 DEF Left
  <2>2. Left(Tail(s)) = 0
    BY <2>1 DEF Left
  <2> QED BY <1>1, <1>2, <2>1, <2>2
<1>4. CASE Len(s) = 2
  <2>1. Len(Tail(s)) = 1 /\ Left(s) = s[1] + s[2] + 2 * (ALIGN - 1)
    BY <1>2, <1>4 DEF Left
  <2>2. \A u \in Seq(Nat) : Len(u) = 1 => Left(u) = u[1] + ALIGN - 1
    BY DEF Left
  <2>3. Left(Tail(s)) = s[2] + ALIGN - 1
    BY <1>2, <1>4, <2>1, <2>2
  <2> QED BY <1>1, <1>2, <1>4, <2>1, <2>3
<1> QED BY <1>3, <1>4

\* The sizes a lane has left are counted.
LEMMA LeftType ==
    ASSUME NEW s \in Seq(Nat), Len(s) \in {0, 1, 2}
    PROVE  Left(s) \in Nat
<1>1. ALIGN \in Nat \ {0}
  BY ArenaAssumption
<1>2. CASE Len(s) = 0
  BY <1>2 DEF Left
<1>3. CASE Len(s) \in {1, 2}
  BY <1>1, <1>3, LeftTail
<1> QED BY <1>2, <1>3

\* Multiples of what a dispatch needs.
LEMMA Multiples ==
    ASSUME NEW W \in Nat, NEW a \in Nat
    PROVE  /\ a * W \in Nat /\ (a + 1) * W = a * W + W
           /\ \A b \in Nat : a <= b => a * W <= b * W
  OBVIOUS

\* The arena has room for the dispatches in flight next to the end of the arena.
LEMMA InFlight ==
    ASSUME NEW W, Roomy(W), ArenaInv(W), NEW r \in live, argStep[r.lane] # "idle"
    PROVE  /\ job[r.lane] - r.job + 1 \in Nat
           /\ (job[r.lane] - r.job + 1) * W + W <= ARENA_BYTES
<1>1. W \in Nat /\ MAX_INFLIGHT \in Nat /\ ARENA_BYTES \in Nat /\ (MAX_INFLIGHT + 3) * W <= ARENA_BYTES
  BY ArenaAssumption DEF Roomy
<1>2. r.lane \in ArenaLane /\ r.job \in Nat
  BY DEF ArenaInv, ArenaTypeOK, Slot
<1>3. /\ job[r.lane] \in Nat /\ published[r.lane] \in Nat /\ retired[r.lane] \in Nat
      /\ retired[r.lane] < r.job /\ r.job <= job[r.lane] /\ job[r.lane] = published[r.lane] + 1
      /\ published[r.lane] <= retired[r.lane] + MAX_INFLIGHT + 1
  BY <1>2 DEF ArenaInv, ArenaTypeOK, SlotOK, ArenaLaneOK
<1> DEFINE a == job[r.lane] - r.job + 1
           b == MAX_INFLIGHT + 2
<1>4. a \in Nat /\ b \in Nat /\ a <= b
  BY <1>1, <1>2, <1>3
<1>5. b + 1 = MAX_INFLIGHT + 3
  BY <1>1
<1> HIDE DEF a, b
<1>6. a * W \in Nat /\ b * W \in Nat /\ a * W <= b * W /\ (b + 1) * W = b * W + W
  BY <1>1, <1>4, Multiples
<1>7. a * W + W <= ARENA_BYTES
  BY <1>1, <1>5, <1>6
<1> QED BY <1>4, <1>7 DEF a

\* A reservation is granted where it overlaps no other one, and leaves the others
\* where they are allowed to be.
LEMMA ArenaGrant ==
    ASSUME NEW W, Roomy(W), ArenaInv(W), NEW l \in ArenaLane, argStep[l] \in {"bump", "reset"},
           NEW lo \in Nat, lo % ALIGN = 0, lo + Head(need[l]) <= ARENA_BYTES, Grant(l, lo),
           UNCHANGED <<job, published, retired, target>>,
           \A r \in live : r.hi <= lo \/ lo + Head(need[l]) <= r.lo,
           \A r \in live : Placed(W, r)'
    PROVE  ArenaInv(W)'
<1>0. PICK n : n = [lane |-> l, job |-> job[l], lo |-> lo, hi |-> lo + Head(need[l])]
  OBVIOUS
<1>1. /\ live' = live \cup {n} /\ cursor' = lo + Head(need[l])
      /\ need' = [need EXCEPT ![l] = Tail(@)] /\ argStep' = [argStep EXCEPT ![l] = "headroom"]
      /\ job' = job /\ published' = published /\ retired' = retired /\ target' = target
  BY <1>0 DEF Grant
<1>2. /\ cursor \in Nat /\ need \in [ArenaLane -> Seq(Nat)] /\ job[l] \in Nat /\ published[l] \in Nat /\ retired[l] \in Nat
      /\ argStep \in [ArenaLane -> {"idle", "bump", "drain", "reset", "headroom"}]
  BY DEF ArenaInv, ArenaTypeOK
<1>3. /\ Len(need[l]) \in {1, 2} /\ need[l] \in Seq(Nat) /\ Left(need[l]) <= W
      /\ job[l] = published[l] + 1 /\ retired[l] <= published[l]
  BY <1>2 DEF ArenaInv, ArenaLaneOK
<1>4. /\ Head(need[l]) \in Nat /\ Tail(need[l]) \in Seq(Nat) /\ Len(Tail(need[l])) = Len(need[l]) - 1
      /\ Left(Tail(need[l])) \in Nat
      /\ Left(need[l]) = Left(Tail(need[l])) + Head(need[l]) + ALIGN - 1
  BY <1>3, LeftTail
<1>5. /\ need'[l] = Tail(need[l]) /\ argStep'[l] = "headroom"
      /\ \A m \in ArenaLane : m = l
  BY <1>1, <1>2 DEF Roomy
<1>6. W \in Nat /\ ALIGN \in Nat \ {0} /\ ARENA_BYTES \in Nat
  BY ArenaAssumption DEF Roomy
<1>7. n \in Slot /\ n.lane = l /\ n.job = job[l] /\ n.lo = lo /\ n.hi = lo + Head(need[l])
  BY <1>0, <1>2, <1>4 DEF Slot
<1>14. Left(need'[l]) \in Nat /\ lo + Head(need[l]) + Left(need'[l]) <= W + lo /\ Left(need'[l]) <= W
  <2>1. ASSUME NEW h \in Nat, NEW k \in Nat, NEW x, x = k + h + ALIGN - 1, x <= W PROVE lo + h + k <= W + lo /\ k <= W
    BY <1>6, <2>1
  <2> QED BY <1>3, <1>4, <1>5, <2>1
<1>15. Len(need'[l]) \in {0, 1} /\ (Len(need[l]) = 1 => Len(need'[l]) = 0)
  BY <1>3, <1>4, <1>5
<1>8. ArenaTypeOK'
  <2>1. need' \in [ArenaLane -> Seq(Nat)]
    BY <1>1, <1>2, <1>4
  <2>2. argStep' \in [ArenaLane -> {"idle", "bump", "drain", "reset", "headroom"}]
    BY <1>1, <1>2
  <2>3. cursor' \in Nat
    BY <1>1, <1>4
  <2> QED BY <1>1, <1>7, <2>1, <2>2, <2>3 DEF ArenaInv, ArenaTypeOK
<1>9. ASSUME NEW m \in ArenaLane PROVE ArenaLaneOK(W, m)'
  <2>1. m = l
    BY <1>5
  <2>3. published[l] <= retired[l] + MAX_INFLIGHT + 1
    BY DEF ArenaInv, ArenaLaneOK
  <2> QED BY <1>1, <1>3, <1>5, <1>14, <1>15, <2>1, <2>3 DEF ArenaLaneOK
<1>10. SlotOK(W, n)'
  <2>0. n.hi = cursor' /\ n.lo = lo /\ cursor' = lo + Head(need[l]) /\ cursor' \in Nat
    BY <1>1, <1>4, <1>7
  <2>4. \A c : c = lo + Head(need[l]) => c + Left(need'[l]) <= W + lo
    BY <1>14
  <2>1. n.hi = cursor' /\ n.hi <= cursor' /\ cursor' + Left(need'[l]) <= W + n.lo
    <3>1. cursor' + Left(need'[l]) <= W + lo
      BY <2>0, <2>4
    <3>2. n.hi <= cursor'
      <4>1. \A c \in Nat : c <= c
        OBVIOUS
      <4> QED BY <2>0, <4>1
    <3> QED BY <2>0, <3>1, <3>2
  <2>2. retired[l] < n.job /\ n.job <= job[l] /\ Len(need'[l]) # 2
    <3>1. retired[l] < job[l] /\ job[l] <= job[l]
      BY <1>2, <1>3
    <3>2. n.job = job[l]
      BY <1>7
    <3>3. Len(need'[l]) # 2
      BY <1>15
    <3> QED BY <3>1, <3>2, <3>3
  <2>3. n.hi <= ARENA_BYTES /\ n.lo % ALIGN = 0 /\ n.lane = l
    BY <1>7
  <2> QED BY <1>1, <2>1, <2>2, <2>3 DEF SlotOK, Placed
<1>11. ASSUME NEW r \in live PROVE SlotOK(W, r)'
  <2>1. r.lane = l
    BY <1>5 DEF ArenaInv, ArenaTypeOK, Slot
  <2>2. SlotOK(W, r)
    BY DEF ArenaInv
  <2>3. r.job = job[l] => Len(need'[l]) = 0
    BY <1>3, <1>15, <2>1, <2>2 DEF SlotOK
  <2>4. Len(need'[l]) # 2
    <3>1. \A k : k \in {0, 1} => k # 2
      OBVIOUS
    <3> QED BY <1>15, <3>1, Zenon
  <2>5. Placed(W, r)'
    BY DEF Placed
  <2>6. /\ retired[r.lane] < r.job /\ r.job <= job[r.lane]
        /\ r.hi <= ARENA_BYTES /\ r.lo % ALIGN = 0
    BY <2>2 DEF SlotOK
  <2> QED BY <1>1, <2>1, <2>3, <2>4, <2>5, <2>6 DEF SlotOK
<1>12. Separate'
  <2> SUFFICES ASSUME NEW r \in live', NEW s \in live', r # s PROVE r.hi <= s.lo \/ s.hi <= r.lo
    BY DEF Separate
  <2> QED BY <1>1, <1>7 DEF ArenaInv, Separate
<1>13. \A r \in live' : SlotOK(W, r)'
  BY <1>1, <1>10, <1>11
<1> QED BY <1>8, <1>9, <1>12, <1>13 DEF ArenaInv

\* The arena is twice as large as what a dispatch needs.
LEMMA RoomyTwice ==
    ASSUME NEW W, Roomy(W)
    PROVE  W \in Nat /\ ARENA_BYTES \in Nat /\ ALIGN \in Nat \ {0} /\ W + W <= ARENA_BYTES
<1>1. W \in Nat /\ MAX_INFLIGHT \in Nat /\ ARENA_BYTES \in Nat /\ (MAX_INFLIGHT + 3) * W <= ARENA_BYTES /\ ALIGN \in Nat \ {0}
  BY ArenaAssumption DEF Roomy
<1>2. 2 * W <= (MAX_INFLIGHT + 3) * W /\ (MAX_INFLIGHT + 3) * W \in Nat
  <2>1. 2 <= MAX_INFLIGHT + 3 /\ MAX_INFLIGHT + 3 \in Nat
    BY <1>1
  <2> HIDE <1>1
  <2> QED BY <1>1, <2>1, Multiples
<1>3. 2 * W = W + W
  BY <1>1
<1> QED BY <1>1, <1>2, <1>3

\* What a lane's reservations and the rest of its dispatch are.
LEMMA ArenaFacts ==
    ASSUME NEW W, Roomy(W), ArenaInv(W), NEW l \in ArenaLane, argStep[l] \in {"bump", "drain", "reset"}
    PROVE  /\ need[l] \in Seq(Nat) /\ Len(need[l]) \in {1, 2} /\ cursor \in Nat
           /\ Head(need[l]) \in Nat /\ Left(need[l]) \in Nat /\ Left(Tail(need[l])) \in Nat
           /\ Left(need[l]) = Left(Tail(need[l])) + Head(need[l]) + ALIGN - 1
           /\ Left(need[l]) <= W /\ job[l] = published[l] + 1
           /\ job[l] \in Nat /\ published[l] \in Nat /\ retired[l] \in Nat
           /\ \A r \in live : r.lane = l /\ r.lo \in Nat /\ r.hi \in Nat /\ r.job \in Nat /\ SlotOK(W, r)
<1>1. need[l] \in Seq(Nat) /\ cursor \in Nat /\ job[l] \in Nat /\ published[l] \in Nat /\ retired[l] \in Nat
  BY DEF ArenaInv, ArenaTypeOK
<1>2. Len(need[l]) \in {1, 2} /\ Left(need[l]) <= W /\ job[l] = published[l] + 1
  BY DEF ArenaInv, ArenaLaneOK
<1>3. /\ Head(need[l]) \in Nat /\ Left(Tail(need[l])) \in Nat
      /\ Left(need[l]) = Left(Tail(need[l])) + Head(need[l]) + ALIGN - 1
  BY <1>1, <1>2, LeftTail
<1>4. Left(need[l]) \in Nat
  BY <1>1, <1>2, LeftType
<1>5. \A r \in live : r.lane = l /\ r.lo \in Nat /\ r.hi \in Nat /\ r.job \in Nat /\ SlotOK(W, r)
  BY DEF ArenaInv, ArenaTypeOK, Slot, Roomy
<1> QED BY <1>1, <1>2, <1>3, <1>4, <1>5

\* bump grants the next aligned bytes, or finds that they do not fit.
LEMMA ArenaBump ==
    ASSUME NEW W, Roomy(W), ArenaInv(W), NEW l \in ArenaLane, Bump(l)
    PROVE  ArenaInv(W)'
<1>1. argStep[l] = "bump" /\ job' = job /\ published' = published /\ retired' = retired
  BY DEF Bump
<1>2. PICK h, k, left : h = Head(need[l]) /\ k = Left(Tail(need[l])) /\ left = Left(need[l])
  OBVIOUS
<1>3. h \in Nat /\ k \in Nat /\ left \in Nat /\ left = k + h + ALIGN - 1 /\ cursor \in Nat
  BY <1>1, <1>2, ArenaFacts
<1>4. PICK lo : lo = Aligned
  OBVIOUS
<1>5. lo \in Nat /\ lo % ALIGN = 0 /\ cursor <= lo /\ lo <= cursor + ALIGN - 1
  BY <1>3, <1>4, AlignedUp
<1>6. W \in Nat /\ ARENA_BYTES \in Nat /\ ALIGN \in Nat \ {0}
  BY RoomyTwice
<1>7. CASE Fits(h)
  <2>1. Grant(l, lo) /\ target' = target /\ lo + h <= ARENA_BYTES
    BY <1>2, <1>4, <1>7 DEF Bump, Fits
  <2>2. cursor' = lo + h /\ need'[l] = Tail(need[l])
    BY <1>2, <2>1 DEF Grant, ArenaInv, ArenaTypeOK
  <2>3. ASSUME NEW r \in live
        PROVE  (r.hi <= lo \/ lo + h <= r.lo) /\ Placed(W, r)'
    <3>1. r.lane = l /\ r.lo \in Nat /\ r.hi \in Nat /\ SlotOK(W, r)
      BY <1>1, ArenaFacts
    <3>2. CASE r.hi <= cursor
      <4>1. r.hi <= lo /\ r.hi <= lo + h
        BY <1>3, <1>5, <3>1, <3>2
      <4> QED BY <2>2, <4>1 DEF Placed
    <3>3. CASE ARENA_BYTES <= r.lo + W /\ cursor + left <= (job[l] - r.job + 1) * W
      <4>1. PICK p : p = (job[l] - r.job + 1) * W
        OBVIOUS
      <4>2. p + W <= ARENA_BYTES
        BY <1>1, <3>1, <4>1, InFlight
      <4>3. p \in Nat
        <5>1. job[l] - r.job + 1 \in Nat
          BY <1>1, <3>1, InFlight
        <5> QED BY <1>6, <4>1, <5>1, Multiples
      <4>4. lo + h <= r.lo /\ lo + h + k <= p
        <5>1. cursor + left <= p /\ ARENA_BYTES <= r.lo + W
          BY <3>3, <4>1
        <5> QED BY <1>3, <1>5, <1>6, <3>1, <4>2, <4>3, <5>1
      <4>5. cursor' + Left(need'[r.lane]) <= (job'[r.lane] - r.job + 1) * W
        BY <1>1, <1>2, <2>2, <3>1, <4>1, <4>4
      <4> QED BY <3>3, <4>4, <4>5 DEF Placed
    <3> QED BY <1>2, <3>1, <3>2, <3>3 DEF SlotOK, Placed
  <2>4. \A r \in live : r.hi <= lo \/ lo + Head(need[l]) <= r.lo
    BY <1>2, <2>3
  <2>5. lo + Head(need[l]) <= ARENA_BYTES
    BY <1>2, <2>1
  <2>6. \A r \in live : Placed(W, r)'
    BY <2>3
  <2>7. argStep[l] \in {"bump", "reset"}
    BY <1>1
  <2> QED BY <1>1, <1>5, <2>1, <2>4, <2>5, <2>6, <2>7, ArenaGrant
<1>8. CASE ~Fits(h)
  <2>1. /\ argStep' = [argStep EXCEPT ![l] = "drain"] /\ target' = [target EXCEPT ![l] = published]
        /\ cursor' = cursor /\ need' = need /\ live' = live
    BY <1>2, <1>8 DEF Bump
  <2>2. ArenaTypeOK'
    BY <1>1, <2>1 DEF ArenaInv, ArenaTypeOK
  <2>3. ASSUME NEW m \in ArenaLane PROVE ArenaLaneOK(W, m)'
    <3>1. m = l /\ ArenaLaneOK(W, l)
      BY DEF Roomy, ArenaInv
    <3>2. argStep'[l] = "drain" /\ target'[l][l] = published[l]
      BY <2>1 DEF ArenaInv, ArenaTypeOK
    <3>3. ~Fits(Head(need[l]))' /\ (Fits(Head(need[l]))' <=> Fits(h))
      BY <1>2, <1>8, <2>1 DEF Fits, Aligned
    <3> QED BY <1>1, <2>1, <3>1, <3>2, <3>3 DEF ArenaLaneOK
  <2>4. ASSUME NEW r \in live PROVE SlotOK(W, r)'
    <3>1. SlotOK(W, r)
      BY DEF ArenaInv
    <3> QED BY <1>1, <2>1, <3>1 DEF SlotOK, Placed
  <2> QED BY <2>1, <2>2, <2>3, <2>4 DEF ArenaInv, Separate
<1> QED BY <1>7, <1>8

\* After the drain the lane's dispatch alone has a reservation, if it has one, and
\* that lies behind what the wrap hands out.
LEMMA ArenaReset ==
    ASSUME NEW W, Roomy(W), ArenaInv(W), NEW l \in ArenaLane, Reset(l)
    PROVE  ArenaInv(W)'
<1>1. argStep[l] = "reset" /\ Grant(l, 0) /\ UNCHANGED <<job, published, retired, target>>
  BY DEF Reset
<1>2. PICK h, k, left : h = Head(need[l]) /\ k = Left(Tail(need[l])) /\ left = Left(need[l])
  OBVIOUS
<1>3. h \in Nat /\ k \in Nat /\ left \in Nat /\ left = k + h + ALIGN - 1 /\ cursor \in Nat /\ left <= W
  BY <1>1, <1>2, ArenaFacts
<1>4. W \in Nat /\ ARENA_BYTES \in Nat /\ ALIGN \in Nat \ {0} /\ W + W <= ARENA_BYTES
  BY RoomyTwice
<1>5. cursor' = 0 + h /\ need'[l] = Tail(need[l])
  BY <1>1, <1>2 DEF Grant, ArenaInv, ArenaTypeOK
<1>6. 0 + Head(need[l]) <= ARENA_BYTES
  <2>1. 0 + h <= ARENA_BYTES
    BY <1>3, <1>4
  <2> QED BY <1>2, <2>1
<1>7. PICK a : a = Aligned
  OBVIOUS
<1>8. a \in Nat /\ a <= cursor + ALIGN - 1 /\ ~(a + h <= ARENA_BYTES)
  <2>1. ~Fits(Head(need[l]))
    BY <1>1 DEF ArenaInv, ArenaLaneOK
  <2> QED BY <1>2, <1>3, <1>7, <2>1, AlignedUp DEF Fits
<1>9. ASSUME NEW r \in live PROVE (r.hi <= 0 \/ 0 + h <= r.lo) /\ Placed(W, r)'
  <2>1. /\ r.lane = l /\ r.lo \in Nat /\ r.job \in Nat /\ SlotOK(W, r)
        /\ job[l] \in Nat /\ retired[l] \in Nat /\ published[l] \in Nat /\ job[l] = published[l] + 1
        /\ Len(need[l]) \in {1, 2}
    BY <1>1, ArenaFacts
  <2>2. retired[l] = published[l]
    BY <1>1 DEF ArenaInv, ArenaLaneOK
  <2>3. r.job = job[l]
    BY <2>1, <2>2 DEF SlotOK
  <2>4. cursor + left <= W + r.lo
    BY <1>2, <2>1, <2>3 DEF SlotOK
  <2>5. h <= r.lo /\ ARENA_BYTES <= r.lo + W /\ 0 + h + k <= W
    BY <1>3, <1>4, <1>8, <2>1, <2>4
  <2>6. (job[l] - r.job + 1) * W = W
    <3>1. job[l] - r.job + 1 = 1
      BY <2>1, <2>3
    <3> QED BY <1>4, <3>1
  <2>7. cursor' + Left(need'[r.lane]) <= (job'[r.lane] - r.job + 1) * W
    BY <1>1, <1>2, <1>5, <2>1, <2>5, <2>6
  <2>8. 0 + h <= r.lo
    BY <1>3, <2>5
  <2> QED BY <2>5, <2>7, <2>8 DEF Placed
<1>10. 0 % ALIGN = 0
  BY <1>4
<1>11. \A r \in live : r.hi <= 0 \/ 0 + Head(need[l]) <= r.lo
  BY <1>2, <1>9
<1>12. \A r \in live : Placed(W, r)'
  BY <1>9
<1> QED BY <1>1, <1>6, <1>10, <1>11, <1>12, ArenaGrant

\* A dispatch begins: its sizes are what one more dispatch may move the cursor by.
LEMMA ArenaDispatch ==
    ASSUME NEW W, Roomy(W), ArenaInv(W), NEW l \in ArenaLane, NEW s \in Requests, DispatchArgs(l, s)
    PROVE  ArenaInv(W)'
<1>1. /\ argStep[l] = "idle"
      /\ job' = [job EXCEPT ![l] = @ + 1] /\ need' = [need EXCEPT ![l] = s] /\ argStep' = [argStep EXCEPT ![l] = "bump"]
      /\ cursor' = cursor /\ published' = published /\ retired' = retired /\ target' = target /\ live' = live
  BY DEF DispatchArgs
<1>2. s \in Seq(Nat) /\ Len(s) \in {1, 2} /\ Left(s) <= W /\ W \in Nat /\ \A m \in ArenaLane : m = l
  BY DEF Roomy
<1>3. ArenaTypeOK
  BY DEF ArenaInv
<1>4. job'[l] = job[l] + 1 /\ need'[l] = s /\ argStep'[l] = "bump" /\ job[l] \in Nat /\ cursor \in Nat
  BY <1>1, <1>3 DEF ArenaTypeOK
<1>5. ArenaTypeOK'
  BY <1>1, <1>2, <1>3 DEF ArenaTypeOK
<1>6. ASSUME NEW m \in ArenaLane PROVE ArenaLaneOK(W, m)'
  <2>1. m = l /\ ArenaLaneOK(W, l)
    BY <1>2 DEF ArenaInv
  <2> QED BY <1>1, <1>2, <1>4, <2>1 DEF ArenaLaneOK
<1>7. ASSUME NEW r \in live PROVE SlotOK(W, r)'
  <2>1. r.lane = l /\ SlotOK(W, r) /\ r.lane \in ArenaLane /\ r.job \in Nat /\ r.hi \in Nat
    BY <1>2, <1>3 DEF ArenaInv, ArenaTypeOK, Slot
  <2>2. /\ retired[l] < r.job /\ r.job <= job[l] /\ r.hi <= ARENA_BYTES /\ r.lo % ALIGN = 0 /\ Placed(W, r)
    BY <2>1 DEF SlotOK
  <2>3. r.job <= job'[l] /\ r.job # job'[l]
    BY <1>4, <2>1, <2>2
  <2>4. ASSUME ARENA_BYTES <= r.lo + W, cursor + Left(need[l]) <= (job[l] - r.job + 1) * W
        PROVE  cursor + Left(s) <= (job'[l] - r.job + 1) * W
    <3>1. PICK a : a = job[l] - r.job + 1
      OBVIOUS
    <3>2. a \in Nat /\ job'[l] - r.job + 1 = a + 1
      BY <1>4, <2>1, <2>2, <3>1
    <3>3. a * W \in Nat /\ (a + 1) * W = a * W + W
      BY <1>2, <3>2, Multiples
    <3>4. PICK p : p = a * W
      OBVIOUS
    <3>5. Left(need[l]) = 0
      BY <1>1 DEF ArenaInv, ArenaLaneOK, Left
    <3>6. cursor <= p
      BY <1>4, <2>4, <3>1, <3>4, <3>5
    <3>7. PICK x : x = Left(s)
      OBVIOUS
    <3>8. x \in Nat /\ x <= W
      BY <1>2, <3>7, LeftType
    <3>9. cursor + x <= p + W
      BY <1>2, <1>4, <3>3, <3>4, <3>6, <3>8
    <3> QED BY <3>2, <3>3, <3>4, <3>7, <3>9
  <2>5. Placed(W, r)'
    BY <1>1, <1>4, <2>1, <2>2, <2>4 DEF Placed
  <2> QED BY <1>1, <1>4, <2>1, <2>2, <2>3, <2>5 DEF SlotOK
<1> QED BY <1>1, <1>5, <1>6, <1>7 DEF ArenaInv, Separate

\* The drain is over once what was published when it began has retired.
LEMMA ArenaDrain ==
    ASSUME NEW W, Roomy(W), ArenaInv(W), NEW l \in ArenaLane, Drain(l)
    PROVE  ArenaInv(W)'
<1>1. /\ argStep[l] = "drain" /\ retired[l] >= target[l][l] /\ argStep' = [argStep EXCEPT ![l] = "reset"]
      /\ cursor' = cursor /\ need' = need /\ job' = job /\ published' = published /\ retired' = retired
      /\ target' = target /\ live' = live
  BY DEF Drain, Drained
<1>2. ArenaTypeOK /\ \A m \in ArenaLane : m = l
  BY DEF ArenaInv, Roomy
<1>3. ArenaTypeOK' /\ argStep'[l] = "reset"
  BY <1>1, <1>2 DEF ArenaTypeOK
<1>4. ASSUME NEW m \in ArenaLane PROVE ArenaLaneOK(W, m)'
  <2>1. m = l /\ ArenaLaneOK(W, l)
    BY <1>2 DEF ArenaInv
  <2>2. retired[l] = published[l]
    BY <1>1, <1>2, <2>1 DEF ArenaLaneOK, ArenaTypeOK
  <2> QED BY <1>1, <1>3, <2>1, <2>2 DEF ArenaLaneOK, Fits, Aligned
<1>5. ASSUME NEW r \in live PROVE SlotOK(W, r)'
  <2>1. SlotOK(W, r)
    BY DEF ArenaInv
  <2> QED BY <1>1, <2>1 DEF SlotOK, Placed
<1> QED BY <1>1, <1>3, <1>4, <1>5 DEF ArenaInv, Separate

\* The ring has headroom: the control stream is bumped for, or the job published.
LEMMA ArenaRing ==
    ASSUME NEW W, Roomy(W), ArenaInv(W), NEW l \in ArenaLane, ArenaHeadroom(l)
    PROVE  ArenaInv(W)'
<1>1. /\ argStep[l] = "headroom" /\ published[l] - retired[l] <= MAX_INFLIGHT
      /\ cursor' = cursor /\ need' = need /\ job' = job /\ retired' = retired /\ target' = target /\ live' = live
  BY DEF ArenaHeadroom
<1>2. ArenaTypeOK /\ (\A m \in ArenaLane : m = l) /\ MAX_INFLIGHT \in Nat
  BY ArenaAssumption DEF ArenaInv, Roomy
<1>3. /\ ArenaLaneOK(W, l) /\ published[l] \in Nat /\ retired[l] \in Nat /\ job[l] \in Nat
      /\ need[l] \in Seq(Nat)
  BY <1>2 DEF ArenaInv, ArenaTypeOK
<1>4. CASE need[l] # <<>> /\ argStep' = [argStep EXCEPT ![l] = "bump"] /\ published' = published
  <2>1. ArenaTypeOK' /\ argStep'[l] = "bump"
    BY <1>1, <1>2, <1>4 DEF ArenaTypeOK
  <2>2. Len(need[l]) # 0 /\ Len(need[l]) \in {0, 1}
    <3>1. Len(need[l]) \in {0, 1}
      BY <1>1, <1>3 DEF ArenaLaneOK
    <3>2. Len(need[l]) # 0
      BY <1>3, <1>4, EmptySeq
    <3> QED BY <3>1, <3>2
  <2>3. ArenaLaneOK(W, l)'
    BY <1>1, <1>3, <1>4, <2>1, <2>2 DEF ArenaLaneOK
  <2>4. ASSUME NEW m \in ArenaLane PROVE ArenaLaneOK(W, m)'
    BY <1>2, <2>3
  <2>5. ASSUME NEW r \in live PROVE SlotOK(W, r)'
    <3>1. SlotOK(W, r)
      BY DEF ArenaInv
    <3> QED BY <1>1, <1>4, <3>1 DEF SlotOK, Placed
  <2> QED BY <1>1, <2>1, <2>4, <2>5 DEF ArenaInv, Separate
<1>5. CASE need[l] = <<>> /\ argStep' = [argStep EXCEPT ![l] = "idle"] /\ published' = [published EXCEPT ![l] = @ + 1]
  <2>1. ArenaTypeOK' /\ argStep'[l] = "idle" /\ published'[l] = published[l] + 1
    BY <1>1, <1>2, <1>5 DEF ArenaTypeOK
  <2>2. Len(need[l]) = 0
    BY <1>5
  <2>3. /\ job[l] = published[l] + 1 /\ retired[l] <= published[l] + 1
        /\ published[l] + 1 <= retired[l] + MAX_INFLIGHT + 1
    BY <1>1, <1>2, <1>3 DEF ArenaLaneOK
  <2>4. ArenaLaneOK(W, l)'
    BY <1>1, <1>3, <2>1, <2>2, <2>3 DEF ArenaLaneOK
  <2>5. ASSUME NEW m \in ArenaLane PROVE ArenaLaneOK(W, m)'
    BY <1>2, <2>4
  <2>6. ASSUME NEW r \in live PROVE SlotOK(W, r)'
    <3>1. SlotOK(W, r)
      BY DEF ArenaInv
    <3> QED BY <1>1, <3>1 DEF SlotOK, Placed
  <2> QED BY <1>1, <2>1, <2>5, <2>6 DEF ArenaInv, Separate
<1> QED BY <1>4, <1>5 DEF ArenaHeadroom

\* The GPU finishes a job, and its reservations end.
LEMMA ArenaRetire ==
    ASSUME NEW W, Roomy(W), ArenaInv(W), NEW l \in ArenaLane, Retire(l)
    PROVE  ArenaInv(W)'
<1>1. /\ retired[l] < published[l] /\ retired' = [retired EXCEPT ![l] = @ + 1]
      /\ live' = {r \in live : ~(r.lane = l /\ r.job = retired'[l])}
      /\ cursor' = cursor /\ argStep' = argStep /\ need' = need /\ job' = job
      /\ published' = published /\ target' = target
  BY DEF Retire
<1>2. ArenaTypeOK /\ (\A m \in ArenaLane : m = l) /\ MAX_INFLIGHT \in Nat
  BY ArenaAssumption DEF ArenaInv, Roomy
<1>3. ArenaTypeOK' /\ retired'[l] = retired[l] + 1
  BY <1>1, <1>2 DEF ArenaTypeOK
<1>4. /\ ArenaLaneOK(W, l) /\ published[l] \in Nat /\ retired[l] \in Nat
  BY <1>2 DEF ArenaInv, ArenaTypeOK
<1>5. ArenaLaneOK(W, l)'
  <2>1. retired[l] + 1 <= published[l] /\ published[l] <= retired[l] + 1 + MAX_INFLIGHT + 1
    BY <1>1, <1>2, <1>4 DEF ArenaLaneOK
  <2>2. argStep[l] # "reset"
    BY <1>1, <1>4 DEF ArenaLaneOK
  <2> QED BY <1>1, <1>3, <1>4, <2>1, <2>2 DEF ArenaLaneOK, Fits, Aligned
<1>6. ASSUME NEW m \in ArenaLane PROVE ArenaLaneOK(W, m)'
  BY <1>2, <1>5
<1>7. ASSUME NEW r \in live' PROVE SlotOK(W, r)'
  <2>1. r \in live /\ SlotOK(W, r) /\ r.lane = l /\ r.job \in Nat
    BY <1>1, <1>2 DEF ArenaInv, ArenaTypeOK, Slot
  <2>2. retired'[l] < r.job
    BY <1>1, <1>3, <1>4, <2>1 DEF SlotOK
  <2> QED BY <1>1, <2>1, <2>2 DEF SlotOK, Placed
<1>8. Separate'
  BY <1>1 DEF ArenaInv, Separate
<1> QED BY <1>3, <1>6, <1>7, <1>8 DEF ArenaInv

\* On one lane, and with room in the arena for what the ring lets be in flight,
\* bytes reserved for a dispatch belong to it alone until the GPU has finished it,
\* through any number of dispatches and wraps (KernargArena::bump).
THEOREM ArenaSlotsDisjoint ==
    ASSUME NEW W, Roomy(W)
    PROVE  ArenaSpec => []SlotsDisjoint
<1>1. ArenaInit => ArenaInv(W)
  <2> SUFFICES ASSUME ArenaInit PROVE ArenaInv(W)
    OBVIOUS
  <2>1. W \in Nat /\ ARENA_BYTES \in Nat /\ MAX_INFLIGHT \in Nat
    BY ArenaAssumption DEF Roomy
  <2>2. <<>> \in Seq(Nat) /\ Len(<<>>) = 0
    OBVIOUS
  <2>3. Left(<<>>) = 0
    BY <2>2 DEF Left
  <2>4. ArenaTypeOK /\ live = {}
    BY <2>2 DEF ArenaInit, ArenaTypeOK
  <2>5. ASSUME NEW l \in ArenaLane PROVE ArenaLaneOK(W, l)
    BY <2>1, <2>2, <2>3 DEF ArenaInit, ArenaLaneOK
  <2> QED BY <2>4, <2>5 DEF ArenaInv, Separate
<1>2. ArenaInv(W) /\ [ArenaNext]_arenaVars => ArenaInv(W)'
  <2>1. ASSUME ArenaInv(W), UNCHANGED arenaVars PROVE ArenaInv(W)'
    BY <2>1 DEF arenaVars, ArenaInv, ArenaTypeOK, ArenaLaneOK, SlotOK, Placed, Separate, Fits, Aligned
  <2>2. ASSUME ArenaInv(W), Finished PROVE ArenaInv(W)'
    BY <2>1, <2>2 DEF Finished
  <2> QED BY <2>1, <2>2, ArenaBump, ArenaDrain, ArenaReset, ArenaRing, ArenaRetire, ArenaDispatch DEF ArenaNext
<1>3. ArenaInv(W) => SlotsDisjoint
  BY DEF ArenaInv, SlotOK, Separate, SlotsDisjoint
<1> QED BY <1>1, <1>2, <1>3, PTL DEF ArenaSpec

=================================================================================
