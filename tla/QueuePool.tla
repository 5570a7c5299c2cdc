-------------------------------- MODULE QueuePool --------------------------------
(* The bounded lazy pool of compute lanes (device/src/amd/connector.rs,        *)
(* LaneClaims and QueuePool).  `acquire` tries the claim bits without a lock,  *)
(* then under the creation lock (where it may build one more lane), then under *)
(* the wait lock before it sleeps; a lease's drop and a device fault notify    *)
(* under the wait lock.  Each atomic access and each lock step is a step here. *)
EXTENDS Integers, FiniteSets

CONSTANTS Client,         \* threads that acquire and drop leases
          Nobody,
          Capacity,
          MAX_EXPIRIES,   \* LANE_ACQUIRE_MAX_EXPIRIES
          MaxCalls        \* bound: acquisitions each client makes

ASSUME PoolAssumption ==
    /\ Nobody \notin Client
    /\ Capacity \in Nat \ {0} /\ MAX_EXPIRIES \in Nat \ {0} /\ MaxCalls \in Nat

Lane == 0..(Capacity - 1)
NoLane == -1

VARIABLES claimed,      \* the claim bits
          initialized,  \* lanes published so far
          queues,       \* lanes whose OnceLock is set
          createLock, waitLock,   \* the holder of each mutex, or Nobody
          parked,       \* clients inside Condvar::wait_for
          late,         \* clients whose wait_for timed out
          pc,
          seen,         \* Client -> the `initialized` it loaded
          expiries,     \* Client -> consecutive expiries of its acquisition
          slot,         \* Client -> the lane of its lease, or NoLane
          poison,       \* "no", "stored" (the flag), "notified"
          calls

pool == <<claimed, initialized, queues>>
locks == <<createLock, waitLock>>
sleep == <<parked, late>>
vars == <<pool, locks, sleep, pc, seen, expiries, slot, poison, calls>>

PC == {"idle", "top", "try1", "create", "try2", "build", "claimNew", "set", "store",
       "park", "try3", "asleep", "woken", "leased", "notify"}

\* Types: the counters of acquire stay in range, expiries reach the limit at most
\* within one acquisition, and no lane beyond the capacity is claimed or built.
TypeOK ==
    /\ claimed \in SUBSET Lane /\ queues \in SUBSET Lane
    /\ initialized \in 0..Capacity
    /\ createLock \in Client \cup {Nobody} /\ waitLock \in Client \cup {Nobody}
    /\ parked \in SUBSET Client /\ late \in SUBSET Client
    /\ pc \in [Client -> PC]
    /\ seen \in [Client -> 0..Capacity]
    /\ expiries \in [Client -> 0..MAX_EXPIRIES]
    /\ slot \in [Client -> Lane \cup {NoLane}]
    /\ poison \in {"no", "stored", "notified"}
    /\ calls \in [Client -> 0..MaxCalls]

Init ==
    /\ claimed = {} /\ initialized = 0 /\ queues = {}
    /\ createLock = Nobody /\ waitLock = Nobody
    /\ parked = {} /\ late = {}
    /\ pc = [c \in Client |-> "idle"]
    /\ seen = [c \in Client |-> 0]
    /\ expiries = [c \in Client |-> 0]
    /\ slot = [c \in Client |-> NoLane]
    /\ poison = "no"
    /\ calls = [c \in Client |-> 0]

Goto(c, label) == pc' = [pc EXCEPT ![c] = label]

\* acquire returns a lease: what it loaded and counted goes out of scope.
Leased(c) ==
    /\ Goto(c, "leased")
    /\ seen' = [seen EXCEPT ![c] = 0] /\ expiries' = [expiries EXCEPT ![c] = 0]

\* LaneClaims::try_claim: the lowest clear bit among the first n.
Idle(n) == {l \in Lane : l < n} \ claimed
Lowest(S) == CHOOSE l \in S : \A m \in S : l <= m

TryClaim(c, otherwise) ==
    IF Idle(seen[c]) # {}
    THEN /\ claimed' = claimed \cup {Lowest(Idle(seen[c]))}
         /\ slot' = [slot EXCEPT ![c] = Lowest(Idle(seen[c]))]
         /\ Leased(c)
    ELSE /\ Goto(c, otherwise)
         /\ UNCHANGED <<claimed, slot, seen, expiries>>

Acquire(c) ==
    /\ pc[c] = "idle" /\ calls[c] < MaxCalls
    /\ calls' = [calls EXCEPT ![c] = @ + 1]
    /\ expiries' = [expiries EXCEPT ![c] = 0]
    /\ Goto(c, "top")
    /\ UNCHANGED <<pool, locks, sleep, seen, slot, poison>>

\* Loop head: fail on a poisoned device, else load `initialized`.
Top(c) ==
    /\ pc[c] = "top"
    /\ Goto(c, IF poison = "no" THEN "try1" ELSE "idle")
    /\ seen' = [seen EXCEPT ![c] = initialized]
    /\ UNCHANGED <<pool, locks, sleep, expiries, slot, poison, calls>>

Try1(c) ==
    /\ pc[c] = "try1"
    /\ TryClaim(c, "create")
    /\ UNCHANGED <<initialized, queues, locks, sleep, poison, calls>>

Create(c) ==
    /\ pc[c] = "create" /\ createLock = Nobody
    /\ createLock' = c
    /\ seen' = [seen EXCEPT ![c] = initialized]
    /\ Goto(c, "try2")
    /\ UNCHANGED <<pool, waitLock, sleep, expiries, slot, poison, calls>>

Try2(c) ==
    /\ pc[c] = "try2"
    /\ TryClaim(c, IF seen[c] < Capacity THEN "build" ELSE "park")
    /\ createLock' = IF pc'[c] = "build" THEN c ELSE Nobody
    /\ UNCHANGED <<initialized, queues, waitLock, sleep, poison, calls>>

\* Mutant: the lane is published before it is claimed for its creator.
BuildPublishes(c) ==
    /\ pc[c] = "build"
    /\ queues' = queues \cup {seen[c]}
    /\ initialized' = seen[c] + 1
    /\ Goto(c, "claimNew")
    /\ UNCHANGED <<claimed, locks, sleep, seen, expiries, slot, poison, calls>>

\* PoolQueue::new_with_resources, which may fail.
Build(c) ==
    /\ pc[c] = "build"
    /\ \/ Goto(c, "claimNew") /\ UNCHANGED createLock
       \/ Goto(c, "idle") /\ createLock' = Nobody
    /\ UNCHANGED <<pool, waitLock, sleep, seen, expiries, slot, poison, calls>>

ClaimNew(c) ==
    /\ pc[c] = "claimNew"
    /\ claimed' = claimed \cup {seen[c]}
    /\ slot' = [slot EXCEPT ![c] = seen[c]]
    /\ Goto(c, "set")
    /\ UNCHANGED <<initialized, queues, locks, sleep, seen, expiries, poison, calls>>

SetQueue(c) ==
    /\ pc[c] = "set"
    /\ queues' = queues \cup {seen[c]}
    /\ Goto(c, "store")
    /\ UNCHANGED <<claimed, initialized, locks, sleep, seen, expiries, slot, poison, calls>>

StoreInitialized(c) ==
    /\ pc[c] = "store"
    /\ initialized' = seen[c] + 1
    /\ createLock' = Nobody
    /\ Leased(c)
    /\ UNCHANGED <<claimed, queues, waitLock, sleep, slot, poison, calls>>

\* Under the wait lock: the poison test and the load before the last try.
LockWait(c) ==
    /\ pc[c] = "park" /\ waitLock = Nobody
    /\ IF poison = "no"
       THEN waitLock' = c /\ Goto(c, "try3")
       ELSE Goto(c, "idle") /\ UNCHANGED waitLock
    /\ seen' = [seen EXCEPT ![c] = initialized]
    /\ UNCHANGED <<pool, createLock, sleep, expiries, slot, poison, calls>>

\* Mutant: no retry under the wait lock, straight to sleep.
SleepAtOnce(c) ==
    /\ pc[c] = "try3"
    /\ Goto(c, "asleep")
    /\ parked' = parked \cup {c}
    /\ waitLock' = Nobody
    /\ UNCHANGED <<pool, createLock, late, seen, expiries, slot, poison, calls>>

\* The retry under the wait lock, and wait_for when it fails: either way the
\* lock is free again.
Try3(c) ==
    /\ pc[c] = "try3"
    /\ TryClaim(c, "asleep")
    /\ parked' = IF pc'[c] = "asleep" THEN parked \cup {c} ELSE parked
    /\ waitLock' = Nobody
    /\ UNCHANGED <<initialized, queues, createLock, late, poison, calls>>

Expire(c) ==
    /\ pc[c] = "asleep"
    /\ parked' = parked \ {c}
    /\ late' = late \cup {c}
    /\ Goto(c, "woken")
    /\ UNCHANGED <<pool, locks, seen, expiries, slot, poison, calls>>

\* wait_for returns with the wait lock, which the end of the iteration frees.
\* Expiries in a row fail the acquisition; a notification starts over.
Woken(c) ==
    /\ pc[c] = "woken" /\ waitLock = Nobody
    /\ expiries' = [expiries EXCEPT ![c] = IF c \in late THEN @ + 1 ELSE 0]
    /\ Goto(c, IF expiries'[c] >= MAX_EXPIRIES THEN "idle" ELSE "top")
    /\ late' = late \ {c}
    /\ UNCHANGED <<pool, locks, parked, seen, slot, poison, calls>>

\* QueueLease::drop: clear the bit under the wait lock ...
Drop(c) ==
    /\ pc[c] = "leased" /\ waitLock = Nobody
    /\ waitLock' = c
    /\ claimed' = claimed \ {slot[c]}
    /\ slot' = [slot EXCEPT ![c] = NoLane]
    /\ Goto(c, "notify")
    /\ UNCHANGED <<initialized, queues, createLock, sleep, seen, expiries, poison, calls>>

\* ... and notify_one before it is released.
NotifyOne(c) ==
    /\ pc[c] = "notify"
    /\ waitLock' = Nobody
    /\ \/ /\ parked = {}
          /\ Goto(c, "idle") /\ UNCHANGED parked
       \/ \E d \in parked :
            /\ parked' = parked \ {d}
            /\ pc' = [pc EXCEPT ![c] = "idle", ![d] = "woken"]
    /\ UNCHANGED <<pool, createLock, late, seen, expiries, slot, poison, calls>>

\* Mutant: the flag alone, no notification.
PoisonSilently ==
    /\ poison = "no"
    /\ poison' = "notified"
    /\ UNCHANGED <<pool, locks, sleep, pc, seen, expiries, slot, calls>>

\* AmdDeviceCore::poison, from any thread that met a fault: raise the flag ...
PoisonStore ==
    /\ poison = "no"
    /\ poison' = "stored"
    /\ UNCHANGED <<pool, locks, sleep, pc, seen, expiries, slot, calls>>

\* ... then notify_poisoned: wake everyone under the wait lock.
PoisonNotify ==
    /\ poison = "stored" /\ waitLock = Nobody
    /\ poison' = "notified"
    /\ parked' = {}
    /\ pc' = [c \in Client |-> IF c \in parked THEN "woken" ELSE pc[c]]
    /\ UNCHANGED <<pool, locks, late, seen, expiries, slot, calls>>

AcquireStep(c) ==
    \/ Top(c) \/ Try1(c) \/ Create(c) \/ Try2(c) \/ Build(c) \/ ClaimNew(c)
    \/ SetQueue(c) \/ StoreInitialized(c) \/ LockWait(c) \/ Try3(c) \/ Woken(c)

ReleaseStep(c) == Drop(c) \/ NotifyOne(c)

Finished ==
    /\ \A c \in Client : pc[c] = "idle" /\ calls[c] = MaxCalls
    /\ UNCHANGED vars

Next ==
    \/ \E c \in Client : Acquire(c) \/ AcquireStep(c) \/ Expire(c) \/ ReleaseStep(c)
    \/ PoisonStore \/ PoisonNotify
    \/ Finished

Spec == Init /\ [][Next]_vars

\* Threads are scheduled, a lease is dropped in the end, and a fault that was
\* stored is announced.  No fairness on Expire: the waits must not depend on it.
FairSpec ==
    /\ Spec
    /\ \A c \in Client : WF_vars(AcquireStep(c)) /\ WF_vars(ReleaseStep(c))
    /\ WF_vars(PoisonNotify)

---------------------------------------------------------------------------------
(* Properties.                                                                 *)

\* A lease's lane carries its claim bit and is published with a queue in it:
\* neither `expect` of acquire nor the debug assertions of LaneClaims can fail.
LeasedLanesReady ==
    /\ \A c \in Client : pc[c] = "leased" => slot[c] \in claimed \cap queues
    /\ \A c \in Client : pc[c] = "claimNew" => seen[c] \notin claimed /\ seen[c] = initialized
    /\ \A l \in Lane : l < initialized => l \in queues

\* Who may publish on each lane.
Holder == [l \in Lane |-> IF \E c \in Client : slot[c] = l
                          THEN CHOOSE c \in Client : slot[c] = l ELSE Nobody]

Abstract == INSTANCE LaneLease WITH holder <- Holder

\* The pool implements exclusive leases, also while a lane is being created and
\* while released lanes are claimed by barging clients.
ImplementsLeases == Abstract!LeaseSpec

\* Nobody sleeps on a device whose fault has been announced.
NoSleeperAfterPoison == poison = "notified" => parked = {}

\* Every acquisition ends without the help of its timeout, given that leases are
\* dropped: no notification is lost between a failed try and the sleep.
AcquiresReturn ==
    \A c \in Client : (pc[c] = "top") ~> (pc[c] \in {"leased", "idle"})

=================================================================================
