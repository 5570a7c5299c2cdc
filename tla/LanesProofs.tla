------------------------------- MODULE LanesProofs -------------------------------
(* The lanes: safety of the pool they are leased from, for any number of       *)
(* clients and lanes, and what a linked plan leaves when its submissions run   *)
(* on them concurrently, for any plan.                                         *)
(*                                                                             *)
(* In the pool                                                                 *)
(* The claim bits, the published lanes and the locks must agree for the        *)
(* exclusion to be inductive: a bit is set for exactly one lease, a lane past  *)
(* `initialized` is claimed by the holder of the creation lock alone, and a    *)
(* client about to sleep holds the wait lock.                                  *)
EXTENDS QueuePool, HcqExecution, WellFoundedInduction, TLAPS

\* Under the creation lock what was loaded stays true.
Creating ==
    \A c \in Client : pc[c] \in {"try2", "build", "claimNew", "set", "store"} =>
        /\ createLock = c
        /\ seen[c] = initialized
        /\ pc[c] # "try2" => initialized < Capacity

\* `initialized` only grows, and what it covers is in its OnceLock.
Covered ==
    /\ \A c \in Client : seen[c] <= initialized
    /\ \A l \in Lane : l < initialized => l \in queues
    /\ \A c \in Client : pc[c] = "store" => seen[c] \in queues

\* A claim bit belongs to exactly one client: the lease's, or the creator's.
Claims ==
    /\ \A c \in Client : slot[c] # NoLane <=> pc[c] \in {"set", "store", "leased"}
    /\ \A c \in Client : pc[c] \in {"set", "store"} => slot[c] = seen[c]
    /\ \A c \in Client : pc[c] = "leased" => slot[c] < initialized
    /\ \A c \in Client : slot[c] # NoLane => slot[c] \in claimed
    /\ \A l \in claimed : \E c \in Client : slot[c] = l
    /\ \A c, d \in Client : slot[c] # NoLane /\ slot[c] = slot[d] => c = d

\* The sleepers are the clients in wait_for; one that is about to sleep, or that
\* is about to notify, holds the wait lock, and none is about to sleep once a
\* fault is announced.
Sleepers ==
    /\ \A c \in Client : c \in parked <=> pc[c] = "asleep"
    /\ \A c \in Client : pc[c] \in {"try3", "notify"} => waitLock = c
    /\ poison = "notified" => parked = {} /\ \A c \in Client : pc[c] # "try3"
    /\ \A c \in Client : pc[c] # "idle" => expiries[c] < MAX_EXPIRIES

PoolInv == TypeOK /\ Creating /\ Covered /\ Claims /\ Sleepers

\* LaneClaims::try_claim returns an idle lane when there is one.
LEMMA LowestIdle ==
    ASSUME NEW n, Idle(n) # {}
    PROVE  Lowest(Idle(n)) \in Idle(n)
<1>1. Idle(n) \subseteq Nat
  BY PoolAssumption DEF Idle, Lane
<1>2. PICK l \in Idle(n) : \A m \in Idle(n) : ~(<<m, l>> \in OpToRel(<, Nat))
  <2> HIDE DEF Idle
  <2> QED BY <1>1, NatLessThanWellFounded, WFMin
<1>3. ASSUME NEW m \in Idle(n)
      PROVE  l <= m
  <2>1. <<m, l>> \in Nat \X Nat
    BY <1>1
  <2>2. ~(m < l)
    BY <1>2, <2>1, Zenon DEF OpToRel
  <2> QED BY <2>1, <2>2
<1> QED BY <1>3 DEF Lowest

\* What a try does: claim an idle lane that was published, or change nothing.
LEMMA TryClaims ==
    ASSUME TypeOK, NEW c \in Client, NEW otherwise, TryClaim(c, otherwise)
    PROVE  \/ \E l \in Lane : /\ l < seen[c] /\ l \notin claimed
                              /\ claimed' = claimed \cup {l}
                              /\ slot' = [slot EXCEPT ![c] = l]
                              /\ pc' = [pc EXCEPT ![c] = "leased"]
                              /\ seen' = [seen EXCEPT ![c] = 0] /\ expiries' = [expiries EXCEPT ![c] = 0]
           \/ /\ pc' = [pc EXCEPT ![c] = otherwise]
              /\ UNCHANGED <<claimed, slot, seen, expiries>>
<1>1. CASE Idle(seen[c]) # {}
  <2> DEFINE l == Lowest(Idle(seen[c]))
  <2>1. l \in Idle(seen[c])
    BY <1>1, LowestIdle
  <2>2. l \in Lane /\ l < seen[c] /\ l \notin claimed
    BY <2>1 DEF Idle
  <2>3. /\ claimed' = claimed \cup {l}
        /\ slot' = [slot EXCEPT ![c] = l]
        /\ pc' = [pc EXCEPT ![c] = "leased"]
        /\ seen' = [seen EXCEPT ![c] = 0] /\ expiries' = [expiries EXCEPT ![c] = 0]
    BY <1>1 DEF TryClaim, Leased, Goto
  <2> HIDE DEF l
  <2> QED BY <2>2, <2>3
<1>2. CASE Idle(seen[c]) = {}
  BY <1>2 DEF TryClaim, Goto
<1> QED BY <1>1, <1>2

\* The empty pool satisfies the inductive invariant.
LEMMA PoolInitInv == Init => PoolInv
  BY PoolAssumption DEF Init, PoolInv, TypeOK, Creating, Covered, Claims, Sleepers, PC, Lane, NoLane

\* Every step preserves the types.
LEMMA PoolStepType == PoolInv /\ [Next]_vars => TypeOK'
<1> SUFFICES ASSUME PoolInv, [Next]_vars PROVE TypeOK'
  OBVIOUS
<1> USE PoolAssumption DEF PoolInv, TypeOK, PC, Lane, NoLane, Goto, pool, locks, sleep, Creating, Sleepers
<1>1. ASSUME NEW c \in Client, Acquire(c) PROVE TypeOK'
  BY <1>1 DEF Acquire
<1>2. ASSUME NEW c \in Client, Top(c) PROVE TypeOK'
  BY <1>2 DEF Top
<1>3. ASSUME NEW c \in Client, Try1(c) PROVE TypeOK'
  <2> HIDE DEF TypeOK, Lane, NoLane, Goto
  <2>1. TryClaim(c, "create")
    BY <1>3 DEF Try1
  <2>2. TypeOK
    OBVIOUS
  <2>3. CASE pc' = [pc EXCEPT ![c] = "create"] /\ UNCHANGED <<claimed, slot, seen, expiries>>
    BY <1>3, <2>3 DEF Try1, TypeOK, Lane, NoLane
  <2>4. ASSUME NEW l \in Lane, l < seen[c], l \notin claimed,
               claimed' = claimed \cup {l}, slot' = [slot EXCEPT ![c] = l],
               pc' = [pc EXCEPT ![c] = "leased"],
               seen' = [seen EXCEPT ![c] = 0], expiries' = [expiries EXCEPT ![c] = 0]
        PROVE  TypeOK'
    BY <1>3, <2>4 DEF Try1, TypeOK, Lane, NoLane
  <2> QED BY <2>1, <2>2, <2>3, <2>4, TryClaims
<1>4. ASSUME NEW c \in Client, Create(c) PROVE TypeOK'
  BY <1>4 DEF Create
<1>5. ASSUME NEW c \in Client, Try2(c) PROVE TypeOK'
  <2> HIDE DEF TypeOK, Lane, NoLane, Goto
  <2>1. TryClaim(c, IF seen[c] < Capacity THEN "build" ELSE "park")
    BY <1>5 DEF Try2
  <2>2. TypeOK
    OBVIOUS
  <2>3. CASE pc' = [pc EXCEPT ![c] = IF seen[c] < Capacity THEN "build" ELSE "park"] /\ UNCHANGED <<claimed, slot, seen, expiries>>
    BY <1>5, <2>3 DEF Try2, TypeOK, Lane, NoLane
  <2>4. ASSUME NEW l \in Lane, l < seen[c], l \notin claimed,
               claimed' = claimed \cup {l}, slot' = [slot EXCEPT ![c] = l],
               pc' = [pc EXCEPT ![c] = "leased"],
               seen' = [seen EXCEPT ![c] = 0], expiries' = [expiries EXCEPT ![c] = 0]
        PROVE  TypeOK'
    BY <1>5, <2>4 DEF Try2, TypeOK, Lane, NoLane
  <2> QED BY <2>1, <2>2, <2>3, <2>4, TryClaims
<1>6. ASSUME NEW c \in Client, Build(c) PROVE TypeOK'
  BY <1>6 DEF Build
<1>7. ASSUME NEW c \in Client, ClaimNew(c) PROVE TypeOK'
  <2>1. seen[c] \in Lane
    BY <1>7 DEF ClaimNew
  <2>2. claimed' \in SUBSET Lane
    BY <1>7, <2>1 DEF ClaimNew
  <2> QED BY <1>7, <2>1, <2>2 DEF ClaimNew
<1>8. ASSUME NEW c \in Client, SetQueue(c) PROVE TypeOK'
  <2>1. seen[c] \in Lane
    BY <1>8 DEF SetQueue
  <2>2. queues' \in SUBSET Lane
    BY <1>8, <2>1 DEF SetQueue
  <2> QED BY <1>8, <2>1, <2>2 DEF SetQueue
<1>9. ASSUME NEW c \in Client, StoreInitialized(c) PROVE TypeOK'
  BY <1>9 DEF StoreInitialized, Leased
<1>10. ASSUME NEW c \in Client, LockWait(c) PROVE TypeOK'
  BY <1>10 DEF LockWait
<1>11. ASSUME NEW c \in Client, Try3(c) PROVE TypeOK'
  <2> HIDE DEF TypeOK, Lane, NoLane, Goto
  <2>1. TryClaim(c, "asleep")
    BY <1>11 DEF Try3
  <2>2. TypeOK
    OBVIOUS
  <2>3. CASE pc' = [pc EXCEPT ![c] = "asleep"] /\ UNCHANGED <<claimed, slot, seen, expiries>>
    BY <1>11, <2>3 DEF Try3, TypeOK, Lane, NoLane
  <2>4. ASSUME NEW l \in Lane, l < seen[c], l \notin claimed,
               claimed' = claimed \cup {l}, slot' = [slot EXCEPT ![c] = l],
               pc' = [pc EXCEPT ![c] = "leased"],
               seen' = [seen EXCEPT ![c] = 0], expiries' = [expiries EXCEPT ![c] = 0]
        PROVE  TypeOK'
    BY <1>11, <2>4 DEF Try3, TypeOK, Lane, NoLane
  <2> QED BY <2>1, <2>2, <2>3, <2>4, TryClaims
<1>12. ASSUME NEW c \in Client, Woken(c) PROVE TypeOK'
  BY <1>12 DEF Woken
<1>13. ASSUME NEW c \in Client, Expire(c) PROVE TypeOK'
  BY <1>13 DEF Expire
<1>14. ASSUME NEW c \in Client, Drop(c) PROVE TypeOK'
  BY <1>14 DEF Drop
<1>15. ASSUME NEW c \in Client, NotifyOne(c) PROVE TypeOK'
  BY <1>15 DEF NotifyOne
<1>16. ASSUME PoisonStore PROVE TypeOK'
  BY <1>16 DEF PoisonStore
<1>17. ASSUME PoisonNotify PROVE TypeOK'
  BY <1>17 DEF PoisonNotify
<1>18. CASE Finished \/ UNCHANGED vars
  BY <1>18 DEF Finished, vars
<1> QED BY <1>1, <1>2, <1>3, <1>4, <1>5, <1>6, <1>7, <1>8, <1>9, <1>10, <1>11, <1>12, <1>13, <1>14, <1>15, <1>16, <1>17, <1>18 DEF Next, AcquireStep, ReleaseStep

\* Every step leaves the creator's view of the pool to the creator.
LEMMA PoolStepCreating == PoolInv /\ [Next]_vars => Creating'
<1> SUFFICES ASSUME PoolInv, [Next]_vars PROVE Creating'
  OBVIOUS
<1> USE PoolAssumption DEF PoolInv, TypeOK, PC, Lane, NoLane, Goto, pool, locks, sleep, Creating, Sleepers
<1>1. ASSUME NEW c \in Client, Acquire(c) PROVE Creating'
  BY <1>1 DEF Acquire
<1>2. ASSUME NEW c \in Client, Top(c) PROVE Creating'
  BY <1>2 DEF Top
<1>3. ASSUME NEW c \in Client, Try1(c) PROVE Creating'
  <2> HIDE DEF TypeOK, Lane, NoLane, Goto
  <2>1. TryClaim(c, "create")
    BY <1>3 DEF Try1
  <2>2. TypeOK
    OBVIOUS
  <2>3. CASE pc' = [pc EXCEPT ![c] = "create"] /\ UNCHANGED <<claimed, slot, seen, expiries>>
    BY <1>3, <2>3 DEF Try1, TypeOK, Lane, NoLane
  <2>4. ASSUME NEW l \in Lane, l < seen[c], l \notin claimed,
               claimed' = claimed \cup {l}, slot' = [slot EXCEPT ![c] = l],
               pc' = [pc EXCEPT ![c] = "leased"],
               seen' = [seen EXCEPT ![c] = 0], expiries' = [expiries EXCEPT ![c] = 0]
        PROVE  Creating'
    BY <1>3, <2>4 DEF Try1, TypeOK, Lane, NoLane
  <2> QED BY <2>1, <2>2, <2>3, <2>4, TryClaims
<1>4. ASSUME NEW c \in Client, Create(c) PROVE Creating'
  BY <1>4 DEF Create
<1>5. ASSUME NEW c \in Client, Try2(c) PROVE Creating'
  <2> HIDE DEF TypeOK, Lane, NoLane, Goto
  <2>1. TryClaim(c, IF seen[c] < Capacity THEN "build" ELSE "park")
    BY <1>5 DEF Try2
  <2>2. TypeOK
    OBVIOUS
  <2>3. CASE pc' = [pc EXCEPT ![c] = IF seen[c] < Capacity THEN "build" ELSE "park"] /\ UNCHANGED <<claimed, slot, seen, expiries>>
    BY <1>5, <2>3 DEF Try2, TypeOK, Lane, NoLane
  <2>4. ASSUME NEW l \in Lane, l < seen[c], l \notin claimed,
               claimed' = claimed \cup {l}, slot' = [slot EXCEPT ![c] = l],
               pc' = [pc EXCEPT ![c] = "leased"],
               seen' = [seen EXCEPT ![c] = 0], expiries' = [expiries EXCEPT ![c] = 0]
        PROVE  Creating'
    BY <1>5, <2>4 DEF Try2, TypeOK, Lane, NoLane
  <2> QED BY <2>1, <2>2, <2>3, <2>4, TryClaims
<1>6. ASSUME NEW c \in Client, Build(c) PROVE Creating'
  BY <1>6 DEF Build
<1>7. ASSUME NEW c \in Client, ClaimNew(c) PROVE Creating'
  BY <1>7 DEF ClaimNew
<1>8. ASSUME NEW c \in Client, SetQueue(c) PROVE Creating'
  BY <1>8 DEF SetQueue
<1>9. ASSUME NEW c \in Client, StoreInitialized(c) PROVE Creating'
  BY <1>9 DEF StoreInitialized, Leased
<1>10. ASSUME NEW c \in Client, LockWait(c) PROVE Creating'
  BY <1>10 DEF LockWait
<1>11. ASSUME NEW c \in Client, Try3(c) PROVE Creating'
  <2> HIDE DEF TypeOK, Lane, NoLane, Goto
  <2>1. TryClaim(c, "asleep")
    BY <1>11 DEF Try3
  <2>2. TypeOK
    OBVIOUS
  <2>3. CASE pc' = [pc EXCEPT ![c] = "asleep"] /\ UNCHANGED <<claimed, slot, seen, expiries>>
    BY <1>11, <2>3 DEF Try3, TypeOK, Lane, NoLane
  <2>4. ASSUME NEW l \in Lane, l < seen[c], l \notin claimed,
               claimed' = claimed \cup {l}, slot' = [slot EXCEPT ![c] = l],
               pc' = [pc EXCEPT ![c] = "leased"],
               seen' = [seen EXCEPT ![c] = 0], expiries' = [expiries EXCEPT ![c] = 0]
        PROVE  Creating'
    BY <1>11, <2>4 DEF Try3, TypeOK, Lane, NoLane
  <2> QED BY <2>1, <2>2, <2>3, <2>4, TryClaims
<1>12. ASSUME NEW c \in Client, Woken(c) PROVE Creating'
  BY <1>12 DEF Woken
<1>13. ASSUME NEW c \in Client, Expire(c) PROVE Creating'
  BY <1>13 DEF Expire
<1>14. ASSUME NEW c \in Client, Drop(c) PROVE Creating'
  BY <1>14 DEF Drop
<1>15. ASSUME NEW c \in Client, NotifyOne(c) PROVE Creating'
  BY <1>15 DEF NotifyOne
<1>16. ASSUME PoisonStore PROVE Creating'
  BY <1>16 DEF PoisonStore
<1>17. ASSUME PoisonNotify PROVE Creating'
  BY <1>17 DEF PoisonNotify
<1>18. CASE Finished \/ UNCHANGED vars
  BY <1>18 DEF Finished, vars
<1> QED BY <1>1, <1>2, <1>3, <1>4, <1>5, <1>6, <1>7, <1>8, <1>9, <1>10, <1>11, <1>12, <1>13, <1>14, <1>15, <1>16, <1>17, <1>18 DEF Next, AcquireStep, ReleaseStep

\* Every step publishes a lane only once its queue is in place.
LEMMA PoolStepCovered == PoolInv /\ [Next]_vars => Covered'
<1> SUFFICES ASSUME PoolInv, [Next]_vars PROVE Covered'
  OBVIOUS
<1> USE PoolAssumption DEF PoolInv, TypeOK, PC, Lane, NoLane, Goto, pool, locks, sleep, Covered, Creating
<1>1. ASSUME NEW c \in Client, Acquire(c) PROVE Covered'
  BY <1>1 DEF Acquire
<1>2. ASSUME NEW c \in Client, Top(c) PROVE Covered'
  BY <1>2 DEF Top
<1>3. ASSUME NEW c \in Client, Try1(c) PROVE Covered'
  <2> HIDE DEF TypeOK, Lane, NoLane, Goto
  <2>1. TryClaim(c, "create")
    BY <1>3 DEF Try1
  <2>2. TypeOK
    OBVIOUS
  <2>3. CASE pc' = [pc EXCEPT ![c] = "create"] /\ UNCHANGED <<claimed, slot, seen, expiries>>
    BY <1>3, <2>3 DEF Try1, TypeOK, Lane, NoLane
  <2>4. ASSUME NEW l \in Lane, l < seen[c], l \notin claimed,
               claimed' = claimed \cup {l}, slot' = [slot EXCEPT ![c] = l],
               pc' = [pc EXCEPT ![c] = "leased"],
               seen' = [seen EXCEPT ![c] = 0], expiries' = [expiries EXCEPT ![c] = 0]
        PROVE  Covered'
    BY <1>3, <2>4 DEF Try1, TypeOK, Lane, NoLane
  <2> QED BY <2>1, <2>2, <2>3, <2>4, TryClaims
<1>4. ASSUME NEW c \in Client, Create(c) PROVE Covered'
  BY <1>4 DEF Create
<1>5. ASSUME NEW c \in Client, Try2(c) PROVE Covered'
  <2> HIDE DEF TypeOK, Lane, NoLane, Goto
  <2>1. TryClaim(c, IF seen[c] < Capacity THEN "build" ELSE "park")
    BY <1>5 DEF Try2
  <2>2. TypeOK
    OBVIOUS
  <2>3. CASE pc' = [pc EXCEPT ![c] = IF seen[c] < Capacity THEN "build" ELSE "park"] /\ UNCHANGED <<claimed, slot, seen, expiries>>
    BY <1>5, <2>3 DEF Try2, TypeOK, Lane, NoLane
  <2>4. ASSUME NEW l \in Lane, l < seen[c], l \notin claimed,
               claimed' = claimed \cup {l}, slot' = [slot EXCEPT ![c] = l],
               pc' = [pc EXCEPT ![c] = "leased"],
               seen' = [seen EXCEPT ![c] = 0], expiries' = [expiries EXCEPT ![c] = 0]
        PROVE  Covered'
    BY <1>5, <2>4 DEF Try2, TypeOK, Lane, NoLane
  <2> QED BY <2>1, <2>2, <2>3, <2>4, TryClaims
<1>6. ASSUME NEW c \in Client, Build(c) PROVE Covered'
  BY <1>6 DEF Build
<1>7. ASSUME NEW c \in Client, ClaimNew(c) PROVE Covered'
  BY <1>7 DEF ClaimNew
<1>8. ASSUME NEW c \in Client, SetQueue(c) PROVE Covered'
  BY <1>8 DEF SetQueue
<1>9. ASSUME NEW c \in Client, StoreInitialized(c) PROVE Covered'
  BY <1>9 DEF StoreInitialized, Leased
<1>10. ASSUME NEW c \in Client, LockWait(c) PROVE Covered'
  BY <1>10 DEF LockWait
<1>11. ASSUME NEW c \in Client, Try3(c) PROVE Covered'
  <2> HIDE DEF TypeOK, Lane, NoLane, Goto
  <2>1. TryClaim(c, "asleep")
    BY <1>11 DEF Try3
  <2>2. TypeOK
    OBVIOUS
  <2>3. CASE pc' = [pc EXCEPT ![c] = "asleep"] /\ UNCHANGED <<claimed, slot, seen, expiries>>
    BY <1>11, <2>3 DEF Try3, TypeOK, Lane, NoLane
  <2>4. ASSUME NEW l \in Lane, l < seen[c], l \notin claimed,
               claimed' = claimed \cup {l}, slot' = [slot EXCEPT ![c] = l],
               pc' = [pc EXCEPT ![c] = "leased"],
               seen' = [seen EXCEPT ![c] = 0], expiries' = [expiries EXCEPT ![c] = 0]
        PROVE  Covered'
    BY <1>11, <2>4 DEF Try3, TypeOK, Lane, NoLane
  <2> QED BY <2>1, <2>2, <2>3, <2>4, TryClaims
<1>12. ASSUME NEW c \in Client, Woken(c) PROVE Covered'
  BY <1>12 DEF Woken
<1>13. ASSUME NEW c \in Client, Expire(c) PROVE Covered'
  BY <1>13 DEF Expire
<1>14. ASSUME NEW c \in Client, Drop(c) PROVE Covered'
  BY <1>14 DEF Drop
<1>15. ASSUME NEW c \in Client, NotifyOne(c) PROVE Covered'
  BY <1>15 DEF NotifyOne
<1>16. ASSUME PoisonStore PROVE Covered'
  BY <1>16 DEF PoisonStore
<1>17. ASSUME PoisonNotify PROVE Covered'
  BY <1>17 DEF PoisonNotify
<1>18. CASE Finished \/ UNCHANGED vars
  BY <1>18 DEF Finished, vars
<1> QED BY <1>1, <1>2, <1>3, <1>4, <1>5, <1>6, <1>7, <1>8, <1>9, <1>10, <1>11, <1>12, <1>13, <1>14, <1>15, <1>16, <1>17, <1>18 DEF Next, AcquireStep, ReleaseStep

\* Every step keeps one client per claim bit.
LEMMA PoolStepClaims == PoolInv /\ [Next]_vars => Claims'
<1> SUFFICES ASSUME PoolInv, [Next]_vars PROVE Claims'
  OBVIOUS
<1> USE PoolAssumption DEF PoolInv, TypeOK, PC, Lane, NoLane, Goto, pool, locks, sleep, Claims, Creating, Covered, Sleepers
<1>1. ASSUME NEW c \in Client, Acquire(c) PROVE Claims'
  BY <1>1 DEF Acquire
<1>2. ASSUME NEW c \in Client, Top(c) PROVE Claims'
  BY <1>2 DEF Top
<1>3. ASSUME NEW c \in Client, Try1(c) PROVE Claims'
  <2> HIDE DEF TypeOK, Lane, NoLane, Goto
  <2>1. TryClaim(c, "create")
    BY <1>3 DEF Try1
  <2>2. TypeOK
    OBVIOUS
  <2>3. CASE pc' = [pc EXCEPT ![c] = "create"] /\ UNCHANGED <<claimed, slot, seen, expiries>>
    BY <1>3, <2>3 DEF Try1, TypeOK, Lane, NoLane
  <2>4. ASSUME NEW l \in Lane, l < seen[c], l \notin claimed,
               claimed' = claimed \cup {l}, slot' = [slot EXCEPT ![c] = l],
               pc' = [pc EXCEPT ![c] = "leased"],
               seen' = [seen EXCEPT ![c] = 0], expiries' = [expiries EXCEPT ![c] = 0]
        PROVE  Claims'
    BY <1>3, <2>4 DEF Try1, TypeOK, Lane, NoLane
  <2> QED BY <2>1, <2>2, <2>3, <2>4, TryClaims
<1>4. ASSUME NEW c \in Client, Create(c) PROVE Claims'
  BY <1>4 DEF Create
<1>5. ASSUME NEW c \in Client, Try2(c) PROVE Claims'
  <2> HIDE DEF TypeOK, Lane, NoLane, Goto
  <2>1. TryClaim(c, IF seen[c] < Capacity THEN "build" ELSE "park")
    BY <1>5 DEF Try2
  <2>2. TypeOK
    OBVIOUS
  <2>3. CASE pc' = [pc EXCEPT ![c] = IF seen[c] < Capacity THEN "build" ELSE "park"] /\ UNCHANGED <<claimed, slot, seen, expiries>>
    BY <1>5, <2>3 DEF Try2, TypeOK, Lane, NoLane
  <2>4. ASSUME NEW l \in Lane, l < seen[c], l \notin claimed,
               claimed' = claimed \cup {l}, slot' = [slot EXCEPT ![c] = l],
               pc' = [pc EXCEPT ![c] = "leased"],
               seen' = [seen EXCEPT ![c] = 0], expiries' = [expiries EXCEPT ![c] = 0]
        PROVE  Claims'
    BY <1>5, <2>4 DEF Try2, TypeOK, Lane, NoLane
  <2> QED BY <2>1, <2>2, <2>3, <2>4, TryClaims
<1>6. ASSUME NEW c \in Client, Build(c) PROVE Claims'
  BY <1>6 DEF Build
<1>7. ASSUME NEW c \in Client, ClaimNew(c) PROVE Claims'
  BY <1>7 DEF ClaimNew
<1>8. ASSUME NEW c \in Client, SetQueue(c) PROVE Claims'
  BY <1>8 DEF SetQueue
<1>9. ASSUME NEW c \in Client, StoreInitialized(c) PROVE Claims'
  BY <1>9 DEF StoreInitialized, Leased
<1>10. ASSUME NEW c \in Client, LockWait(c) PROVE Claims'
  BY <1>10 DEF LockWait
<1>11. ASSUME NEW c \in Client, Try3(c) PROVE Claims'
  <2> HIDE DEF TypeOK, Lane, NoLane, Goto
  <2>1. TryClaim(c, "asleep")
    BY <1>11 DEF Try3
  <2>2. TypeOK
    OBVIOUS
  <2>3. CASE pc' = [pc EXCEPT ![c] = "asleep"] /\ UNCHANGED <<claimed, slot, seen, expiries>>
    BY <1>11, <2>3 DEF Try3, TypeOK, Lane, NoLane
  <2>4. ASSUME NEW l \in Lane, l < seen[c], l \notin claimed,
               claimed' = claimed \cup {l}, slot' = [slot EXCEPT ![c] = l],
               pc' = [pc EXCEPT ![c] = "leased"],
               seen' = [seen EXCEPT ![c] = 0], expiries' = [expiries EXCEPT ![c] = 0]
        PROVE  Claims'
    BY <1>11, <2>4 DEF Try3, TypeOK, Lane, NoLane
  <2> QED BY <2>1, <2>2, <2>3, <2>4, TryClaims
<1>12. ASSUME NEW c \in Client, Woken(c) PROVE Claims'
  BY <1>12 DEF Woken
<1>13. ASSUME NEW c \in Client, Expire(c) PROVE Claims'
  BY <1>13 DEF Expire
<1>14. ASSUME NEW c \in Client, Drop(c) PROVE Claims'
  BY <1>14 DEF Drop
<1>15. ASSUME NEW c \in Client, NotifyOne(c) PROVE Claims'
  BY <1>15 DEF NotifyOne
<1>16. ASSUME PoisonStore PROVE Claims'
  BY <1>16 DEF PoisonStore
<1>17. ASSUME PoisonNotify PROVE Claims'
  BY <1>17 DEF PoisonNotify
<1>18. CASE Finished \/ UNCHANGED vars
  <2> HIDE DEF TypeOK, Creating, Covered, NoLane
  <2> QED BY <1>18 DEF Finished, vars
<1> QED BY <1>1, <1>2, <1>3, <1>4, <1>5, <1>6, <1>7, <1>8, <1>9, <1>10, <1>11, <1>12, <1>13, <1>14, <1>15, <1>16, <1>17, <1>18 DEF Next, AcquireStep, ReleaseStep

\* Every step keeps sleepers within reach of a notification.
LEMMA PoolStepSleepers == PoolInv /\ [Next]_vars => Sleepers'
<1> SUFFICES ASSUME PoolInv, [Next]_vars PROVE Sleepers'
  OBVIOUS
<1> USE PoolAssumption DEF PoolInv, TypeOK, PC, Lane, NoLane, Goto, pool, locks, sleep, Sleepers
<1>1. ASSUME NEW c \in Client, Acquire(c) PROVE Sleepers'
  BY <1>1 DEF Acquire
<1>2. ASSUME NEW c \in Client, Top(c) PROVE Sleepers'
  BY <1>2 DEF Top
<1>3. ASSUME NEW c \in Client, Try1(c) PROVE Sleepers'
  <2> HIDE DEF TypeOK, Lane, NoLane, Goto
  <2>1. TryClaim(c, "create")
    BY <1>3 DEF Try1
  <2>2. TypeOK
    OBVIOUS
  <2>3. CASE pc' = [pc EXCEPT ![c] = "create"] /\ UNCHANGED <<claimed, slot, seen, expiries>>
    BY <1>3, <2>3 DEF Try1, TypeOK, Lane, NoLane
  <2>4. ASSUME NEW l \in Lane, l < seen[c], l \notin claimed,
               claimed' = claimed \cup {l}, slot' = [slot EXCEPT ![c] = l],
               pc' = [pc EXCEPT ![c] = "leased"],
               seen' = [seen EXCEPT ![c] = 0], expiries' = [expiries EXCEPT ![c] = 0]
        PROVE  Sleepers'
    BY <1>3, <2>4 DEF Try1, TypeOK, Lane, NoLane
  <2> QED BY <2>1, <2>2, <2>3, <2>4, TryClaims
<1>4. ASSUME NEW c \in Client, Create(c) PROVE Sleepers'
  BY <1>4 DEF Create
<1>5. ASSUME NEW c \in Client, Try2(c) PROVE Sleepers'
  <2> HIDE DEF TypeOK, Lane, NoLane, Goto
  <2>1. TryClaim(c, IF seen[c] < Capacity THEN "build" ELSE "park")
    BY <1>5 DEF Try2
  <2>2. TypeOK
    OBVIOUS
  <2>3. CASE pc' = [pc EXCEPT ![c] = IF seen[c] < Capacity THEN "build" ELSE "park"] /\ UNCHANGED <<claimed, slot, seen, expiries>>
    BY <1>5, <2>3 DEF Try2, TypeOK, Lane, NoLane
  <2>4. ASSUME NEW l \in Lane, l < seen[c], l \notin claimed,
               claimed' = claimed \cup {l}, slot' = [slot EXCEPT ![c] = l],
               pc' = [pc EXCEPT ![c] = "leased"],
               seen' = [seen EXCEPT ![c] = 0], expiries' = [expiries EXCEPT ![c] = 0]
        PROVE  Sleepers'
    BY <1>5, <2>4 DEF Try2, TypeOK, Lane, NoLane
  <2> QED BY <2>1, <2>2, <2>3, <2>4, TryClaims
<1>6. ASSUME NEW c \in Client, Build(c) PROVE Sleepers'
  BY <1>6 DEF Build
<1>7. ASSUME NEW c \in Client, ClaimNew(c) PROVE Sleepers'
  BY <1>7 DEF ClaimNew
<1>8. ASSUME NEW c \in Client, SetQueue(c) PROVE Sleepers'
  BY <1>8 DEF SetQueue
<1>9. ASSUME NEW c \in Client, StoreInitialized(c) PROVE Sleepers'
  BY <1>9 DEF StoreInitialized, Leased
<1>10. ASSUME NEW c \in Client, LockWait(c) PROVE Sleepers'
  BY <1>10 DEF LockWait
<1>11. ASSUME NEW c \in Client, Try3(c) PROVE Sleepers'
  <2> HIDE DEF TypeOK, Lane, NoLane, Goto
  <2>1. TryClaim(c, "asleep")
    BY <1>11 DEF Try3
  <2>2. TypeOK
    OBVIOUS
  <2>3. CASE pc' = [pc EXCEPT ![c] = "asleep"] /\ UNCHANGED <<claimed, slot, seen, expiries>>
    BY <1>11, <2>3 DEF Try3, TypeOK, Lane, NoLane
  <2>4. ASSUME NEW l \in Lane, l < seen[c], l \notin claimed,
               claimed' = claimed \cup {l}, slot' = [slot EXCEPT ![c] = l],
               pc' = [pc EXCEPT ![c] = "leased"],
               seen' = [seen EXCEPT ![c] = 0], expiries' = [expiries EXCEPT ![c] = 0]
        PROVE  Sleepers'
    BY <1>11, <2>4 DEF Try3, TypeOK, Lane, NoLane
  <2> QED BY <2>1, <2>2, <2>3, <2>4, TryClaims
<1>12. ASSUME NEW c \in Client, Woken(c) PROVE Sleepers'
  BY <1>12 DEF Woken
<1>13. ASSUME NEW c \in Client, Expire(c) PROVE Sleepers'
  BY <1>13 DEF Expire
<1>14. ASSUME NEW c \in Client, Drop(c) PROVE Sleepers'
  BY <1>14 DEF Drop
<1>15. ASSUME NEW c \in Client, NotifyOne(c) PROVE Sleepers'
  BY <1>15 DEF NotifyOne
<1>16. ASSUME PoisonStore PROVE Sleepers'
  BY <1>16 DEF PoisonStore
<1>17. ASSUME PoisonNotify PROVE Sleepers'
  BY <1>17 DEF PoisonNotify
<1>18. CASE Finished \/ UNCHANGED vars
  BY <1>18 DEF Finished, vars
<1> QED BY <1>1, <1>2, <1>3, <1>4, <1>5, <1>6, <1>7, <1>8, <1>9, <1>10, <1>11, <1>12, <1>13, <1>14, <1>15, <1>16, <1>17, <1>18 DEF Next, AcquireStep, ReleaseStep

\* The invariant is inductive, part by part.
LEMMA PoolInvariance == Spec => []PoolInv
<1>1. PoolInv /\ [Next]_vars => PoolInv'
  BY PoolStepType, PoolStepCreating, PoolStepCovered, PoolStepClaims, PoolStepSleepers
     DEF PoolInv
<1> QED BY PoolInitInv, <1>1, PTL DEF Spec

\* The counters and indices of the pool stay in range: the lane an acquisition
\* builds exists, and no client counts more expiries than the limit.
THEOREM PoolTyped == Spec => []TypeOK
<1>1. PoolInv => TypeOK
  BY DEF PoolInv
<1> QED BY PoolInvariance, <1>1, PTL

\* For any number of clients and lanes, a leased lane is claimed, published and
\* has its queue, and a new lane is not claimed yet: neither `expect` of
\* QueuePool::acquire nor the assertions of LaneClaims can fail.
THEOREM PoolLeasesReady == Spec => []LeasedLanesReady
<1>1. PoolInv => LeasedLanesReady
  BY DEF PoolInv, TypeOK, Creating, Covered, Claims, LeasedLanesReady, Lane, NoLane
<1> QED BY PoolInvariance, <1>1, PTL

\* Once QueuePool::notify_poisoned has run, no client sleeps for a lane.
THEOREM PoolPoisonWakes == Spec => []NoSleeperAfterPoison
<1>1. PoolInv => NoSleeperAfterPoison
  BY DEF PoolInv, Sleepers, NoSleeperAfterPoison
<1> QED BY PoolInvariance, <1>1, PTL

\* The abstract holder of a lane is the client whose lease names it.
HolderFacts ==
    /\ Holder \in [Lane -> Client \cup {Nobody}]
    /\ \A l \in Lane, c \in Client : Holder[l] = c <=> slot[c] = l
    /\ \A l \in Lane : Holder[l] = Nobody <=> \A c \in Client : slot[c] # l

\* Leases are exclusive, so the holder is well defined.
LEMMA HolderIs == PoolInv => HolderFacts
<1> SUFFICES ASSUME PoolInv PROVE HolderFacts
  OBVIOUS
<1>1. \A l \in Lane : l # NoLane
  BY PoolAssumption DEF Lane, NoLane
<1>2. \A c, d \in Client : slot[c] \in Lane /\ slot[c] = slot[d] => c = d
  BY <1>1 DEF PoolInv, Claims
<1> QED BY <1>2, PoolAssumption DEF HolderFacts, Holder

\* Every step of the pool is a step of the abstract leases, or leaves them alone.
LEMMA PoolStepLease ==
    HolderFacts /\ HolderFacts' /\ PoolInv /\ [Next]_vars => [Abstract!LeaseNext]_Holder
<1> SUFFICES ASSUME HolderFacts, HolderFacts', PoolInv, [Next]_vars
             PROVE  [Abstract!LeaseNext]_Holder
  OBVIOUS
<1>0. \A l \in Lane : l # NoLane
  BY PoolAssumption DEF Lane, NoLane
<1>1. ASSUME UNCHANGED slot PROVE Holder' = Holder
  BY <1>1 DEF Holder
<1>2. ASSUME NEW c \in Client, NEW l \in Lane, slot[c] = NoLane, l \notin claimed,
             slot' = [slot EXCEPT ![c] = l]
      PROVE  Abstract!Lease(c, l)
  <2>1. Holder[l] = Nobody
    BY <1>0, <1>2 DEF HolderFacts, PoolInv, Claims
  <2>2. \A m \in Lane : Holder'[m] = IF m = l THEN c ELSE Holder[m]
    BY <1>0, <1>2, <2>1, PoolAssumption DEF HolderFacts, PoolInv, TypeOK
  <2>3. Holder' = [Holder EXCEPT ![l] = c]
    BY <2>2 DEF HolderFacts
  <2> QED BY <2>1, <2>3 DEF Abstract!Lease
<1>3. ASSUME NEW c \in Client, slot[c] \in Lane, slot' = [slot EXCEPT ![c] = NoLane]
      PROVE  Abstract!Release(c, slot[c])
  <2>1. Holder[slot[c]] = c
    BY <1>3 DEF HolderFacts
  <2>2. \A m \in Lane : Holder'[m] = IF m = slot[c] THEN Nobody ELSE Holder[m]
    BY <1>0, <1>3, <2>1, PoolAssumption DEF HolderFacts, PoolInv, TypeOK, Claims
  <2>3. Holder' = [Holder EXCEPT ![slot[c]] = Nobody]
    BY <2>2 DEF HolderFacts
  <2> QED BY <2>1, <2>3 DEF Abstract!Release
<1>4. ASSUME NEW c \in Client, NEW otherwise, TryClaim(c, otherwise),
             slot[c] = NoLane
      PROVE  Abstract!LeaseNext \/ Holder' = Holder
  BY <1>1, <1>2, <1>4, TryClaims DEF PoolInv, Abstract!LeaseNext
<1>5. ASSUME NEW c \in Client, Try1(c) \/ Try2(c) \/ Try3(c)
      PROVE  Abstract!LeaseNext \/ Holder' = Holder
  <2>1. slot[c] = NoLane
    BY <1>5 DEF Try1, Try2, Try3, PoolInv, Claims
  <2> QED BY <1>4, <1>5, <2>1 DEF Try1, Try2, Try3
<1>6. ASSUME NEW c \in Client, ClaimNew(c) PROVE Abstract!LeaseNext
  <2>1. slot[c] = NoLane /\ seen[c] \in Lane /\ seen[c] \notin claimed
    BY <1>6, PoolAssumption DEF ClaimNew, PoolInv, TypeOK, Claims, Creating, Lane, NoLane
  <2>2. Abstract!Lease(c, seen[c])
    BY <1>2, <1>6, <2>1 DEF ClaimNew
  <2> QED BY <2>1, <2>2 DEF Abstract!LeaseNext
<1>7. ASSUME NEW c \in Client, Drop(c) PROVE Abstract!LeaseNext
  <2>1. slot[c] \in Lane
    BY <1>7 DEF Drop, PoolInv, TypeOK, Claims
  <2>2. Abstract!Release(c, slot[c])
    BY <1>3, <1>7, <2>1 DEF Drop
  <2> QED BY <2>1, <2>2 DEF Abstract!LeaseNext
<1>8. ASSUME NEW c \in Client,
             \/ Acquire(c) \/ Top(c) \/ Create(c) \/ Build(c) \/ SetQueue(c)
             \/ StoreInitialized(c) \/ LockWait(c) \/ Woken(c) \/ Expire(c) \/ NotifyOne(c)
      PROVE  Holder' = Holder
  BY <1>1, <1>8 DEF Acquire, Top, Create, Build, SetQueue, StoreInitialized, LockWait, Woken,
                    Expire, NotifyOne
<1>9. CASE PoisonStore \/ PoisonNotify \/ Finished \/ UNCHANGED vars
  BY <1>1, <1>9 DEF PoisonStore, PoisonNotify, Finished, vars
<1> QED BY <1>5, <1>6, <1>7, <1>8, <1>9 DEF Next, AcquireStep, ReleaseStep

\* The pool of lock-free claims, lazy creation and condition variables is, for
\* its users, a set of exclusive leases: the abstract specification.
THEOREM PoolImplementsLeases == Spec => ImplementsLeases
<1>1. Init => Abstract!LeaseInit
  BY PoolAssumption DEF Init, Abstract!LeaseInit, Holder, Lane, NoLane
<1>2. PoolInv /\ PoolInv' /\ [Next]_vars => [Abstract!LeaseNext]_Holder
  <2>1. PoolInv' => HolderFacts'
    BY HolderIs, PTL
  <2> QED BY HolderIs, <2>1, PoolStepLease
<1> QED BY <1>1, <1>2, PoolInvariance, PTL DEF Spec, ImplementsLeases, Abstract!LeaseSpec

---------------------------------------------------------------------------------
(* Linked plans (HcqExecution).                                                *)
(*                                                                             *)
(* A lane's place, its timeline and what has run must agree for the order of   *)
(* the data to be inductive: what a lane has passed is what its timeline has   *)
(* reached and what has finished, and a cell holds what the last command that  *)
(* started to write it writes.                                                 *)

SubLane(i) == plan.subs[i].lane
CmdAt(i, m) == plan.subs[i].commands[m]
Places(i) == 1..Len(plan.subs[i].commands)

\* Submission i has stored its point.
Passed(i) == next[SubLane(i)] = 0 \/ i < next[SubLane(i)]

Started(c) == c \in running \/ c \in finished

\* A lane is at a submission of its own, at one of its commands or past them.
LanesTyped ==
    /\ next \in [Lanes -> Subs \cup {0}] /\ at \in [Lanes -> Nat] /\ timeline \in [Lanes -> Nat]
    /\ \A l \in Lanes : next[l] = 0 => at[l] = 0
    /\ \A l \in Lanes : next[l] # 0 => SubLane(next[l]) = l /\ at[l] <= Len(plan.subs[next[l]].commands) + 1
    /\ running \subseteq Cmds /\ finished \subseteq Cmds
    /\ storage = [x \in CellsOf(plan) |-> storage[x]]

\* What is finished is what the lanes have gone past, and only the command a
\* lane is at runs.
Progress ==
    /\ \A i \in Subs : \A m \in Places(i) :
        CmdAt(i, m) \in finished <=> (Passed(i) \/ (next[SubLane(i)] = i /\ m < at[SubLane(i)]))
    /\ \A i \in Subs : \A m \in Places(i) :
        CmdAt(i, m) \in running => next[SubLane(i)] = i /\ m = at[SubLane(i)]

\* A lane's timeline has reached exactly the points of what it has passed.
PointsStored == \A i \in Subs : timeline[SubLane(i)] >= plan.subs[i].point <=> Passed(i)

\* What has begun has waited.
Waited ==
    \A j \in Subs : Passed(j) \/ (next[SubLane(j)] = j /\ at[SubLane(j)] # 0) =>
        \A w \in plan.subs[j].waits : timeline[w.lane] >= w.point

\* A cell holds what the last command that started to write it writes.
LastWriter ==
    \A x \in CellsOf(plan) :
        \/ storage[x] = 0 /\ \A d \in Cmds : x \in CmdWrites(plan, d) => ~Started(d)
        \/ \E d \in Cmds : /\ Started(d) /\ x \in CmdWrites(plan, d)
                           /\ storage[x] = plan.cmds[d].op
                           /\ \A e \in Cmds : Started(e) /\ x \in CmdWrites(plan, e) => e <= d

LanesInv ==
    /\ Orderly(plan, Lanes)
    /\ LanesTyped /\ Progress /\ PointsStored /\ Waited /\ LastWriter
    /\ stale = {}

\* The order a plan's commands are submitted in, from what the plan promises.
LEMMA PlanShape ==
    ASSUME Orderly(plan, Lanes)
    PROVE  /\ Subs \subseteq Nat \ {0} /\ Cmds \subseteq Nat
           /\ \A i \in Subs : /\ SubLane(i) \in Lanes
                              /\ plan.subs[i].point \in Nat \ {0}
                              /\ Len(plan.subs[i].commands) \in Nat
                              /\ DOMAIN plan.subs[i].commands = Places(i)
                              /\ \A m \in Places(i) : CmdAt(i, m) \in Cmds
                              /\ \A w \in plan.subs[i].waits : w.lane \in Lanes /\ w.point \in Nat
           /\ \A c \in Cmds : \E i \in Subs : \E m \in Places(i) : CmdAt(i, m) = c
           /\ \A i, j \in Subs : \A m \in Places(i), n \in Places(j) : CmdAt(i, m) = CmdAt(j, n) => i = j /\ m = n
           /\ \A c \in Cmds : plan.cmds[c].op \in Nat \ {0}
<1>1. Wellformed(plan, Lanes)
  BY DEF Orderly
<1>2. \A i \in Subs : plan.subs[i].commands \in Seq(Cmds)
  BY <1>1 DEF Wellformed, Subs, Cmds
<1>3. \A i \in Subs : /\ Len(plan.subs[i].commands) \in Nat
                      /\ DOMAIN plan.subs[i].commands = Places(i)
                      /\ \A m \in Places(i) : CmdAt(i, m) \in Cmds
  BY <1>2 DEF Places, CmdAt
<1>4. \A c \in Cmds : \E i \in Subs : \E m \in Places(i) : CmdAt(i, m) = c
  BY <1>1, <1>3 DEF Wellformed, Placed, Subs, Cmds, CmdAt
<1>5. \A i, j \in Subs : \A m \in Places(i), n \in Places(j) : CmdAt(i, m) = CmdAt(j, n) => i = j /\ m = n
  BY <1>1, <1>3 DEF Wellformed, Subs, CmdAt
<1>6. \A c \in Cmds : plan.cmds[c].op \in Nat \ {0}
  BY <1>1 DEF Wellformed, Cmds
<1> QED BY <1>1, <1>3, <1>4, <1>5, <1>6 DEF Wellformed, Subs, Cmds, SubLane

\* After finds the lane's next submission.
LEMMA AfterIs ==
    ASSUME Orderly(plan, Lanes), NEW l, NEW i
    PROVE  /\ After(l, i) \in Subs \cup {0}
           /\ After(l, i) = 0 => ~\E j \in Subs : j > i /\ SubLane(j) = l
           /\ After(l, i) # 0 => /\ After(l, i) > i /\ SubLane(After(l, i)) = l
                                 /\ \A k \in Subs : k > i /\ SubLane(k) = l => After(l, i) <= k
<1> DEFINE S == {j \in Subs : j > i /\ SubLane(j) = l}
<1>1. Subs \subseteq Nat \ {0}
  BY PlanShape
<1>2. CASE S = {}
  <2>1. ~\E j \in Subs : j > i /\ plan.subs[j].lane = l
    BY <1>2 DEF SubLane
  <2>2. After(l, i) = 0
    BY <2>1 DEF After
  <2> QED BY <2>1, <2>2 DEF SubLane
<1>3. CASE S # {}
  <2>1. S \subseteq Nat
    BY <1>1
  <2>2. PICK j \in S : \A k \in S : ~(<<k, j>> \in OpToRel(<, Nat))
    <3> HIDE DEF S
    <3> QED BY <1>3, <2>1, NatLessThanWellFounded, WFMin
  <2>3. ASSUME NEW k \in S
        PROVE  j <= k
    <3>1. <<k, j>> \in Nat \X Nat
      BY <2>1
    <3>2. ~(k < j)
      BY <2>2, <3>1, Zenon DEF OpToRel
    <3> QED BY <3>1, <3>2
  <2>4. /\ j \in Subs /\ j > i /\ plan.subs[j].lane = l
        /\ \A k \in Subs : k > i /\ plan.subs[k].lane = l => j <= k
    BY <2>3 DEF SubLane
  <2>5. After(l, i) = CHOOSE q \in Subs : /\ q > i /\ plan.subs[q].lane = l
                                         /\ \A k \in Subs : k > i /\ plan.subs[k].lane = l => q <= k
    BY <2>4 DEF After
  <2>6. /\ After(l, i) \in Subs /\ After(l, i) > i /\ plan.subs[After(l, i)].lane = l
        /\ \A k \in Subs : k > i /\ plan.subs[k].lane = l => After(l, i) <= k
    BY <2>4, <2>5
  <2> QED BY <1>1, <2>6 DEF SubLane
<1> QED BY <1>2, <1>3

\* A command that has started, or that its lane is at, comes after every
\* earlier command it conflicts with has finished.
LEMMA EarlierFinished ==
    ASSUME LanesInv, NEW c \in Cmds, NEW d \in Cmds, c < d, Conflict(plan, c, d),
           NEW j \in Subs, NEW n \in Places(j), CmdAt(j, n) = d,
           Passed(j) \/ (next[SubLane(j)] = j /\ n <= at[SubLane(j)])
    PROVE  c \in finished
<1>1. Orderly(plan, Lanes) /\ LanesTyped /\ Progress /\ PointsStored /\ Waited
  BY DEF LanesInv
<1>2. PICK i \in Subs : \E m \in Places(i) : CmdAt(i, m) = c
  BY <1>1, PlanShape
<1>3. PICK m \in Places(i) : CmdAt(i, m) = c
  BY <1>2
<1>4. m \in Nat /\ n \in Nat /\ n >= 1 /\ i \in Nat /\ j \in Nat /\ i # 0 /\ j # 0
  BY <1>1, PlanShape DEF Places
<1>5. SubLane(i) \in Lanes /\ SubLane(j) \in Lanes
  BY <1>1, PlanShape
<1>6. at[SubLane(j)] \in Nat /\ next[SubLane(j)] \in Subs \cup {0} /\ next[SubLane(i)] \in Subs \cup {0}
  BY <1>1, <1>5 DEF LanesTyped
<1>7. next[SubLane(j)] \in Nat /\ next[SubLane(i)] \in Nat
  BY <1>1, <1>6, PlanShape
<1>8. Behind(plan, i, m, j, n)
  <2>1. ConflictsOrdered(plan)
    BY <1>1 DEF Orderly
  <2>2. i \in DOMAIN plan.subs /\ j \in DOMAIN plan.subs
    BY DEF Subs
  <2>3. m \in DOMAIN plan.subs[i].commands /\ n \in DOMAIN plan.subs[j].commands
    BY <1>1, PlanShape
  <2>4. c = plan.subs[i].commands[m] /\ d = plan.subs[j].commands[n]
    BY <1>3 DEF CmdAt
  <2> QED BY <2>1, <2>2, <2>3, <2>4 DEF ConflictsOrdered
<1>9. Passed(i) \/ (next[SubLane(i)] = i /\ m < at[SubLane(i)])
  <2>1. CASE i = j /\ m < n
    BY <2>1, <1>4, <1>6
  <2>2. CASE i < j /\ plan.subs[i].lane = plan.subs[j].lane
    BY <2>2, <1>4, <1>7 DEF Passed, SubLane
  <2>3. CASE \E w \in plan.subs[j].waits : w.lane = plan.subs[i].lane /\ w.point >= plan.subs[i].point
    <3>1. PICK w \in plan.subs[j].waits : w.lane = SubLane(i) /\ w.point >= plan.subs[i].point
      BY <2>3 DEF SubLane
    <3>2. Passed(j) \/ (next[SubLane(j)] = j /\ at[SubLane(j)] # 0)
      BY <1>4, <1>6
    <3>3. timeline[SubLane(i)] >= w.point
      BY <1>1, <3>1, <3>2 DEF Waited
    <3>4. w.point \in Nat /\ plan.subs[i].point \in Nat /\ timeline[SubLane(i)] \in Nat
      BY <1>1, <1>5, <3>1, PlanShape DEF LanesTyped
    <3>5. timeline[SubLane(i)] >= plan.subs[i].point
      BY <3>1, <3>3, <3>4
    <3> QED BY <1>1, <3>5 DEF PointsStored
  <2> QED BY <1>8, <2>1, <2>2, <2>3 DEF Behind
<1> QED BY <1>1, <1>3, <1>9 DEF Progress

\* The same for a command that has started.
LEMMA StartedAfter ==
    ASSUME LanesInv, NEW c \in Cmds, NEW d \in Cmds, c < d, Conflict(plan, c, d), Started(d)
    PROVE  c \in finished
<1>1. Orderly(plan, Lanes) /\ LanesTyped /\ Progress
  BY DEF LanesInv
<1>2. PICK j \in Subs : \E n \in Places(j) : CmdAt(j, n) = d
  BY <1>1, PlanShape
<1>3. PICK n \in Places(j) : CmdAt(j, n) = d
  BY <1>2
<1>4. SubLane(j) \in Lanes
  BY <1>1, PlanShape
<1>5. at[SubLane(j)] \in Nat /\ n \in Nat
  BY <1>1, <1>4 DEF LanesTyped, Places
<1>6. Passed(j) \/ (next[SubLane(j)] = j /\ n <= at[SubLane(j)])
  BY <1>1, <1>3, <1>5 DEF Started, Progress
<1> QED BY <1>3, <1>6, EarlierFinished

\* What runs is not finished.
LEMMA RunsUnfinished ==
    ASSUME LanesInv, NEW c \in running
    PROVE  c \in Cmds /\ c \notin finished
<1>1. Orderly(plan, Lanes) /\ LanesTyped /\ Progress
  BY DEF LanesInv
<1>2. c \in Cmds
  BY <1>1 DEF LanesTyped
<1>3. PICK j \in Subs : \E n \in Places(j) : CmdAt(j, n) = c
  BY <1>1, <1>2, PlanShape
<1>4. PICK n \in Places(j) : CmdAt(j, n) = c
  BY <1>3
<1>5. next[SubLane(j)] = j /\ n = at[SubLane(j)]
  BY <1>1, <1>4 DEF Progress
<1>6. j \in Nat /\ j # 0 /\ n \in Nat
  BY <1>1, PlanShape DEF Places
<1>7. ~Passed(j) /\ ~(n < at[SubLane(j)])
  BY <1>5, <1>6 DEF Passed
<1> QED BY <1>1, <1>2, <1>4, <1>7 DEF Progress

\* A command whose earlier writers have all started, and whose later ones have
\* not, finds what the program's order leaves in the cells it reads.
LEMMA FindsInOrder ==
    ASSUME LanesInv, NEW c \in Cmds, NEW x \in CmdReads(plan, c),
           \A d \in Cmds : d < c /\ x \in CmdWrites(plan, d) => Started(d),
           \A d \in Cmds : Started(d) /\ x \in CmdWrites(plan, d) => d < c
    PROVE  storage[x] = InOrder(c, x)
<1> DEFINE n == plan.cmds[c].op
<1>1. Orderly(plan, Lanes) /\ LastWriter
  BY DEF LanesInv
<1>2. FollowsProgram(plan)
  BY <1>1 DEF Orderly
<1>3. x \in CellsOf(plan)
  BY DEF CellsOf, CmdReads, StorageCells, Cmds
<1>4. \/ storage[x] = 0 /\ \A d \in Cmds : x \in CmdWrites(plan, d) => ~Started(d)
      \/ \E d \in Cmds : /\ Started(d) /\ x \in CmdWrites(plan, d) /\ storage[x] = plan.cmds[d].op
                         /\ \A e \in Cmds : Started(e) /\ x \in CmdWrites(plan, e) => e <= d
  BY <1>1, <1>3 DEF LastWriter
<1>5. InProgram(x) <=> NamedByOp(plan, x)
  BY DEF InProgram, NamedByOp
<1>6. \A d \in Cmds : d \in Nat /\ plan.cmds[d].op \in Nat \ {0}
  BY <1>1, PlanShape
<1>7. CASE ~InProgram(x)
  <2>1. /\ \E d \in Cmds : d < c /\ x \in CmdWrites(plan, d)
        /\ \A d \in Cmds : x \in CmdWrites(plan, d) => plan.cmds[d].op = n
    BY <1>2, <1>5, <1>7 DEF FollowsProgram, Cmds
  <2>2. storage[x] = n
    BY <1>4, <2>1
  <2> QED BY <1>7, <2>2 DEF InOrder
<1>8. CASE InProgram(x)
  <2>1. \A d \in Cmds : x \in CmdWrites(plan, d) => x \in OpWrites(plan, plan.cmds[d].op)
    BY <1>2, <1>5, <1>8 DEF FollowsProgram, Cmds
  <2>2. \A d \in Cmds : x \in CmdWrites(plan, d) => plan.cmds[d].op \in Writers(x)
    BY <1>1, <2>1 DEF Writers, OpWrites, Orderly, Wellformed, Cmds
  <2>3. \A o \in Writers(x) : \E d \in Cmds : plan.cmds[d].op = o /\ x \in CmdWrites(plan, d)
    BY <1>2 DEF FollowsProgram, Writers, OpWrites, Cmds
  <2>4. \A d \in Cmds : d < c /\ plan.cmds[d].op = n => x \notin CmdWrites(plan, d)
    BY <1>2, <1>5, <1>8 DEF FollowsProgram, Cmds
  <2>5. \A d, e \in Cmds : d < e => plan.cmds[d].op <= plan.cmds[e].op
    BY <1>2 DEF FollowsProgram, Cmds
  <2>6. \A d \in Cmds : Started(d) /\ x \in CmdWrites(plan, d) => plan.cmds[d].op \in Before(n, x)
    <3> SUFFICES ASSUME NEW d \in Cmds, Started(d), x \in CmdWrites(plan, d)
                 PROVE  plan.cmds[d].op \in Before(n, x)
      OBVIOUS
    <3>1. d < c
      OBVIOUS
    <3>2. plan.cmds[d].op # n
      BY <2>4, <3>1
    <3>3. plan.cmds[d].op <= n
      BY <2>5, <3>1
    <3>4. plan.cmds[d].op < n
      BY <1>6, <3>2, <3>3
    <3> QED BY <2>2, <3>4 DEF Before
  <2>7. ASSUME NEW o \in Before(n, x)
        PROVE  \E d \in Cmds : plan.cmds[d].op = o /\ x \in CmdWrites(plan, d) /\ Started(d)
    <3>1. o \in Writers(x) /\ o < n
      BY DEF Before
    <3>2. PICK d \in Cmds : plan.cmds[d].op = o /\ x \in CmdWrites(plan, d)
      BY <2>3, <3>1
    <3>3. ~(c <= d)
      <4>1. c < d => n <= o
        BY <2>5, <3>2
      <4>2. c # d
        BY <1>6, <3>1, <3>2
      <4> QED BY <1>6, <3>1, <3>2, <4>1, <4>2
    <3>4. d < c
      BY <1>6, <3>3
    <3> QED BY <3>2, <3>4
  <2>8. CASE Before(n, x) = {}
    <3>1. storage[x] = 0
      BY <1>4, <2>6, <2>8
    <3> QED BY <1>8, <2>8, <3>1 DEF InOrder
  <2>9. CASE Before(n, x) # {}
    <3>1. PICK d \in Cmds : /\ Started(d) /\ x \in CmdWrites(plan, d) /\ storage[x] = plan.cmds[d].op
                            /\ \A e \in Cmds : Started(e) /\ x \in CmdWrites(plan, e) => e <= d
      BY <1>4, <2>7, <2>9
    <3>2. storage[x] \in Before(n, x)
      BY <2>6, <3>1
    <3>3. \A o \in Before(n, x) : o <= storage[x]
      <4> SUFFICES ASSUME NEW o \in Before(n, x) PROVE o <= storage[x]
        OBVIOUS
      <4>1. PICK e \in Cmds : plan.cmds[e].op = o /\ x \in CmdWrites(plan, e) /\ Started(e)
        BY <2>7
      <4>2. e <= d
        BY <3>1, <4>1
      <4>3. e < d \/ e = d
        BY <1>6, <4>2
      <4> QED BY <1>6, <2>5, <3>1, <4>1, <4>3
    <3>4. \A o \in Before(n, x) : o \in Nat
      BY <1>6, <2>7
    <3>5. \A m \in Before(n, x) : (\A o \in Before(n, x) : o <= m) => m = storage[x]
      BY <3>2, <3>3, <3>4
    <3>6. (CHOOSE m \in Before(n, x) : \A o \in Before(n, x) : o <= m) = storage[x]
      <4> HIDE DEF n
      <4> QED BY <3>2, <3>3, <3>5
    <3> QED BY <1>8, <2>9, <3>6 DEF InOrder
  <2> QED BY <2>8, <2>9
<1> QED BY <1>7, <1>8

\* A lane that waits for its submission's points.
LEMMA BeginKeeps ==
    ASSUME LanesInv, NEW l \in Lanes, Begin(l)
    PROVE  LanesInv'
<1> DEFINE j == next[l]
<1>1. Orderly(plan, Lanes) /\ LanesTyped /\ Progress /\ PointsStored /\ Waited /\ LastWriter /\ stale = {}
  BY DEF LanesInv
<1>2. /\ next[l] # 0 /\ at[l] = 0 /\ WaitsReached(l) /\ at' = [at EXCEPT ![l] = 1]
      /\ plan' = plan /\ next' = next /\ running' = running /\ finished' = finished
      /\ timeline' = timeline /\ storage' = storage /\ stale' = stale
  BY DEF Begin
<1>3. at \in [Lanes -> Nat] /\ next \in [Lanes -> Subs \cup {0}] /\ j \in Subs /\ SubLane(j) = l
  BY <1>1, <1>2 DEF LanesTyped
<1>4. at' \in [Lanes -> Nat] /\ at'[l] = 1 /\ \A k \in Lanes : k # l => at'[k] = at[k]
  BY <1>2, <1>3
<1>5. \A i \in Subs : SubLane(i) \in Lanes /\ Len(plan.subs[i].commands) \in Nat
  BY <1>1, PlanShape
<1>6. Orderly(plan, Lanes)'
  BY <1>1, <1>2
<1>7. LanesTyped'
  <2>1. \A k \in Lanes : next[k] = 0 => at'[k] = 0
    BY <1>1, <1>2, <1>4 DEF LanesTyped
  <2>2. \A k \in Lanes : next[k] # 0 => SubLane(next[k]) = k /\ at'[k] <= Len(plan.subs[next[k]].commands) + 1
    <3> SUFFICES ASSUME NEW k \in Lanes, next[k] # 0
                 PROVE  SubLane(next[k]) = k /\ at'[k] <= Len(plan.subs[next[k]].commands) + 1
      OBVIOUS
    <3>1. CASE k = l
      BY <1>3, <1>4, <1>5, <3>1
    <3>2. CASE k # l
      BY <1>1, <1>4, <3>2 DEF LanesTyped
    <3> QED BY <3>1, <3>2
  <2> QED BY <1>1, <1>2, <1>4, <2>1, <2>2 DEF LanesTyped, SubLane, Subs, Cmds
<1>8. Progress'
  <2>1. \A i \in Subs : \A m \in Places(i) : m \in Nat /\ m >= 1
    BY DEF Places
  <2>2. \A i \in Subs : \A m \in Places(i) :
            next[SubLane(i)] = i => (m < at'[SubLane(i)] <=> m < at[SubLane(i)])
    BY <1>2, <1>4, <1>5, <2>1
  <2>3. \A i \in Subs : \A m \in Places(i) : CmdAt(i, m) \in running => next[SubLane(i)] = i /\ m = at'[SubLane(i)]
    <3> SUFFICES ASSUME NEW i \in Subs, NEW m \in Places(i), CmdAt(i, m) \in running
                 PROVE  next[SubLane(i)] = i /\ m = at'[SubLane(i)]
      OBVIOUS
    <3>1. next[SubLane(i)] = i /\ m = at[SubLane(i)]
      BY <1>1 DEF Progress
    <3>2. SubLane(i) # l
      BY <1>2, <2>1, <3>1
    <3> QED BY <1>4, <1>5, <3>1, <3>2
  <2>4. \A i \in Subs : \A m \in Places(i) :
            CmdAt(i, m) \in finished <=> (Passed(i) \/ (next[SubLane(i)] = i /\ m < at'[SubLane(i)]))
    BY <1>1, <2>2 DEF Progress
  <2> QED BY <1>2, <2>3, <2>4 DEF Progress, Passed, SubLane, Subs, CmdAt, Places
<1>9. PointsStored'
  BY <1>1, <1>2 DEF PointsStored, Passed, SubLane, Subs
<1>10. Waited'
  <2>1. ASSUME NEW i \in Subs, Passed(i) \/ (next[SubLane(i)] = i /\ at'[SubLane(i)] # 0),
               NEW w \in plan.subs[i].waits
        PROVE  timeline[w.lane] >= w.point
    <3>1. CASE next[SubLane(i)] = i /\ SubLane(i) = l
      BY <1>2, <3>1 DEF WaitsReached, Sub
    <3>2. CASE ~(next[SubLane(i)] = i /\ SubLane(i) = l)
      BY <1>1, <1>4, <1>5, <2>1, <3>2 DEF Waited
    <3> QED BY <3>1, <3>2
  <2> QED BY <1>2, <2>1 DEF Waited, Passed, SubLane, Subs
<1>11. LastWriter'
  BY <1>1, <1>2 DEF LastWriter, Started, Cmds
<1> QED BY <1>1, <1>2, <1>6, <1>7, <1>8, <1>9, <1>10, <1>11 DEF LanesInv

\* What a lane at a command of its submission can rely on.
LEMMA AtCommand ==
    ASSUME LanesInv, NEW l \in Lanes, next[l] # 0, at[l] \in 1..Len(Sub(l).commands)
    PROVE  /\ next[l] \in Subs /\ SubLane(next[l]) = l /\ at[l] \in Places(next[l])
           /\ CmdAt(next[l], at[l]) = Cmd(l) /\ Cmd(l) \in Cmds /\ Cmd(l) \notin finished
           /\ ~Passed(next[l])
<1>1. Orderly(plan, Lanes) /\ LanesTyped /\ Progress
  BY DEF LanesInv
<1>2. next[l] \in Subs /\ SubLane(next[l]) = l /\ at[l] \in Nat
  BY <1>1 DEF LanesTyped
<1>3. at[l] \in Places(next[l]) /\ CmdAt(next[l], at[l]) = Cmd(l)
  BY DEF Places, CmdAt, Cmd, Sub
<1>4. Cmd(l) \in Cmds
  BY <1>1, <1>2, <1>3, PlanShape
<1>5. ~Passed(next[l])
  <2>1. next[l] \in Nat
    BY <1>1, <1>2, PlanShape
  <2> QED BY <1>2, <2>1 DEF Passed
<1>6. Cmd(l) \notin finished
  BY <1>1, <1>2, <1>3, <1>5 DEF Progress
<1> QED BY <1>2, <1>3, <1>4, <1>5, <1>6

\* The writers of a cell that command c of lane l reads or writes: the earlier
\* ones have finished and the later ones have not started.
LEMMA WritersAround ==
    ASSUME LanesInv, NEW l \in Lanes, next[l] # 0, at[l] \in 1..Len(Sub(l).commands),
           NEW x \in CmdReads(plan, Cmd(l)) \cup CmdWrites(plan, Cmd(l))
    PROVE  /\ \A d \in Cmds : d < Cmd(l) /\ x \in CmdWrites(plan, d) => d \in finished
           /\ \A d \in Cmds : Started(d) /\ d # Cmd(l) /\ x \in CmdWrites(plan, d) => d < Cmd(l)
<1> DEFINE c == Cmd(l)
<1>1. Orderly(plan, Lanes) /\ LanesTyped
  BY DEF LanesInv
<1>2. /\ next[l] \in Subs /\ SubLane(next[l]) = l /\ at[l] \in Places(next[l])
      /\ CmdAt(next[l], at[l]) = c /\ c \in Cmds /\ c \notin finished
  BY AtCommand
<1>3. ASSUME NEW d \in Cmds, d < c, x \in CmdWrites(plan, d)
      PROVE  d \in finished
  <2>1. Conflict(plan, d, c)
    BY <1>3 DEF Conflict
  <2>2. next[SubLane(next[l])] = next[l] /\ at[l] <= at[SubLane(next[l])]
    BY <1>2 DEF Places
  <2> QED BY <1>2, <1>3, <2>1, <2>2, EarlierFinished
<1>4. ASSUME NEW d \in Cmds, Started(d), d # c, x \in CmdWrites(plan, d)
      PROVE  d < c
  <2>1. Conflict(plan, c, d)
    BY <1>4 DEF Conflict
  <2>2. ~(c < d)
    BY <1>2, <1>4, <2>1, StartedAfter
  <2>3. c \in Nat /\ d \in Nat
    BY <1>1, <1>2, PlanShape
  <2> QED BY <1>4, <2>2, <2>3
<1> QED BY <1>3, <1>4

\* A command that starts reads what the program's order leaves.
LEMMA StartKeeps ==
    ASSUME LanesInv, NEW l \in Lanes, Start(l)
    PROVE  LanesInv'
<1> DEFINE c == Cmd(l)
<1>1. Orderly(plan, Lanes) /\ LanesTyped /\ Progress /\ PointsStored /\ Waited /\ LastWriter /\ stale = {}
  BY DEF LanesInv
<1>2. /\ next[l] # 0 /\ at[l] \in 1..Len(Sub(l).commands) /\ c \notin running /\ running' = running \cup {c}
      /\ stale' = IF ReadsStale(c, StorageCells(plan.cmds[c].reads)) THEN stale \cup {c} ELSE stale
      /\ storage' = [x \in DOMAIN storage |-> IF x \in StorageCells(plan.cmds[c].writes) THEN plan.cmds[c].op ELSE storage[x]]
      /\ plan' = plan /\ next' = next /\ at' = at /\ finished' = finished /\ timeline' = timeline
  BY DEF Start
<1>3. /\ next[l] \in Subs /\ SubLane(next[l]) = l /\ at[l] \in Places(next[l])
      /\ CmdAt(next[l], at[l]) = c /\ c \in Cmds /\ c \notin finished
  BY <1>2, AtCommand
<1>4. ~Started(c)
  BY <1>2, <1>3 DEF Started
<1>5. DOMAIN storage = CellsOf(plan)
  BY <1>1 DEF LanesTyped
<1>6. storage' = [x \in CellsOf(plan) |-> IF x \in CmdWrites(plan, c) THEN plan.cmds[c].op ELSE storage[x]]
  BY <1>2, <1>5 DEF CmdWrites
<1>7. \A d : d \in running' \/ d \in finished' <=> Started(d) \/ d = c
  BY <1>2 DEF Started
<1>8. stale' = {}
  <2>1. ASSUME NEW x \in CmdReads(plan, c)
        PROVE  storage[x] = InOrder(c, x)
    <3>1. /\ \A d \in Cmds : d < c /\ x \in CmdWrites(plan, d) => d \in finished
          /\ \A d \in Cmds : Started(d) /\ d # c /\ x \in CmdWrites(plan, d) => d < c
      BY <1>2, WritersAround
    <3>2. \A d \in Cmds : d < c /\ x \in CmdWrites(plan, d) => Started(d)
      BY <3>1 DEF Started
    <3>3. \A d \in Cmds : Started(d) /\ x \in CmdWrites(plan, d) => d < c
      BY <1>4, <3>1
    <3> QED BY <1>3, <3>2, <3>3, FindsInOrder
  <2>2. ~ReadsStale(c, StorageCells(plan.cmds[c].reads))
    BY <2>1 DEF ReadsStale, CmdReads
  <2> QED BY <1>1, <1>2, <2>2
<1>9. Orderly(plan, Lanes)'
  BY <1>1, <1>2
<1>10. LanesTyped'
  <2>1. storage' = [x \in CellsOf(plan) |-> storage'[x]]
    BY <1>6
  <2>2. running' \subseteq Cmds
    BY <1>1, <1>2, <1>3 DEF LanesTyped
  <2> QED BY <1>1, <1>2, <2>1, <2>2 DEF LanesTyped, SubLane, Subs, Cmds
<1>11. Progress'
  <2>1. ASSUME NEW i \in Subs, NEW m \in Places(i), CmdAt(i, m) \in running \/ CmdAt(i, m) = c
        PROVE  next[SubLane(i)] = i /\ m = at[SubLane(i)]
    <3>1. CASE CmdAt(i, m) \in running
      BY <1>1, <3>1 DEF Progress
    <3>2. CASE CmdAt(i, m) = c
      <4>1. i = next[l] /\ m = at[l]
        BY <1>1, <1>3, <3>2, PlanShape
      <4> QED BY <1>3, <4>1
    <3> QED BY <2>1, <3>1, <3>2
  <2>2. \A i \in Subs : \A m \in Places(i) :
            CmdAt(i, m) \in finished <=> (Passed(i) \/ (next[SubLane(i)] = i /\ m < at[SubLane(i)]))
    BY <1>1 DEF Progress
  <2> QED BY <1>2, <2>1, <2>2 DEF Progress, Passed, SubLane, Subs, CmdAt, Places
<1>12. PointsStored'
  BY <1>1, <1>2 DEF PointsStored, Passed, SubLane, Subs
<1>13. Waited'
  BY <1>1, <1>2 DEF Waited, Passed, SubLane, Subs
<1>14. LastWriter'
  <2>1. ASSUME NEW x \in CellsOf(plan)
        PROVE  \/ storage'[x] = 0 /\ \A d \in Cmds : x \in CmdWrites(plan, d) => ~(Started(d) \/ d = c)
               \/ \E d \in Cmds : /\ Started(d) \/ d = c
                                  /\ x \in CmdWrites(plan, d) /\ storage'[x] = plan.cmds[d].op
                                  /\ \A e \in Cmds : (Started(e) \/ e = c) /\ x \in CmdWrites(plan, e) => e <= d
    <3>1. CASE x \in CmdWrites(plan, c)
      <4>1. storage'[x] = plan.cmds[c].op
        BY <1>6, <2>1, <3>1
      <4>2. \A e \in Cmds : Started(e) /\ e # c /\ x \in CmdWrites(plan, e) => e < c
        BY <1>2, <3>1, WritersAround
      <4>3. \A e \in Cmds : e \in Nat
        BY <1>1, PlanShape
      <4>4. \A e \in Cmds : (Started(e) \/ e = c) /\ x \in CmdWrites(plan, e) => e <= c
        BY <1>3, <4>2, <4>3
      <4> QED BY <1>3, <3>1, <4>1, <4>4
    <3>2. CASE x \notin CmdWrites(plan, c)
      <4>1. storage'[x] = storage[x]
        BY <1>6, <2>1, <3>2
      <4>2. \/ storage[x] = 0 /\ \A d \in Cmds : x \in CmdWrites(plan, d) => ~Started(d)
            \/ \E d \in Cmds : /\ Started(d) /\ x \in CmdWrites(plan, d) /\ storage[x] = plan.cmds[d].op
                               /\ \A e \in Cmds : Started(e) /\ x \in CmdWrites(plan, e) => e <= d
        BY <1>1, <2>1 DEF LastWriter
      <4> QED BY <3>2, <4>1, <4>2
    <3> QED BY <3>1, <3>2
  <2>2. CellsOf(plan)' = CellsOf(plan) /\ Cmds' = Cmds /\ \A d : CmdWrites(plan, d)' = CmdWrites(plan, d)
    BY <1>2 DEF Cmds
  <2> QED BY <1>2, <1>7, <2>1, <2>2 DEF LastWriter, Started
<1> QED BY <1>8, <1>9, <1>10, <1>11, <1>12, <1>13, <1>14 DEF LanesInv

\* A command that finishes has read what the program's order leaves.
LEMMA FinishKeeps ==
    ASSUME LanesInv, NEW l \in Lanes, Finish(l)
    PROVE  LanesInv'
<1> DEFINE c == Cmd(l)
<1>1. Orderly(plan, Lanes) /\ LanesTyped /\ Progress /\ PointsStored /\ Waited /\ LastWriter /\ stale = {}
  BY DEF LanesInv
<1>2. /\ next[l] # 0 /\ at[l] \in 1..Len(Sub(l).commands) /\ c \in running
      /\ running' = running \ {c} /\ finished' = finished \cup {c} /\ at' = [at EXCEPT ![l] = @ + 1]
      /\ stale' = IF ReadsStale(c, StorageCells(plan.cmds[c].reads) \ StorageCells(plan.cmds[c].writes))
                  THEN stale \cup {c} ELSE stale
      /\ storage' = [x \in DOMAIN storage |-> IF x \in StorageCells(plan.cmds[c].writes) THEN plan.cmds[c].op ELSE storage[x]]
      /\ plan' = plan /\ next' = next /\ timeline' = timeline
  BY DEF Finish
<1>3. /\ next[l] \in Subs /\ SubLane(next[l]) = l /\ at[l] \in Places(next[l])
      /\ CmdAt(next[l], at[l]) = c /\ c \in Cmds /\ c \notin finished /\ ~Passed(next[l])
  BY <1>2, AtCommand
<1>4. \A i \in Subs : SubLane(i) \in Lanes /\ Len(plan.subs[i].commands) \in Nat
  BY <1>1, PlanShape
<1>5. /\ at[l] \in Nat /\ at' \in [Lanes -> Nat] /\ at'[l] = at[l] + 1
      /\ \A k \in Lanes : k # l => at'[k] = at[k]
  BY <1>1, <1>2 DEF LanesTyped
<1>6. storage' = [x \in CellsOf(plan) |-> IF x \in CmdWrites(plan, c) THEN plan.cmds[c].op ELSE storage[x]]
  <2>1. DOMAIN storage = CellsOf(plan)
    BY <1>1 DEF LanesTyped
  <2> QED BY <1>2, <2>1 DEF CmdWrites
<1>7. \A d : d \in running' \/ d \in finished' <=> Started(d)
  BY <1>2 DEF Started
<1>8. stale' = {}
  <2>1. ASSUME NEW x \in CmdReads(plan, c), x \notin CmdWrites(plan, c)
        PROVE  storage[x] = InOrder(c, x)
    <3>1. /\ \A d \in Cmds : d < c /\ x \in CmdWrites(plan, d) => d \in finished
          /\ \A d \in Cmds : Started(d) /\ d # c /\ x \in CmdWrites(plan, d) => d < c
      BY <1>2, WritersAround
    <3>2. \A d \in Cmds : d < c /\ x \in CmdWrites(plan, d) => Started(d)
      BY <3>1 DEF Started
    <3>3. \A d \in Cmds : Started(d) /\ x \in CmdWrites(plan, d) => d < c
      BY <2>1, <3>1
    <3> QED BY <1>3, <3>2, <3>3, FindsInOrder
  <2>2. ~ReadsStale(c, StorageCells(plan.cmds[c].reads) \ StorageCells(plan.cmds[c].writes))
    BY <2>1 DEF ReadsStale, CmdReads, CmdWrites
  <2> QED BY <1>1, <1>2, <2>2
<1>9. Orderly(plan, Lanes)'
  BY <1>1, <1>2
<1>10. LanesTyped'
  <2>1. storage' = [x \in CellsOf(plan) |-> storage'[x]]
    BY <1>6
  <2>2. running' \subseteq Cmds /\ finished' \subseteq Cmds
    BY <1>1, <1>2, <1>3 DEF LanesTyped
  <2>3. \A k \in Lanes : next[k] = 0 => at'[k] = 0
    BY <1>1, <1>2, <1>5 DEF LanesTyped
  <2>4. \A k \in Lanes : next[k] # 0 => SubLane(next[k]) = k /\ at'[k] <= Len(plan.subs[next[k]].commands) + 1
    <3> SUFFICES ASSUME NEW k \in Lanes, next[k] # 0
                 PROVE  SubLane(next[k]) = k /\ at'[k] <= Len(plan.subs[next[k]].commands) + 1
      OBVIOUS
    <3>1. CASE k = l
      <4>1. at[l] <= Len(plan.subs[next[l]].commands)
        BY <1>2, <1>3, <1>4 DEF Sub
      <4> QED BY <1>3, <1>4, <1>5, <3>1, <4>1
    <3>2. CASE k # l
      BY <1>1, <1>5, <3>2 DEF LanesTyped
    <3> QED BY <3>1, <3>2
  <2> QED BY <1>1, <1>2, <1>5, <2>1, <2>2, <2>3, <2>4 DEF LanesTyped, SubLane, Subs, Cmds
<1>11. Progress'
  <2>1. \A i \in Subs : \A m \in Places(i) : m \in Nat /\ m >= 1
    BY DEF Places
  <2>2. \A i \in Subs : \A m \in Places(i) : CmdAt(i, m) = c <=> (i = next[l] /\ m = at[l])
    BY <1>1, <1>3, PlanShape
  <2>3. ASSUME NEW i \in Subs, NEW m \in Places(i), CmdAt(i, m) \in running, CmdAt(i, m) # c
        PROVE  next[SubLane(i)] = i /\ m = at'[SubLane(i)]
    <3>1. next[SubLane(i)] = i /\ m = at[SubLane(i)]
      BY <1>1, <2>3 DEF Progress
    <3>2. SubLane(i) # l
      BY <2>2, <2>3, <3>1
    <3> QED BY <1>4, <1>5, <3>1, <3>2
  <2>4. ASSUME NEW i \in Subs, NEW m \in Places(i)
        PROVE  (CmdAt(i, m) \in finished \/ CmdAt(i, m) = c)
                    <=> (Passed(i) \/ (next[SubLane(i)] = i /\ m < at'[SubLane(i)]))
    <3>1. CmdAt(i, m) \in finished <=> (Passed(i) \/ (next[SubLane(i)] = i /\ m < at[SubLane(i)]))
      BY <1>1 DEF Progress
    <3>2. CASE i = next[l]
      <4>1. SubLane(i) = l /\ ~Passed(i) /\ m \in Nat
        BY <1>3, <2>1, <3>2
      <4>2. m < at'[l] <=> (m < at[l] \/ m = at[l])
        BY <1>5, <4>1
      <4> QED BY <2>2, <3>1, <3>2, <4>1, <4>2
    <3>3. CASE i # next[l]
      <4>1. CmdAt(i, m) # c
        BY <2>2, <3>3
      <4>2. next[SubLane(i)] = i => SubLane(i) # l
        BY <3>3
      <4>3. next[SubLane(i)] = i => at'[SubLane(i)] = at[SubLane(i)]
        BY <1>4, <1>5, <4>2
      <4> QED BY <3>1, <4>1, <4>3
    <3> QED BY <3>2, <3>3
  <2>5. \A i \in Subs : \A m \in Places(i) :
            CmdAt(i, m) \in finished' <=> (Passed(i) \/ (next[SubLane(i)] = i /\ m < at'[SubLane(i)]))
    BY <1>2, <2>4
  <2>6. \A i \in Subs : \A m \in Places(i) : CmdAt(i, m) \in running' => next[SubLane(i)] = i /\ m = at'[SubLane(i)]
    BY <1>2, <2>3
  <2> QED BY <1>2, <2>5, <2>6 DEF Progress, Passed, SubLane, Subs, CmdAt, Places
<1>12. PointsStored'
  BY <1>1, <1>2 DEF PointsStored, Passed, SubLane, Subs
<1>13. Waited'
  <2>1. \A i \in Subs : next[SubLane(i)] = i /\ at'[SubLane(i)] # 0 => next[SubLane(i)] = i /\ at[SubLane(i)] # 0
    <3>1. at[l] # 0
      BY <1>3 DEF Places
    <3> QED BY <1>4, <1>5, <3>1
  <2>2. \A i \in Subs : Passed(i) \/ (next[SubLane(i)] = i /\ at'[SubLane(i)] # 0) =>
            \A w \in plan.subs[i].waits : timeline[w.lane] >= w.point
    BY <1>1, <2>1 DEF Waited
  <2> QED BY <1>2, <2>2 DEF Waited, Passed, SubLane, Subs
<1>14. LastWriter'
  <2>1. ASSUME NEW x \in CellsOf(plan)
        PROVE  \/ storage'[x] = 0 /\ \A d \in Cmds : x \in CmdWrites(plan, d) => ~Started(d)
               \/ \E d \in Cmds : /\ Started(d) /\ x \in CmdWrites(plan, d) /\ storage'[x] = plan.cmds[d].op
                                  /\ \A e \in Cmds : Started(e) /\ x \in CmdWrites(plan, e) => e <= d
    <3>1. CASE x \in CmdWrites(plan, c)
      <4>1. storage'[x] = plan.cmds[c].op
        BY <1>6, <2>1, <3>1
      <4>2. \A e \in Cmds : Started(e) /\ e # c /\ x \in CmdWrites(plan, e) => e < c
        BY <1>2, <3>1, WritersAround
      <4>3. \A e \in Cmds : e \in Nat
        BY <1>1, PlanShape
      <4>4. \A e \in Cmds : Started(e) /\ x \in CmdWrites(plan, e) => e <= c
        BY <1>3, <4>2, <4>3
      <4>5. Started(c)
        BY <1>2 DEF Started
      <4> QED BY <1>3, <3>1, <4>1, <4>4, <4>5
    <3>2. CASE x \notin CmdWrites(plan, c)
      <4>1. storage'[x] = storage[x]
        BY <1>6, <2>1, <3>2
      <4> QED BY <1>1, <2>1, <4>1 DEF LastWriter
    <3> QED BY <3>1, <3>2
  <2>2. CellsOf(plan)' = CellsOf(plan) /\ Cmds' = Cmds /\ \A d : CmdWrites(plan, d)' = CmdWrites(plan, d)
    BY <1>2 DEF Cmds
  <2> QED BY <1>2, <1>7, <2>1, <2>2 DEF LastWriter, Started
<1> QED BY <1>8, <1>9, <1>10, <1>11, <1>12, <1>13, <1>14 DEF LanesInv

\* A submission that stores its point has passed, and no other has with it.
LEMMA StoreKeeps ==
    ASSUME LanesInv, NEW l \in Lanes, StorePoint(l)
    PROVE  LanesInv'
<1> DEFINE j == next[l]
           a == After(l, next[l])
<1>1. Orderly(plan, Lanes) /\ LanesTyped /\ Progress /\ PointsStored /\ Waited /\ LastWriter /\ stale = {}
  BY DEF LanesInv
<1>2. /\ j # 0 /\ at[l] = Len(plan.subs[j].commands) + 1
      /\ timeline' = [timeline EXCEPT ![l] = plan.subs[j].point]
      /\ next' = [next EXCEPT ![l] = a] /\ at' = [at EXCEPT ![l] = 0]
      /\ plan' = plan /\ running' = running /\ finished' = finished /\ storage' = storage /\ stale' = stale
  BY <1>1 DEF StorePoint, Sub, LanesTyped
<1>3. j \in Subs /\ SubLane(j) = l
  BY <1>1, <1>2 DEF LanesTyped
<1>4. /\ Subs \subseteq Nat \ {0}
      /\ \A i \in Subs : SubLane(i) \in Lanes /\ Len(plan.subs[i].commands) \in Nat /\ plan.subs[i].point \in Nat \ {0}
      /\ \A i \in Subs : \A w \in plan.subs[i].waits : w.lane \in Lanes /\ w.point \in Nat
  BY <1>1, PlanShape
<1>5. /\ a \in Subs \cup {0}
      /\ a = 0 => ~\E k \in Subs : k > j /\ SubLane(k) = l
      /\ a # 0 => a > j /\ SubLane(a) = l /\ \A k \in Subs : k > j /\ SubLane(k) = l => a <= k
  BY <1>1, AfterIs
<1>6. /\ next' \in [Lanes -> Subs \cup {0}] /\ next'[l] = a /\ \A k \in Lanes : k # l => next'[k] = next[k]
      /\ at' \in [Lanes -> Nat] /\ at'[l] = 0 /\ \A k \in Lanes : k # l => at'[k] = at[k]
      /\ timeline' \in [Lanes -> Nat] /\ timeline'[l] = plan.subs[j].point
      /\ \A k \in Lanes : k # l => timeline'[k] = timeline[k]
  <2>1. next \in [Lanes -> Subs \cup {0}] /\ at \in [Lanes -> Nat] /\ timeline \in [Lanes -> Nat]
    BY <1>1 DEF LanesTyped
  <2> HIDE DEF j, a
  <2> QED BY <1>2, <1>3, <1>4, <1>5, <2>1
<1> DEFINE Past(i) == next'[SubLane(i)] = 0 \/ i < next'[SubLane(i)]
<1>7. \A i \in Subs : SubLane(i) = l => (Passed(i) <=> i < j) /\ (Past(i) <=> i <= j)
  <2> SUFFICES ASSUME NEW i \in Subs, SubLane(i) = l
               PROVE  (Passed(i) <=> i < j) /\ (Past(i) <=> i <= j)
    OBVIOUS
  <2>1. i \in Nat /\ j \in Nat /\ a \in Nat
    <3>1. i \in Nat /\ j \in Nat
      BY <1>3, <1>4
    <3>2. a = 0 \/ a \in Subs
      BY <1>5
    <3> HIDE DEF a
    <3>3. CASE a = 0
      BY <3>1, <3>3
    <3>4. CASE a \in Subs
      BY <1>4, <3>1, <3>4
    <3> QED BY <3>2, <3>3, <3>4
  <2>2. Passed(i) <=> i < j
    BY <1>2 DEF Passed
  <2>3. Past(i) <=> (a = 0 \/ i < a)
    BY <1>6
  <2>4. CASE a = 0
    BY <1>5, <2>1, <2>2, <2>3, <2>4
  <2>5. CASE a # 0
    <3>1. a > j /\ (i > j => a <= i)
      BY <1>5, <2>5
    <3> QED BY <2>1, <2>2, <2>3, <2>5, <3>1
  <2> QED BY <2>4, <2>5
<1>8. \A i \in Subs : SubLane(i) # l => (Passed(i) <=> Past(i))
  BY <1>4, <1>6 DEF Passed
<1>9. Orderly(plan, Lanes)'
  BY <1>1, <1>2
<1>10. LanesTyped'
  <2>1. \A k \in Lanes : next'[k] = 0 => at'[k] = 0
    BY <1>1, <1>6 DEF LanesTyped
  <2>2. \A k \in Lanes : next'[k] # 0 => SubLane(next'[k]) = k /\ at'[k] <= Len(plan.subs[next'[k]].commands) + 1
    <3> SUFFICES ASSUME NEW k \in Lanes, next'[k] # 0
                 PROVE  SubLane(next'[k]) = k /\ at'[k] <= Len(plan.subs[next'[k]].commands) + 1
      OBVIOUS
    <3>1. CASE k = l
      <4>1. next'[k] = a /\ a # 0 /\ a \in Subs /\ SubLane(a) = l /\ at'[k] = 0
        BY <1>5, <1>6, <3>1
      <4>2. Len(plan.subs[a].commands) \in Nat
        BY <1>4, <4>1
      <4> HIDE DEF a
      <4> QED BY <3>1, <4>1, <4>2
    <3>2. CASE k # l
      BY <1>1, <1>6, <3>2 DEF LanesTyped
    <3> QED BY <3>1, <3>2
  <2>3. /\ running \subseteq Cmds /\ finished \subseteq Cmds
        /\ storage = [x \in CellsOf(plan) |-> storage[x]]
    BY <1>1 DEF LanesTyped
  <2> QED BY <1>2, <1>6, <2>1, <2>2, <2>3 DEF LanesTyped, SubLane, Subs, Cmds
<1>11. Progress'
  <2>1. \A i \in Subs : \A m \in Places(i) : m \in Nat /\ m >= 1 /\ m <= Len(plan.subs[i].commands)
    BY <1>4 DEF Places
  <2>2. ASSUME NEW i \in Subs, NEW m \in Places(i), CmdAt(i, m) \in running
        PROVE  next'[SubLane(i)] = i /\ m = at'[SubLane(i)]
    <3>1. next[SubLane(i)] = i /\ m = at[SubLane(i)]
      BY <1>1, <2>2 DEF Progress
    <3>2. SubLane(i) # l
      BY <1>2, <1>4, <2>1, <3>1
    <3> QED BY <1>4, <1>6, <3>1, <3>2
  <2>3. ASSUME NEW i \in Subs, NEW m \in Places(i)
        PROVE  CmdAt(i, m) \in finished <=> (Past(i) \/ (next'[SubLane(i)] = i /\ m < at'[SubLane(i)]))
    <3>1. CmdAt(i, m) \in finished <=> (Passed(i) \/ (next[SubLane(i)] = i /\ m < at[SubLane(i)]))
      BY <1>1 DEF Progress
    <3>2. CASE SubLane(i) = l
      <4>1. m < at[l] <=> m <= Len(plan.subs[j].commands)
        <5>1. /\ at[l] = Len(plan.subs[j].commands) + 1
              /\ m \in Nat /\ Len(plan.subs[j].commands) \in Nat
          BY <1>2, <1>3, <1>4, <2>1
        <5>2. \A x, y \in Nat : x < y + 1 <=> x <= y
          OBVIOUS
        <5> HIDE DEF j
        <5> QED BY <5>1, <5>2, Zenon
      <4>2. (i = j) => m < at[l]
        <5>1. m <= Len(plan.subs[i].commands)
          BY <2>1
        <5> HIDE DEF j
        <5> QED BY <4>1, <5>1
      <4>3. ~(m < at'[l])
        BY <1>6, <2>1
      <4>4. i \in Nat /\ j \in Nat
        BY <1>3, <1>4
      <4>5. (Passed(i) \/ i = j) <=> Past(i)
        BY <1>7, <3>2, <4>4
      <4> HIDE DEF Past
      <4> QED BY <3>1, <3>2, <4>2, <4>3, <4>5
    <3>3. CASE SubLane(i) # l
      BY <1>4, <1>6, <1>8, <3>1, <3>3
    <3> QED BY <3>2, <3>3
  <2> QED BY <1>2, <2>2, <2>3 DEF Progress, Passed, SubLane, Subs, CmdAt, Places
<1>12. PointsStored'
  <2>1. ASSUME NEW i \in Subs
        PROVE  timeline'[SubLane(i)] >= plan.subs[i].point <=> Past(i)
    <3>1. CASE SubLane(i) = l
      <4>1. i \in Nat /\ j \in Nat /\ plan.subs[i].point \in Nat /\ plan.subs[j].point \in Nat
        BY <1>3, <1>4
      <4>2. i < j => plan.subs[i].point < plan.subs[j].point
        BY <1>1, <1>3, <3>1 DEF Orderly, PointsGrow, SubLane, Subs
      <4>3. j < i => plan.subs[j].point < plan.subs[i].point
        BY <1>1, <1>3, <3>1 DEF Orderly, PointsGrow, SubLane, Subs
      <4>4. plan.subs[j].point >= plan.subs[i].point <=> i <= j
        BY <4>1, <4>2, <4>3
      <4>5. Past(i) <=> i <= j
        BY <1>7, <3>1
      <4> HIDE DEF Past
      <4> QED BY <1>6, <3>1, <4>4, <4>5
    <3>2. CASE SubLane(i) # l
      BY <1>1, <1>4, <1>6, <1>8, <3>2 DEF PointsStored
    <3> QED BY <3>1, <3>2
  <2> QED BY <1>2, <2>1 DEF PointsStored, Passed, SubLane, Subs
<1>13. Waited'
  <2>1. timeline[l] <= timeline'[l]
    <3>1. ~Passed(j)
      <4>1. j \in Nat
        BY <1>3, <1>4
      <4> QED BY <1>3, <1>7, <4>1
    <3>2. ~(timeline[l] >= plan.subs[j].point)
      BY <1>1, <1>3, <3>1 DEF PointsStored
    <3>3. timeline[l] \in Nat /\ plan.subs[j].point \in Nat
      BY <1>1, <1>3, <1>4 DEF LanesTyped
    <3>4. timeline'[l] = plan.subs[j].point
      BY <1>6
    <3> HIDE DEF j
    <3> QED BY <3>2, <3>3, <3>4
  <2>2. \A k \in Lanes : timeline[k] \in Nat /\ timeline'[k] \in Nat /\ timeline[k] <= timeline'[k]
    <3>1. \A k \in Lanes : timeline[k] \in Nat /\ timeline'[k] \in Nat
      BY <1>1, <1>6 DEF LanesTyped
    <3>2. \A k \in Lanes : k = l \/ timeline'[k] = timeline[k]
      BY <1>6
    <3> QED BY <2>1, <3>1, <3>2
  <2>3. ASSUME NEW i \in Subs, Past(i) \/ (next'[SubLane(i)] = i /\ at'[SubLane(i)] # 0),
               NEW w \in plan.subs[i].waits
        PROVE  timeline'[w.lane] >= w.point
    <3>1. Passed(i) \/ (next[SubLane(i)] = i /\ at[SubLane(i)] # 0)
      <4>1. CASE SubLane(i) = l
        <5>1. Past(i)
          BY <1>6, <2>3, <4>1
        <5>2. i \in Nat /\ j \in Nat
          BY <1>3, <1>4
        <5>3. Passed(i) \/ i = j
          BY <1>7, <4>1, <5>1, <5>2
        <5>4. at[l] # 0
          <6>1. at[l] = Len(plan.subs[j].commands) + 1 /\ Len(plan.subs[j].commands) \in Nat
            BY <1>2, <1>3, <1>4
          <6>2. \A y \in Nat : y + 1 # 0
            OBVIOUS
          <6> HIDE DEF j
          <6> QED BY <6>1, <6>2, Zenon
        <5> QED BY <4>1, <5>3, <5>4
      <4>2. CASE SubLane(i) # l
        BY <1>4, <1>6, <1>8, <2>3, <4>2
      <4> QED BY <4>1, <4>2
    <3>2. timeline[w.lane] >= w.point
      BY <1>1, <3>1 DEF Waited
    <3>3. w.lane \in Lanes /\ w.point \in Nat
      BY <1>4
    <3> QED BY <2>2, <3>2, <3>3
  <2> QED BY <1>2, <2>3 DEF Waited, Passed, SubLane, Subs
<1>14. LastWriter'
  BY <1>1, <1>2 DEF LastWriter, Started, Cmds
<1> QED BY <1>1, <1>2, <1>9, <1>10, <1>11, <1>12, <1>13, <1>14 DEF LanesInv

\* Nothing has started, and every lane waits before its first submission.
LEMMA LanesStart ==
    ASSUME \A p \in Plans : Orderly(p, Lanes), PlanInit
    PROVE  LanesInv
<1>1. /\ plan \in Plans /\ next = [l \in Lanes |-> After(l, 0)] /\ at = [l \in Lanes |-> 0]
      /\ running = {} /\ finished = {} /\ timeline = [l \in Lanes |-> 0]
      /\ storage = [x \in CellsOf(plan) |-> 0] /\ stale = {}
  BY DEF PlanInit
<1>2. Orderly(plan, Lanes)
  BY <1>1
<1>3. \A l \in Lanes : /\ next[l] = After(l, 0) /\ at[l] = 0 /\ timeline[l] = 0
  BY <1>1
<1>4. \A l \in Lanes : /\ next[l] \in Subs \cup {0}
                       /\ next[l] = 0 => ~\E j \in Subs : j > 0 /\ SubLane(j) = l
                       /\ next[l] # 0 => SubLane(next[l]) = l /\ \A k \in Subs : k > 0 /\ SubLane(k) = l => next[l] <= k
  BY <1>2, <1>3, AfterIs
<1>5. /\ Subs \subseteq Nat \ {0}
      /\ \A i \in Subs : SubLane(i) \in Lanes /\ Len(plan.subs[i].commands) \in Nat /\ plan.subs[i].point \in Nat \ {0}
  BY <1>2, PlanShape
<1>6. LanesTyped
  <2>1. next \in [Lanes -> Subs \cup {0}] /\ at \in [Lanes -> Nat] /\ timeline \in [Lanes -> Nat]
    BY <1>1, <1>3, <1>4
  <2>2. \A l \in Lanes : next[l] # 0 => SubLane(next[l]) = l /\ at[l] <= Len(plan.subs[next[l]].commands) + 1
    BY <1>3, <1>4, <1>5
  <2>3. storage = [x \in CellsOf(plan) |-> storage[x]]
    BY <1>1
  <2> QED BY <1>1, <1>3, <2>1, <2>2, <2>3 DEF LanesTyped
<1>7. \A i \in Subs : ~Passed(i)
  <2> SUFFICES ASSUME NEW i \in Subs PROVE ~Passed(i)
    OBVIOUS
  <2>1. i > 0 /\ i \in Nat /\ SubLane(i) \in Lanes
    BY <1>5
  <2>2. next[SubLane(i)] # 0 /\ next[SubLane(i)] <= i
    BY <1>4, <2>1
  <2>3. next[SubLane(i)] \in Nat
    BY <1>4, <1>5, <2>1
  <2> QED BY <2>1, <2>2, <2>3 DEF Passed
<1>8. Progress
  <2>1. \A i \in Subs : \A m \in Places(i) : ~(m < at[SubLane(i)])
    BY <1>3, <1>5 DEF Places
  <2> QED BY <1>1, <1>7, <2>1 DEF Progress
<1>9. PointsStored
  <2>1. \A i \in Subs : ~(timeline[SubLane(i)] >= plan.subs[i].point)
    BY <1>3, <1>5
  <2> QED BY <1>7, <2>1 DEF PointsStored
<1>10. Waited
  BY <1>3, <1>5, <1>7 DEF Waited
<1>11. LastWriter
  BY <1>1 DEF LastWriter, Started
<1> QED BY <1>1, <1>2, <1>6, <1>8, <1>9, <1>10, <1>11 DEF LanesInv

\* Every step of a lane keeps the invariant.
LEMMA LanesKeep ==
    ASSUME LanesInv, [PlanNext]_planVars
    PROVE  LanesInv'
<1>1. CASE \E l \in Lanes : LaneStep(l)
  BY <1>1, BeginKeeps, StartKeeps, FinishKeeps, StoreKeeps DEF LaneStep
<1>2. CASE UNCHANGED planVars
  <2>1. /\ plan' = plan /\ next' = next /\ at' = at /\ running' = running /\ finished' = finished
        /\ timeline' = timeline /\ storage' = storage /\ stale' = stale
    BY <1>2 DEF planVars
  <2>2. Orderly(plan, Lanes)'
    BY <2>1 DEF LanesInv
  <2> QED BY <2>1, <2>2 DEF LanesInv, LanesTyped, Progress, PointsStored, Waited, LastWriter, Passed, Started,
                           SubLane, CmdAt, Places, Subs, Cmds
<1> QED BY <1>1, <1>2 DEF PlanNext

\* A complete plan leaves the memory of its operations in program order.
LEMMA CompleteMemory ==
    ASSUME LanesInv, Complete, NEW x \in DOMAIN storage, InProgram(x), Writers(x) # {}
    PROVE  storage[x] \in Writers(x) /\ \A n \in Writers(x) : n <= storage[x]
<1>1. Orderly(plan, Lanes) /\ LanesTyped /\ Progress /\ LastWriter
  BY DEF LanesInv
<1>2. FollowsProgram(plan)
  BY <1>1 DEF Orderly
<1>3. \A c \in Cmds : Started(c)
  <2> SUFFICES ASSUME NEW c \in Cmds PROVE c \in finished
    BY DEF Started
  <2>1. PICK i \in Subs : \E m \in Places(i) : CmdAt(i, m) = c
    BY <1>1, PlanShape
  <2>2. Passed(i)
    BY <1>1, PlanShape DEF Complete, Passed
  <2> QED BY <1>1, <2>1, <2>2 DEF Progress
<1>4. \A n \in Writers(x) : \E c \in Cmds : plan.cmds[c].op = n /\ x \in CmdWrites(plan, c)
  BY <1>2 DEF FollowsProgram, Writers, OpWrites, Cmds
<1>5. x \in CellsOf(plan)
  BY <1>1 DEF LanesTyped
<1>6. PICK d \in Cmds : /\ x \in CmdWrites(plan, d) /\ storage[x] = plan.cmds[d].op
                        /\ \A e \in Cmds : x \in CmdWrites(plan, e) => e <= d
  BY <1>1, <1>3, <1>4, <1>5 DEF LastWriter
<1>7. plan.cmds[d].op \in Writers(x)
  <2>1. x \in OpWrites(plan, plan.cmds[d].op)
    BY <1>2, <1>6 DEF FollowsProgram, InProgram, NamedByOp, Cmds
  <2> QED BY <1>1, <2>1 DEF Writers, OpWrites, Orderly, Wellformed, Cmds
<1>8. ASSUME NEW n \in Writers(x)
      PROVE  n <= plan.cmds[d].op
  <2>1. PICK e \in Cmds : plan.cmds[e].op = n /\ x \in CmdWrites(plan, e)
    BY <1>4
  <2>2. e \in Nat /\ d \in Nat /\ plan.cmds[d].op \in Nat
    BY <1>1, PlanShape
  <2>3. e < d \/ e = d
    BY <1>6, <2>1, <2>2
  <2>4. e < d => plan.cmds[e].op <= plan.cmds[d].op
    BY <1>2 DEF FollowsProgram, Cmds
  <2> QED BY <2>1, <2>2, <2>3, <2>4
<1> QED BY <1>6, <1>7, <1>8

\* The lane whose submission comes first in the plan can go on.
LEMMA FirstGoesOn ==
    ASSUME LanesInv
    PROVE  NoLaneStuck
<1> DEFINE Pending == {next[l] : l \in {k \in Lanes : next[k] # 0}}
<1>1. Orderly(plan, Lanes) /\ LanesTyped /\ PointsStored
  BY DEF LanesInv
<1>2. \A l \in Lanes : next[l] \in Nat /\ (next[l] # 0 => next[l] \in Subs /\ SubLane(next[l]) = l)
  <2>1. Subs \subseteq Nat
    BY <1>1, PlanShape
  <2>2. \A l \in Lanes : next[l] = 0 \/ next[l] \in Subs
    BY <1>1 DEF LanesTyped
  <2>3. \A l \in Lanes : next[l] # 0 => SubLane(next[l]) = l
    BY <1>1 DEF LanesTyped
  <2>4. ASSUME NEW l \in Lanes
        PROVE  next[l] \in Nat
    <3>1. CASE next[l] = 0
      BY <3>1
    <3>2. CASE next[l] \in Subs
      BY <2>1, <3>2
    <3> QED BY <2>2, <3>1, <3>2
  <2> QED BY <2>2, <2>3, <2>4, Zenon
<1>3. CASE Complete
  BY <1>3 DEF NoLaneStuck
<1>4. CASE ~Complete
  <2>1. Pending \subseteq Nat
    BY <1>2
  <2>2. Pending # {}
    BY <1>4 DEF Complete
  <2>3. PICK j \in Pending : \A k \in Pending : ~(<<k, j>> \in OpToRel(<, Nat))
    <3> HIDE DEF Pending
    <3> QED BY <2>1, <2>2, NatLessThanWellFounded, WFMin
  <2>4. PICK l \in Lanes : next[l] # 0 /\ next[l] = j
    BY <2>3
  <2>5. \A k \in Lanes : next[k] # 0 => ~(next[k] < j)
    <3> SUFFICES ASSUME NEW k \in Lanes, next[k] # 0 PROVE ~(next[k] < j)
      OBVIOUS
    <3>1. <<next[k], j>> \in Nat \X Nat
      BY <1>2, <2>4
    <3>2. next[k] \in Pending
      OBVIOUS
    <3> HIDE DEF Pending
    <3> QED BY <2>3, <3>1, <3>2, Zenon DEF OpToRel
  <2>6. WaitsReached(l)
    <3> SUFFICES ASSUME NEW w \in plan.subs[j].waits PROVE timeline[w.lane] >= w.point
      BY <2>4 DEF WaitsReached, Sub
    <3>1. j \in Subs
      BY <1>2, <2>4
    <3>2. PICK i \in Subs : i < j /\ SubLane(i) = w.lane /\ plan.subs[i].point >= w.point
      BY <1>1, <3>1 DEF Orderly, PointsGrow, SubLane, Subs
    <3>3. i \in Nat /\ j \in Nat /\ SubLane(i) \in Lanes
      BY <1>1, <3>1, PlanShape
    <3>4. Passed(i)
      BY <1>2, <2>5, <3>2, <3>3 DEF Passed
    <3>5. timeline[SubLane(i)] >= plan.subs[i].point
      BY <1>1, <3>4 DEF PointsStored
    <3>6. w.point \in Nat /\ plan.subs[i].point \in Nat /\ timeline[SubLane(i)] \in Nat
      BY <1>1, <3>1, <3>3, PlanShape DEF LanesTyped
    <3> QED BY <3>2, <3>5, <3>6
  <2> QED BY <2>4, <2>6 DEF NoLaneStuck
<1> QED BY <1>3, <1>4

\* The invariant of the lanes, for any set of orderly plans.
THEOREM LanesInvariant ==
    ASSUME \A p \in Plans : Orderly(p, Lanes)
    PROVE  PlanSpec => []LanesInv
<1>1. PlanInit => LanesInv
  BY LanesStart
<1>2. LanesInv /\ [PlanNext]_planVars => LanesInv'
  BY LanesKeep
<1> QED BY <1>1, <1>2, PTL DEF PlanSpec

\* Parallel execution is sequential execution: on any lanes, an orderly plan's
\* commands read what the program order leaves, and so does whoever reads the
\* memory of a complete plan (SemanticLinkedPlan).
THEOREM LanesProgramOrder ==
    ASSUME \A p \in Plans : Orderly(p, Lanes)
    PROVE  PlanSpec => []ProgramOrderData
<1>1. LanesInv => ProgramOrderData
  BY CompleteMemory DEF ProgramOrderData, LanesInv
<1> QED BY <1>1, LanesInvariant, PTL

\* On any lanes the waits of an orderly plan never form a circle: a lane that has
\* not finished can go on (the cross-lane waits of SemanticLinkedPlan).
THEOREM LanesGoOn ==
    ASSUME \A p \in Plans : Orderly(p, Lanes)
    PROVE  PlanSpec => []NoLaneStuck
<1>1. LanesInv => NoLaneStuck
  BY FirstGoesOn
<1> QED BY <1>1, LanesInvariant, PTL

=================================================================================
