---------------------------- MODULE WeightCacheProofs ----------------------------
(* Safety of the weight cache, for any number of threads, keys, slots and      *)
(* storages.                                                                   *)
(*                                                                             *)
(* Sharing is not inductive as it stands.  It rests on three facts: a thread   *)
(* that computes holds the only Ticket of its key (Ticketed), a live storage   *)
(* is published or still in the hands of the thread that made it (Published),  *)
(* and what a Ticket's holder found missing or dead in the map stays so until  *)
(* it inserts (MissStands).                                                    *)
EXTENDS WeightCache, SingleflightProofs

\* A Ticket is held for the thread's own key until its drop begins, by that
\* thread alone; threads between calls, claiming or waiting have none.
Ticketed ==
    /\ \A t \in Thread : pc[t] \in {"idle", "claim", "wait"} => mine[t] = NoSlot
    /\ \A t \in Thread : mine[t] # NoSlot =>
        /\ keyOf[mine[t]] = want[t]
        /\ stage[mine[t]] \in {"held", "removed", "set"}
        /\ pc[t] # "drop" => stage[mine[t]] = "held"
    /\ \A t, u \in Thread : mine[t] # NoSlot /\ mine[t] = mine[u] => t = u

\* A new storage belongs to its maker alone until it is inserted.
Private ==
    \A t \in Thread : pc[t] = "insert" =>
        /\ bufKey[holds[t]] = want[t]
        /\ \A u \in Thread : u # t => holds[u] # holds[t]
        /\ \A u \in Thread : seen[u] # holds[t]
        /\ \A k \in Key : entry[k] # holds[t]

\* Every other live storage is the one its key's entry names.
Published ==
    \A b \in Buf : Alive(b) =>
        \/ entry[bufKey[b]] = b
        \/ \E t \in Thread : pc[t] = "insert" /\ holds[t] = b

\* Under the Ticket the entry is what the lookup read, or pruned; once the lookup
\* has missed, it is absent or dead.
MissStands ==
    /\ \A t \in Thread : pc[t] \in {"upgrade", "prune"} => seen[t] # NoBuf
    /\ \A t \in Thread : pc[t] = "prune" => ~Alive(seen[t])
    /\ \A t \in Thread : mine[t] # NoSlot /\ pc[t] \in {"upgrade", "prune"} =>
            entry[want[t]] \in {seen[t], NoBuf}
    /\ \A t \in Thread : pc[t] \in {"compute", "insert"} =>
            entry[want[t]] = NoBuf \/ ~Alive(entry[want[t]])

CacheInv == TypeOK /\ FlightInv /\ Ticketed /\ Private /\ Published /\ MissStands

\* The initial state satisfies the inductive invariant.
LEMMA CacheInitInv == Init => CacheInv
<1> SUFFICES ASSUME Init PROVE CacheInv
  OBVIOUS
<1>1. FlightInv
  BY FlightInitInv DEF Init
<1>2. TypeOK
  BY <1>1, NoSlotAssumption, CacheAssumption DEF Init, FlightInit, TypeOK, FlightInv, PC
<1>3. Ticketed /\ Private /\ Published /\ MissStands
  BY CacheAssumption, NoSlotAssumption DEF Init, Ticketed, Private, Published, MissStands, Alive
<1> QED BY <1>1, <1>2, <1>3 DEF CacheInv

\* Every step of the cache is a step of the flight, or leaves it alone.
LEMMA CacheStepFlight == CacheInv /\ [Next]_vars => [FlightNext]_flightVars
<1> SUFFICES ASSUME CacheInv, [Next]_vars PROVE [FlightNext]_flightVars
  OBVIOUS
<1>1. ASSUME NEW t \in Thread, Claim(t) PROVE FlightNext
  BY <1>1 DEF CacheInv, TypeOK, Claim, FlightNext
<1>2. ASSUME NEW t \in Thread, Wait(t) PROVE FlightNext
  BY <1>2 DEF Wait, FlightNext
<1>3. ASSUME NEW t \in Thread, DropTicket(t) PROVE FlightNext
  <2>1. mine[t] \in Slot
    BY <1>3 DEF CacheInv, TypeOK, DropTicket
  <2> QED BY <1>3, <2>1 DEF DropTicket, FlightNext
<1>4. ASSUME NEW t \in Thread, NEW k \in Key, Call(t, k) PROVE UNCHANGED flightVars
  BY <1>4 DEF Call
<1>5. ASSUME NEW t \in Thread,
             Get(t) \/ Upgrade(t) \/ Prune(t) \/ Upload(t) \/ UploadPanics(t) \/ Insert(t) \/ Release(t)
      PROVE  UNCHANGED flightVars
  BY <1>5 DEF Get, Upgrade, Prune, Upload, UploadPanics, Insert, Release
<1>6. CASE Finished \/ UNCHANGED vars
  BY <1>6 DEF Finished, vars
<1> QED BY <1>1, <1>2, <1>3, <1>4, <1>5, <1>6 DEF Next, Step

\* Every step preserves the types and the shape of a call.
LEMMA CacheStepType == CacheInv /\ [Next]_vars => TypeOK'
<1> SUFFICES ASSUME CacheInv, [Next]_vars PROVE TypeOK'
  OBVIOUS
<1>0. FlightTypeOK'
  BY CacheStepFlight, FlightStepInv DEF CacheInv, FlightInv
<1> USE <1>0, NoSlotAssumption, CacheAssumption DEF CacheInv, TypeOK, PC, flightVars
<1>1. ASSUME NEW t \in Thread, NEW k \in Key, Call(t, k) PROVE TypeOK'
  BY <1>1 DEF Call, FlightTypeOK, AfterHit, AfterMiss
<1>2. ASSUME NEW t \in Thread, Get(t) PROVE TypeOK'
  BY <1>2 DEF Get, FlightTypeOK, AfterHit, AfterMiss
<1>3. ASSUME NEW t \in Thread, Upgrade(t) PROVE TypeOK'
  BY <1>3 DEF Upgrade, FlightTypeOK, AfterHit, AfterMiss
<1>4. ASSUME NEW t \in Thread, Prune(t) PROVE TypeOK'
  BY <1>4 DEF Prune, FlightTypeOK, AfterHit, AfterMiss
<1>5. ASSUME NEW t \in Thread, Claim(t) PROVE TypeOK'
  BY <1>5 DEF Claim, FlightTypeOK, ClaimVacant, ClaimOccupied
<1>6. ASSUME NEW t \in Thread, Wait(t) PROVE TypeOK'
  BY <1>6 DEF Wait, FlightTypeOK, Park, Unpark
<1>7. ASSUME NEW t \in Thread, Upload(t) PROVE TypeOK'
  BY <1>7 DEF Upload, FlightTypeOK, AfterHit, AfterMiss
<1>8. ASSUME NEW t \in Thread, UploadPanics(t) PROVE TypeOK'
  BY <1>8 DEF UploadPanics, FlightTypeOK, AfterHit, AfterMiss
<1>9. ASSUME NEW t \in Thread, Insert(t) PROVE TypeOK'
  BY <1>9 DEF Insert, FlightTypeOK, AfterHit, AfterMiss
<1>10. ASSUME NEW t \in Thread, DropTicket(t) PROVE TypeOK'
  BY <1>10 DEF DropTicket, FlightTypeOK, DropRemove, DropSet, DropNotify, Ticketed
<1>11. ASSUME NEW t \in Thread, Release(t) PROVE TypeOK'
  BY <1>11 DEF Release, FlightTypeOK, AfterHit, AfterMiss
<1>12. CASE Finished \/ UNCHANGED vars
  BY <1>12 DEF Finished, vars, threadVars, FlightTypeOK, AfterHit, AfterMiss
<1> QED BY <1>1, <1>2, <1>3, <1>4, <1>5, <1>6, <1>7, <1>8, <1>9, <1>10, <1>11, <1>12 DEF Next, Step

\* Every step keeps the Tickets exclusive and held for their thread's key.
LEMMA CacheStepTicketed == CacheInv /\ [Next]_vars => Ticketed'
<1> SUFFICES ASSUME CacheInv, [Next]_vars PROVE Ticketed'
  OBVIOUS
<1> USE NoSlotAssumption, CacheAssumption DEF CacheInv, TypeOK, FlightTypeOK, PC, Ticketed
<1>1. ASSUME NEW t \in Thread, NEW k \in Key, Call(t, k) PROVE Ticketed'
  BY <1>1 DEF Call, flightVars
<1>2. ASSUME NEW t \in Thread, Get(t) PROVE Ticketed'
  BY <1>2 DEF Get, flightVars, AfterMiss
<1>3. ASSUME NEW t \in Thread, Upgrade(t) PROVE Ticketed'
  BY <1>3 DEF Upgrade, flightVars, AfterHit
<1>4. ASSUME NEW t \in Thread, Prune(t) PROVE Ticketed'
  BY <1>4 DEF Prune, flightVars, AfterMiss
<1>5. ASSUME NEW t \in Thread, Claim(t) PROVE Ticketed'
  BY <1>5 DEF Claim, ClaimVacant, ClaimOccupied, Unreferenced
<1>6. ASSUME NEW t \in Thread, Wait(t) PROVE Ticketed'
  BY <1>6 DEF Wait, Park, Unpark
<1>7. ASSUME NEW t \in Thread, Upload(t) PROVE Ticketed'
  BY <1>7 DEF Upload, flightVars
<1>8. ASSUME NEW t \in Thread, UploadPanics(t) PROVE Ticketed'
  BY <1>8 DEF UploadPanics, flightVars
<1>9. ASSUME NEW t \in Thread, Insert(t) PROVE Ticketed'
  BY <1>9 DEF Insert, flightVars
<1>10. ASSUME NEW t \in Thread, DropTicket(t) PROVE Ticketed'
  BY <1>10 DEF DropTicket, DropRemove, DropSet, DropNotify
<1>11. ASSUME NEW t \in Thread, Release(t) PROVE Ticketed'
  BY <1>11 DEF Release, flightVars
<1>12. CASE Finished \/ UNCHANGED vars
  BY <1>12 DEF Finished, vars, threadVars, flightVars
<1> QED BY <1>1, <1>2, <1>3, <1>4, <1>5, <1>6, <1>7, <1>8, <1>9, <1>10, <1>11, <1>12 DEF Next, Step

\* Every step leaves a storage that is not yet inserted to its maker.
LEMMA CacheStepPrivate == CacheInv /\ [Next]_vars => Private'
<1> SUFFICES ASSUME CacheInv, [Next]_vars PROVE Private'
  OBVIOUS
<1> USE NoSlotAssumption, CacheAssumption DEF CacheInv, TypeOK, FlightTypeOK, PC, Private, Alive
<1>1. ASSUME NEW t \in Thread, NEW k \in Key, Call(t, k) PROVE Private'
  BY <1>1 DEF Call
<1>2. ASSUME NEW t \in Thread, Get(t) PROVE Private'
  BY <1>2 DEF Get, AfterMiss
<1>3. ASSUME NEW t \in Thread, Upgrade(t) PROVE Private'
  BY <1>3 DEF Upgrade, AfterHit
<1>4. ASSUME NEW t \in Thread, Prune(t) PROVE Private'
  BY <1>4 DEF Prune, AfterMiss, Prunable
<1>5. ASSUME NEW t \in Thread, Claim(t) PROVE Private'
  BY <1>5 DEF Claim
<1>6. ASSUME NEW t \in Thread, Wait(t) PROVE Private'
  BY <1>6 DEF Wait
<1>7. ASSUME NEW t \in Thread, Upload(t) PROVE Private'
  BY <1>7 DEF Upload, Unallocated
<1>8. ASSUME NEW t \in Thread, UploadPanics(t) PROVE Private'
  BY <1>8 DEF UploadPanics
<1>9. ASSUME NEW t \in Thread, Insert(t) PROVE Private'
  BY <1>9 DEF Insert
<1>10. ASSUME NEW t \in Thread, DropTicket(t) PROVE Private'
  BY <1>10 DEF DropTicket
<1>11. ASSUME NEW t \in Thread, Release(t) PROVE Private'
  BY <1>11 DEF Release
<1>12. CASE Finished \/ UNCHANGED vars
  BY <1>12 DEF Finished, vars, threadVars, flightVars
<1> QED BY <1>1, <1>2, <1>3, <1>4, <1>5, <1>6, <1>7, <1>8, <1>9, <1>10, <1>11, <1>12 DEF Next, Step

\* Every step keeps the entry of a live storage.
LEMMA CacheStepPublished == CacheInv /\ [Next]_vars => Published'
<1> SUFFICES ASSUME CacheInv, [Next]_vars PROVE Published'
  OBVIOUS
<1> USE NoSlotAssumption, CacheAssumption DEF CacheInv, TypeOK, FlightTypeOK, PC, Published, Alive
<1>1. ASSUME NEW t \in Thread, NEW k \in Key, Call(t, k) PROVE Published'
  BY <1>1 DEF Call
<1>2. ASSUME NEW t \in Thread, Get(t) PROVE Published'
  BY <1>2 DEF Get, AfterMiss
<1>3. ASSUME NEW t \in Thread, Upgrade(t) PROVE Published'
  BY <1>3 DEF Upgrade, AfterHit
<1>4. ASSUME NEW t \in Thread, Prune(t) PROVE Published'
  BY <1>4 DEF Prune, AfterMiss, Prunable
<1>5. ASSUME NEW t \in Thread, Claim(t) PROVE Published'
  BY <1>5 DEF Claim
<1>6. ASSUME NEW t \in Thread, Wait(t) PROVE Published'
  BY <1>6 DEF Wait
<1>7. ASSUME NEW t \in Thread, Upload(t) PROVE Published'
  BY <1>7 DEF Upload, Unallocated
<1>8. ASSUME NEW t \in Thread, UploadPanics(t) PROVE Published'
  BY <1>8 DEF UploadPanics
<1>9. ASSUME NEW t \in Thread, Insert(t) PROVE Published'
  BY <1>9 DEF Insert, Private, MissStands
<1>10. ASSUME NEW t \in Thread, DropTicket(t) PROVE Published'
  BY <1>10 DEF DropTicket
<1>11. ASSUME NEW t \in Thread, Release(t) PROVE Published'
  BY <1>11 DEF Release
<1>12. CASE Finished \/ UNCHANGED vars
  BY <1>12 DEF Finished, vars, threadVars, flightVars
<1> QED BY <1>1, <1>2, <1>3, <1>4, <1>5, <1>6, <1>7, <1>8, <1>9, <1>10, <1>11, <1>12 DEF Next, Step

\* What a Ticket's holder found missing or dead stays so until it inserts.
LEMMA CacheStepMissStands == CacheInv /\ [Next]_vars => MissStands'
<1> SUFFICES ASSUME CacheInv, [Next]_vars PROVE MissStands'
  OBVIOUS
<1>0. \A t, u \in Thread : mine[t] # NoSlot /\ mine[u] # NoSlot /\ pc[t] # "drop" /\ pc[u] # "drop" /\ want[t] = want[u] => t = u
  BY NoSlotAssumption, FlightExclusive DEF CacheInv, TypeOK, Ticketed, OneTicketPerKey
<1> USE NoSlotAssumption, CacheAssumption DEF CacheInv, TypeOK, FlightTypeOK, PC, MissStands, Alive
<1>1. ASSUME NEW t \in Thread, NEW k \in Key, Call(t, k) PROVE MissStands'
  BY <1>1 DEF Call
<1>2. ASSUME NEW t \in Thread, Get(t) PROVE MissStands'
  BY <1>2 DEF Get, AfterMiss
<1>3. ASSUME NEW t \in Thread, Upgrade(t) PROVE MissStands'
  BY <1>3 DEF Upgrade, AfterHit
<1>4. ASSUME NEW t \in Thread, Prune(t) PROVE MissStands'
  BY <1>4, <1>0 DEF Prune, AfterMiss, Prunable, Ticketed
<1>5. ASSUME NEW t \in Thread, Claim(t) PROVE MissStands'
  BY <1>5 DEF Claim, Ticketed
<1>6. ASSUME NEW t \in Thread, Wait(t) PROVE MissStands'
  BY <1>6 DEF Wait
<1>7. ASSUME NEW t \in Thread, Upload(t) PROVE MissStands'
  BY <1>7 DEF Upload, Unallocated
<1>8. ASSUME NEW t \in Thread, UploadPanics(t) PROVE MissStands'
  BY <1>8 DEF UploadPanics
<1>9. ASSUME NEW t \in Thread, Insert(t) PROVE MissStands'
  BY <1>9, <1>0 DEF Insert, Ticketed, Private
<1>10. ASSUME NEW t \in Thread, DropTicket(t) PROVE MissStands'
  BY <1>10 DEF DropTicket
<1>11. ASSUME NEW t \in Thread, Release(t) PROVE MissStands'
  BY <1>11 DEF Release
<1>12. CASE Finished \/ UNCHANGED vars
  BY <1>12 DEF Finished, vars, threadVars, flightVars
<1> QED BY <1>1, <1>2, <1>3, <1>4, <1>5, <1>6, <1>7, <1>8, <1>9, <1>10, <1>11, <1>12 DEF Next, Step

\* The invariant implies sharing: two live storages of one key are both
\* published, or one of them would be inserted over a live entry.
LEMMA CacheInvShares == CacheInv => OneLiveStoragePerKey
<1> SUFFICES ASSUME CacheInv,
                    NEW b1 \in Buf, NEW b2 \in Buf,
                    Alive(b1), Alive(b2), bufKey[b1] = bufKey[b2]
             PROVE  b1 = b2
  BY DEF OneLiveStoragePerKey
<1> USE NoSlotAssumption, CacheAssumption DEF CacheInv, TypeOK, FlightTypeOK
<1>1. ASSUME NEW b \in Buf, NEW c \in Buf, Alive(b), Alive(c), bufKey[b] = bufKey[c],
             entry[bufKey[b]] = b
      PROVE  b = c
  BY <1>1 DEF Published, Private, MissStands
<1>2. ASSUME NEW t \in Thread, pc[t] = "insert", holds[t] = b1,
             NEW u \in Thread, pc[u] = "insert", holds[u] = b2
      PROVE  b1 = b2
  <2>1. want[t] = want[u]
    BY <1>2 DEF Private
  <2>2. mine[t] = mine[u]
    BY <1>2, <2>1, FlightExclusive DEF Ticketed, OneTicketPerKey
  <2> QED BY <1>2, <2>2 DEF Ticketed
<1> QED BY <1>1, <1>2 DEF Published

\* The invariant is inductive, part by part.
LEMMA CacheInvariance == Spec => []CacheInv
<1>1. CacheInv /\ [Next]_vars => CacheInv'
  <2>1. CacheInv /\ [Next]_vars => FlightInv'
    BY CacheStepFlight, FlightStepInv DEF CacheInv
  <2> QED BY <2>1, CacheStepType, CacheStepTicketed, CacheStepPrivate, CacheStepPublished,
             CacheStepMissStands DEF CacheInv
<1> QED BY CacheInitInv, <1>1, PTL DEF Spec

\* shared_weight_buffer uses the flight only through its operations, so that
\* everything proved of the flight holds for the cache.
THEOREM CacheRefinesFlight == Spec => FlightSpec
<1>1. Init => FlightInit
  BY DEF Init
<1> QED BY <1>1, CacheInvariance, CacheStepFlight, PTL DEF Spec, FlightSpec

\* Each thread's place in shared_weight_buffer agrees with the Ticket, the
\* storage and the slot it owns there.
THEOREM CacheTyped == Spec => []TypeOK
<1>1. CacheInv => TypeOK
  BY DEF CacheInv
<1> QED BY CacheInvariance, <1>1, PTL

\* No weight is ever resident twice, for any number of threads, keys and
\* storages: the promise of shared_weight_buffer.
THEOREM CacheShares == Spec => []OneLiveStoragePerKey
  BY CacheInvariance, CacheInvShares, PTL

\* Under the cache, too, a sleeping thread has a notification to come.
THEOREM CacheWaitersWoken == Spec => []NoStrandedWaiter
  BY CacheRefinesFlight, FlightWaitersWoken, PTL

=================================================================================
