------------------------------ MODULE WeightCache ------------------------------
(* The process-global cache of checkpoint weights                              *)
(* (tensor/src/weight_cache.rs, shared_weight_buffer) on top of the flight.    *)
(* The map holds Weak references: a storage lives while some model holds the   *)
(* Arc a call returned, and dies with its last holder.                         *)
EXTENDS Singleflight, Naturals

CONSTANTS Buf,       \* identities of storages
          NoBuf,
          MaxCalls   \* bound: calls each thread makes

ASSUME CacheAssumption == NoBuf \notin Buf /\ MaxCalls \in Nat

VARIABLES pc,      \* where each thread is in shared_weight_buffer
          want,    \* the key of its current call
          mine,    \* the slot of the Ticket it holds, or NoSlot
          seen,    \* the Weak its lookup read, or NoBuf
          holds,   \* the Arc<Buffer> it owns, or NoBuf
          entry,   \* the map: Key -> Weak, or NoBuf
          bufKey,  \* Buf -> the key it was created for
          calls    \* calls started so far

threadVars == <<pc, want, mine, seen, holds, calls>>
vars == <<flightVars, threadVars, entry, bufKey>>

PC == {"idle", "get", "upgrade", "prune", "claim", "wait", "compute", "insert", "drop"}

\* Types; and a thread computes, publishes and lets go only with the Ticket of its
\* own claim, publishes only what it holds, and waits exactly on the slot it cloned.
TypeOK ==
    /\ FlightTypeOK
    /\ pc \in [Thread -> PC]
    /\ want \in [Thread -> Key]
    /\ mine \in [Thread -> Slot \cup {NoSlot}]
    /\ seen \in [Thread -> Buf \cup {NoBuf}]
    /\ holds \in [Thread -> Buf \cup {NoBuf}]
    /\ entry \in [Key -> Buf \cup {NoBuf}]
    /\ bufKey \in [Buf -> Key]
    /\ calls \in [Thread -> 0..MaxCalls]
    /\ \A t \in Thread : pc[t] \in {"compute", "insert", "drop"} => mine[t] \in Slot
    /\ \A t \in Thread : pc[t] = "insert" => holds[t] \in Buf
    /\ \A t \in Thread : (pc[t] = "wait") <=> (waiting[t] \in Slot)

Init ==
    /\ FlightInit
    /\ pc = [t \in Thread |-> "idle"]
    /\ want \in [Thread -> Key]
    /\ mine = [t \in Thread |-> NoSlot]
    /\ seen = [t \in Thread |-> NoBuf]
    /\ holds = [t \in Thread |-> NoBuf]
    /\ entry = [k \in Key |-> NoBuf]
    /\ bufKey \in [Buf -> Key]
    /\ calls = [t \in Thread |-> 0]

\* Weak::upgrade succeeds while some Arc is left.
Alive(b) == \E t \in Thread : holds[t] = b

Unallocated(b) ==
    /\ ~Alive(b)
    /\ \A k \in Key : entry[k] # b
    /\ \A t \in Thread : seen[t] # b

\* Where `run` goes after a lookup: a hit returns (through the Ticket's drop
\* when one is held), a miss claims, or computes under the Ticket.
AfterHit(t) == IF mine[t] = NoSlot THEN "idle" ELSE "drop"
AfterMiss(t) == IF mine[t] = NoSlot THEN "claim" ELSE "compute"

Call(t, k) ==
    /\ pc[t] = "idle" /\ holds[t] = NoBuf /\ calls[t] < MaxCalls
    /\ pc' = [pc EXCEPT ![t] = "get"]
    /\ want' = [want EXCEPT ![t] = k]
    /\ calls' = [calls EXCEPT ![t] = @ + 1]
    /\ UNCHANGED <<flightVars, mine, seen, holds, entry, bufKey>>

\* lookup: map.get
Get(t) ==
    /\ pc[t] = "get"
    /\ seen' = [seen EXCEPT ![t] = entry[want[t]]]
    /\ pc' = [pc EXCEPT ![t] = IF entry[want[t]] = NoBuf THEN AfterMiss(t) ELSE "upgrade"]
    /\ UNCHANGED <<flightVars, want, mine, holds, calls, entry, bufKey>>

\* lookup: weak.upgrade on what was read; the map may have moved on since.
Upgrade(t) ==
    /\ pc[t] = "upgrade"
    /\ IF Alive(seen[t])
       THEN /\ holds' = [holds EXCEPT ![t] = seen[t]]
            /\ seen' = [seen EXCEPT ![t] = NoBuf]
            /\ pc' = [pc EXCEPT ![t] = AfterHit(t)]
       ELSE /\ pc' = [pc EXCEPT ![t] = "prune"]
            /\ UNCHANGED <<holds, seen>>
    /\ UNCHANGED <<flightVars, want, mine, calls, entry, bufKey>>

\* Mutant: a blind `remove(&key)`.
BlindPrunable(k) == entry[k] # NoBuf

Prunable(k) == entry[k] # NoBuf /\ ~Alive(entry[k])

\* lookup: map.compute, which removes the entry only if it is dead right now.
Prune(t) ==
    /\ pc[t] = "prune"
    /\ entry' = IF Prunable(want[t])
                THEN [entry EXCEPT ![want[t]] = NoBuf]
                ELSE entry
    /\ seen' = [seen EXCEPT ![t] = NoBuf]
    /\ pc' = [pc EXCEPT ![t] = AfterMiss(t)]
    /\ UNCHANGED <<flightVars, want, mine, holds, calls, bufKey>>

Claim(t) ==
    /\ pc[t] = "claim"
    /\ \/ \E s \in Slot :
            /\ ClaimVacant(want[t], s)
            /\ mine' = [mine EXCEPT ![t] = s]
            /\ pc' = [pc EXCEPT ![t] = "get"]
       \/ /\ ClaimOccupied(t, want[t])
          /\ pc' = [pc EXCEPT ![t] = "wait"]
          /\ UNCHANGED mine
    /\ UNCHANGED <<want, seen, holds, calls, entry, bufKey>>

Wait(t) ==
    /\ pc[t] = "wait"
    /\ \/ Park(t) /\ UNCHANGED pc
       \/ Unpark(t) /\ pc' = [pc EXCEPT ![t] = "get"]
    /\ UNCHANGED <<want, mine, seen, holds, calls, entry, bufKey>>

\* compute: allocate, upload and seal the storage ...
Upload(t) ==
    /\ pc[t] = "compute"
    /\ \E b \in Buf :
        /\ Unallocated(b)
        /\ holds' = [holds EXCEPT ![t] = b]
        /\ bufKey' = [bufKey EXCEPT ![b] = want[t]]
    /\ pc' = [pc EXCEPT ![t] = "insert"]
    /\ UNCHANGED <<flightVars, want, mine, seen, calls, entry>>

\* Mutant: the Ticket is leaked when the upload panics.
PanicLeaksTicket(t) ==
    /\ pc[t] = "compute"
    /\ pc' = [pc EXCEPT ![t] = "idle"]
    /\ UNCHANGED <<flightVars, want, mine, seen, holds, calls, entry, bufKey>>

\* ... or panic (no allocator, failed upload) and unwind through the Ticket.
UploadPanics(t) ==
    /\ pc[t] = "compute"
    /\ pc' = [pc EXCEPT ![t] = "drop"]
    /\ UNCHANGED <<flightVars, want, mine, seen, holds, calls, entry, bufKey>>

\* compute: publish the Weak, whatever the map held before.
Insert(t) ==
    /\ pc[t] = "insert"
    /\ entry' = [entry EXCEPT ![want[t]] = holds[t]]
    /\ pc' = [pc EXCEPT ![t] = "drop"]
    /\ UNCHANGED <<flightVars, want, mine, seen, holds, calls, bufKey>>

\* The Ticket's three statements; the call is over after the last one.
DropTicket(t) ==
    /\ pc[t] = "drop"
    /\ \/ (DropRemove(mine[t]) \/ DropSet(mine[t])) /\ UNCHANGED <<pc, mine>>
       \/ /\ DropNotify(mine[t])
          /\ pc' = [pc EXCEPT ![t] = "idle"]
          /\ mine' = [mine EXCEPT ![t] = NoSlot]
    /\ UNCHANGED <<want, seen, holds, calls, entry, bufKey>>

\* The model that owns the weight is torn down.
Release(t) ==
    /\ pc[t] = "idle" /\ holds[t] # NoBuf
    /\ holds' = [holds EXCEPT ![t] = NoBuf]
    /\ UNCHANGED <<flightVars, pc, want, mine, seen, calls, entry, bufKey>>

Step(t) ==
    \/ Get(t) \/ Upgrade(t) \/ Prune(t) \/ Claim(t) \/ Wait(t)
    \/ Upload(t) \/ UploadPanics(t) \/ Insert(t) \/ DropTicket(t)

\* Every thread has made its calls and dropped what they returned.
Finished ==
    /\ \A t \in Thread : pc[t] = "idle" /\ holds[t] = NoBuf /\ calls[t] = MaxCalls
    /\ UNCHANGED vars

Next ==
    \/ \E t \in Thread : Step(t) \/ Release(t) \/ \E k \in Key : Call(t, k)
    \/ Finished

Spec == Init /\ [][Next]_vars

\* A thread inside a call keeps running: the OS schedules it and an upload ends.
FairSpec == Spec /\ \A t \in Thread : WF_vars(Step(t))

---------------------------------------------------------------------------------
(* Properties.                                                                 *)

\* Sharing: no key ever has two live storages, whatever loads, teardowns,
\* prunes and panics interleave.  This is what the conditional removal in the
\* prune and the second lookup under the Ticket are for.
OneLiveStoragePerKey ==
    \A b1, b2 \in Buf : Alive(b1) /\ Alive(b2) /\ bufKey[b1] = bufKey[b2] => b1 = b2

\* Every call returns, also when the winner it waited for panicked.
CallsReturn == \A t \in Thread : (pc[t] # "idle") ~> (pc[t] = "idle")

=================================================================================
