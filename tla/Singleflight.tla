------------------------------ MODULE Singleflight ------------------------------
(* In-flight deduplication (tensor/src/singleflight.rs).                       *)
(*                                                                             *)
(* Every claim allocates a slot: an Arc around a mutex-protected `done` flag   *)
(* and a condvar.  The winner's Ticket and the map `inflight` share the slot;  *)
(* a loser clones it out of the map and parks on it.  The module gives the     *)
(* primitive steps on that state; what a thread looks up and computes between  *)
(* them is left to the modules that extend this one (WeightCache and           *)
(* PrepareKernels).                                                            *)
(* Slot identifiers are recycled once nothing refers to the Arc any more.      *)
EXTENDS FiniteSets

CONSTANTS Thread,   \* threads that call into the flight
          Key,      \* cache keys
          Slot,     \* identities of live slot Arcs
          NoSlot

ASSUME NoSlotAssumption == NoSlot \notin Slot

VARIABLES inflight,   \* Key -> the slot registered for it, or NoSlot
          stage,      \* Slot -> how far its Ticket has come
          keyOf,      \* Slot -> the key its Ticket was claimed for
          waiting,    \* Thread -> the slot Arc a loser holds, or NoSlot
          asleep      \* threads inside Condvar::wait

flightVars == <<inflight, stage, keyOf, waiting, asleep>>

\* "held": the Ticket lives.  Drop then removes the map entry ("removed"), sets
\* `done` under the slot's mutex ("set") and notifies ("notified").
Stage == {"unused", "held", "removed", "set", "notified"}

\* Types of the flight: the map, the slots and the losers.
FlightTypeOK ==
    /\ inflight \in [Key -> Slot \cup {NoSlot}]
    /\ stage \in [Slot -> Stage]
    /\ keyOf \in [Slot -> Key]
    /\ waiting \in [Thread -> Slot \cup {NoSlot}]
    /\ asleep \in SUBSET Thread

FlightInit ==
    /\ inflight = [k \in Key |-> NoSlot]
    /\ stage = [s \in Slot |-> "unused"]
    /\ keyOf \in [Slot -> Key]
    /\ waiting = [t \in Thread |-> NoSlot]
    /\ asleep = {}

\* The flag a loser reads under the slot's mutex.
Done(s) == stage[s] \in {"set", "notified"}

\* No Ticket and no loser refers to the Arc: the identity may be used again.
Unreferenced(s) ==
    /\ stage[s] \in {"unused", "notified"}
    /\ \A t \in Thread : waiting[t] # s

\* Mutant: the claim inserts without looking at the entry.
BlindVacant(k) == TRUE

Vacant(k) == inflight[k] = NoSlot

\* claim, Vacant arm: register a fresh slot and return the Ticket.
ClaimVacant(k, s) ==
    /\ Vacant(k)
    /\ Unreferenced(s)
    /\ inflight' = [inflight EXCEPT ![k] = s]
    /\ stage' = [stage EXCEPT ![s] = "held"]
    /\ keyOf' = [keyOf EXCEPT ![s] = k]
    /\ UNCHANGED <<waiting, asleep>>

\* claim, Occupied arm as `run` uses it: keep a clone of the registered slot.
\* (`try_claim` drops the clone at once, which changes nothing here.)
ClaimOccupied(t, k) ==
    /\ inflight[k] # NoSlot
    /\ waiting[t] = NoSlot
    /\ waiting' = [waiting EXCEPT ![t] = inflight[k]]
    /\ UNCHANGED <<inflight, stage, keyOf, asleep>>

\* `while !*done { wait }`: the test and the sleep are one step, because the
\* mutex is released only by going to sleep.
Park(t) ==
    /\ waiting[t] # NoSlot
    /\ t \notin asleep
    /\ ~Done(waiting[t])
    /\ asleep' = asleep \cup {t}
    /\ UNCHANGED <<inflight, stage, keyOf, waiting>>

\* The loop's exit: the loser drops the Arc and goes back to look up the cache.
Unpark(t) ==
    /\ waiting[t] # NoSlot
    /\ t \notin asleep
    /\ Done(waiting[t])
    /\ waiting' = [waiting EXCEPT ![t] = NoSlot]
    /\ UNCHANGED <<inflight, stage, keyOf, asleep>>

\* Ticket::drop, first statement: forget the key.
DropRemove(s) ==
    /\ stage[s] = "held"
    /\ stage' = [stage EXCEPT ![s] = "removed"]
    /\ inflight' = [inflight EXCEPT ![keyOf[s]] = NoSlot]
    /\ UNCHANGED <<keyOf, waiting, asleep>>

\* Mutant: `done` is set but the waiters are never notified.
DropSetSilently(s) ==
    /\ stage[s] = "removed"
    /\ stage' = [stage EXCEPT ![s] = "notified"]
    /\ UNCHANGED <<inflight, keyOf, waiting, asleep>>

\* Ticket::drop, second statement: `*self.slot.0.lock() = true`.
DropSet(s) ==
    /\ stage[s] = "removed"
    /\ stage' = [stage EXCEPT ![s] = "set"]
    /\ UNCHANGED <<inflight, keyOf, waiting, asleep>>

\* Ticket::drop, last statement: `notify_all`.
DropNotify(s) ==
    /\ stage[s] = "set"
    /\ stage' = [stage EXCEPT ![s] = "notified"]
    /\ asleep' = {t \in asleep : waiting[t] # s}
    /\ UNCHANGED <<inflight, keyOf, waiting>>

FlightNext ==
    \/ \E k \in Key, s \in Slot : ClaimVacant(k, s)
    \/ \E t \in Thread, k \in Key : ClaimOccupied(t, k)
    \/ \E t \in Thread : Park(t) \/ Unpark(t)
    \/ \E s \in Slot : DropRemove(s) \/ DropSet(s) \/ DropNotify(s)

\* What every user of the flight does to it; the users' specifications refine
\* this one.
FlightSpec == FlightInit /\ [][FlightNext]_flightVars

---------------------------------------------------------------------------------
(* Properties.                                                                 *)

\* At most one live Ticket per key, although a key is forgotten before its
\* waiters are told and may be claimed again in between.
OneTicketPerKey ==
    \A s1, s2 \in Slot :
        stage[s1] = "held" /\ stage[s2] = "held" /\ keyOf[s1] = keyOf[s2] => s1 = s2

\* A thread asleep on a slot has a notification still to come: no interleaving
\* of a loser's check with the three statements of Ticket::drop strands it.
NoStrandedWaiter ==
    \A t \in asleep : waiting[t] # NoSlot /\ stage[waiting[t]] \in {"held", "removed", "set"}

=================================================================================
