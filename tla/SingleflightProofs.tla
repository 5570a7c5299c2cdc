-------------------------- MODULE SingleflightProofs --------------------------
(* Safety of the flight, for any number of threads, keys and slots.            *)
(*                                                                             *)
(* The map and the Tickets must agree for the exclusion to be inductive: a     *)
(* registered slot is held for that very key, a held slot is registered, and a  *)
(* loser only ever refers to a slot that was claimed.                          *)
EXTENDS Singleflight, TLAPS

Registered ==
    /\ \A k \in Key : inflight[k] # NoSlot => stage[inflight[k]] = "held" /\ keyOf[inflight[k]] = k
    /\ \A s \in Slot : stage[s] = "held" => inflight[keyOf[s]] = s
    /\ \A t \in Thread : waiting[t] # NoSlot => stage[waiting[t]] # "unused"

FlightInv == FlightTypeOK /\ Registered /\ NoStrandedWaiter

\* The initial state of a flight satisfies the inductive invariant.
LEMMA FlightInitInv == FlightInit => FlightInv
  BY NoSlotAssumption DEF FlightInit, FlightInv, FlightTypeOK, Registered, NoStrandedWaiter, Stage

\* Every operation of the flight preserves the inductive invariant.
LEMMA FlightStepInv == FlightInv /\ [FlightNext]_flightVars => FlightInv'
<1> SUFFICES ASSUME FlightInv, [FlightNext]_flightVars
             PROVE  FlightInv'
  OBVIOUS
<1> USE NoSlotAssumption DEF FlightInv, FlightTypeOK, Stage
<1>1. ASSUME NEW k \in Key, NEW s \in Slot, ClaimVacant(k, s)
      PROVE  FlightInv'
  <2>1. FlightTypeOK'
    BY <1>1 DEF ClaimVacant
  <2>2. Registered'
    BY <1>1 DEF ClaimVacant, Vacant, Unreferenced, Registered
  <2>3. NoStrandedWaiter'
    BY <1>1 DEF ClaimVacant, Unreferenced, NoStrandedWaiter
  <2> QED BY <2>1, <2>2, <2>3
<1>2. ASSUME NEW t \in Thread, NEW k \in Key, ClaimOccupied(t, k)
      PROVE  FlightInv'
  BY <1>2 DEF ClaimOccupied, Registered, NoStrandedWaiter
<1>3. ASSUME NEW t \in Thread, Park(t)
      PROVE  FlightInv'
  BY <1>3 DEF Park, Done, Registered, NoStrandedWaiter
<1>4. ASSUME NEW t \in Thread, Unpark(t)
      PROVE  FlightInv'
  BY <1>4 DEF Unpark, Registered, NoStrandedWaiter
<1>5. ASSUME NEW s \in Slot, DropRemove(s)
      PROVE  FlightInv'
  <2>1. FlightTypeOK'
    BY <1>5 DEF DropRemove
  <2>2. Registered'
    BY <1>5 DEF DropRemove, Registered
  <2>3. NoStrandedWaiter'
    BY <1>5 DEF DropRemove, NoStrandedWaiter
  <2> QED BY <2>1, <2>2, <2>3
<1>6. ASSUME NEW s \in Slot, DropSet(s)
      PROVE  FlightInv'
  BY <1>6 DEF DropSet, Registered, NoStrandedWaiter
<1>7. ASSUME NEW s \in Slot, DropNotify(s)
      PROVE  FlightInv'
  BY <1>7 DEF DropNotify, Registered, NoStrandedWaiter
<1>8. CASE UNCHANGED flightVars
  BY <1>8 DEF flightVars, Registered, NoStrandedWaiter
<1> QED
  BY <1>1, <1>2, <1>3, <1>4, <1>5, <1>6, <1>7, <1>8 DEF FlightNext

\* A held slot is the registered one of its key: Tickets are exclusive.
LEMMA FlightExclusive == FlightInv => OneTicketPerKey
  BY DEF FlightInv, Registered, OneTicketPerKey

\* The invariant holds in every behaviour of the flight.
LEMMA FlightInvariance == FlightSpec => []FlightInv
  BY FlightInitInv, FlightStepInv, PTL DEF FlightSpec

\* No two threads ever hold Tickets for one key (Singleflight::claim and
\* Ticket::drop), however many threads, keys and slots there are.
THEOREM FlightTicketsExclusive == FlightSpec => []OneTicketPerKey
  BY FlightInvariance, FlightExclusive, PTL

\* A thread asleep in Singleflight::run always has a notification to come.
THEOREM FlightWaitersWoken == FlightSpec => []NoStrandedWaiter
<1>1. FlightInv => NoStrandedWaiter
  BY DEF FlightInv
<1> QED BY FlightInvariance, <1>1, PTL

=================================================================================
