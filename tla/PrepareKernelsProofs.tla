-------------------------- MODULE PrepareKernelsProofs --------------------------
(* Safety of kernel preparation, for any number of threads, keys and slots,    *)
(* any plans, any set of ephemeral prepares and any cap.                       *)
(*                                                                             *)
(* The three properties rest on one another.  Work on a key is done under a    *)
(* Ticket held for that key (Ticketed), so by the flight's invariant no two    *)
(* threads work on one key; hence what the lookup under the Ticket missed      *)
(* stays missing until the holder itself publishes it (NoSecondBuild), and     *)
(* only then can the fifo be shown to name every key once (Evicting).          *)
EXTENDS PrepareKernels, SingleflightProofs, SequenceTheorems

Phase == {"look", "claim", "recheck", "optimize", "compile", "site", "runClaim",
          "runWait", "runRecheck", "build", "ok", "err"}
Job == {"none", "claimed", "optimized", "unfit", "named", "dropUnfit", "insert",
        "push", "evict", "drop", "released"}

PrepareTypeOK ==
    /\ map \in SUBSET Key /\ fifo \in Seq(Key) /\ fifoLock \in SUBSET Thread
    /\ victim \in [Thread -> SUBSET Key]
    /\ phase \in [Thread -> Phase]
    /\ at \in [Thread -> Nat \ {0}]
    /\ ticket \in [Thread -> [Key -> Slot \cup {NoSlot}]]
    /\ job \in [Thread -> [Key -> Job]]
    /\ outcome \in [Thread -> [Key -> {"none", "ok", "bad"}]]
    /\ built \in [Thread -> SUBSET Key]

\* Between a lookup and the end of its site a thread is at a site of its plan.
AtSite ==
    \A t \in Thread : phase[t] \in {"claim", "recheck", "runClaim", "runWait", "runRecheck", "build"} =>
        at[t] <= Len(Plans[t])

\* How far the work on a key can be in each phase.
Idle == {"none", "released"}
Finishing == {"named", "insert", "push", "evict", "drop", "released"}

StagedAt(t, k) ==
    /\ phase[t] \in {"look", "claim"} => job[t][k] \in {"none", "claimed"}
    /\ phase[t] = "recheck" => job[t][k] \in IF k = Site(t) THEN {"none", "drop"} ELSE {"none", "claimed"}
    /\ phase[t] = "optimize" => job[t][k] \in {"none", "claimed", "optimized", "unfit"}
    /\ phase[t] = "compile" => job[t][k] \in {"none", "dropUnfit"} \cup Finishing
    /\ phase[t] = "build" => job[t][k] \in IF k = Site(t) THEN Finishing ELSE Idle
    /\ phase[t] \in {"site", "runClaim", "runWait", "runRecheck", "ok", "err"} => job[t][k] \in Idle
Staged == \A t \in Thread : \A k \in Key : StagedAt(t, k)

\* A thread that works on a key holds a Ticket for it, its own; the Ticket is
\* given up only in its drop.  Right after the claim no work has begun yet.
HoldsAt(t, k) ==
    /\ job[t][k] \notin Idle => Holds(t, k)
    /\ Holds(t, k) /\ job[t][k] \in Idle => phase[t] \in {"recheck", "runRecheck"} /\ k = Site(t)
    /\ phase[t] \in {"recheck", "runRecheck"} /\ k = Site(t) => Holds(t, k)
    /\ Holds(t, k) =>
        /\ keyOf[ticket[t][k]] = k
        /\ stage[ticket[t][k]] \in {"held", "removed", "set"}
        /\ job[t][k] \notin {"drop", "dropUnfit"} => stage[ticket[t][k]] = "held"
Exclusive ==
    \A t, u \in Thread : \A k, j \in Key : Holds(t, k) /\ ticket[t][k] = ticket[u][j] => t = u
Ticketed == (\A t \in Thread : \A k \in Key : HoldsAt(t, k)) /\ Exclusive

\* A key on its way into the fifo is in neither the fifo nor a victim set; popped
\* keys have left the fifo; and one worker at a time is between pop and removal.
Evicting ==
    /\ \A t \in Thread : \A k \in Jobs(t, {"push"}) : \A i \in DOMAIN fifo : fifo[i] # k
    /\ \A t, u \in Thread : \A k \in Jobs(t, {"push"}) : k \notin victim[u]
    /\ \A t \in Thread : \A i \in DOMAIN fifo : fifo[i] \notin victim[t]
    /\ \A t \in Thread : victim[t] # {} => fifoLock = {t}
    /\ \A t \in Thread : \A k \in Jobs(t, {"evict"}) : fifoLock = {t}
    /\ \A t \in Thread : \A k, j \in Jobs(t, {"evict"}) : k = j

\* Past its compilation a key has a result, unless it is only being let go
\* again after a second lookup that hit.
DecidedAt(t, k) ==
    phase[t] # "recheck" /\ job[t][k] \in {"insert", "push", "evict", "drop", "dropUnfit", "released"}
        => outcome[t][k] # "none"
Decided == \A t \in Thread : \A k \in Key : DecidedAt(t, k)

WorkInv == PrepareTypeOK /\ FlightInv /\ AtSite /\ Staged /\ Ticketed /\ Decided
PrepareInv == WorkInv /\ NoSecondBuild /\ Evicting /\ FifoMatchesMap

\* The initial state satisfies the inductive invariant.
LEMMA PrepareInitInv == PrepareInit => PrepareInv
<1> SUFFICES ASSUME PrepareInit PROVE PrepareInv
  OBVIOUS
<1>1. FlightInv
  BY FlightInitInv DEF PrepareInit
<1>2. PrepareTypeOK
  BY NoSlotAssumption DEF PrepareInit, PrepareTypeOK, Phase, Job
<1>3. AtSite /\ Staged /\ Ticketed /\ Decided
  BY DEF PrepareInit, AtSite, Staged, StagedAt, Ticketed, HoldsAt, Exclusive, Decided, DecidedAt, Idle, Finishing, Holds
<1>4. NoSecondBuild /\ Evicting /\ FifoMatchesMap
  BY DEF PrepareInit, NoSecondBuild, Evicting, FifoMatchesMap, Jobs
<1> QED BY <1>1, <1>2, <1>3, <1>4 DEF PrepareInv, WorkInv

\* A thread at a site of its plan is at a key.
LEMMA SiteIsKey ==
    ASSUME PrepareTypeOK, AtSite, NEW t \in Thread,
           phase[t] \in {"claim", "recheck", "runClaim", "runWait", "runRecheck", "build"}
    PROVE  Site(t) \in Key
  BY PrepareAssumption DEF PrepareTypeOK, AtSite, Site

\* Every step of a prepare is a step of the flight, or leaves it alone.
LEMMA PrepareStepFlight == WorkInv /\ [PrepareNext]_prepareVars => [FlightNext]_flightVars
<1> SUFFICES ASSUME WorkInv, [PrepareNext]_prepareVars PROVE [FlightNext]_flightVars
  OBVIOUS
<1>1. ASSUME NEW t \in Thread, TryClaimMiss(t) PROVE [FlightNext]_flightVars
  <2>1. Site(t) \in Key
    BY <1>1, SiteIsKey DEF WorkInv, TryClaimMiss
  <2> QED BY <1>1, <2>1 DEF TryClaimMiss, FlightNext
<1>2. ASSUME NEW t \in Thread, RunClaim(t) PROVE [FlightNext]_flightVars
  <2>1. Site(t) \in Key
    BY <1>2, SiteIsKey DEF WorkInv, RunClaim
  <2> QED BY <1>2, <2>1 DEF RunClaim, FlightNext
<1>3. ASSUME NEW t \in Thread, RunWait(t) PROVE FlightNext
  BY <1>3 DEF RunWait, FlightNext
<1>4. ASSUME NEW t \in Thread, NEW k \in Key, DropTicket(t, k) PROVE FlightNext
  <2>1. job[t][k] \notin Idle
    BY <1>4 DEF DropTicket, Idle
  <2>2. ticket[t][k] \in Slot
    BY <2>1 DEF WorkInv, PrepareTypeOK, Ticketed, HoldsAt, Holds
  <2> QED BY <1>4, <2>2 DEF DropTicket, FlightNext
<1>5. ASSUME NEW t \in Thread,
             Look(t) \/ Recheck(t) \/ Name(t) \/ BatchEnd(t) \/ SiteStep(t) \/ RunRecheck(t) \/ RunEnd(t)
      PROVE  UNCHANGED flightVars
  BY <1>5 DEF Look, Recheck, Name, BatchEnd, SiteStep, RunRecheck, RunEnd
<1>6. ASSUME NEW t \in Thread, NEW k \in Key,
             Optimize(t, k) \/ Compile(t, k) \/ Insert(t, k) \/ Push(t, k) \/ Evict(t, k)
      PROVE  UNCHANGED flightVars
  BY <1>6 DEF Optimize, Compile, Insert, Push, Evict
<1>7. CASE BatchesOver \/ UNCHANGED prepareVars
  BY <1>7 DEF BatchesOver, prepareVars
<1> QED
  BY <1>1, <1>2, <1>3, <1>4, <1>5, <1>6, <1>7 DEF PrepareNext, Step, WorkerStep

Popped(t, k, all, excess) ==
    /\ all = Append(fifo, k) /\ excess < Len(all)
    /\ fifo' \in Seq(Key) /\ Len(fifo') = Len(all) - excess
    /\ \A i \in 1..Len(fifo') : fifo'[i] = all[i + excess]
    /\ victim' = [victim EXCEPT ![t] = {all[i] : i \in 1..excess}]

\* OptCacheState::insert under the fifo's mutex splits the queue with the new key
\* at its end: what is popped is its front, what stays is the rest.
LEMMA PushPops ==
    ASSUME PrepareTypeOK, NEW t \in Thread, NEW k \in Key, Push(t, k)
    PROVE  \E all \in Seq(Key), excess \in Nat : Popped(t, k, all, excess)
<1> DEFINE all == Append(fifo, k)
           excess == IF Len(all) > Cap THEN Len(all) - Cap ELSE 0
<1>1. all \in Seq(Key) /\ Len(all) = Len(fifo) + 1
  BY DEF PrepareTypeOK
<1>2. excess \in Nat /\ excess < Len(all) /\ excess <= Len(all)
  BY <1>1, PrepareAssumption DEF PrepareTypeOK
<1>3. fifo' = SubSeq(all, excess + 1, Len(all)) /\ victim' = [victim EXCEPT ![t] = {all[i] : i \in 1..excess}]
  BY DEF Push
<1> HIDE DEF all, excess
<1>4. /\ fifo' \in Seq(Key) /\ Len(fifo') = Len(all) - excess
      /\ \A i \in 1..Len(fifo') : fifo'[i] = all[i + excess]
  BY <1>1, <1>2, <1>3, SubSeqProperties
<1> QED BY <1>1, <1>2, <1>3, <1>4 DEF all, Popped

\* Every step preserves the types: where a thread is ...
LEMMA PrepareStepControl ==
    WorkInv /\ [PrepareNext]_prepareVars =>
        phase' \in [Thread -> Phase] /\ at' \in [Thread -> Nat \ {0}]
<1> SUFFICES ASSUME WorkInv, [PrepareNext]_prepareVars
             PROVE  phase' \in [Thread -> Phase] /\ at' \in [Thread -> Nat \ {0}]
  OBVIOUS
<1> DEFINE Moves(t) == \/ UNCHANGED <<phase, at>>
                       \/ \E label \in Phase, i \in {1, at[t], at[t] + 1} :
                            PrepareGoto(t, label) /\ at' = [at EXCEPT ![t] = i]
<1> USE DEF WorkInv, PrepareTypeOK, Phase, PrepareGoto
<1>1. ASSUME NEW t \in Thread, Look(t) \/ TryClaimMiss(t) \/ Recheck(t) PROVE Moves(t)
  BY <1>1 DEF Look, TryClaimMiss, Recheck, NextSite
<1>2. ASSUME NEW t \in Thread, Name(t) \/ BatchEnd(t) \/ SiteStep(t) PROVE Moves(t)
  BY <1>2 DEF Name, BatchEnd, SiteStep, NextOp
<1>3. ASSUME NEW t \in Thread, RunClaim(t) \/ RunWait(t) \/ RunRecheck(t) \/ RunEnd(t) PROVE Moves(t)
  BY <1>3 DEF RunClaim, RunWait, RunRecheck, RunEnd, NextOp
<1>4. ASSUME NEW t \in Thread, NEW k \in Key, WorkerStep(t, k) PROVE Moves(t)
  BY <1>4 DEF WorkerStep, Optimize, Compile, Insert, Push, Evict, DropTicket, NextSite
<1>5. CASE BatchesOver \/ UNCHANGED prepareVars
  BY <1>5 DEF BatchesOver, prepareVars
<1>6. ASSUME NEW t \in Thread, Moves(t)
      PROVE  phase' \in [Thread -> Phase] /\ at' \in [Thread -> Nat \ {0}]
  <2>1. phase' \in [Thread -> Phase]
    BY <1>6
  <2>2. at[t] + 1 \in Nat \ {0}
    OBVIOUS
  <2>3. at' \in [Thread -> Nat \ {0}]
    BY <1>6, <2>2
  <2> QED BY <2>1, <2>3
<1> QED
  BY <1>1, <1>2, <1>3, <1>4, <1>5, <1>6 DEF PrepareNext, Step

\* Updating one entry of a table by thread and key keeps its type.
LEMMA TableUpdate ==
    ASSUME NEW S, NEW f \in [Thread -> [Key -> S]], NEW t \in Thread, NEW k, NEW v \in S
    PROVE  [f EXCEPT ![t][k] = v] \in [Thread -> [Key -> S]]
  OBVIOUS

\* ... how far it is with each key ...
LEMMA PrepareStepJobs ==
    WorkInv /\ [PrepareNext]_prepareVars =>
        /\ job' \in [Thread -> [Key -> Job]]
        /\ outcome' \in [Thread -> [Key -> {"none", "ok", "bad"}]]
        /\ built' \in [Thread -> SUBSET Key]
<1> DEFINE Typed == /\ job' \in [Thread -> [Key -> Job]]
                    /\ outcome' \in [Thread -> [Key -> {"none", "ok", "bad"}]]
                    /\ built' \in [Thread -> SUBSET Key]
<1> SUFFICES ASSUME WorkInv, [PrepareNext]_prepareVars PROVE Typed
  OBVIOUS
<1> USE DEF WorkInv, PrepareTypeOK, Job, SetJob, SetOutcome
<1>1. ASSUME NEW t \in Thread, Look(t) \/ TryClaimMiss(t) \/ SiteStep(t) \/ RunClaim(t) \/ RunWait(t) \/ RunEnd(t)
      PROVE  Typed
  BY <1>1 DEF Look, TryClaimMiss, SiteStep, RunClaim, RunWait, RunEnd
<1>2. ASSUME NEW t \in Thread, Recheck(t) PROVE Typed
  BY <1>2 DEF Recheck
<1>3. ASSUME NEW t \in Thread, Name(t) PROVE Typed
  <2>1. job' \in [Thread -> [Key -> Job]]
    BY <1>3 DEF Name, NamedAs
  <2>2. outcome' \in [Thread -> [Key -> {"none", "ok", "bad"}]]
    BY <1>3 DEF Name
  <2> QED BY <1>3, <2>1, <2>2 DEF Name
<1>4. ASSUME NEW t \in Thread, BatchEnd(t) PROVE Typed
  BY <1>4 DEF BatchEnd
<1>5. ASSUME NEW t \in Thread, RunRecheck(t) PROVE Typed
  BY <1>5 DEF RunRecheck
<1>6. ASSUME NEW t \in Thread, NEW k \in Key, Optimize(t, k) PROVE Typed
  BY <1>6 DEF Optimize
<1>7. ASSUME NEW t \in Thread, NEW k \in Key, Compile(t, k) PROVE Typed
  <2>1. PICK state \in Job : job' = [job EXCEPT ![t][k] = state]
    BY <1>7 DEF Compile
  <2>2. PICK result \in {"ok", "bad"} : outcome' = [outcome EXCEPT ![t][k] = result]
    BY <1>7 DEF Compile
  <2>3. job' \in [Thread -> [Key -> Job]]
    BY <2>1
  <2>4. outcome' \in [Thread -> [Key -> {"none", "ok", "bad"}]]
    BY <2>2
  <2> QED BY <1>7, <2>3, <2>4 DEF Compile
<1>8. ASSUME NEW t \in Thread, NEW k \in Key, Insert(t, k) \/ Push(t, k) \/ Evict(t, k) PROVE Typed
  <2>1. PICK state \in Job : job' = [job EXCEPT ![t][k] = state]
    BY <1>8 DEF Insert, Push, Evict
  <2>2. job' \in [Thread -> [Key -> Job]]
    BY <2>1
  <2> QED BY <1>8, <2>2 DEF Insert, Push, Evict
<1>9. ASSUME NEW t \in Thread, NEW k \in Key, DropTicket(t, k) PROVE Typed
  <2>1. \/ UNCHANGED job
        \/ \E state \in Job : job' = [job EXCEPT ![t][k] = state]
    BY <1>9 DEF DropTicket
  <2>2. job' \in [Thread -> [Key -> Job]]
    <3>1. ASSUME NEW state \in Job, job' = [job EXCEPT ![t][k] = state]
          PROVE  job' \in [Thread -> [Key -> Job]]
      BY <3>1
    <3> QED BY <2>1, <3>1
  <2> QED BY <1>9, <2>2 DEF DropTicket
<1>10. CASE BatchesOver \/ UNCHANGED prepareVars
  BY <1>10 DEF BatchesOver, prepareVars
<1> QED
  BY <1>1, <1>2, <1>3, <1>4, <1>5, <1>6, <1>7, <1>8, <1>9, <1>10 DEF PrepareNext, Step, WorkerStep

\* ... and which Tickets it holds; and those of the cache.
LEMMA PrepareStepType == WorkInv /\ [PrepareNext]_prepareVars => PrepareTypeOK'
<1> SUFFICES ASSUME WorkInv, [PrepareNext]_prepareVars PROVE PrepareTypeOK'
  OBVIOUS
<1> DEFINE Typed == /\ ticket' \in [Thread -> [Key -> Slot \cup {NoSlot}]]
                    /\ map' \in SUBSET Key /\ fifo' \in Seq(Key) /\ fifoLock' \in SUBSET Thread
                    /\ victim' \in [Thread -> SUBSET Key]
<1> USE DEF WorkInv, PrepareTypeOK, cache
<1>1. ASSUME NEW t \in Thread, TryClaimMiss(t) PROVE Typed
  <2>1. \/ UNCHANGED ticket
        \/ \E s \in Slot : ticket' = [ticket EXCEPT ![t][Site(t)] = s]
    BY <1>1 DEF TryClaimMiss
  <2>2. ASSUME NEW s \in Slot, ticket' = [ticket EXCEPT ![t][Site(t)] = s]
        PROVE  ticket' \in [Thread -> [Key -> Slot \cup {NoSlot}]]
    BY <2>2
  <2> QED BY <1>1, <2>1, <2>2 DEF TryClaimMiss
<1>2. ASSUME NEW t \in Thread, RunClaim(t) PROVE Typed
  <2>1. \/ UNCHANGED ticket
        \/ \E s \in Slot : ticket' = [ticket EXCEPT ![t][Site(t)] = s]
    BY <1>2 DEF RunClaim
  <2>2. ASSUME NEW s \in Slot, ticket' = [ticket EXCEPT ![t][Site(t)] = s]
        PROVE  ticket' \in [Thread -> [Key -> Slot \cup {NoSlot}]]
    BY <2>2
  <2> QED BY <1>2, <2>1, <2>2 DEF RunClaim
<1>3. ASSUME NEW t \in Thread,
             \/ Look(t) \/ Recheck(t) \/ Name(t) \/ BatchEnd(t)
             \/ SiteStep(t) \/ RunWait(t) \/ RunRecheck(t) \/ RunEnd(t)
      PROVE  Typed
  BY <1>3 DEF Look, Recheck, Name, BatchEnd, SiteStep, RunWait, RunRecheck, RunEnd
<1>4. ASSUME NEW t \in Thread, NEW k \in Key, Optimize(t, k) \/ Compile(t, k) PROVE Typed
  BY <1>4 DEF Optimize, Compile
<1>5. ASSUME NEW t \in Thread, NEW k \in Key, Insert(t, k) PROVE Typed
  BY <1>5 DEF Insert
<1>6. ASSUME NEW t \in Thread, NEW k \in Key, Push(t, k) PROVE Typed
  <2>1. PICK all \in Seq(Key), excess \in Nat : Popped(t, k, all, excess)
    BY <1>6, PushPops
  <2>2. {all[i] : i \in 1..excess} \subseteq Key
    BY <2>1 DEF Popped
  <2>3. victim' \in [Thread -> SUBSET Key]
    BY <2>1, <2>2 DEF Popped
  <2> QED BY <1>6, <2>1, <2>3 DEF Push, Popped
<1>7. ASSUME NEW t \in Thread, NEW k \in Key, Evict(t, k) PROVE Typed
  BY <1>7 DEF Evict, Evicted
<1>8. ASSUME NEW t \in Thread, NEW k \in Key, DropTicket(t, k) PROVE Typed
  <2>1. \/ UNCHANGED ticket
        \/ ticket' = [ticket EXCEPT ![t][k] = NoSlot]
    BY <1>8 DEF DropTicket
  <2>2. ASSUME ticket' = [ticket EXCEPT ![t][k] = NoSlot]
        PROVE  ticket' \in [Thread -> [Key -> Slot \cup {NoSlot}]]
    BY <2>2
  <2> QED BY <1>8, <2>1, <2>2 DEF DropTicket
<1>9. CASE BatchesOver \/ UNCHANGED prepareVars
  BY <1>9 DEF BatchesOver, prepareVars
<1>10. Typed
  BY <1>1, <1>2, <1>3, <1>4, <1>5, <1>6, <1>7, <1>8, <1>9 DEF PrepareNext, Step, WorkerStep
<1> QED
  BY <1>10, PrepareStepControl, PrepareStepJobs

\* A thread only goes to a site of its plan.
LEMMA PrepareStepAtSite == WorkInv /\ [PrepareNext]_prepareVars => AtSite'
<1> SUFFICES ASSUME WorkInv, [PrepareNext]_prepareVars PROVE AtSite'
  OBVIOUS
<1> USE DEF WorkInv, PrepareTypeOK, AtSite, AtEnd, Phase, PrepareGoto, SetJob, SetOutcome
<1>1. ASSUME NEW t \in Thread, Look(t) PROVE AtSite'
  <2>1. Len(Plans[t]) \in Nat
    BY PrepareAssumption
  <2>2. phase'[t] \in {"look", "site", "optimize"} \/ (phase'[t] = "claim" /\ at' = at /\ at[t] <= Len(Plans[t]))
    BY <1>1, <2>1 DEF Look, NextSite
  <2>3. \A u \in Thread : u # t => phase'[u] = phase[u] /\ at'[u] = at[u]
    BY <1>1 DEF Look, NextSite
  <2> QED BY <2>2, <2>3
<1>2. ASSUME NEW t \in Thread, TryClaimMiss(t) PROVE AtSite'
  BY <1>2 DEF TryClaimMiss, NextSite
<1>3. ASSUME NEW t \in Thread, Recheck(t) PROVE AtSite'
  BY <1>3 DEF Recheck, NextSite
<1>4. ASSUME NEW t \in Thread, Name(t) PROVE AtSite'
  BY <1>4 DEF Name, NamedAs
<1>5. ASSUME NEW t \in Thread, BatchEnd(t) PROVE AtSite'
  BY <1>5 DEF BatchEnd
<1>6. ASSUME NEW t \in Thread, SiteStep(t) PROVE AtSite'
  BY <1>6 DEF SiteStep, NextOp
<1>7. ASSUME NEW t \in Thread, RunClaim(t) PROVE AtSite'
  BY <1>7 DEF RunClaim
<1>8. ASSUME NEW t \in Thread, RunWait(t) PROVE AtSite'
  BY <1>8 DEF RunWait
<1>9. ASSUME NEW t \in Thread, RunRecheck(t) PROVE AtSite'
  BY <1>9 DEF RunRecheck
<1>10. ASSUME NEW t \in Thread, RunEnd(t) PROVE AtSite'
  BY <1>10 DEF RunEnd, NextOp
<1>11. ASSUME NEW t \in Thread, NEW k \in Key, Optimize(t, k) PROVE AtSite'
  BY <1>11 DEF Optimize
<1>12. ASSUME NEW t \in Thread, NEW k \in Key, Compile(t, k) PROVE AtSite'
  BY <1>12 DEF Compile
<1>13. ASSUME NEW t \in Thread, NEW k \in Key, Insert(t, k) PROVE AtSite'
  BY <1>13 DEF Insert
<1>14. ASSUME NEW t \in Thread, NEW k \in Key, Push(t, k) PROVE AtSite'
  BY <1>14 DEF Push
<1>15. ASSUME NEW t \in Thread, NEW k \in Key, Evict(t, k) PROVE AtSite'
  BY <1>15 DEF Evict
<1>16. ASSUME NEW t \in Thread, NEW k \in Key, DropTicket(t, k) PROVE AtSite'
  BY <1>16 DEF DropTicket, NextSite
<1>17. CASE BatchesOver \/ UNCHANGED prepareVars
  BY <1>17 DEF BatchesOver, prepareVars, cache, flightVars
<1> QED
  BY <1>1, <1>2, <1>3, <1>4, <1>5, <1>6, <1>7, <1>8, <1>9, <1>10, <1>11, <1>12, <1>13, <1>14, <1>15, <1>16, <1>17
  DEF PrepareNext, Step, WorkerStep

\* A key that a claiming thread finds vacant is not one it already works on.
LEMMA VacantUntaken ==
    ASSUME WorkInv, NEW t \in Thread, phase[t] = "claim", Vacant(Site(t))
    PROVE  job[t][Site(t)] = "none"
<1>1. Site(t) \in Key
  BY SiteIsKey DEF WorkInv
<1>2. job[t][Site(t)] # "claimed"
  <2> SUFFICES ASSUME job[t][Site(t)] = "claimed" PROVE FALSE
    OBVIOUS
  <2>1. Holds(t, Site(t)) /\ stage[ticket[t][Site(t)]] = "held" /\ keyOf[ticket[t][Site(t)]] = Site(t)
    BY <1>1 DEF WorkInv, Ticketed, HoldsAt, Idle
  <2> QED BY <1>1, <2>1 DEF WorkInv, PrepareTypeOK, Holds, FlightInv, Registered, Vacant
<1> QED BY <1>1, <1>2 DEF WorkInv, Staged, StagedAt

\* The phases of a prepare follow the work on its keys.
LEMMA PrepareStepStaged == WorkInv /\ [PrepareNext]_prepareVars => Staged'
<1> SUFFICES ASSUME WorkInv, [PrepareNext]_prepareVars PROVE Staged'
  OBVIOUS
<1> USE DEF WorkInv, PrepareTypeOK, Staged, StagedAt, Idle, Finishing, Site, Job, PrepareGoto, SetJob, SetOutcome
<1>1. ASSUME NEW t \in Thread, Look(t) PROVE Staged'
  BY <1>1 DEF Look, NextSite, Jobs
<1>2. ASSUME NEW t \in Thread, TryClaimMiss(t) PROVE Staged'
  <2>1. CASE Taken(t) /\ NextSite(t)
    BY <1>2, <2>1 DEF TryClaimMiss, NextSite
  <2>2. CASE Vacant(Site(t)) /\ PrepareGoto(t, "recheck") /\ UNCHANGED <<at, job>>
    <3>1. job[t][Site(t)] = "none"
      BY <1>2, <2>2, VacantUntaken DEF TryClaimMiss
    <3> QED BY <1>2, <2>2, <3>1 DEF TryClaimMiss
  <2> QED BY <1>2, <2>1, <2>2 DEF TryClaimMiss, ClaimVacant
<1>3. ASSUME NEW t \in Thread, Recheck(t) PROVE Staged'
  BY <1>3 DEF Recheck, NextSite
<1>4. ASSUME NEW t \in Thread, Name(t) PROVE Staged'
  <2>1. ASSUME NEW k \in Key PROVE job'[t][k] \in {"none", "named", "dropUnfit"}
    BY <1>4 DEF Name, NamedAs, Jobs
  <2>2. ASSUME NEW u \in Thread, u # t PROVE phase'[u] = phase[u] /\ job'[u] = job[u] /\ at'[u] = at[u]
    BY <1>4, <2>2 DEF Name
  <2>3. phase'[t] = "compile"
    BY <1>4 DEF Name
  <2> QED BY <2>1, <2>2, <2>3
<1>5. ASSUME NEW t \in Thread, BatchEnd(t) PROVE Staged'
  <2>1. \A k \in Key : job[t][k] \in Idle
    BY <1>5 DEF BatchEnd, Ticketed, HoldsAt
  <2> QED BY <1>5, <2>1 DEF BatchEnd
<1>6. ASSUME NEW t \in Thread, SiteStep(t) PROVE Staged'
  BY <1>6 DEF SiteStep, NextOp
<1>7. ASSUME NEW t \in Thread, RunClaim(t) PROVE Staged'
  BY <1>7 DEF RunClaim
<1>8. ASSUME NEW t \in Thread, RunWait(t) PROVE Staged'
  BY <1>8 DEF RunWait
<1>9. ASSUME NEW t \in Thread, RunRecheck(t) PROVE Staged'
  BY <1>9 DEF RunRecheck
<1>10. ASSUME NEW t \in Thread, RunEnd(t) PROVE Staged'
  <2>1. Site(t) \in Key
    BY <1>10, SiteIsKey DEF RunEnd
  <2>2. \A k \in Key : job[t][k] \in Idle
    <3>1. job[t][Site(t)] \in Idle
      BY <1>10, <2>1 DEF RunEnd, Ticketed, HoldsAt
    <3>2. \A k \in Key : k # Site(t) => job[t][k] \in Idle
      BY <1>10 DEF RunEnd
    <3> QED BY <3>1, <3>2
  <2> QED BY <1>10, <2>2 DEF RunEnd, NextOp
<1>11. ASSUME NEW t \in Thread, NEW k \in Key, Optimize(t, k) PROVE Staged'
  BY <1>11 DEF Optimize
<1>12. ASSUME NEW t \in Thread, NEW k \in Key, Compile(t, k) PROVE Staged'
  <2>1. PICK state \in {"drop", "insert"} : job' = [job EXCEPT ![t][k] = state]
    BY <1>12 DEF Compile
  <2>2. phase' = phase /\ at' = at /\ phase[t] \in {"compile", "build"} /\ job[t][k] = "named"
    BY <1>12 DEF Compile
  <2>3. phase[t] = "build" => k = Site(t)
    BY <2>2
  <2>4. \A u \in Thread : u # t => job'[u] = job[u]
    BY <2>1
  <2>5. \A j \in Key : j # k => job'[t][j] = job[t][j]
    BY <2>1
  <2>6. job'[t][k] \in {"drop", "insert"}
    BY <2>1
  <2>7. ASSUME NEW u \in Thread, NEW j \in Key, u # t PROVE StagedAt(u, j)'
    BY <2>2, <2>4, <2>7
  <2>8. ASSUME NEW j \in Key, j # k PROVE StagedAt(t, j)'
    BY <2>2, <2>5, <2>8
  <2>9. StagedAt(t, k)'
    BY <2>2, <2>3, <2>6
  <2> QED BY <2>7, <2>8, <2>9
<1>13. ASSUME NEW t \in Thread, NEW k \in Key, Insert(t, k) PROVE Staged'
  BY <1>13 DEF Insert
<1>14. ASSUME NEW t \in Thread, NEW k \in Key, Push(t, k) PROVE Staged'
  BY <1>14 DEF Push
<1>15. ASSUME NEW t \in Thread, NEW k \in Key, Evict(t, k) PROVE Staged'
  BY <1>15 DEF Evict
<1>16. ASSUME NEW t \in Thread, NEW k \in Key, DropTicket(t, k) PROVE Staged'
  BY <1>16 DEF DropTicket, NextSite
<1>17. CASE BatchesOver \/ UNCHANGED prepareVars
  BY <1>17 DEF BatchesOver, prepareVars, cache, flightVars
<1> QED
  BY <1>1, <1>2, <1>3, <1>4, <1>5, <1>6, <1>7, <1>8, <1>9, <1>10, <1>11, <1>12, <1>13, <1>14, <1>15, <1>16, <1>17
  DEF PrepareNext, Step, WorkerStep

\* A key past its compilation has a result.
LEMMA PrepareStepDecided == WorkInv /\ [PrepareNext]_prepareVars => Decided'
<1> SUFFICES ASSUME WorkInv, [PrepareNext]_prepareVars PROVE Decided'
  OBVIOUS
<1> USE DEF WorkInv, PrepareTypeOK, Decided, DecidedAt, PrepareGoto, SetJob, SetOutcome
<1>1. ASSUME NEW t \in Thread, Look(t) PROVE Decided'
  BY <1>1 DEF Look, NextSite
<1>2. ASSUME NEW t \in Thread, TryClaimMiss(t) PROVE Decided'
  BY <1>2 DEF TryClaimMiss, NextSite
<1>3. ASSUME NEW t \in Thread, Recheck(t) PROVE Decided'
  <2>1. \A k \in Key : job'[t][k] \in {"none", "claimed"} \/ phase'[t] = "recheck"
    BY <1>3 DEF Recheck, NextSite, Staged, StagedAt
  <2>2. \A u \in Thread : u # t => phase'[u] = phase[u] /\ job'[u] = job[u]
    BY <1>3 DEF Recheck, NextSite
  <2>3. outcome' = outcome
    BY <1>3 DEF Recheck
  <2> QED BY <2>1, <2>2, <2>3
<1>4. ASSUME NEW t \in Thread, Name(t) PROVE Decided'
  BY <1>4 DEF Name, NamedAs
<1>5. ASSUME NEW t \in Thread, BatchEnd(t) PROVE Decided'
  BY <1>5 DEF BatchEnd
<1>6. ASSUME NEW t \in Thread, SiteStep(t) PROVE Decided'
  BY <1>6 DEF SiteStep, NextOp
<1>7. ASSUME NEW t \in Thread, RunClaim(t) PROVE Decided'
  BY <1>7 DEF RunClaim
<1>8. ASSUME NEW t \in Thread, RunWait(t) PROVE Decided'
  BY <1>8 DEF RunWait
<1>9. ASSUME NEW t \in Thread, RunRecheck(t) PROVE Decided'
  BY <1>9 DEF RunRecheck
<1>10. ASSUME NEW t \in Thread, RunEnd(t) PROVE Decided'
  BY <1>10 DEF RunEnd, NextOp
<1>11. ASSUME NEW t \in Thread, NEW k \in Key, Optimize(t, k) PROVE Decided'
  BY <1>11 DEF Optimize
<1>12. ASSUME NEW t \in Thread, NEW k \in Key, Compile(t, k) PROVE Decided'
  <2>1. PICK state \in {"drop", "insert"} : job' = [job EXCEPT ![t][k] = state]
    BY <1>12 DEF Compile
  <2>2. PICK result \in {"ok", "bad"} : outcome' = [outcome EXCEPT ![t][k] = result]
    BY <1>12 DEF Compile
  <2>3. phase' = phase
    BY <1>12 DEF Compile
  <2>4. outcome'[t][k] # "none"
    BY <2>2
  <2>5. ASSUME NEW u \in Thread, NEW j \in Key, u # t \/ j # k
        PROVE  job'[u][j] = job[u][j] /\ outcome'[u][j] = outcome[u][j]
    BY <2>1, <2>2, <2>5
  <2> QED BY <2>3, <2>4, <2>5
<1>13. ASSUME NEW t \in Thread, NEW k \in Key, Insert(t, k) PROVE Decided'
  BY <1>13 DEF Insert
<1>14. ASSUME NEW t \in Thread, NEW k \in Key, Push(t, k) PROVE Decided'
  BY <1>14 DEF Push
<1>15. ASSUME NEW t \in Thread, NEW k \in Key, Evict(t, k) PROVE Decided'
  BY <1>15 DEF Evict
<1>16. ASSUME NEW t \in Thread, NEW k \in Key, DropTicket(t, k) PROVE Decided'
  <2>1. CASE phase[t] = "recheck"
    <3>1. \A j \in Key : job'[t][j] \in {"none", "claimed"} \/ phase'[t] = "recheck"
      BY <1>16, <2>1 DEF DropTicket, NextSite, Staged, StagedAt
    <3>2. \A u \in Thread : u # t => phase'[u] = phase[u] /\ job'[u] = job[u]
      BY <1>16, <2>1 DEF DropTicket, NextSite
    <3> QED BY <1>16, <3>1, <3>2 DEF DropTicket
  <2>2. CASE phase[t] # "recheck"
    <3>1. outcome[t][k] # "none"
      BY <1>16, <2>2 DEF DropTicket
    <3>2. \A u \in Thread, j \in Key : u # t \/ j # k => job'[u][j] = job[u][j]
      BY <1>16, <2>2 DEF DropTicket
    <3>3. phase' = phase /\ outcome' = outcome
      BY <1>16, <2>2 DEF DropTicket
    <3> QED BY <3>1, <3>2, <3>3
  <2> QED BY <2>1, <2>2
<1>17. CASE BatchesOver \/ UNCHANGED prepareVars
  BY <1>17 DEF BatchesOver, prepareVars, cache, flightVars
<1> QED
  BY <1>1, <1>2, <1>3, <1>4, <1>5, <1>6, <1>7, <1>8, <1>9, <1>10, <1>11, <1>12, <1>13, <1>14, <1>15, <1>16, <1>17
  DEF PrepareNext, Step, WorkerStep

\* What a step leaves alone of a thread's work on a key keeps its Ticket in order.
LEMMA HoldsFrame ==
    ASSUME NEW u \in Thread, NEW j \in Key, HoldsAt(u, j),
           phase'[u] = phase[u], at'[u] = at[u], job'[u][j] = job[u][j], ticket'[u][j] = ticket[u][j],
           Holds(u, j) => /\ keyOf'[ticket[u][j]] = keyOf[ticket[u][j]]
                          /\ stage'[ticket[u][j]] = stage[ticket[u][j]]
    PROVE  HoldsAt(u, j)'
  BY DEF HoldsAt, Holds, Site

\* A step of t that touches no Ticket only has to keep those of t in order.
LEMMA QuietTickets ==
    ASSUME Ticketed, UNCHANGED <<ticket, keyOf, stage>>, NEW t \in Thread,
           \A u \in Thread : u # t => phase'[u] = phase[u] /\ at'[u] = at[u] /\ job'[u] = job[u],
           \A j \in Key : HoldsAt(t, j)'
    PROVE  Ticketed'
<1>1. ASSUME NEW u \in Thread, NEW j \in Key PROVE HoldsAt(u, j)'
  <2>1. CASE u = t
    BY <2>1
  <2>2. CASE u # t
    <3>1. HoldsAt(u, j)
      BY DEF Ticketed
    <3> QED BY <2>2, <3>1, HoldsFrame
  <2> QED BY <2>1, <2>2
<1>2. Exclusive'
  BY DEF Ticketed, Exclusive, Holds
<1> QED BY <1>1, <1>2 DEF Ticketed

\* A claim gives the thread a Ticket nobody has, for the key of its site.
LEMMA ClaimTickets ==
    ASSUME WorkInv, NEW t \in Thread, NEW s \in Slot, Site(t) \in Key,
           ClaimVacant(Site(t), s), ticket' = [ticket EXCEPT ![t][Site(t)] = s],
           UNCHANGED <<job, at>>, job[t][Site(t)] \in Idle,
           NEW label \in {"recheck", "runRecheck"}, PrepareGoto(t, label),
           phase[t] \notin {"recheck", "runRecheck"}
    PROVE  Ticketed'
<1>1. phase'[t] = label /\ \A u \in Thread : u # t => phase'[u] = phase[u]
  BY DEF WorkInv, PrepareTypeOK, PrepareGoto
<1>2. \A u \in Thread, j \in Key : u # t \/ j # Site(t) => ticket'[u][j] = ticket[u][j]
  BY DEF WorkInv, PrepareTypeOK
<1>3. ticket'[t][Site(t)] = s
  BY DEF WorkInv, PrepareTypeOK
<1>4. keyOf'[s] = Site(t) /\ stage'[s] = "held" /\ stage[s] \in {"unused", "notified"}
  BY DEF WorkInv, FlightInv, FlightTypeOK, ClaimVacant, Unreferenced
<1>5. \A r \in Slot : r # s => keyOf'[r] = keyOf[r] /\ stage'[r] = stage[r]
  BY DEF WorkInv, FlightInv, FlightTypeOK, ClaimVacant
<1>6. ASSUME NEW u \in Thread, NEW j \in Key PROVE ticket[u][j] # s
  <2>1. HoldsAt(u, j)
    BY DEF WorkInv, Ticketed
  <2> QED BY <1>4, <2>1, NoSlotAssumption DEF HoldsAt, Holds
<1>7. ASSUME NEW j \in Key, j # Site(t) PROVE HoldsAt(t, j)'
  <2>1. HoldsAt(t, j)
    BY DEF WorkInv, Ticketed
  <2>2. Holds(t, j) => job[t][j] \notin Idle
    BY <2>1 DEF HoldsAt
  <2>3. Holds(t, j) => ticket[t][j] \in Slot
    BY DEF Holds, WorkInv, PrepareTypeOK
  <2>4. Site(t)' = Site(t)
    BY DEF Site
  <2> QED BY <1>1, <1>2, <1>5, <1>6, <1>7, <2>1, <2>2, <2>3, <2>4 DEF HoldsAt, Holds
<1>8. HoldsAt(t, Site(t))'
  <2>1. Site(t)' = Site(t)
    BY DEF Site
  <2> QED BY <1>1, <1>3, <1>4, <2>1, NoSlotAssumption DEF HoldsAt, Holds
<1>9. ASSUME NEW u \in Thread, u # t, NEW j \in Key PROVE HoldsAt(u, j)'
  <2>1. HoldsAt(u, j)
    BY DEF WorkInv, Ticketed
  <2>2. Holds(u, j) => ticket[u][j] \in Slot
    BY DEF Holds, WorkInv, PrepareTypeOK
  <2> QED BY <1>1, <1>2, <1>5, <1>6, <1>9, <2>1, <2>2, HoldsFrame
<1>10. Exclusive'
  BY <1>2, <1>3, <1>6 DEF Exclusive, Holds, WorkInv, Ticketed
<1>11. Site(t)' = Site(t)
  BY DEF Site
<1> QED BY <1>7, <1>8, <1>9, <1>10, <1>11 DEF Ticketed

\* Letting go of a Ticket, in three statements, concerns that Ticket alone.
LEMMA DropTickets ==
    ASSUME WorkInv, NEW t \in Thread, NEW k \in Key, DropTicket(t, k)
    PROVE  Ticketed'
<1>1. job[t][k] \in {"drop", "dropUnfit"} /\ job[t][k] \notin Idle
  BY DEF DropTicket, Idle
<1>2. HoldsAt(t, k) /\ Holds(t, k)
  BY <1>1 DEF WorkInv, Ticketed, HoldsAt
<1>3. ticket[t][k] \in Slot
  BY <1>2 DEF Holds, WorkInv, PrepareTypeOK
<1>4. keyOf' = keyOf /\ \A r \in Slot : r # ticket[t][k] => stage'[r] = stage[r]
  BY <1>3 DEF DropTicket, DropRemove, DropSet, DropNotify, WorkInv, FlightInv, FlightTypeOK
<1>5. ASSUME NEW u \in Thread, NEW j \in Key, Holds(u, j), u # t \/ j # k
      PROVE  ticket[u][j] \in Slot /\ ticket[u][j] # ticket[t][k]
  <2>1. HoldsAt(u, j)
    BY DEF WorkInv, Ticketed
  <2> QED BY <1>2, <1>5, <2>1 DEF Holds, HoldsAt, Exclusive, WorkInv, Ticketed, PrepareTypeOK
<1>6. ASSUME NEW u \in Thread, NEW j \in Key, HoldsAt(u, j), u # t \/ j # k,
             phase'[u] = phase[u], at'[u] = at[u], job'[u][j] = job[u][j], ticket'[u][j] = ticket[u][j]
      PROVE  HoldsAt(u, j)'
  BY <1>4, <1>5, <1>6, HoldsFrame
<1>7. CASE DropRemove(ticket[t][k]) \/ DropSet(ticket[t][k])
  <2>1. UNCHANGED <<ticket, job, phase, at>>
    BY <1>3, <1>7 DEF DropTicket, DropRemove, DropSet, DropNotify
  <2>2. stage'[ticket[t][k]] \in {"removed", "set"}
    BY <1>3, <1>7 DEF DropRemove, DropSet, WorkInv, FlightInv, FlightTypeOK
  <2>3. HoldsAt(t, k)'
    BY <1>1, <1>2, <1>4, <2>1, <2>2 DEF HoldsAt, Holds, Site
  <2>4. Exclusive'
    BY <2>1 DEF Exclusive, Holds, WorkInv, Ticketed
  <2> QED BY <1>6, <2>1, <2>3, <2>4 DEF WorkInv, Ticketed
<1>8. CASE DropNotify(ticket[t][k])
  <2>1. /\ ticket' = [ticket EXCEPT ![t][k] = NoSlot]
        /\ SetJob(t, k, IF phase[t] = "recheck" THEN "none" ELSE "released")
        /\ IF phase[t] = "recheck" THEN NextSite(t) ELSE UNCHANGED <<phase, at>>
    BY <1>8 DEF DropTicket, DropRemove, DropSet, DropNotify
  <2>2. ticket'[t][k] = NoSlot /\ job'[t][k] \in Idle
    BY <2>1 DEF WorkInv, PrepareTypeOK, SetJob, Idle
  <2>3. \A u \in Thread, j \in Key : u # t \/ j # k => ticket'[u][j] = ticket[u][j] /\ job'[u][j] = job[u][j]
    BY <2>1 DEF WorkInv, PrepareTypeOK, SetJob
  <2>4. \A u \in Thread : u # t => phase'[u] = phase[u] /\ at'[u] = at[u]
    BY <2>1 DEF WorkInv, PrepareTypeOK, NextSite, PrepareGoto
  <2>5. \A u \in Thread, j \in Key : HoldsAt(u, j)
    BY DEF WorkInv, Ticketed
  <2>6. Exclusive'
    BY <1>2, <2>2, <2>3 DEF Exclusive, Holds, WorkInv, Ticketed
  <2>7. CASE phase[t] = "recheck"
    <3>1. phase'[t] = "look" /\ job[t][k] \notin {"none", "claimed"}
      BY <1>1, <2>1, <2>7 DEF WorkInv, PrepareTypeOK, NextSite, PrepareGoto
    <3>2. k = Site(t)
      BY <2>7, <3>1 DEF WorkInv, Staged, StagedAt
    <3>3. ASSUME NEW j \in Key, j # k PROVE HoldsAt(t, j)'
      <4>1. Holds(t, j) => job[t][j] \notin Idle
        BY <2>5, <3>2, <3>3 DEF HoldsAt
      <4>2. Holds(t, j) => stage'[ticket[t][j]] = stage[ticket[t][j]]
        BY <1>4, <1>5, <3>3
      <4> QED BY <1>4, <2>3, <2>5, <3>1, <3>3, <4>1, <4>2 DEF HoldsAt, Holds
    <3>4. HoldsAt(t, k)'
      BY <2>2, <3>1 DEF HoldsAt, Holds
    <3> QED BY <1>6, <2>3, <2>4, <2>5, <2>6, <3>3, <3>4 DEF Ticketed
  <2>8. CASE phase[t] # "recheck"
    <3>1. phase'[t] = phase[t] /\ at'[t] = at[t]
      BY <2>1, <2>8
    <3>2. phase[t] # "runRecheck"
      BY <1>1 DEF WorkInv, Staged, StagedAt
    <3>3. HoldsAt(t, k)'
      BY <2>2, <2>8, <3>1, <3>2 DEF HoldsAt, Holds
    <3> QED BY <1>6, <2>3, <2>4, <2>5, <2>6, <3>1, <3>3 DEF Ticketed
  <2> QED BY <2>7, <2>8
<1> QED BY <1>7, <1>8 DEF DropTicket

\* Work on a key stays under the Ticket claimed for it.
LEMMA PrepareStepTicketed == WorkInv /\ [PrepareNext]_prepareVars => Ticketed'
<1> SUFFICES ASSUME WorkInv, [PrepareNext]_prepareVars PROVE Ticketed'
  OBVIOUS
<1>a. PrepareTypeOK /\ Ticketed /\ Staged /\ \A u \in Thread, j \in Key : HoldsAt(u, j)
  BY DEF WorkInv, Ticketed
<1> DEFINE Others(t) == \A u \in Thread : u # t => phase'[u] = phase[u] /\ at'[u] = at[u] /\ job'[u] = job[u]
           Still == UNCHANGED <<ticket, keyOf, stage>>
<1> USE DEF PrepareGoto, SetJob
<1>1. ASSUME NEW t \in Thread, TryClaimMiss(t) PROVE Ticketed'
  <2>1. Site(t) \in Key
    BY <1>1, SiteIsKey DEF WorkInv, TryClaimMiss
  <2>2. CASE Taken(t) /\ NextSite(t) /\ UNCHANGED <<flightVars, ticket>>
    <3>1. Still /\ Others(t) /\ job' = job /\ phase[t] = "claim" /\ phase'[t] = "look"
      BY <1>1, <1>a, <2>2 DEF TryClaimMiss, NextSite, PrepareTypeOK, flightVars
    <3>2. \A j \in Key : HoldsAt(t, j)'
      BY <1>a, <3>1 DEF HoldsAt, Holds
    <3> QED BY <1>a, <3>1, <3>2, QuietTickets
  <2>3. ASSUME NEW s \in Slot, ClaimVacant(Site(t), s), ticket' = [ticket EXCEPT ![t][Site(t)] = s],
               PrepareGoto(t, "recheck"), UNCHANGED at
        PROVE  Ticketed'
    <3>1. job[t][Site(t)] \in Idle /\ phase[t] = "claim" /\ job' = job
      BY <1>1, <2>3, VacantUntaken DEF TryClaimMiss, ClaimVacant, Idle
    <3> QED BY <2>1, <2>3, <3>1, ClaimTickets
  <2> QED BY <1>1, <2>2, <2>3 DEF TryClaimMiss
<1>2. ASSUME NEW t \in Thread, RunClaim(t) PROVE Ticketed'
  <2>1. Site(t) \in Key /\ phase[t] = "runClaim" /\ UNCHANGED <<at, job>>
    BY <1>2, SiteIsKey DEF WorkInv, RunClaim
  <2>2. CASE ClaimOccupied(t, Site(t)) /\ PrepareGoto(t, "runWait") /\ UNCHANGED ticket
    <3>1. Still /\ Others(t) /\ phase'[t] = "runWait"
      BY <1>a, <2>1, <2>2 DEF ClaimOccupied, PrepareTypeOK
    <3>2. \A j \in Key : HoldsAt(t, j)'
      BY <1>a, <2>1, <3>1 DEF HoldsAt, Holds
    <3> QED BY <1>a, <3>1, <3>2, QuietTickets
  <2>3. ASSUME NEW s \in Slot, ClaimVacant(Site(t), s), ticket' = [ticket EXCEPT ![t][Site(t)] = s],
               PrepareGoto(t, "runRecheck")
        PROVE  Ticketed'
    <3>1. job[t][Site(t)] \in Idle
      BY <1>a, <2>1 DEF Staged, StagedAt
    <3> QED BY <2>1, <2>3, <3>1, ClaimTickets
  <2> QED BY <1>2, <2>2, <2>3 DEF RunClaim
<1>3. ASSUME NEW t \in Thread, Recheck(t) PROVE Ticketed'
  <2>1. Site(t) \in Key /\ job[t][Site(t)] = "none" /\ phase[t] = "recheck"
    BY <1>3, SiteIsKey DEF Recheck, WorkInv
  <2>2. Still /\ Others(t) /\ (phase'[t] = "look" \/ (phase'[t] = "recheck" /\ at'[t] = at[t]))
    <3>1. Still /\ \A u \in Thread : u # t => job'[u] = job[u]
      BY <1>3, <1>a DEF Recheck, PrepareTypeOK, flightVars
    <3> QED BY <1>3, <1>a, <2>1, <3>1 DEF Recheck, NextSite, PrepareTypeOK
  <2>3. \A j \in Key : j # Site(t) => job'[t][j] = job[t][j]
    BY <1>3, <1>a DEF Recheck, PrepareTypeOK
  <2>4. job'[t][Site(t)] \in {"drop", "claimed"}
    BY <1>3, <1>a, <2>1 DEF Recheck, PrepareTypeOK
  <2>5. ASSUME NEW j \in Key, j = Site(t) PROVE HoldsAt(t, j)'
    BY <1>a, <2>1, <2>2, <2>4, <2>5 DEF HoldsAt, Holds, Site, Idle
  <2>6. ASSUME NEW j \in Key, j # Site(t) PROVE HoldsAt(t, j)'
    BY <1>a, <2>1, <2>2, <2>3, <2>6 DEF HoldsAt, Holds, Site
  <2> QED BY <1>a, <2>2, <2>5, <2>6, QuietTickets
<1>4. ASSUME NEW t \in Thread, Name(t) PROVE Ticketed'
  <2>1. Still /\ Others(t) /\ phase[t] = "optimize" /\ phase'[t] = "compile"
    BY <1>4, <1>a DEF Name, PrepareTypeOK, flightVars
  <2>2. ASSUME NEW j \in Key
        PROVE  \/ job'[t][j] = job[t][j]
               \/ job[t][j] \in {"optimized", "unfit"} /\ job'[t][j] \in {"named", "dropUnfit"}
    BY <1>4, <1>a DEF Name, NamedAs, PrepareTypeOK
  <2>3. ASSUME NEW j \in Key PROVE HoldsAt(t, j)'
    BY <1>a, <2>1, <2>2 DEF HoldsAt, Holds, Idle
  <2> QED BY <1>a, <2>1, <2>3, QuietTickets
<1>5. ASSUME NEW t \in Thread, RunRecheck(t) PROVE Ticketed'
  <2>1. Site(t) \in Key /\ phase[t] = "runRecheck" /\ phase'[t] = "build" /\ at'[t] = at[t]
    BY <1>5, <1>a, SiteIsKey DEF RunRecheck, WorkInv, PrepareTypeOK
  <2>2. Still /\ Others(t)
    BY <1>5, <1>a DEF RunRecheck, PrepareTypeOK, flightVars
  <2>3. \A j \in Key : j # Site(t) => job'[t][j] = job[t][j]
    BY <1>5, <1>a DEF RunRecheck, PrepareTypeOK
  <2>4. job'[t][Site(t)] \in {"drop", "named"} /\ job[t][Site(t)] \in Idle
    BY <1>5, <1>a, <2>1 DEF RunRecheck, PrepareTypeOK, Staged, StagedAt
  <2>5. ASSUME NEW j \in Key, j = Site(t) PROVE HoldsAt(t, j)'
    BY <1>a, <2>1, <2>2, <2>4, <2>5 DEF HoldsAt, Holds, Site, Idle
  <2>6. ASSUME NEW j \in Key, j # Site(t) PROVE HoldsAt(t, j)'
    BY <1>a, <2>1, <2>2, <2>3, <2>6 DEF HoldsAt, Holds, Site
  <2> QED BY <1>a, <2>2, <2>5, <2>6, QuietTickets
<1>6. ASSUME NEW t \in Thread, Look(t) \/ BatchEnd(t) \/ SiteStep(t) \/ RunEnd(t) PROVE Ticketed'
  <2>1. /\ Still /\ Others(t) /\ job' = job
        /\ phase[t] \notin {"recheck", "runRecheck"} /\ phase'[t] \notin {"recheck", "runRecheck"}
    BY <1>6, <1>a DEF Look, NextSite, BatchEnd, SiteStep, RunEnd, NextOp, PrepareTypeOK, flightVars
  <2>2. ASSUME NEW j \in Key PROVE HoldsAt(t, j)'
    BY <1>a, <2>1 DEF HoldsAt, Holds
  <2> QED BY <1>a, <2>1, <2>2, QuietTickets
<1>7. ASSUME NEW t \in Thread, RunWait(t) PROVE Ticketed'
  <2>1. /\ Still /\ Others(t) /\ job' = job
        /\ phase[t] \notin {"recheck", "runRecheck"} /\ phase'[t] \notin {"recheck", "runRecheck"}
    BY <1>7, <1>a DEF RunWait, Park, Unpark, PrepareTypeOK
  <2>2. ASSUME NEW j \in Key PROVE HoldsAt(t, j)'
    BY <1>a, <2>1 DEF HoldsAt, Holds
  <2> QED BY <1>a, <2>1, <2>2, QuietTickets
<1>8. ASSUME NEW t \in Thread, NEW k \in Key,
             Optimize(t, k) \/ Compile(t, k) \/ Insert(t, k) \/ Push(t, k) \/ Evict(t, k)
      PROVE  Ticketed'
  <2>1. PICK state \in Job :
            /\ job' = [job EXCEPT ![t][k] = state] /\ state \notin Idle
            /\ job[t][k] \notin Idle /\ job[t][k] \notin {"drop", "dropUnfit"}
    BY <1>8 DEF Optimize, Compile, Insert, Push, Evict, Job, Idle
  <2>2. Still /\ UNCHANGED <<phase, at>>
    BY <1>8 DEF Optimize, Compile, Insert, Push, Evict, flightVars
  <2>3. \A u \in Thread, j \in Key : u # t \/ j # k => job'[u][j] = job[u][j]
    BY <1>a, <2>1 DEF PrepareTypeOK
  <2>4. job'[t][k] \notin Idle
    BY <1>a, <2>1 DEF PrepareTypeOK
  <2>5. ASSUME NEW u \in Thread, NEW j \in Key PROVE HoldsAt(u, j)'
    BY <1>a, <2>1, <2>2, <2>3, <2>4 DEF HoldsAt, Holds, Site
  <2>6. Exclusive'
    BY <1>a, <2>2 DEF Ticketed, Exclusive, Holds
  <2> QED BY <2>5, <2>6 DEF Ticketed
<1>9. ASSUME NEW t \in Thread, NEW k \in Key, DropTicket(t, k) PROVE Ticketed'
  BY <1>9, DropTickets
<1>10. CASE BatchesOver \/ UNCHANGED prepareVars
  BY <1>10, <1>a DEF BatchesOver, prepareVars, flightVars, Ticketed, Exclusive, HoldsAt, Holds, Site
<1> QED
  BY <1>1, <1>2, <1>3, <1>4, <1>5, <1>6, <1>7, <1>8, <1>9, <1>10 DEF PrepareNext, Step, WorkerStep

\* Two threads never work on one key at a time.
LEMMA WorksAlone ==
    ASSUME WorkInv, NEW t \in Thread, NEW u \in Thread, NEW k \in Key,
           job[t][k] \notin Idle \cup {"drop", "dropUnfit"}, job[u][k] \notin Idle \cup {"drop", "dropUnfit"}
    PROVE  t = u
<1>1. HoldsAt(t, k) /\ HoldsAt(u, k)
  BY DEF WorkInv, Ticketed
<1>2. /\ Holds(t, k) /\ keyOf[ticket[t][k]] = k /\ stage[ticket[t][k]] = "held"
      /\ Holds(u, k) /\ keyOf[ticket[u][k]] = k /\ stage[ticket[u][k]] = "held"
  BY <1>1 DEF HoldsAt
<1>3. ticket[t][k] \in Slot /\ ticket[u][k] \in Slot
  BY <1>2 DEF Holds, WorkInv, PrepareTypeOK
<1>4. ticket[t][k] = ticket[u][k]
  BY <1>2, <1>3 DEF WorkInv, FlightInv, Registered
<1> QED BY <1>2, <1>4 DEF WorkInv, Ticketed, Exclusive

Building == {"claimed", "optimized", "named", "insert"}

\* What the lookup under the Ticket missed stays missing until it is published.
LEMMA PrepareStepBuild == WorkInv /\ NoSecondBuild /\ [PrepareNext]_prepareVars => NoSecondBuild'
<1> SUFFICES ASSUME WorkInv, NoSecondBuild, [PrepareNext]_prepareVars,
                    NEW u \in Thread, NEW j \in Key, job'[u][j] \in Building
             PROVE  j \notin map'
  BY DEF NoSecondBuild, Jobs, Building
<1>a. PrepareTypeOK /\ (job[u][j] \in Building => j \notin map)
  BY DEF WorkInv, NoSecondBuild, Jobs, Building
<1> USE DEF SetJob, cache, Building
<1>1. ASSUME NEW t \in Thread, Recheck(t) \/ RunRecheck(t) PROVE j \notin map'
  <2>1. map' = map /\ (u # t \/ j # Site(t) => job'[u][j] = job[u][j])
    BY <1>1, <1>a DEF Recheck, RunRecheck, PrepareTypeOK
  <2>2. u = t /\ j = Site(t) => Site(t) \notin map
    BY <1>1, <1>a DEF Recheck, RunRecheck, PrepareTypeOK, Published
  <2> QED BY <1>a, <2>1, <2>2
<1>2. ASSUME NEW t \in Thread, Name(t) PROVE j \notin map'
  <2>1. job'[u][j] = job[u][j] \/ job[u][j] = "optimized" \/ job'[u][j] = "dropUnfit"
    BY <1>2, <1>a DEF Name, NamedAs, PrepareTypeOK
  <2> QED BY <1>2, <1>a, <2>1 DEF Name
<1>3. ASSUME NEW t \in Thread,
             \/ Look(t) \/ TryClaimMiss(t) \/ BatchEnd(t) \/ SiteStep(t)
             \/ RunClaim(t) \/ RunWait(t) \/ RunEnd(t)
      PROVE  j \notin map'
  BY <1>3, <1>a DEF Look, TryClaimMiss, BatchEnd, SiteStep, RunClaim, RunWait, RunEnd
<1>4. ASSUME NEW t \in Thread, NEW k \in Key, Optimize(t, k) \/ Compile(t, k) PROVE j \notin map'
  <2>1. job[t][k] \in Building /\ map' = map
    BY <1>4 DEF Optimize, Compile
  <2>2. u # t \/ j # k => job'[u][j] = job[u][j]
    BY <1>4, <1>a DEF Optimize, Compile, PrepareTypeOK
  <2> QED BY <1>a, <2>1, <2>2
<1>5. ASSUME NEW t \in Thread, NEW k \in Key, Insert(t, k) PROVE j \notin map'
  <2>1. u # t \/ j # k => job'[u][j] = job[u][j]
    BY <1>5, <1>a DEF Insert, PrepareTypeOK
  <2>2. u = t => j # k
    BY <1>5, <1>a DEF Insert, PrepareTypeOK
  <2>3. u # t => j # k
    BY <1>5, <2>1, WorksAlone DEF Insert, Idle
  <2> QED BY <1>5, <1>a, <2>1, <2>2, <2>3 DEF Insert
<1>6. ASSUME NEW t \in Thread, NEW k \in Key, Push(t, k) \/ Evict(t, k) PROVE j \notin map'
  <2>1. PICK state \in {"evict", "drop"} : job' = [job EXCEPT ![t][k] = state]
    BY <1>6 DEF Push, Evict
  <2>2. job'[u][j] = job[u][j]
    BY <1>a, <2>1 DEF PrepareTypeOK
  <2>3. map' \subseteq map
    BY <1>6, <1>a DEF Push, Evict, Evicted, PrepareTypeOK
  <2> QED BY <1>a, <2>2, <2>3
<1>7. ASSUME NEW t \in Thread, NEW k \in Key, DropTicket(t, k) PROVE j \notin map'
  <2>1. job' = job \/ \E state \in Idle : job' = [job EXCEPT ![t][k] = state]
    BY <1>7 DEF DropTicket, Idle
  <2>2. job'[u][j] = job[u][j]
    <3>1. ASSUME NEW state \in Idle, job' = [job EXCEPT ![t][k] = state] PROVE job'[u][j] = job[u][j]
      BY <1>a, <3>1 DEF PrepareTypeOK, Idle
    <3> QED BY <2>1, <3>1
  <2> QED BY <1>7, <1>a, <2>2 DEF DropTicket
<1>8. CASE BatchesOver \/ UNCHANGED prepareVars
  BY <1>8, <1>a DEF BatchesOver, prepareVars
<1> QED
  BY <1>1, <1>2, <1>3, <1>4, <1>5, <1>6, <1>7, <1>8 DEF PrepareNext, Step, WorkerStep

\* The second part of FifoMatchesMap, key by key.
Listed ==
    \A x \in Key : x \in map <=> \/ \E i \in DOMAIN fifo : fifo[i] = x
                                 \/ \E t \in Thread : job[t][x] = "push" \/ x \in victim[t]
FifoOnce == \A i, j \in DOMAIN fifo : fifo[i] = fifo[j] => i = j

\* FifoMatchesMap, said of one key at a time.
LEMMA FifoByKey == PrepareTypeOK => (FifoMatchesMap <=> FifoOnce /\ Listed)
<1> SUFFICES ASSUME PrepareTypeOK PROVE FifoMatchesMap <=> FifoOnce /\ Listed
  OBVIOUS
<1> DEFINE All == {fifo[i] : i \in DOMAIN fifo} \cup UNION {Jobs(t, {"push"}) \cup victim[t] : t \in Thread}
<1>1. All \subseteq Key
  BY DEF PrepareTypeOK, Jobs
<1>2. ASSUME NEW x \in Key
      PROVE  x \in All <=> \/ \E i \in DOMAIN fifo : fifo[i] = x
                           \/ \E t \in Thread : job[t][x] = "push" \/ x \in victim[t]
  BY DEF Jobs
<1>3. map \subseteq Key
  BY DEF PrepareTypeOK
<1> HIDE DEF All
<1>4. map = All <=> Listed
  BY <1>1, <1>2, <1>3 DEF Listed
<1> QED BY <1>4 DEF FifoMatchesMap, FifoOnce, All

\* A step that leaves the cache alone and puts no key on its way into the fifo
\* keeps the fifo and the map in agreement.
LEMMA QuietFifo ==
    ASSUME Evicting, FifoOnce, Listed, UNCHANGED <<map, fifo, fifoLock, victim>>,
           \A u \in Thread, j \in Key : /\ job'[u][j] = "push" <=> job[u][j] = "push"
                                        /\ job'[u][j] = "evict" <=> job[u][j] = "evict"
    PROVE  (Evicting /\ FifoOnce /\ Listed)'
  BY DEF Evicting, FifoOnce, Listed, Jobs

\* The three steps of OptCacheState::insert keep the fifo and the map in
\* agreement: a new key enters the map ...
LEMMA InsertFifo ==
    ASSUME WorkInv, NoSecondBuild, Evicting, FifoOnce, Listed,
           NEW t \in Thread, NEW k \in Key, Insert(t, k)
    PROVE  (Evicting /\ FifoOnce /\ Listed)'
<1>1. k \notin map /\ job[t][k] = "insert"
  BY DEF Insert, NoSecondBuild, Jobs
<1>2. map' = map \cup {k} /\ job' = [job EXCEPT ![t][k] = "push"] /\ UNCHANGED <<fifo, fifoLock, victim>>
  BY <1>1 DEF Insert, SetJob
<1>3. job'[t][k] = "push" /\ \A u \in Thread, j \in Key : u # t \/ j # k => job'[u][j] = job[u][j]
  BY <1>2 DEF WorkInv, PrepareTypeOK
<1>4. /\ \A i \in DOMAIN fifo : fifo[i] # k
      /\ \A u \in Thread : k \notin victim[u] /\ job[u][k] # "push"
  BY <1>1 DEF Listed
<1>5. ASSUME NEW x \in Key
      PROVE  x \in map' <=> \/ \E i \in DOMAIN fifo' : fifo'[i] = x
                            \/ \E u \in Thread : job'[u][x] = "push" \/ x \in victim'[u]
  <2>1. CASE x = k
    BY <1>2, <1>3, <2>1
  <2>2. CASE x # k
    BY <1>2, <1>3, <2>2 DEF Listed
  <2> QED BY <2>1, <2>2
<1>6. FifoOnce'
  BY <1>2 DEF FifoOnce
<1>7. \A u \in Thread, j \in Key : /\ job'[u][j] = "push" => job[u][j] = "push" \/ j = k
                                   /\ job'[u][j] = "evict" <=> job[u][j] = "evict"
  BY <1>1, <1>3
<1>8. Evicting'
  BY <1>2, <1>4, <1>7 DEF Evicting, Jobs
<1> QED BY <1>5, <1>6, <1>8 DEF Listed

\* ... moves into the fifo, which pops what exceeds the cap ...
LEMMA PushFifo ==
    ASSUME WorkInv, Evicting, FifoOnce, Listed, NEW t \in Thread, NEW k \in Key, Push(t, k)
    PROVE  (Evicting /\ FifoOnce /\ Listed)'
<1>1. PICK all \in Seq(Key), excess \in Nat : Popped(t, k, all, excess)
  BY PushPops DEF WorkInv
<1>2. /\ job[t][k] = "push" /\ fifoLock = {} /\ fifoLock' = {t} /\ map' = map
      /\ job' = [job EXCEPT ![t][k] = "evict"]
  BY DEF Push, SetJob
<1>3. job'[t][k] = "evict" /\ \A u \in Thread, j \in Key : u # t \/ j # k => job'[u][j] = job[u][j]
  BY <1>2 DEF WorkInv, PrepareTypeOK
<1>4. /\ \A u \in Thread : victim[u] = {}
      /\ \A u \in Thread, j \in Key : job[u][j] # "evict"
  BY <1>2 DEF Evicting, Jobs
<1>5. victim'[t] = {all[i] : i \in 1..excess} /\ \A u \in Thread : u # t => victim'[u] = {}
  BY <1>1, <1>4 DEF Popped, WorkInv, PrepareTypeOK
<1>6. /\ Len(all) = Len(fifo) + 1 /\ all[Len(fifo) + 1] = k
      /\ \A i \in 1..Len(fifo) : all[i] = fifo[i]
      /\ Len(fifo) \in Nat /\ DOMAIN fifo = 1..Len(fifo)
  BY <1>1 DEF Popped, WorkInv, PrepareTypeOK
<1>7. /\ DOMAIN fifo' = 1..(Len(all) - excess) /\ excess < Len(all)
      /\ \A i \in 1..(Len(all) - excess) : fifo'[i] = all[i + excess]
  BY <1>1 DEF Popped
<1>8. \A i \in DOMAIN fifo : fifo[i] # k
  BY <1>2 DEF Evicting, Jobs
<1>9. \A i, j \in 1..Len(all) : all[i] = all[j] => i = j
  BY <1>6, <1>8 DEF FifoOnce
<1>10. FifoOnce'
  BY <1>6, <1>7, <1>9 DEF FifoOnce
<1>11. ASSUME NEW x \in Key
       PROVE  (\E i \in 1..Len(all) : all[i] = x) <=> ((\E i \in DOMAIN fifo' : fifo'[i] = x) \/ x \in victim'[t])
  <2>1. ASSUME NEW i \in 1..Len(all), all[i] = x
        PROVE  (\E h \in DOMAIN fifo' : fifo'[h] = x) \/ x \in victim'[t]
    <3>1. CASE i <= excess
      BY <1>5, <2>1, <3>1
    <3>2. CASE i > excess
      <4>1. i - excess \in 1..(Len(all) - excess) /\ (i - excess) + excess = i
        BY <1>6, <1>7, <3>2
      <4> QED BY <1>7, <2>1, <4>1
    <3> QED BY <3>1, <3>2
  <2>2. ASSUME NEW i \in DOMAIN fifo', fifo'[i] = x PROVE \E h \in 1..Len(all) : all[h] = x
    <3>1. i + excess \in 1..Len(all)
      BY <1>6, <1>7
    <3> QED BY <1>7, <2>2, <3>1
  <2>3. ASSUME x \in victim'[t] PROVE \E h \in 1..Len(all) : all[h] = x
    <3>1. PICK i \in 1..excess : all[i] = x
      BY <1>5, <2>3
    <3>2. i \in 1..Len(all)
      BY <1>6, <1>7
    <3> QED BY <3>1, <3>2
  <2> QED BY <2>1, <2>2, <2>3
<1>12. ASSUME NEW x \in Key
       PROVE  (\E i \in 1..Len(all) : all[i] = x) <=> ((\E i \in DOMAIN fifo : fifo[i] = x) \/ x = k)
  <2>1. ASSUME NEW i \in 1..Len(all), all[i] = x PROVE (\E h \in DOMAIN fifo : fifo[h] = x) \/ x = k
    BY <1>6, <2>1
  <2>2. ASSUME NEW i \in DOMAIN fifo, fifo[i] = x PROVE \E h \in 1..Len(all) : all[h] = x
    BY <1>6, <2>2
  <2>3. Len(fifo) + 1 \in 1..Len(all)
    BY <1>6
  <2> QED BY <1>6, <2>1, <2>2, <2>3
<1>13. ASSUME NEW x \in Key
       PROVE  x \in map' <=> \/ \E i \in DOMAIN fifo' : fifo'[i] = x
                             \/ \E u \in Thread : job'[u][x] = "push" \/ x \in victim'[u]
  <2>1. x \in map <=> ((\E i \in DOMAIN fifo : fifo[i] = x) \/ \E u \in Thread : job[u][x] = "push")
    BY <1>4 DEF Listed
  <2>2. (\E u \in Thread : x \in victim'[u]) <=> x \in victim'[t]
    BY <1>5
  <2>3. x # k => ((\E u \in Thread : job'[u][x] = "push") <=> (\E u \in Thread : job[u][x] = "push"))
    BY <1>3
  <2>4. x = k => x \in map
    BY <1>2 DEF Listed
  <2> QED BY <1>2, <1>11, <1>12, <2>1, <2>2, <2>3, <2>4
<1>14. ASSUME NEW u \in Thread, NEW j \in Key, job'[u][j] = "push"
       PROVE  j # k /\ job[u][j] = "push" /\ \A i \in DOMAIN fifo : fifo[i] # j
  <2>1. job[u][j] = "push" /\ (u = t => j # k)
    BY <1>3, <1>14
  <2>2. u # t => j # k
    BY <1>2, <2>1, WorksAlone DEF Idle
  <2> QED BY <2>1, <2>2 DEF Evicting, Jobs
<1>15. ASSUME NEW u \in Thread, NEW j \in Key, job'[u][j] = "push"
       PROVE  (\A i \in DOMAIN fifo' : fifo'[i] # j) /\ \A v \in Thread : j \notin victim'[v]
  BY <1>5, <1>11, <1>12, <1>14, <1>15
<1>16. ASSUME NEW i \in DOMAIN fifo' PROVE \A u \in Thread : fifo'[i] \notin victim'[u]
  <2>1. \A h \in 1..excess : all[h] # all[i + excess]
    BY <1>6, <1>7, <1>9
  <2>2. fifo'[i] = all[i + excess]
    BY <1>7
  <2>3. fifo'[i] \notin victim'[t]
    BY <1>5, <2>1, <2>2
  <2> QED BY <1>5, <2>3
<1>17. \A u \in Thread, j \in Key : job'[u][j] = "evict" => u = t /\ j = k
  BY <1>3, <1>4
<1>18. \A u \in Thread : victim'[u] # {} => fifoLock' = {u}
  BY <1>2, <1>5
<1>19. Evicting'
  <2>1. \A u \in Thread : \A j \in Jobs(u, {"evict"})' : u = t /\ j = k
    BY <1>17 DEF Jobs
  <2>2. \A u \in Thread : \A j \in Jobs(u, {"push"})' :
            (\A i \in DOMAIN fifo' : fifo'[i] # j) /\ \A v \in Thread : j \notin victim'[v]
    BY <1>15 DEF Jobs
  <2>3. \A u \in Thread : \A j \in Jobs(u, {"evict"})' : fifoLock' = {u}
    BY <1>2, <2>1
  <2>4. \A u \in Thread : \A i, j \in Jobs(u, {"evict"})' : i = j
    BY <2>1
  <2> QED BY <1>16, <1>18, <2>2, <2>3, <2>4, Zenon DEF Evicting
<1> QED BY <1>10, <1>13, <1>19 DEF Listed

\* ... and what was popped leaves the map.
LEMMA EvictFifo ==
    ASSUME WorkInv, Evicting, FifoOnce, Listed, NEW t \in Thread, NEW k \in Key, Evict(t, k)
    PROVE  (Evicting /\ FifoOnce /\ Listed)'
<1>1. /\ job[t][k] = "evict" /\ map' = map \ victim[t] /\ fifo' = fifo /\ fifoLock' = {}
      /\ victim' = [victim EXCEPT ![t] = {}] /\ job' = [job EXCEPT ![t][k] = "drop"]
  BY DEF Evict, Evicted, SetJob
<1>2. job'[t][k] = "drop" /\ \A u \in Thread, j \in Key : u # t \/ j # k => job'[u][j] = job[u][j]
  BY <1>1 DEF WorkInv, PrepareTypeOK
<1>3. fifoLock = {t}
  BY <1>1 DEF Evicting, Jobs
<1>4. \A u \in Thread : u # t => victim[u] = {}
  BY <1>3 DEF Evicting
<1>5. \A u \in Thread : victim'[u] = {}
  BY <1>1, <1>4 DEF WorkInv, PrepareTypeOK
<1>6. \A u \in Thread, j \in Key : job'[u][j] # "evict" /\ (job'[u][j] = "push" <=> job[u][j] = "push")
  <2> SUFFICES ASSUME NEW u \in Thread, NEW j \in Key
               PROVE  job'[u][j] # "evict" /\ (job'[u][j] = "push" <=> job[u][j] = "push")
    OBVIOUS
  <2>1. job[u][j] = "evict" => u = t /\ j = k
    BY <1>1, <1>3 DEF Evicting, Jobs
  <2> QED BY <1>1, <1>2, <2>1
<1>7. Evicting'
  BY <1>1, <1>5, <1>6 DEF Evicting, Jobs
<1>8. FifoOnce'
  BY <1>1 DEF FifoOnce
<1>9. ASSUME NEW x \in Key
      PROVE  x \in map' <=> \/ \E i \in DOMAIN fifo' : fifo'[i] = x
                            \/ \E u \in Thread : job'[u][x] = "push" \/ x \in victim'[u]
  <2>1. x \in victim[t] => /\ \A i \in DOMAIN fifo : fifo[i] # x
                           /\ \A u \in Thread : job[u][x] # "push"
    BY DEF Evicting, Jobs
  <2> QED BY <1>1, <1>4, <1>5, <1>6, <2>1 DEF Listed
<1> QED BY <1>7, <1>8, <1>9 DEF Listed

\* Every step keeps the fifo and the map in agreement.
LEMMA PrepareStepFifo ==
    WorkInv /\ NoSecondBuild /\ Evicting /\ FifoOnce /\ Listed /\ [PrepareNext]_prepareVars
        => (Evicting /\ FifoOnce /\ Listed)'
<1> SUFFICES ASSUME WorkInv, NoSecondBuild, Evicting, FifoOnce, Listed, [PrepareNext]_prepareVars
             PROVE  (Evicting /\ FifoOnce /\ Listed)'
  OBVIOUS
<1> DEFINE Quiet == /\ UNCHANGED <<map, fifo, fifoLock, victim>>
                    /\ \A u \in Thread, j \in Key : /\ job'[u][j] = "push" <=> job[u][j] = "push"
                                                    /\ job'[u][j] = "evict" <=> job[u][j] = "evict"
<1>a. PrepareTypeOK /\ Staged /\ AtSite
  BY DEF WorkInv
<1> USE DEF cache, SetJob
<1>1. ASSUME NEW t \in Thread,
             \/ Look(t) \/ TryClaimMiss(t) \/ BatchEnd(t) \/ SiteStep(t)
             \/ RunClaim(t) \/ RunWait(t) \/ RunEnd(t)
      PROVE  Quiet
  BY <1>1 DEF Look, TryClaimMiss, BatchEnd, SiteStep, RunClaim, RunWait, RunEnd
<1>2. ASSUME NEW t \in Thread, Recheck(t) PROVE Quiet
  BY <1>2, <1>a DEF Recheck, PrepareTypeOK
<1>3. ASSUME NEW t \in Thread, Name(t) PROVE Quiet
  <2>1. ASSUME NEW u \in Thread, NEW j \in Key
        PROVE  \/ job'[u][j] = job[u][j]
               \/ job[u][j] \in {"optimized", "unfit"} /\ job'[u][j] \in {"named", "dropUnfit"}
    BY <1>3, <1>a DEF Name, NamedAs, PrepareTypeOK
  <2> QED BY <1>3, <2>1 DEF Name
<1>4. ASSUME NEW t \in Thread, RunRecheck(t) PROVE Quiet
  <2>1. Site(t) \in Key /\ job[t][Site(t)] \in Idle
    BY <1>4, <1>a, SiteIsKey DEF RunRecheck, Staged, StagedAt
  <2>2. PICK state \in {"drop", "named"} : job' = [job EXCEPT ![t][Site(t)] = state]
    BY <1>4 DEF RunRecheck
  <2>3. ASSUME NEW u \in Thread, NEW j \in Key
        PROVE  \/ job'[u][j] = job[u][j]
               \/ job[u][j] \in Idle /\ job'[u][j] \in {"drop", "named"}
    BY <1>a, <2>1, <2>2 DEF PrepareTypeOK
  <2> QED BY <1>4, <2>3 DEF RunRecheck, Idle
<1>5. ASSUME NEW t \in Thread, NEW k \in Key, Optimize(t, k) \/ Compile(t, k) \/ DropTicket(t, k) PROVE Quiet
  <2>1. \/ job' = job
        \/ /\ job[t][k] \in {"claimed", "named", "drop", "dropUnfit"}
           /\ \E state \in Job \ {"push", "evict"} : job' = [job EXCEPT ![t][k] = state]
    BY <1>5 DEF Optimize, Compile, DropTicket, Job
  <2>2. ASSUME NEW state \in Job \ {"push", "evict"}, job' = [job EXCEPT ![t][k] = state],
               job[t][k] \in {"claimed", "named", "drop", "dropUnfit"},
               NEW u \in Thread, NEW j \in Key
        PROVE  /\ job'[u][j] = "push" <=> job[u][j] = "push"
               /\ job'[u][j] = "evict" <=> job[u][j] = "evict"
    BY <1>a, <2>2 DEF PrepareTypeOK
  <2>3. UNCHANGED <<map, fifo, fifoLock, victim>>
    BY <1>5 DEF Optimize, Compile, DropTicket
  <2> QED BY <2>1, <2>2, <2>3
<1>6. ASSUME BatchesOver \/ UNCHANGED prepareVars PROVE Quiet
  BY <1>6 DEF BatchesOver, prepareVars
<1> HIDE DEF Quiet
<1>7. ASSUME NEW t \in Thread, Step(t) PROVE Quiet
  BY <1>1, <1>2, <1>3, <1>4, <1>7 DEF Step
<1>8. ASSUME NEW t \in Thread, NEW k \in Key, WorkerStep(t, k)
      PROVE  Quiet \/ Insert(t, k) \/ Push(t, k) \/ Evict(t, k)
  BY <1>5, <1>8 DEF WorkerStep
<1>9. \/ Quiet
      \/ \E t \in Thread : \E k \in Key : Insert(t, k) \/ Push(t, k) \/ Evict(t, k)
  BY <1>6, <1>7, <1>8 DEF PrepareNext
<1>10. CASE Quiet
  BY <1>10, QuietFifo DEF Quiet
<1> QED BY <1>9, <1>10, InsertFifo, PushFifo, EvictFifo

\* Every step preserves the inductive invariant.
LEMMA PrepareStepInv == PrepareInv /\ [PrepareNext]_prepareVars => PrepareInv'
<1> SUFFICES ASSUME PrepareInv, [PrepareNext]_prepareVars PROVE PrepareInv'
  OBVIOUS
<1>1. WorkInv /\ NoSecondBuild /\ Evicting /\ FifoOnce /\ Listed
  BY FifoByKey DEF PrepareInv, WorkInv
<1>2. FlightInv'
  BY <1>1, PrepareStepFlight, FlightStepInv DEF WorkInv
<1>3. WorkInv'
  BY <1>1, <1>2, PrepareStepType, PrepareStepAtSite, PrepareStepStaged, PrepareStepTicketed, PrepareStepDecided
  DEF WorkInv
<1>4. NoSecondBuild'
  BY <1>1, PrepareStepBuild
<1>5. (Evicting /\ FifoOnce /\ Listed)'
  BY <1>1, PrepareStepFifo
<1>6. (PrepareTypeOK => (FifoMatchesMap <=> FifoOnce /\ Listed))'
  BY FifoByKey, PTL
<1>7. FifoMatchesMap'
  BY <1>3, <1>5, <1>6 DEF WorkInv
<1> QED BY <1>3, <1>4, <1>5, <1>7 DEF PrepareInv

\* The invariant holds in every behaviour of the prepares.
LEMMA PrepareInvariance == PrepareSpec => []PrepareInv
  BY PrepareInitInv, PrepareStepInv, PTL DEF PrepareSpec

\* A failed prepare holds nothing, and what it let go of has a result.
LEMMA FailedReleased == WorkInv => FailedBatchPublishes
<1> SUFFICES ASSUME WorkInv, NEW t \in Thread, phase[t] = "err", NEW k \in Key
             PROVE  ~Holds(t, k) /\ (job[t][k] = "released" => outcome[t][k] # "none")
  BY DEF FailedBatchPublishes
<1>1. job[t][k] \in Idle
  BY DEF WorkInv, Staged, StagedAt
<1>2. ~Holds(t, k)
  BY <1>1 DEF WorkInv, Ticketed, HoldsAt
<1>3. job[t][k] = "released" => outcome[t][k] # "none"
  BY DEF WorkInv, Decided, DecidedAt
<1> QED BY <1>2, <1>3

\* Preparing kernels uses the flight as its users may: every step of a batch, its
\* workers and the site loop is a claim, a wait or part of a Ticket's drop, or
\* leaves `opt_flight` alone.
THEOREM PrepareRefinesFlight == PrepareSpec => FlightSpec
<1>1. PrepareInit => FlightInit
  BY DEF PrepareInit
<1>2. PrepareInv => WorkInv
  BY DEF PrepareInv
<1> QED BY <1>1, <1>2, PrepareInvariance, PrepareStepFlight, PTL DEF PrepareSpec, FlightSpec

\* No kernel is built while the optimized-kernel cache has it, whatever plans are
\* prepared at once and whatever is evicted meanwhile.
THEOREM PrepareBuildsOnce == PrepareSpec => []NoSecondBuild
<1>1. PrepareInv => NoSecondBuild
  BY DEF PrepareInv
<1> QED BY <1>1, PrepareInvariance, PTL

\* The cache's map and its eviction order agree, for every cap, although only the
\* order is under a mutex.
THEOREM PrepareFifoMatches == PrepareSpec => []FifoMatchesMap
<1>1. PrepareInv => FifoMatchesMap
  BY DEF PrepareInv
<1> QED BY <1>1, PrepareInvariance, PTL

\* A prepare that fails has let go of every key and left a result for each.
THEOREM PrepareFailsClean == PrepareSpec => []FailedBatchPublishes
<1>1. PrepareInv => FailedBatchPublishes
  BY FailedReleased DEF PrepareInv
<1> QED BY <1>1, PrepareInvariance, PTL

\* A thread asleep in opt_flight's run always has a notification to come.
THEOREM PrepareWaitersWoken == PrepareSpec => []NoStrandedWaiter
  BY PrepareRefinesFlight, FlightWaitersWoken, PTL

=================================================================================
