----------------------------- MODULE PrepareKernels -----------------------------
(* Preparing the kernels of execution plans (tensor/src/realize.rs:            *)
(* compile_missing_kernels, KernelSite, OptCacheState and the site loop of     *)
(* prepare_execution_plan) on the flight `opt_flight`.  Each thread prepares   *)
(* one plan: it claims, without waiting, every key it misses; optimizes them   *)
(* all; names them in order; compiles, publishes and lets go of each one in    *)
(* parallel; and only then, holding nothing, waits for the keys of others.     *)
EXTENDS Singleflight, Naturals, Sequences

CONSTANTS Plans,       \* Thread -> the keys of its kernel sites, in schedule order
          Modes,       \* sets of threads whose PrepareConfig is ephemeral
          Cap          \* SVOD_OPT_CACHE_MAX

ASSUME PrepareAssumption ==
    /\ Plans \in [Thread -> Seq(Key)]
    /\ Modes \subseteq SUBSET Thread /\ Cap \in Nat \ {0}

VARIABLES ephemeral,  \* the threads that publish nothing
          map,        \* keys in the optimized-kernel cache
          fifo,       \* their insertion order
          fifoLock,   \* the threads (at most one) evicting under its mutex
          victim,     \* Thread -> keys popped from the fifo, still in the map
          phase, at,     \* Thread -> phase; Thread -> index of its current site
          ticket,     \* Thread -> Key -> the slot of a Ticket it holds, or NoSlot
          job,        \* Thread -> Key -> how far its work on the key is
          outcome,    \* Thread -> Key -> result of that work
          built       \* Thread -> keys the batch compiled (`compiled`)

cache == <<ephemeral, map, fifo, fifoLock, victim>>
prepareVars == <<flightVars, cache, phase, at, ticket, job, outcome, built>>

Holds(t, k) == ticket[t][k] # NoSlot

PrepareInit ==
    /\ FlightInit
    /\ ephemeral \in Modes
    /\ map = {} /\ fifo = <<>> /\ fifoLock = {}
    /\ victim = [t \in Thread |-> {}]
    /\ phase = [t \in Thread |-> "look"]
    /\ at = [t \in Thread |-> 1]
    /\ ticket = [t \in Thread |-> [k \in Key |-> NoSlot]]
    /\ job = [t \in Thread |-> [k \in Key |-> "none"]]
    /\ outcome = [t \in Thread |-> [k \in Key |-> "none"]]
    /\ built = [t \in Thread |-> {}]

Site(t) == Plans[t][at[t]]
Seen(t) == \E i \in 1..(at[t] - 1) : Plans[t][i] = Site(t)
AtEnd(t) == at[t] > Len(Plans[t])
PrepareGoto(t, label) == phase' = [phase EXCEPT ![t] = label]
SetJob(t, k, state) == job' = [job EXCEPT ![t][k] = state]
SetOutcome(t, k, result) == outcome' = [outcome EXCEPT ![t][k] = result]
Jobs(t, states) == {k \in Key : job[t][k] \in states}

\* A claim allocates its slot; which free identity it gets makes no difference.
Allocated(s) == s = CHOOSE u \in Slot : Unreferenced(u)

(* Claiming: try_claim_miss on every distinct key, in order.                   *)

\* The next site (`seen` filters a repeated key), or the end: an empty
\* batch goes straight to the site loop.
NextSite(t) == at' = [at EXCEPT ![t] = @ + 1] /\ PrepareGoto(t, "look")

Look(t) ==
    /\ phase[t] = "look"
    /\ IF AtEnd(t)
       THEN /\ at' = [at EXCEPT ![t] = 1]
            /\ PrepareGoto(t, IF Jobs(t, {"claimed"}) = {} THEN "site" ELSE "optimize")
       ELSE IF Seen(t) \/ Site(t) \in map
            THEN NextSite(t)
            ELSE PrepareGoto(t, "claim") /\ UNCHANGED at
    /\ UNCHANGED <<flightVars, cache, ticket, job, outcome, built>>

\* Mutant: the batch waits for a key that is taken.
SkipNever(t) == FALSE

\* claim's Occupied arm, for a caller that does not wait.
Taken(t) == ~Vacant(Site(t))

TryClaimMiss(t) ==
    /\ phase[t] = "claim"
    /\ \/ \E s \in Slot :
            /\ Allocated(s) /\ ClaimVacant(Site(t), s)
            /\ ticket' = [ticket EXCEPT ![t][Site(t)] = s]
            /\ PrepareGoto(t, "recheck")
            /\ UNCHANGED at
       \/ /\ Taken(t)
          /\ NextSite(t)
          /\ UNCHANGED <<flightVars, ticket>>
    /\ UNCHANGED <<cache, job, outcome, built>>

\* Mutant: no second lookup under the ticket.
RecheckSkipped(t) == FALSE

\* The second lookup, under the ticket.
Published(t) == Site(t) \in map

\* A hit drops the ticket again (the three statements of its drop are steps of
\* their own), a miss keeps it.
Recheck(t) ==
    /\ phase[t] = "recheck" /\ job[t][Site(t)] = "none"
    /\ SetJob(t, Site(t), IF Published(t) THEN "drop" ELSE "claimed")
    /\ IF Published(t) THEN UNCHANGED <<phase, at>> ELSE NextSite(t)
    /\ UNCHANGED <<flightVars, cache, ticket, outcome, built>>

(* The batch.                                                                  *)

\* Optimizing fans out over the pool; each kernel succeeds or fails on its own.
Optimize(t, k) ==
    /\ phase[t] = "optimize" /\ job[t][k] = "claimed"
    /\ \E result \in {"optimized", "unfit"} : SetJob(t, k, result)
    /\ UNCHANGED <<flightVars, cache, phase, at, ticket, outcome, built>>

\* Mutant: the first failure ends the batch.
NamedUnlessFailed(t, k) ==
    IF \E j \in Key : job[t][j] = "unfit" THEN "dropUnfit" ELSE "named"

\* Naming, in schedule order once all have been optimized; the failed ones are
\* dropped with their tickets.
NamedAs(t, k) == IF job[t][k] = "optimized" THEN "named" ELSE "dropUnfit"

Name(t) ==
    /\ phase[t] = "optimize" /\ Jobs(t, {"claimed"}) = {}
    /\ job' = [job EXCEPT ![t] = [k \in Key |->
                  IF @[k] \in {"optimized", "unfit"} THEN NamedAs(t, k) ELSE @[k]]]
    /\ outcome' = [outcome EXCEPT ![t] = [k \in Key |-> IF job[t][k] = "unfit" THEN "bad" ELSE @[k]]]
    /\ PrepareGoto(t, "compile")
    /\ UNCHANGED <<flightVars, cache, at, ticket, built>>

\* KernelSite::compile on a worker of the batch, or inline in `build` (which
\* also optimizes and names): it fails, or goes on to publish; an ephemeral
\* prepare publishes nothing.
Compile(t, k) ==
    /\ phase[t] \in {"compile", "build"} /\ job[t][k] = "named" /\ Jobs(t, {"dropUnfit"}) = {}
    /\ \/ SetOutcome(t, k, "bad") /\ SetJob(t, k, "drop")
       \/ SetOutcome(t, k, "ok") /\ SetJob(t, k, IF t \in ephemeral THEN "drop" ELSE "insert")
    /\ UNCHANGED <<flightVars, cache, phase, at, ticket, built>>

\* OptCacheState::insert: the lock-free map first ...
Insert(t, k) ==
    /\ job[t][k] = "insert"
    /\ map' = map \cup {k}
    /\ SetJob(t, k, IF k \in map THEN "drop" ELSE "push")
    /\ UNCHANGED <<flightVars, ephemeral, fifo, fifoLock, victim, phase, at, ticket, outcome, built>>

\* ... then, under its mutex, the fifo; keys beyond the cap are popped ...
Push(t, k) ==
    /\ job[t][k] = "push" /\ fifoLock = {}
    /\ LET all == Append(fifo, k)
           excess == IF Len(all) > Cap THEN Len(all) - Cap ELSE 0
       IN /\ fifo' = SubSeq(all, excess + 1, Len(all))
          /\ victim' = [victim EXCEPT ![t] = {all[i] : i \in 1..excess}]
    /\ fifoLock' = {t}
    /\ SetJob(t, k, "evict")
    /\ UNCHANGED <<flightVars, ephemeral, map, phase, at, ticket, outcome, built>>

\* Mutant: popped keys stay in the map.
EvictNothing(t) == map

\* ... and removed from the map before the mutex is released.
Evicted(t) == map \ victim[t]

Evict(t, k) ==
    /\ job[t][k] = "evict"
    /\ map' = Evicted(t)
    /\ victim' = [victim EXCEPT ![t] = {}]
    /\ fifoLock' = {}
    /\ SetJob(t, k, "drop")
    /\ UNCHANGED <<flightVars, ephemeral, fifo, phase, at, ticket, outcome, built>>

\* The three statements of a Ticket's drop.
DropTicket(t, k) ==
    /\ job[t][k] \in {"drop", "dropUnfit"}
    /\ \/ (DropRemove(ticket[t][k]) \/ DropSet(ticket[t][k])) /\ UNCHANGED <<ticket, job, phase, at>>
       \/ /\ DropNotify(ticket[t][k])
          /\ ticket' = [ticket EXCEPT ![t][k] = NoSlot]
          /\ SetJob(t, k, IF phase[t] = "recheck" THEN "none" ELSE "released")
          /\ IF phase[t] = "recheck" THEN NextSite(t) ELSE UNCHANGED <<phase, at>>
    /\ UNCHANGED <<cache, outcome, built>>

\* The batch ends when every worker has: an error of any of them is the error
\* of the prepare.
BatchEnd(t) ==
    /\ phase[t] = "compile" /\ \A k \in Key : ~Holds(t, k)
    /\ PrepareGoto(t, IF \E k \in Key : outcome[t][k] = "bad" THEN "err" ELSE "site")
    /\ built' = [built EXCEPT ![t] = {k \in Key : outcome[t][k] = "ok"}]
    /\ UNCHANGED <<flightVars, cache, at, ticket, job, outcome>>

(* The site loop: kernels the batch did not build go through `run`.            *)

NextOp(t) == at' = [at EXCEPT ![t] = @ + 1] /\ PrepareGoto(t, "site")

SiteStep(t) ==
    /\ phase[t] = "site"
    /\ IF AtEnd(t) THEN PrepareGoto(t, "ok") /\ UNCHANGED at
       ELSE IF Site(t) \in built[t] \/ Site(t) \in map THEN NextOp(t)
       ELSE PrepareGoto(t, "runClaim") /\ UNCHANGED at
    /\ UNCHANGED <<flightVars, cache, ticket, job, outcome, built>>

RunClaim(t) ==
    /\ phase[t] = "runClaim"
    /\ \/ \E s \in Slot :
            /\ Allocated(s) /\ ClaimVacant(Site(t), s)
            /\ ticket' = [ticket EXCEPT ![t][Site(t)] = s]
            /\ PrepareGoto(t, "runRecheck")
       \/ ClaimOccupied(t, Site(t)) /\ PrepareGoto(t, "runWait") /\ UNCHANGED ticket
    /\ UNCHANGED <<cache, at, job, outcome, built>>

RunWait(t) ==
    /\ phase[t] = "runWait"
    /\ \/ Park(t) /\ UNCHANGED phase
       \/ Unpark(t) /\ PrepareGoto(t, "site")
    /\ UNCHANGED <<cache, at, ticket, job, outcome, built>>

RunRecheck(t) ==
    /\ phase[t] = "runRecheck"
    /\ SetJob(t, Site(t), IF Published(t) THEN "drop" ELSE "named")
    /\ SetOutcome(t, Site(t), IF Published(t) THEN "ok" ELSE "none")
    /\ PrepareGoto(t, "build")
    /\ UNCHANGED <<flightVars, cache, at, ticket, built>>

RunEnd(t) ==
    /\ phase[t] = "build" /\ ~Holds(t, Site(t))
    /\ IF outcome[t][Site(t)] = "ok" THEN NextOp(t) ELSE PrepareGoto(t, "err") /\ UNCHANGED at
    /\ UNCHANGED <<flightVars, cache, ticket, job, outcome, built>>

Step(t) ==
    \/ Look(t) \/ TryClaimMiss(t) \/ Recheck(t) \/ Name(t) \/ BatchEnd(t)
    \/ SiteStep(t) \/ RunClaim(t) \/ RunWait(t) \/ RunRecheck(t) \/ RunEnd(t)
WorkerStep(t, k) ==
    Optimize(t, k) \/ Compile(t, k) \/ Insert(t, k) \/ Push(t, k) \/ Evict(t, k) \/ DropTicket(t, k)

BatchesOver == (\A t \in Thread : phase[t] \in {"ok", "err"}) /\ UNCHANGED prepareVars

PrepareNext == (\E t \in Thread : Step(t) \/ \E k \in Key : WorkerStep(t, k)) \/ BatchesOver

PrepareSpec == PrepareInit /\ [][PrepareNext]_prepareVars

\* Threads and pool workers are scheduled, and optimizing and compiling end.
PrepareFairSpec ==
    /\ PrepareSpec
    /\ \A t \in Thread : WF_prepareVars(Step(t)) /\ \A k \in Key : WF_prepareVars(WorkerStep(t, k))

---------------------------------------------------------------------------------
(* Properties.                                                                 *)

\* The map and its eviction order agree although only one of them is locked: a
\* cached key is in the fifo exactly once, unless its insertion or its eviction
\* is under way; so the cache exceeds its cap only by insertions under way.
FifoMatchesMap ==
    /\ \A i, j \in DOMAIN fifo : fifo[i] = fifo[j] => i = j
    /\ map = {fifo[i] : i \in DOMAIN fifo}
             \cup UNION {Jobs(t, {"push"}) \cup victim[t] : t \in Thread}

\* A kernel is never built while the cache has it, so it never gets a second
\* name: the lookup under the ticket decides, and only the ticket's holder can
\* publish the key.
NoSecondBuild ==
    \A t \in Thread : \A k \in Jobs(t, {"claimed", "optimized", "named", "insert"}) : k \notin map

\* A batch that fails has first compiled every kernel that optimized, and has
\* let go of all its keys: a retry finds the others cached.
FailedBatchPublishes ==
    \A t \in Thread : phase[t] = "err" => \A k \in Key :
        /\ ~Holds(t, k)
        /\ job[t][k] = "released" => outcome[t][k] # "none"

\* Once a prepare has begun all of them end: batches that claim their keys in
\* opposite orders never wait for each other, and a failed winner's losers go on.
PreparesEnd ==
    (\E t \in Thread : phase[t] # "look") ~> (\A t \in Thread : phase[t] \in {"ok", "err"})

=================================================================================
