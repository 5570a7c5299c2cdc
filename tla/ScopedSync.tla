------------------------------- MODULE ScopedSync -------------------------------
(* Scoped synchronisation: how a host access waits only for the submissions    *)
(* that touched its storage.  ExecutionPlan::execute                           *)
(* (runtime/src/execution_plan.rs) launches a plan's kernels on the plan's own *)
(* in-order lane and records a completion token on every storage it touches;   *)
(* CudaDevice::wait_storage (device/src/cuda/device.rs) waits the recorded     *)
(* tokens and drains the lanes whose submissions no token covers yet;          *)
(* LruAllocator (device/src/allocator.rs) recycles a freed storage without     *)
(* draining and fences it when it is handed out again.  AmdDeviceCore          *)
(* (device/src/amd/device.rs) keeps the tokens but does not track lanes.       *)
EXTENDS Naturals, Sequences, FiniteSets

CONSTANTS SyncThread, Storage, Plan, NoPlan, NoStorage,
          Copy,            \* the device's copy lane
          Ops,             \* Plan -> its operations in execution order
          TracksLanes,     \* TRUE for CUDA, FALSE for AMD
          MaxPooled,       \* max_buffers_per_size (the storages have one size)
          MaxSyncCalls     \* bound: calls the threads make

ASSUME SyncAssumption ==
    /\ NoPlan \notin Plan /\ NoStorage \notin Storage /\ Copy \notin Plan
    /\ TracksLanes \in BOOLEAN /\ MaxPooled \in Nat /\ MaxSyncCalls \in Nat
    /\ Ops \in [Plan -> Seq([host : BOOLEAN,  \* a copy leg that the host reads, not a kernel
                             reads : SUBSET Storage, writes : SUBSET Storage])]

VARIABLES submitted,  \* Plan -> Lane::submitted
          covered,    \* Plan -> Lane::published
          copiesSeen, \* Plan -> Lane::copies_seen
          stream,     \* Lane -> what was launched on it
          done,       \* Lane -> how many of these the GPU has finished
          settled,    \* Lane -> how many belong to calls that have returned
          producers,  \* Storage -> tokens recorded for it
          place,      \* Storage -> where its allocation is
          busy,       \* plans whose executor mutex is held
          failed,     \* plans poisoned by an execute that failed
          step,       \* Thread -> its step
          plan,       \* Thread -> the plan it executes, or NoPlan
          next,       \* Thread -> its next operation
          gate,       \* Thread -> launches the plan's next kernel waits for on the GPU
          owes,       \* Thread -> conflicting launches its execute found
          token,      \* Thread -> the token it records, or the drain it waits for
          left,       \* Thread -> storages or lanes still to visit
          base,       \* Thread -> the storage it waits for
          tokens,     \* Thread -> wait_storage's copy of the tokens
          must,       \* Thread -> launches its access has to follow
          after,      \* Thread -> what its wait_storage was called for
          spent       \* calls made

lanes == <<submitted, covered, copiesSeen, stream, done, settled>>
tables == <<producers, place, busy, failed>>
locals == <<plan, next, gate, owes, token, left, base, tokens, must, after, spent>>
syncVars == <<lanes, tables, step, locals>>

\* The plans' lanes and the copy lane.
Streams == Plan \cup {Copy}
NoneYet == [plan |-> NoPlan, upto |-> 0, seq |-> 0]

\* The first n launches of a lane; whether the GPU has finished one.
IsDone(x) == x.at <= done[x.plan]
AllOf(p, n) == [plan : {p}, at : 1..n]

SyncInit ==
    /\ submitted = [p \in Plan |-> 0] /\ covered = [p \in Plan |-> 0]
    /\ copiesSeen = [p \in Plan |-> 0]
    /\ stream = [p \in Streams |-> <<>>]
    /\ done = [p \in Streams |-> 0] /\ settled = [p \in Streams |-> 0]
    /\ producers = [s \in Storage |-> {}]
    /\ place = [s \in Storage |-> "used"]
    /\ busy = {} /\ failed = {}
    /\ step = [t \in SyncThread |-> "idle"]
    /\ plan = [t \in SyncThread |-> NoPlan] /\ next = [t \in SyncThread |-> 1]
    /\ gate = [t \in SyncThread |-> {}] /\ owes = [t \in SyncThread |-> {}]
    /\ token = [t \in SyncThread |-> NoneYet] /\ left = [t \in SyncThread |-> {}]
    /\ base = [t \in SyncThread |-> NoStorage] /\ tokens = [t \in SyncThread |-> {}]
    /\ must = [t \in SyncThread |-> {}] /\ after = [t \in SyncThread |-> "none"]
    /\ spent = 0

Step(t, label) == step' = [step EXCEPT ![t] = label]

Accesses(p) == UNION {Ops[p][i].reads \cup Ops[p][i].writes : i \in 1..Len(Ops[p])}
Writes(p) == UNION {Ops[p][i].writes : i \in 1..Len(Ops[p])}

\* A token does not cover all of the lane's submissions yet.
Unpublished(p) == covered[p] < submitted[p]

(* ExecutionPlan::execute                                                      *)

\* Two plans conflict on a storage that one of them writes.
Conflict(p, q) == (Writes(p) \cap Accesses(q)) \cup (Accesses(p) \cap Writes(q)) # {}

\* The launches of calls that have returned which an execute of p must follow.
Earlier(p) ==
    (UNION {AllOf(q, settled[q]) : q \in {q \in Plan \ {p} : Conflict(p, q)}})
        \cup {x \in AllOf(Copy, settled[Copy]) : stream[Copy][x.at].touches \cap Accesses(p) # {}}

Execute(t, p) ==
    /\ step[t] = "idle" /\ spent < MaxSyncCalls
    /\ p \notin busy /\ p \notin failed
    /\ \A s \in Accesses(p) : place[s] = "used"
    /\ busy' = busy \cup {p}
    /\ spent' = spent + 1
    /\ plan' = [plan EXCEPT ![t] = p]
    /\ next' = [next EXCEPT ![t] = 1]
    /\ owes' = [owes EXCEPT ![t] = Earlier(p)]
    /\ Step(t, "order")
    /\ UNCHANGED <<lanes, producers, place, failed, gate, token, left, base, tokens, must, after>>

\* Mutant: only the writers of a storage are waited for, also by those that write it.
ReadersForgotten(p, s, producer) == producer.plan \notin {p, Copy} /\ producer.writes

\* order_lane_after: the tokens of other plans' lanes that conflict with this
\* access.
Conflicting(p, s, producer) == producer.plan \notin {p, Copy} /\ (s \in Writes(p) \/ producer.writes)

\* order_lane_after under the table's lock; AMD keeps the default, which does
\* nothing.
OrderTokens(t) ==
    /\ step[t] = "order"
    /\ LET p == plan[t]
           waits == {x \in UNION {producers[s] \X {s} : s \in Accesses(p)} : Conflicting(p, x[2], x[1])}
       IN  gate' = [gate EXCEPT ![t] = IF TracksLanes THEN UNION {AllOf(x[1].plan, x[1].upto) : x \in waits} ELSE {}]
    /\ Step(t, "tails")
    /\ UNCHANGED <<lanes, tables, plan, next, owes, token, left, base, tokens, must, after, spent>>

\* wait_on_gpu: the tail of every other lane with unpublished submissions.
OrderTails(t) ==
    /\ step[t] = "tails"
    /\ gate' = [gate EXCEPT ![t] = @ \cup
            IF TracksLanes THEN UNION {AllOf(q, Len(stream[q])) : q \in {q \in Plan \ {plan[t]} : Unpublished(q)}}
            ELSE {}]
    /\ Step(t, "op")
    /\ UNCHANGED <<lanes, tables, plan, next, owes, token, left, base, tokens, must, after, spent>>

Op(t) == Ops[plan[t]][next[t]]

\* order_launch: after the last copy, unless this lane has waited for it before.
AfterCopies(t) ==
    IF TracksLanes /\ Len(stream[Copy]) # copiesSeen[plan[t]] THEN AllOf(Copy, Len(stream[Copy])) ELSE {}

\* order_launch and mark_unpublished, before the launch "so a concurrent scoped
\* wait can never miss it".
Mark(t) ==
    /\ step[t] = "op" /\ next[t] <= Len(Ops[plan[t]]) /\ ~Op(t).host
    /\ gate' = [gate EXCEPT ![t] = @ \cup AfterCopies(t)]
    /\ copiesSeen' = [copiesSeen EXCEPT ![plan[t]] = Len(stream[Copy])]
    /\ submitted' = [submitted EXCEPT ![plan[t]] = @ + 1]
    /\ Step(t, "launch")
    /\ UNCHANGED <<covered, stream, done, settled, tables, plan, next, owes, token, left, base, tokens, must,
                   after, spent>>

Launch(t) ==
    /\ step[t] = "launch"
    /\ stream' = [stream EXCEPT ![plan[t]] =
            Append(@, [touches |-> Op(t).reads \cup Op(t).writes, after |-> gate[t], owes |-> owes[t]])]
    /\ next' = [next EXCEPT ![t] = @ + 1]
    /\ Step(t, "op")
    /\ UNCHANGED <<submitted, covered, copiesSeen, done, settled, tables, plan, gate, owes, token, left, base, tokens,
                   must, after, spent>>

\* What an access to s has to follow: the launches touching s of executes that
\* have returned, and those of the plan's own execute.
Follows(t, s) ==
    UNION {{x \in AllOf(p, IF p = plan[t] THEN Len(stream[p]) ELSE settled[p]) : s \in stream[p][x.at].touches}
            : p \in Streams}

\* The call of wait_storage(s), made for `purpose`.
CallWait(t, s, purpose) ==
    /\ base' = [base EXCEPT ![t] = s]
    /\ after' = [after EXCEPT ![t] = purpose]
    /\ must' = [must EXCEPT ![t] = Follows(t, s)]
    /\ Step(t, "lookup")

\* A copy leg that reads its source on the host (HCQ staged copy).
Stage(t) ==
    /\ step[t] = "op" /\ next[t] <= Len(Ops[plan[t]]) /\ Op(t).host
    /\ \E s \in Op(t).reads : CallWait(t, s, "stage")
    /\ UNCHANGED <<lanes, tables, plan, next, gate, owes, token, left, tokens, spent>>

EndExecute(t) ==
    /\ busy' = busy \ {plan[t]}
    /\ settled' = [settled EXCEPT ![plan[t]] = Len(stream[plan[t]])]
    /\ plan' = [plan EXCEPT ![t] = NoPlan]
    /\ Step(t, "idle")

\* A kernel cannot be launched, or a step after it fails: no token is recorded
\* and the plan is poisoned.
ExecuteFails(t) ==
    /\ step[t] \in {"order", "op", "launch"}
    /\ failed' = failed \cup {plan[t]}
    /\ EndExecute(t)
    /\ UNCHANGED <<submitted, covered, copiesSeen, stream, done, producers, place, next, gate, owes, token, left, base,
                   tokens, must, after, spent>>

\* completion_token: the lane's count first, then the event.
Mint(t) ==
    /\ step[t] = "op" /\ next[t] > Len(Ops[plan[t]])
    /\ LET p == plan[t] IN
       /\ token' = [token EXCEPT ![t] = [plan |-> p, upto |-> Len(stream[p]), seq |-> submitted[p]]]
       /\ left' = [left EXCEPT ![t] = Accesses(p)]
    /\ Step(t, "record")
    /\ UNCHANGED <<lanes, tables, plan, next, gate, owes, base, tokens, must, after, spent>>

\* record_cuda_producer: a lane's newer token replaces its older one and
\* inherits a write still in flight.
Recorded(s, p, upto, writes) ==
    LET old == {x \in producers[s] : x.plan = p}
        inherited == \E x \in old : x.writes /\ done[p] < x.upto
    IN  (producers[s] \ old) \cup {[plan |-> p, upto |-> upto, writes |-> writes \/ inherited]}

Record(t) ==
    /\ step[t] = "record"
    /\ \E s \in left[t] :
        /\ producers' = [producers EXCEPT ![s] = Recorded(s, plan[t], token[t].upto, s \in Writes(plan[t]))]
        /\ left' = [left EXCEPT ![t] = @ \ {s}]
    /\ UNCHANGED <<lanes, place, busy, failed, step, plan, next, gate, owes, token, base, tokens, must, after,
                   spent>>

\* CompletionToken::published, and the end of execute.
Published(t) ==
    /\ step[t] = "record" /\ left[t] = {}
    /\ covered' = [covered EXCEPT ![plan[t]] = IF @ < token[t].seq THEN token[t].seq ELSE @]
    /\ EndExecute(t)
    /\ UNCHANGED <<submitted, copiesSeen, stream, done, producers, place, failed, next, gate, owes, token, left, base,
                   tokens, must, after, spent>>

(* wait_storage                                                                *)

\* The copy of the tokens.  A storage in use is always registered: the drain
\* for unknown storages is left out.
Lookup(t) ==
    /\ step[t] = "lookup"
    /\ tokens' = [tokens EXCEPT ![t] = producers[base[t]]]
    /\ left' = [left EXCEPT ![t] = IF TracksLanes THEN Plan ELSE {}]
    /\ Step(t, "lanes")
    /\ UNCHANGED <<lanes, tables, plan, next, gate, owes, token, base, must, after, spent>>

\* synchronize_lane: the count to publish is read, and the stream synchronised
\* with what it holds now.
VisitLane(t) ==
    /\ step[t] = "lanes"
    /\ \E p \in left[t] :
        /\ left' = [left EXCEPT ![t] = @ \ {p}]
        /\ IF Unpublished(p)
           THEN /\ token' = [token EXCEPT ![t] = [plan |-> p, upto |-> Len(stream[p]), seq |-> submitted[p]]]
                /\ Step(t, "laneWait")
           ELSE UNCHANGED <<token, step>>
    /\ UNCHANGED <<lanes, tables, plan, next, gate, owes, base, tokens, must, after, spent>>

LaneDrained(t) ==
    /\ step[t] = "laneWait"
    /\ done[token[t].plan] >= token[t].upto
    /\ covered' = [covered EXCEPT ![token[t].plan] = IF @ < token[t].seq THEN token[t].seq ELSE @]
    /\ Step(t, "lanes")
    /\ UNCHANGED <<submitted, copiesSeen, stream, done, settled, tables, locals>>

\* The tokens are waited for, then forgotten unless replaced meanwhile.
TokensWaited(t) ==
    /\ step[t] = "lanes" /\ left[t] = {}
    /\ \A x \in tokens[t] : done[x.plan] >= x.upto
    /\ producers' = [producers EXCEPT ![base[t]] = @ \ tokens[t]]
    /\ Step(t, "access")
    /\ UNCHANGED <<lanes, place, busy, failed, locals>>

\* copyin on CUDA under the copy lane's lock: the copy is enqueued and recorded
\* as the storage's producer and as the tail that later launches wait for.
EnqueueCopy(s) ==
    /\ stream' = [stream EXCEPT ![Copy] = Append(@, [touches |-> {s}, after |-> {}, owes |-> {}])]
    /\ settled' = [settled EXCEPT ![Copy] = @ + 1]
    /\ producers' = [producers EXCEPT ![s] = Recorded(s, Copy, settled'[Copy], TRUE)]

\* The host reads or overwrites the storage, or the backend frees it.
Access(t) ==
    /\ step[t] = "access"
    /\ place' = CASE after[t] = "alloc" -> [place EXCEPT ![base[t]] = "used"]
                  [] after[t] = "free" -> [place EXCEPT ![base[t]] = "backend"]
                  [] OTHER -> place
    /\ IF after[t] = "copyin" /\ TracksLanes
       THEN EnqueueCopy(base[t])
       ELSE UNCHANGED <<stream, settled, producers>>
    /\ next' = IF after[t] = "stage" THEN [next EXCEPT ![t] = @ + 1] ELSE next
    /\ must' = [must EXCEPT ![t] = {}]
    /\ tokens' = [tokens EXCEPT ![t] = {}]
    /\ base' = [base EXCEPT ![t] = NoStorage]
    /\ after' = [after EXCEPT ![t] = "none"]
    /\ Step(t, IF after[t] = "stage" THEN "op" ELSE "idle")
    /\ UNCHANGED <<submitted, covered, copiesSeen, done, busy, failed, plan, gate, owes, token, left, spent>>

(* Buffers and LruAllocator.  A storage is freed when its last handle is       *)
(* dropped: no execute and no host access under way holds one.                 *)

Called(t) == step[t] = "idle" /\ spent < MaxSyncCalls /\ spent' = spent + 1

Idle(s) ==
    /\ \A p \in busy : s \notin Accesses(p)
    /\ \A u \in SyncThread : base[u] # s

\* copyin, copyout, as_host_bytes, as_array ...
HostAccess(t, s, purpose) ==
    /\ Called(t) /\ place[s] = "used"
    /\ CallWait(t, s, purpose)
    /\ UNCHANGED <<lanes, tables, plan, next, gate, owes, token, left, tokens>>

Pooled == {s \in Storage : place[s] = "pooled"}

\* LruAllocator::free: recycle undrained, or release when the pool is full.
FreeBuffer(t, s) ==
    /\ Called(t) /\ place[s] = "used" /\ Idle(s)
    /\ IF Cardinality(Pooled) < MaxPooled
       THEN place' = [place EXCEPT ![s] = "pooled"] /\ UNCHANGED <<base, after, must, step>>
       ELSE place' = [place EXCEPT ![s] = "leaving"] /\ CallWait(t, s, "free")
    /\ UNCHANGED <<lanes, producers, busy, failed, plan, next, gate, owes, token, left, tokens>>

\* Mutant: a recycled storage is handed out at once.
PopUnfenced(t, s) ==
    /\ place' = [place EXCEPT ![s] = "taken"]
    /\ base' = [base EXCEPT ![t] = s]
    /\ after' = [after EXCEPT ![t] = "alloc"]
    /\ must' = [must EXCEPT ![t] = Follows(t, s)]
    /\ Step(t, "access")

\* The popped storage is fenced before it is zeroed or handed out.
PopFenced(t, s) ==
    /\ place' = [place EXCEPT ![s] = "taken"]
    /\ CallWait(t, s, "alloc")

\* LruAllocator::alloc from the pool.
AllocPooled(t, s) ==
    /\ Called(t) /\ place[s] = "pooled"
    /\ PopFenced(t, s)
    /\ UNCHANGED <<lanes, producers, busy, failed, plan, next, gate, owes, token, left, tokens>>

\* LruAllocator::alloc from the backend, which registers the storage.
AllocFresh(t, s) ==
    /\ Called(t) /\ place[s] = "backend" /\ Pooled = {}
    /\ place' = [place EXCEPT ![s] = "used"]
    /\ producers' = [producers EXCEPT ![s] = {}]
    /\ UNCHANGED <<lanes, busy, failed, step, plan, next, gate, owes, token, left, base, tokens, must, after>>

\* The GPU finishes the next launch of a lane, once the events it waits for are
\* complete.
Complete(p) ==
    /\ done[p] < Len(stream[p])
    /\ \A x \in stream[p][done[p] + 1].after : IsDone(x)
    /\ done' = [done EXCEPT ![p] = @ + 1]
    /\ UNCHANGED <<submitted, covered, copiesSeen, stream, settled, tables, step, locals>>

SyncStep(t) ==
    \/ OrderTokens(t) \/ OrderTails(t) \/ Mark(t) \/ Launch(t) \/ Stage(t) \/ ExecuteFails(t) \/ Mint(t)
    \/ Record(t) \/ Published(t) \/ Lookup(t) \/ VisitLane(t) \/ LaneDrained(t) \/ TokensWaited(t) \/ Access(t)

SyncNext ==
    \/ \E t \in SyncThread :
        \/ SyncStep(t)
        \/ \E p \in Plan : Execute(t, p)
        \/ \E s \in Storage :
            \/ \E purpose \in {"read", "copyin"} : HostAccess(t, s, purpose)
            \/ FreeBuffer(t, s) \/ AllocPooled(t, s) \/ AllocFresh(t, s)
    \/ \E p \in Streams : Complete(p)

SyncSpec == SyncInit /\ [][SyncNext]_syncVars

---------------------------------------------------------------------------------
(* Properties.                                                                 *)

\* "Wait on the host for everything that may still touch the storage": when the
\* host reads or overwrites a storage, frees it or hands it out again, every
\* kernel and copy touching it that was submitted before by a call that has
\* returned, also with an error, or by the access's own plan has ended.
HostAccessFenced ==
    \A t \in SyncThread : step[t] = "access" => \A x \in must[t] : IsDone(x)

\* The part of it that the tokens alone give to concurrent threads: the access
\* follows what was submitted by calls that returned without an error.
ReturnedFenced ==
    \A t \in SyncThread : step[t] = "access" =>
        \A x \in must[t] : x.plan \in failed \cup {plan[t]} \/ IsDone(x)

\* "Order `lane` after every other lane's in-flight access that conflicts": no
\* kernel ends before the conflicting kernels and copies of other plans' calls
\* that returned before its execute began.
PlansOrdered ==
    \A p \in Plan : \A i \in 1..done[p] : \A x \in stream[p][i].owes : x.plan \in failed \/ IsDone(x)

=================================================================================
