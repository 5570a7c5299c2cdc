# Formal models of svod

svod is a tensor compiler and runtime in Rust. Lazy tensor programs become a
graph of operations (`ir`), are scheduled into kernels (`schedule`), rendered
(`codegen`), compiled and cached (`runtime`, `tensor`), and run on CPU, CUDA,
Metal or AMD devices (`device`). Most of the repository is term rewriting and
text generation. What a model checker is good for is the part underneath: the
process-wide tables and caches that many threads fill at once, the storage that
plans share, and the queues, timelines, leases and arenas that put kernels of
many threads on one device.

This directory holds TLA+ modules of that part, the TLC configurations that
check them, and TLAPS proofs. `PROJECT.json` maps every definition to the source
lines it stands for.

## Inventory

| component | state | operations | interacts with | what is hard | what makes it correct |
|---|---|---|---|---|---|
| hash consing (`ir/src/uop/hash_consing.rs`) | lock-free table of `Weak` nodes, a teardown queue per thread | `UOp::new`, `Drop for UOp` | every graph construction | entries die inside a lookup; insertion races; drops nest | one node per structure, no leak, bounded nesting |
| tensor registry and realize (`tensor/src/tensor_registry.rs`, `realize.rs`, `lib.rs`) | graph and once-set buffer per tensor, index from BUFFER to storage | `realize`, `bind_graph_buffers`, `register_buffer`, `apply_map_to_tensors` | execution plan, hash consing (drop hook) | a broadcast rewrites tensors other threads realize | graph, index and buffer agree and hold the tensor's data |
| singleflight (`tensor/src/singleflight.rs`) | map of in-flight keys, a flag and a condvar per key | `run`, `try_claim`, `try_claim_miss`, ticket drop | weight cache, kernel preparation | a key is forgotten before its waiters wake; winners panic | one ticket per key, nobody stranded |
| weight cache (`tensor/src/weight_cache.rs`) | map of `Weak` storages | `shared_weight_buffer` | singleflight, allocators | entries die at any time; stale reads before a removal | one live storage per key |
| kernel preparation (`tensor/src/realize.rs`) | optimized-kernel map and eviction queue | `compile_missing_kernels`, `KernelSite::{optimize, compile, build}`, site loop | singleflight, kernel cache, thread pool | many tickets held at once, per-kernel failures, a lock-free map beside a locked queue | no deadlock, no second build, bounded cache, failures keep the rest |
| kernel cache (`runtime/src/kernel_cache.rs`) | map from program hash to kernel | `get_or_compile_kernel`, `cached_kernel` | kernel preparation | concurrent misses | one kernel per key for the life of the process |
| BEAM helpers (`tensor/src/beam_worker.rs`) | slots with a helper process, its pipes, reader thread and channel | `WorkerPool::run`, `replace`, the helper's loop and watchdog | kernel optimization | crashes, hangs, deadlines, answers that come late | every candidate counted once, every wave ends |
| schedule, levels and memory planner (`tensor/src/schedule.rs`, `memory_planner/`, `runtime/src/leveling.rs`, `execution_plan.rs`) | items, levels, events, heap or pools, hazards of the graph | `instantiate_schedule`, `compute_topological_levels`, `memory_planner`, `build_graph` | realize, devices | storage shared over time, level barriers dropped on capture | no buffer overwritten while it is needed |
| TLSF heap (`memory_planner/tlsf.rs`, `amd/am/mm/tlsf.rs`) | block list, buckets | `alloc`, `free` | memory planner, AMD driver | rounding, splitting, coalescing | disjoint grants, no two free neighbours |
| execution and scoped waits (`execution_plan.rs`, `cuda/device.rs`, `amd/device.rs`, `allocator.rs`) | lanes with counts, tokens per storage, LRU pool | `execute`, `wait_storage`, `order_lane_after`, `LruAllocator::{alloc, free}` | every plan and host access | tokens recorded late, failing executes, storages recycled without a drain | a host access follows what touched its storage |
| host timeline signal (`device/src/sync.rs`) | atomic counter, condvar | `set`, `wait` | executor | `set` does not take the waiter's mutex | timed waits of reached targets succeed, untimed ones end |
| HCQ scheduler (`device/src/hcq.rs`) | none (a function of the plan) | `schedule_device_lanes`, linking | execution plan, executors | hazards across lanes, merging, staged copies | parallel equals sequential, no cyclic waits |
| HCQ native submissions and timelines (`device/src/hcq.rs`) | two signals and a counter per timeline | `native_submissions`, `reserve`, `take_resets` | linked plan | elided barriers and cache flushes; rollover | fresh reads, retired means done |
| AMD linked plan (`amd/linked_plan.rs`) | kernel arguments, timelines | `replay` | owner session, lane, queue | arguments rewritten in place; half-published epochs | an epoch's arguments outlive it |
| AMD finalizer (`amd/connector.rs`) | publication state, condvar, signal | `mark_published`, `mark_failed`, `wait` | linked plan, owners, drains | publishers that fail; deadlines | true verdicts, waits end |
| AMD lane pool (`amd/connector.rs`) | claim bits, count of lanes, two locks, condvar | `acquire`, lease drop, poison | every dispatch | lock-free claims, lazy creation, bounded parking | exclusive leases, no lost wakeups |
| AMD owner session (`connector.rs`, `device.rs`, `signal.rs`) | session lease, newest finalizer, lane counter and slot | `dispatch`, `synchronize`, `finish_replay`, `synchronize_all` | pool, queue, GPU | several threads per owner, lanes change, counters wrap, dispatches fail | per-owner order, what a synchronisation covers, dense timelines |
| AMD scratch (`connector.rs`, `queue.rs`) | backing, queue descriptor, the firmware's copy | `ensure_has_local_memory`, `publish_aql_descriptor`, `PoolQueue::drop` | queue, GPU | the old address is in commands in flight; every step can fail | a kernel has scratch of its size while it runs |
| AMD kernarg arena (`amd/kernarg.rs`) | cursor | `bump` | every dispatch of every lane | wraps while others hold reservations | disjoint live slots |

The components that are not modelled, or only in part, are listed with the
reason in `PROJECT.json` and under "Not modelled" below.

The hazards list in `PROJECT.json` is the guide for the properties: each hazard
names the line where it bites and the properties that would catch it.

## Modules

| module | models | composed with |
|---|---|---|
| `UOpIntern` | interning and teardown of IR nodes | in `MCPlans` |
| `TensorRegistry` | `Tensor::realize`, the index of storages and the broadcast | in `MCPlans` |
| `Singleflight` | the steps of the flight, and `FlightSpec`, what every user does to it | extended by `WeightCache`, `PrepareKernels` |
| `WeightCache` | `shared_weight_buffer`, step by step | on `Singleflight`; in `MCWaits` |
| `PrepareKernels` | batch compilation of plans and the optimized-kernel cache | on `Singleflight`; in `MCDispatch` |
| `KernelCache` | the compiled-program cache and its two callers | in `MCPlans` |
| `BeamWorkers` | the pool of BEAM helpers, the helpers and their readers | in `MCWaits` |
| `Tlsf` | the TLSF allocator as operators on a heap record | used by the next two |
| `TlsfHeap` | a client of one heap (`palloc`, `pfree`) | in `MCDevices` |
| `MemoryPlanner` | trip edges, levels, planner, graph capture and the graph's run | on `Tlsf`; in `MCPlans` |
| `ScopedSync` | `execute` on lanes, tokens, `wait_storage`, the LRU pool, the GPU | in `MCDevices`; alone in `MCScopedSync` |
| `CpuTimelineSignal` | the host signal | in `MCWaits` |
| `HcqSchedule` | the scheduler as operators | in `MCHcqPlans`; used by `HcqReplay` |
| `LinkedPlans` | linked plans as values, and what makes one orderly | used by the next; checked of the scheduler's plans in `MCDispatch` |
| `HcqExecution` | linked plans on concurrent lanes | with the plans of `MCHcqPlans` in `MCHcqExecution`, `MCPlans` |
| `HcqReplay` | repeated native replay: host, two queues, a write-back cache | on `HcqSchedule`; in `MCPlans` |
| `SubmissionFinalizer` | the publication of an epoch and the waits on it | in `MCWaits` |
| `LaneLease` | abstract: exclusive leases of lanes | implemented by `QueuePool`, used by `OwnerSession` |
| `QueuePool` | the lane pool, one step per atomic access | refines `LaneLease`; in `MCDispatch` |
| `OwnerSession` | dispatch, sessions, lane timelines, drains and the GPU | on `LaneLease`; in `MCDevices` |
| `LaneScratch` | a lane's scratch memory from build to teardown | in `MCDevices` |
| `KernargArena` | the shared argument arena | in `MCDevices` |
| `*Proofs` | theorems and their proofs | extend the module they are about |
| `MC*` | constants, programs and symmetry for TLC | |

`MCWaits`, `MCPlans`, `MCDevices` and `MCDispatch` put components side by side that answer one
question together: who is waited for, what a prepared plan rests on, who may use a
device when, and how a batch gets there. A variable `part`, chosen at the start, says which component a
behaviour exercises; the components share no state there, so their invariants
and liveness are those of the single modules, and the constants of all of them
are in one configuration. The explicit stuttering steps of these modules
(`FinalizerDone`, `SearchOver`, `InternOver`, `RegistryOver`, `MayStop`) name the
states in which a component may rest, so that TLC's deadlock check still finds
every other state without a successor; `MayStop` allows it anywhere for the
parts whose calls are all optional (see below).

### How state and actions correspond to the code

*UOpIntern.* A node's `structure` is its operation with its children by identity;
`strong` counts its Arcs. The table compares by upgrading an entry and dropping
that Arc afterwards, perhaps as the last one, in the middle of a lookup: `Probe`
and `Probed`, `Compute` and `Compared` are those pairs of steps, and a drop that
starts there is an activation on the thread's stack `frames`. The replacement of
an entry is the map's atomic `compute` (external). `Retire`, `Inspect`,
`ReleaseKid`, `GlueDone` and `Drain` are the statements of `Drop for UOp`. A node
is allocated again only when no Arc, no Weak and no activation refers to it.

*TensorRegistry.* A graph is a number of operations over one base: a constant, a
BUFFER, or a store into a BUFFER. That is what the substitution of the broadcast
tells apart: whether a tensor contains the realized graph, and what remains
above it. Each read of `self.uop()`, each write and each access of the index is a
step; the scan of `apply_map_to_tensors` reads one entry per step, the snapshot
reads them again, and the write-back is one step per entry because it holds the
entry's lock. The kernels are one step that computes the graph from what the
storages hold. An identity is gone from the index when no graph refers to it (the
drop hook). A plan may fail after its storages were bound.

*Singleflight.* A slot is the `Arc<(Mutex<bool>, Condvar)>` of one claim. Its
`stage` follows the ticket: held, then the three statements of `Ticket::drop`
(forget the key, set `done`, notify), each a step. `Park` is test and sleep in
one, since the loser holds the slot's mutex and `done` is written under it.
Identities are reused when nothing refers to them.

*WeightCache.* The lookup is three steps (read the map, upgrade the `Weak`,
conditional removal), because other threads run between them. A storage is alive
while some thread holds it; `Release` is the death of a model. An upload may
panic, which unwinds through the ticket.

*PrepareKernels.* Per thread, the phases of `compile_missing_kernels`; per thread
and key, the progress of the worker that has the key. `OptCacheState::insert` is
three steps: map, queue and pop under the mutex, removal of what was popped. In
`build` the inline optimization and naming are part of `Compile`, since only its
success or failure is visible.

*BeamWorkers.* A slot of `pool` is a `SpawnedWorker`; `process`, `stdin`, `stdout`
and `channel` are the helper, its two pipes and what its reader thread has
forwarded. The loops of `WorkerPool::run` go slot by slot, since helpers and
readers run between two polls. A helper may crash or hang, its own watchdog may
kill it once its task is `late`, and the pool may find it failed or late first.
`replace` moves the last slot into the freed place, as `swap_remove` does, and
spawns a new helper at the end, which may fail. Killing and reaping a helper with
its reader is part of the same step: the thread that polls does both and waits.

*MemoryPlanner.* A program is the unrolled schedule. `Wave` computes one Kahn
level, `ArenaAlloc`, `ArenaFree`, `PoolAlloc` and `PoolFree` process the event
timeline, `Capture` adds one kernel to the graph with its byte-range hazards, and
then the kernels run in every order the graph allows: what a kernel reads must stay
right from its start to its end, where it writes. Which buffers are excluded from
sharing is an input.

*Tlsf / TlsfHeap.* The heap is the block list and the order in which free blocks
were filed; a bucket's queue is the subsequence of its members. The bitmaps of the
code are functions of these.

*ScopedSync.* A lane counts its submissions before it launches them (`Mark`,
`Launch`); a token covers a prefix of a lane and is recorded storage by storage.
`wait_storage` copies the tokens, visits the lanes with uncovered submissions,
and waits. `TracksLanes` is TRUE for CUDA and FALSE for AMD, whose device keeps
tokens only. An execute may fail after any launch. A storage is freed when its
last handle is dropped, so while no execute and no host access holds it (`Idle`);
it then goes to the pool of its size and is fenced when handed out.

*SubmissionFinalizer.* The publisher rings `Doorbells` doorbells and may stop
after each; its guard then marks the finalizer Failed and poisons the device. A
waiter locks, tests, parks with a deadline, locks again, and polls the signal.

*LaneScratch.* A PM4 command carries the scratch it was packed with; an AQL queue
uses the copy of the descriptor the firmware made at its last mapping. Growing is
drain, allocate, unmap, write and remap, free the old one; each step may fail.

*HcqSchedule / HcqExecution.* Operations, resources and submissions are records
with the fields of the code. `HcqExecution` gives memory a meaning: every cell
knows which operation wrote it last, a command writes from its start and reads
until its end, so an overlap of two conflicting commands is visible as a wrong
value and not only as a missing edge.

*HcqReplay.* The native command streams are built by the operators that mirror
`native_submissions`; the compute queue works through a cache that a barrier
invalidates, a System-scope store writes back and that may write back at any
time; the copy queue works on memory. `Prepare` is everything of `replay` before
the first doorbell; each doorbell is a step; failures before it restore the
timelines (the arguments and the reset signals stay as written), failures after
it poison the device. The failure point between doorbells
(`publication_checkpoint`) is armed by the tests of the repository and never
fires in production; the model allows it.

*QueuePool.* `acquire` is one step per load, claim, lock and store. The
compare-and-swap loop of `try_claim` is one step: it claims the lowest clear bit
of the value its successful exchange saw. Building a lane may fail. `Expire` may
happen at any time during a sleep.

*OwnerSession.* A lane's `counter` and `signal` are `Timeline::value` and the slot
the GPU writes. `dispatch` holds the session mutex from start to end; it may fail
before its reservation and between reservation and doorbell, where `Withdraw`
rolls the value back. `synchronize` takes lease and finalizer under the mutex and
drops the lease outside, `finish_session` drops it inside, as in the code. The
leases are those of `LaneLease`, which `QueuePool` is shown to implement. The GPU
executes a ring in order and writes the value in a step of its own.

*KernargArena.* A reservation lives from the grant to the end of its job. A PM4
dispatch reserves once, an AQL dispatch a second time for its control stream
after the wait for headroom. The wrap is what the code does: unlock, drain what
is published, lock again, start at zero. Requests larger than the arena are
refused by the code and excluded by an assumption.

## Runs

All runs are listed in `PROJECT.json` with their properties; every property of a
passing run comes with a mutant of a mapped definition that breaks it.

| run | bounds | shows |
|---|---|---|
| `waits`: cache | 3 threads, 1 key, 3 slots, 3 storages, a call each | exclusivity, no stranded waiter, one live storage, calls return |
| `waits`: signal | 2 setters, 2 waiters, values to 2 | a timed wait whose target is reached while it is under way ends with success, although setters stop anywhere |
| `waits`: finalizer | 2 waiters, 2 waits each, 2 doorbells, failing publisher, faulting or stalling GPU | a decision wakes everybody, verdicts are true, waits end |
| `waits`: beam | 2 slots, 3 process identities, 2 waves of 2 candidates, 1 crash, 1 hang, 2 tasks per helper | every candidate counted once and answered by its own response; waves end |
| `plans`: cache | 2 threads, 2 keys, both modes, 2 calls | one kernel per key; ephemeral never published |
| `plans`: lanes | all 1296 sequences of 4 of 6 operations, 4 lanes on 2 devices, 3 merge limits | parallel equals sequential; no lane stuck; `dispatch` evaluates `SchedulesOrderly` on the same plans |
| `plans`: replay | plans of up to 3 of 5 operations on 2 cells (one of two that the exchange of the cells maps to each other), 7 epochs, rollover at 3 | no stale read, retired means done, arguments intact |
| `plans`: planner | every data flow of 5 kernels, two chains, a loop of two trips, a cycle, a dangling edge; 4 assignments of sizes, 3 modes, 2 devices | shared storage never overwritten while needed; the budget suffices |
| `plans`: intern | 2 threads, 3 calls of `UOp::new` each, chains of up to 3 nodes, 6 allocations | equal structures are one node; nothing leaks |
| `plans`: registry | 2 threads realizing any two of 5 tensors: two equal graphs, one on top of them, a constant, an assignment | buffer, graph, index and data agree |
| `devices`: kernargs | 1 lane, 12 bytes, 7 dispatches | disjoint slots through several wraps |
| `devices`: storages | CUDA, 2 threads, 2 plans, 2 storages, 3 calls | accesses follow returned executes; plans ordered on the GPU |
| `devices`: scratch | 3 segment sizes, 4 kernels, PM4 and AQL, failing steps | scratch suffices while a kernel runs |
| `devices`: heap | 16 units, sizes 1, 3, 5, alignments 1, 4, 6 allocations | grants disjoint, free neighbours coalesced |
| `devices`: sessions | 2 threads, 2 owners, 2 lanes, 3 jobs, 3 calls each, watermark 2, ring 1, failing dispatches | order, coverage, dense timelines, also across wraps; no call stuck before one |
| `dispatch`: batches | 2 batches of the same 2 keys in opposite orders, one repeats a key, one may be ephemeral, cache of 1 | cache and queue agree, no second build, failures keep the rest, both end |
| `dispatch`: lanes | 3 clients, 2 lanes, 2 acquisitions each, 1 fault | leases exclusive and ready, fault wakes all, acquisitions end without their timeout |
| `cuda_drain` | CUDA, 2 threads, a plan with a kernel and a host leg and one that reads its result | **violation**: the host reads what the kernel still writes, after another thread's drain |
| `intern_race` | 3 threads, a call of `UOp::new` each, at most one operation | **violation**: two live nodes of one structure |
| `cpu_timeline_lost` | 1 setter, 1 waiter | **violation**: lost wakeup of an untimed wait |
| `timeline_wrap` | watermark 2, 4 jobs | **violation**: waits left behind by the reset |
| `kernarg_lanes` | 2 lanes, 13 bytes | **violation**: overlap of reservations |
| `amd_plan_copy` | AMD, 1 thread, a plan with a kernel and a host leg | **violation**: the host reads what the kernel still writes |
| `deep_teardown` | 1 thread, 5 calls, two-child operations | **violation**: nested drops, one per node |
| `placeholder_race` | 2 threads, an assignment to a placeholder and a read of it | **violation**: two storages for one identity |

Why the bounds are enough: each is the smallest at which the hazards occur. Three
threads give a winner, a loser of its slot and the winner of the next claim of
the same key. Four operations give a staged copy with a conflicting operation
before and after it and a submission to merge with. Seven epochs on a rollover of
three reuse the storage many times with host writes in between and take every
timeline to its shadow signal and back. Five kernels leave room for a buffer that
dies, one that is laid over it, and a reader of each in the same wave; the sizes
differ in their rounding, and the chains make one buffer overlap two others
partly. Three nodes per thread make a parent, a child and a leaf that one thread
drops while the other asks for them. Two slots, two waves and one spare identity
make `replace` move a slot during a poll and let a helper answer after its
candidate was dropped. In `dispatch` the key of a slot that no claim has
used yet is fixed, since nothing reads it. Two lanes for three clients make one of
them sleep and let creation race a claim. Three jobs pass a watermark of two and let an owner move
from one lane to the other. Six allocations on sixteen units fragment the heap in
both directions. Bounds on calls, jobs and epochs are guards of the calling
actions only, never of a step inside a call. Symmetry (threads, owners, lanes,
which nothing orders) is used in `devices` and `timeline_wrap`, which have no
temporal property.

Deadlock is checked in every passing run. In `devices`, `MayStop` allows the
parts `storages`, `scratch`, `heap` and `sessions` to stop, since their calls are
optional and, after a wrap, a session's wait can be left behind, which is what
`timeline_wrap` reports. In its place `NoCallStuck` demands that before a wrap a
session's call under way always leaves the host or the GPU something to do; a
call is a finite sequence of steps, so it returns.

### Fairness

Weak fairness for every thread inside a call (the operating system schedules it,
uploads and compilations end), for the notification that follows a stored value
or fault, and for the drop of a lease. For a waiter of a finalizer or of the host
signal, including the expiry of a timed sleep, because time passes; none for the
publisher of an epoch, the GPU or, in `waits`, the setters of a signal, which may
stop between storing a value and announcing it. In a
BEAM search, for the polling loop, the reader threads and the ageing of a task;
none for the helpers and their watchdogs, which may crash, hang or starve. The
deadline exists only for a timeout above 0; `compile_timeout_secs = 0`, which
turns it off, is excluded, and with it a hung helper would hang the wave. Not
assumed: that anybody makes a call, and, in `QueuePool`, that the bounded sleep
expires; `AcquiresReturn` holds without it. The other components need no fairness:
that nothing blocks is an invariant of theirs, or TLC's deadlock check.

### Findings

1. `cpu_timeline_lost`: `CpuTimelineSignal::set` notifies without the waiter's
   mutex; a waiter that has tested the counter and not yet gone to sleep misses
   it, and without a time limit never wakes.
2. `kernarg_lanes`: the wrap of the argument arena drains what is published, not
   what other lanes have reserved, and resets a cursor that may have moved during
   the drain. With one lane the arena is safe as long as it has room for the
   reservations of the dispatches in flight, as the theorem `ArenaSlotsDisjoint`
   states; `devices` is sized for that.
3. `timeline_wrap`: the reset of a lane timeline strands waits for values of the
   old generation: a concurrent device-wide drain, or an owner that synchronizes
   with a finalizer from before the reset.
4. `amd_plan_copy`: a host leg inside an AMD plan is not fenced against the
   kernels of the same execute, whose token is recorded only at its end.
5. `intern_race`: a call whose comparison partner has died inserts its own node in
   the dead entry's place. A third thread that did not find the dead entry equal
   has inserted another node by then, and both calls return different nodes for
   one structure, against the doc of `UOp::new`.
6. `deep_teardown`: a node that names the same child twice holds two Arcs of it,
   so its drop does not see that the child dies with it, and the teardown of a
   chain of such nodes recurses once per node.
7. `placeholder_race`: the first uses of a placeholder by two threads bind two
   storages to it; one of the two plans works on the one that is replaced.
8. `cuda_drain`: CUDA counts a submission before it launches the kernel. A scoped
   wait of another thread between the two drains a stream without the kernel and
   publishes the count that includes it. Until the execute records its token, the
   lane looks drained and the storage has no token for the kernel, so no access
   waits for it: the staged copy leg of the same plan reads its source while the
   kernel writes it. If the execute fails before it records a token, this
   stays so for every later access until the lane is used again. With one host
   thread the count protects every access, after failed executes too: TLC finds
   `HostAccessFenced` to hold of the same configuration with `SyncThread = {t1}`.
   What several threads keep is `ReturnedFenced`, about executes that returned
   without an error.

Remarks without a run:

- The remap planner pools buffers by rounded size but hands out the storage with
  its own length (`process_events`, `memory_planner/mod.rs:538`): a buffer may get
  the storage of a shorter one, although the doc of `BufferPoolKey` (lines 111-113)
  calls buffers of the same rounded size "interchangeable storage".
  `MCMemoryPlanner` with `PlannerModes = {"remap"}`, the planner's constants of
  `MCPlans.cfg` and the invariant `StorageFits` shows it.
- Two threads that realize clones of one tensor entry at once violate
  `IdentitiesAgree` as well: the second `set_buffer` is lost, which
  `register_buffer` logs as an error that "must never pass silently"
  (`tensor_registry.rs:225`). The runs give every thread a tensor of its own.
- A failing unmap in `publish_aql_descriptor` leaves the new host state beside the
  old descriptor (`torn` in `LaneScratch`), although the comment at
  `connector.rs:597` calls the replacement atomic.
- A drain that has read a counter whose reservation is then withdrawn waits until
  the next dispatch of that lane (`DrainsWithdrawn` in `OwnerSession`).
- The doc of `get_or_compile_kernel` says that exactly one of several concurrent
  callers compiles. In the code, and in `KernelCache`, all that miss together
  compile and all but one discard the result; they still agree on one kernel
  (`PublishedAgree`, proved).
- BEAM: writing a job to an idle helper that has died fails the whole wave, a
  failed spawn in `replace` leaves the pool smaller and ends the search, and the
  handshake of a new helper has no deadline.
- `UnifiedExecutor`, which nothing in the repository calls: a CPU-mediated
  transfer waits for a timeline value it has reserved itself before it signals it,
  and a kernel that fails leaves a hole that `synchronize_all` waits for.
- The AMD driver's page tables: unmapping a range mapped with huge and small pages
  clears a table entry as if it were a leaf and leaks the table; a contiguous
  allocation that runs out of memory leaks its address range.

## Proofs

TLAPS proves the following for every value of the constants, from the named
assumptions of the modules only: `NoSlotAssumption`, `CacheAssumption`,
`PoolAssumption`, `NobodyAssumption`, `KernelAssumption`, `PrepareAssumption`,
`FinAssumption`, `BeamAssumption`, `SessionAssumption`,
`ScratchAssumption`, `SyncAssumption`, `ArenaAssumption`, `InternAssumption` and
`RegistryAssumption`. They say that the "none" values are not
members, that bounds are naturals and limits positive, and that plans are sequences
of keys or of operations on storages. The
bounds on calls, jobs and tasks are constants too, so the theorems hold for runs
of any length. Each inductive invariant was checked with TLC before it was
proved.

*The flight* (`SingleflightProofs`). `FlightInv` adds to the types `Registered`:
a held slot is the one the map has for its key. It is needed because
exclusivity is about two slots and a step only looks at one map entry.
`FlightTicketsExclusive` and `FlightWaitersWoken` follow.

*The weight cache* (`WeightCacheProofs`). `CacheRefinesFlight`: the cache
implements `FlightSpec`, so the flight's theorems hold of it. `CacheShares`, the
main theorem: no key has two live storages. The inductive invariant says that a
thread in the critical part holds the ticket for its key (`Ticketed`), that an
unpublished storage is known to its creator alone (`Private`), that a live
published storage is the one in the map (`Published`), and that once a ticket
holder has seen a dead or missing entry nobody else can make it live again
(`MissStands`): the conditional removal and the second lookup are exactly what
makes the last part inductive.

*The lane pool* (`LanesProofs`). `PoolInv` says who is creating (the holder of
the creation lock, with the count it loaded still current: `Creating`), that
every lane below the count has a queue (`Covered`), that a claim bit is set
exactly for the lanes of leases and of the lane being created (`Claims`), and
that a client that can still go to sleep holds the wait lock with the fault not
announced (`Sleepers`). From it: types, `PoolLeasesReady`, `PoolPoisonWakes`, and
`PoolImplementsLeases`, the refinement of `LaneLease` under the mapping `Holder`.

*Linked plans* (`LanesProofs`). `LanesProgramOrder` and `LanesGoOn`: for any lanes and
any orderly plans, whatever their length, the concurrent execution computes what
the program order computes, and the lanes never wait for each other in a circle.
Orderly (`LinkedPlans`) is a promise about the plan alone: every command is
submitted once; the points of a lane grow and a wait is for the point of an
earlier submission; of two commands that touch a cell, one of which writes it, the
later one is behind the other on its lane or waits for a point that covers it;
and the commands write what their operations write, in their order, a staged copy
through a buffer of its own. That the scheduler keeps the promise is what its folds
compute, so it is a hypothesis of the theorems, which `SchedulesOrderly` in
`MCDispatch` evaluates for every plan of the `plans` run. `LanesInv` relates four
views of a lane's progress: its position, the commands started and finished
(`Progress`), the points stored (`PointsStored`) and the points waited for
(`Waited`). `LastWriter` says that a cell holds what the last command that started
to write it writes. It is inductive because a command that starts finds every
earlier command it conflicts with finished and no later one begun
(`WritersAround`); that a read finds the right value is `FindsInOrder`. For
`LanesGoOn` the lane to look at is the one whose submission comes first in the plan.

*The kernel cache* (`PlansProofs`). `KernelInv` adds what a thread about to
publish carries. `KernelCallsAgree` and `KernelBelongs` follow: concurrent
compilation is harmless.

*Hash consing* (`PlansProofs`). `InternNothingLeaks`, for any number of threads:
when no call is under way, the allocated nodes are the ones some thread holds, or
descendants of those, and the table has no other entry. The invariant counts.
Every strong reference has one owner (a handle of a thread, a reader that has
upgraded an entry, a call that is making the node, an operation on its way in, a
parent, an activation of `drop`, or the teardown queue), and `Counted` says that
`strong` is the number of owners, whatever node and whichever call. `Staged` is
what a call may rely on between two of its steps, `Deaths` says which activation
has which dying node, and `Queued` that a teardown queue does not outlive its
drain. A step changes one owner of each node it touches, so the proof of a step
is a proof about two sets that differ in one member.
`InternUniqueForTwo` says that with at most two threads live nodes of one
structure are one node. Besides the counting it needs that a call about to insert
knows of no live node of its structure (`Apart`). That is true for two threads
because a live entry can appear behind a call's back only by the other thread, and
that one is then not inside a drop, so no dead entry can compare equal to the
call's. With three threads the property is false: `intern_race` is the
counterexample TLC found.

*The tensor registry* (`PlansProofs`). `RegistryIdentitiesAgree`: when `realize` has
returned, the tensor's graph, its `OnceLock` and the index name one storage, and
it holds the tensor's data, for any number of threads, tensors, graphs and
storages. Two hypotheses are about use. `OnesOwn`: each thread realizes a tensor of
its own, a placeholder is read only through a store, and an identity that is stored
into is the base of no other tensor that is being realized. Without the last part
two plans bind the same placeholder, which `placeholder_race` shows. `Supply`:
free numbers of storages and identities exist whenever one is taken; it is an
invariant of the instance TLC checks. The invariant rests on three notions. An
identity is `Settled` when it is bound and nobody has yet to store into it: no
step changes its storage or what that holds (`Undisturbed`). A graph `Stands` for a
tensor when it computes what the tensor is to hold, from a settled identity or
by the very store the call started with. A storage is `Private` between its
allocation and its registration. `Entry`, `Planning` and `Replacing` say with these
what the tensor's graph, the plan of a call and the identity that takes the graph's
place are at each step. The broadcast is the step that writes other threads'
tensors. It keeps them because a graph over the old one computes the same over the
new identity, whichever of its two reads the substitution starts from
(`SubstituteValue`), and because it never touches a tensor that already has an
identity (`Replaced`).

*Kernel preparation* (`PrepareKernelsProofs`). `PrepareRefinesFlight`: batches
use `opt_flight` only through its steps, so nobody is stranded
(`PrepareWaitersWoken`). `PrepareInv` says how far the work on a key can be in
each phase (`Staged`), that work on a key is done under a ticket of its own
(`Ticketed`), and that a key past its compilation has a result (`Decided`). With
the flight's exclusivity this gives `PrepareBuildsOnce`: what the second lookup
missed stays missing until the holder publishes it. Only then does
`PrepareFifoMatches` go through: a key about to be pushed is neither in the queue
nor with an evicting worker (`Evicting`), because nobody else could have published
it. `PrepareFailsClean` is about the batch that returns an error.

*Waits* (`WaitsProofs`). `FinDecisionWakes` and `FinVerdictsTrue`, for the finalizer, need `Decision`:
a publication is undecided exactly while its publisher is at work, and a failed one
leaves the device poisoned or its publisher about to do so. `BeamWavesAccounted`
rests on `BeamInv`: a helper owes its slot's candidate and nothing else, in exactly
one of its pipes, its reader or its channel (`Owes`), slots have different
helpers and candidates, and the count of finished candidates is that of the
decided ones. The replacement of a helper with its pipes is what keeps a late
answer from being counted in a later wave.

*Owner sessions* (`DevicesProofs`). `SessionInv` has three parts. `Holding`: a
dispatch holds its owner's mutex, and a lease is in the session or with the one
thread that took it out; this gives `SessionRefinesLease`. `Timelines`: a lane's
ring continues the value stored, the counter is one ahead of it unless a thread
is between reservation and doorbell or in the reset, and a job that has not ended
is on its ring; this gives `SessionTimelineDense`. `Order`: the newest finalizer
stands for all jobs of its owner except between the doorbell and `set_newest`, and
the lane of a session carries all of them; this gives `SessionOwnerOrder` and
`SessionSynchronizeCovers`. All of them include wraps, failed dispatches and
withdrawn reservations.

*Scratch* (`DevicesProofs`). `ScratchInv` says that a grow has drained the lane and
that what it will free is not in use (`Growing`), and that the firmware's copy is
what the host keeps outside of a grow (`InStep`), with the exceptions the code
leaves: a failing unmap, and a device that takes no more dispatches. `ScratchSafe`
follows.

*The argument arena* (`DevicesProofs`). `ArenaSlotsDisjoint` is about one lane, since
`kernarg_lanes` refutes more. It assumes that a dispatch needs at most `W` bytes
with the padding of its alignments and that `(MAX_INFLIGHT + 3) * W` bytes fit in
the arena: with 2048 dispatches in flight and 16 MiB, `W` is 8180. The code does
not check this bound. `ArenaInv` says where a reservation in use may be
(`Placed`): behind the cursor, or at the end of the arena with the cursor not
further than the later dispatches can have moved it. The second case is the
control stream of a dispatch whose first reservation was placed before a wrap and
which wrapped for the second: it has drained what is published, and that is not
its own first record.

*Scoped waits* (`SyncProofs`). `SyncInv` says that a storage has tokens for the
settled launches that may touch it (`Kept`), also while tokens are replaced one
storage after the other (`Recording`); that one thread executes a plan and keeps
its storages in use (`Executors`); that the backend has only drained storages
(`Places`); and that the tokens a thread has copied cover what it must follow
(`Fences`). `Kept` alone is not inductive: waiting drops tokens, and the pool
hands storages out with the tokens of their former life. `SyncAccessFenced` holds
with tracked lanes and without. `SyncPlansOrdered` is about CUDA
(`TracksLanes`): its `OrderInv` follows each obligation of an execute from the
tokens into the gate and from there into the stream. An AMD device has no
`order_lane_after`; what orders an owner's work there is the subject of
`SessionOwnerOrder`.

Only model-checked:

- all liveness properties, among them all that is claimed of the host signal, and
  `NoCallStuck` of `OwnerSession`: fairness and ENABLED are outside of the
  prover's reach;
- that `HcqSchedule` makes orderly plans, and the properties of `HcqReplay`,
  `MemoryPlanner`, `Tlsf` and `TlsfHeap`: they depend on what folds over operations
  and block lists compute, which needs induction over data;
- `HostAccessFenced` for CUDA with one host thread;
- the properties of the runs that are expected to be violated.

## Abstractions and limits

- Waits with the 30 s device timeout block until satisfied, except in
  `SubmissionFinalizer`, whose deadlines are modelled. A wait that could never be
  satisfied is reported as a violation instead.
- Kernels, programs, weights and messages are opaque identities; packets and
  encodings are left out.
- Memory is sequentially consistent between host threads; the acquire and release
  orderings of the code are taken to be sufficient for that.
- `HcqReplay` models one device with a compute and a copy queue, as the native
  path requires. `ScopedSync` models one size class of the LRU pool; the tokens
  AMD records without a storage are not in it.
- The graphs of `TensorRegistry` have one base each. `has_zero_elements` and
  errors of the preparation before storages are bound leave no trace and are
  left out.

## Not modelled

By lines, most of the repository is outside of what these tools can say something
about: rewrite rules and scheduling passes (`ir`, `schedule`), whose correctness is
the semantics of terms; code generators, tile kernels and model definitions
(`codegen`, `tk`, `model`, `onnx`, `arch`), which are straight-line construction of
text or graphs; generated register tables and ioctl wrappers (`device/src/amd`);
element types and macros. None of it keeps state that steps of several actors
change. The map therefore covers a small share of all lines, and a large one of
the lines that synchronize, cache, lease, allocate or retry.

What does keep state and is still out:

- the schedule cache, the device registries and the object cache: maps that are
  filled once, the last through a temporary file and a rename;
- page tables of the AMD driver, its register programming and the SR-IOV mailbox:
  the first by effort (see the remark above), the others as device I/O;
- copies between two CUDA buffers, CUDA graphs and profiling; Metal;
- size keys and the out-of-memory retry of the LRU allocator;
- command encoding, capture and profiling of HCQ plans, replication of a plan
  over lanes;
- `UnifiedExecutor`, which is not called.

## Plan

Done, in this order: flight and weight cache; the HCQ scheduler with its
execution; replay and epoch timelines; host signal and kernel cache; lane pool
and leases; owner sessions; argument arena; kernel preparation; their proofs;
withdrawn reservations, finalizer and scratch; scoped waits and the LRU pool;
TLSF, memory planner, levels and graph capture; hash consing; tensor registry;
BEAM helpers.

Then the proofs of kernel preparation, the finalizer, the BEAM
helpers, owner sessions, scratch, scoped waits, hash consing, the argument arena,
the tensor registry and linked plans.

Next: the state listed above as still out, first the page tables of the AMD driver
and the device registries. What the scheduler, the planner and the heap compute
for every input needs an induction over sequences and stays with TLC.
