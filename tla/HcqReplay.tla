------------------------------ MODULE HcqReplay ------------------------------
(* Repeated native replay of a single-device plan on AMD queues:               *)
(* SemanticLinkedPlan::native_submissions (device/src/hcq.rs) lowers the lanes *)
(* to command streams with one finalizer; OwnerCtx::replay_linked_plan and     *)
(* AmdLinkedPlan::replay (device/src/amd) retire the previous epoch, repack    *)
(* the kernel arguments, reserve timeline points, patch and publish.           *)
(*                                                                             *)
(* The compute queue works through a write-back cache: a barrier invalidates   *)
(* it, a System-scope store writes it back, a Queue-scope store leaves it      *)
(* alone (lower_hcq_pm4).  The copy queue works on memory.  A value is         *)
(* <<epoch, writer>>; writer 0 is the host.                                    *)
EXTENDS HcqSchedule

CONSTANTS Operations,  \* the operations plans are made of
          MaxOps,      \* bound: operations in a plan
          MaxEpochs,   \* bound: replays
          ROLLOVER     \* TIMELINE_ROLLOVER, at least the operations of a plan

ASSUME RolloverAssumption == ROLLOVER \in Nat /\ ROLLOVER >= MaxOps

VARIABLES ops,        \* the captured plan
          timelines,  \* SubmissionTimelines
          signals,    \* the six signal words
          newest,     \* the point whose store retires the last epoch
          kernargs,   \* epoch whose arguments are packed
          epoch,      \* epochs published (or begun)
          pending,    \* submissions of the epoch still to be published
          poisoned,   \* a publication failed half way
          ring,       \* Queue -> commands published and not consumed
          cache,      \* Cell -> line of the compute queue's cache
          mem,        \* Cell -> value
          before,     \* Cell -> value in-order execution left before this epoch
          image,      \* Cell -> value in-order execution leaves after this epoch
          faults      \* what a command found wrong

hostVars == <<timelines, newest, kernargs, epoch, pending, poisoned>>
replayVars == <<ops, hostVars, signals, ring, cache, mem, before, image, faults>>

Queues == {"compute", "copy"}
Timelines == {"device", "compute", "copy"}
Device == "d"
FinalLane == Lane(Device, "compute")
NoMerge == [max_submissions |-> 1, max_commands |-> 0]

Cells(rs) == UNION {{<<r.id, a>> : a \in r.start..(r.end - 1)} : r \in rs}
AllCells == UNION {Cells(o.reads \cup o.writes) : o \in Operations}
Empty == [valid |-> FALSE, dirty |-> FALSE, value |-> <<0, 0>>]

---------------------------------------------------------------------------------
(* native_submissions: slot 0 is the previous epoch's device point, slot i the *)
(* point of operation i, slot Len + 1 this epoch's device point.               *)

Barrier == [kind |-> "barrier", slot |-> 0, system |-> FALSE]
WaitOn(slot) == [kind |-> "wait", slot |-> slot, system |-> FALSE]
Exec(i) == [kind |-> "exec", slot |-> i, system |-> FALSE]
Store(slot, system) == [kind |-> "store", slot |-> slot, system |-> system]

FirstUse(subs, i) == \A j \in 1..(i-1) : subs[j].lane # subs[i].lane
ProducerOf(subs, w) == CHOOSE j \in DOMAIN subs : subs[j].lane = w.lane /\ subs[j].signal = w.value
Producers(subs, i) == {ProducerOf(subs, w) : w \in subs[i].waits}
LatestOf(subs, lane) == Max({j \in DOMAIN subs : subs[j].lane = lane})
OtherLanes(subs) == {subs[j].lane : j \in DOMAIN subs} \ {FinalLane}
Waits(slots) == LET s == SetToSortSeq(slots, <) IN [n \in DOMAIN s |-> WaitOn(s[n])]

\* The stores somebody else waits on: another lane or the finalizer.
Published(subs) ==
    (UNION {Producers(subs, i) : i \in DOMAIN subs}) \cup {LatestOf(subs, l) : l \in OtherLanes(subs)}

\* Mutant: nothing invalidates the cache after a wait.
PreambleNoAcquire(subs, i) ==
    (IF FirstUse(subs, i) THEN <<Barrier, WaitOn(0)>> ELSE <<>>) \o Waits(Producers(subs, i))

Preamble(subs, i) ==
    (IF FirstUse(subs, i) THEN <<Barrier, WaitOn(0)>> ELSE <<>>)
    \o Waits(Producers(subs, i))
    \o (IF subs[i].waits # {} THEN <<Barrier>> ELSE <<>>)

\* Mutant: the finalizer stores without waiting for the other lane.
FinalizerNoWait(subs) == [queue |-> "compute", commands |-> <<Store(Len(subs) + 1, TRUE)>>]

Finalizer(subs) ==
    [queue |-> "compute",
     commands |-> (IF \E i \in DOMAIN subs : subs[i].lane = FinalLane THEN <<>> ELSE <<Barrier, WaitOn(0)>>)
                  \o Waits({LatestOf(subs, l) : l \in OtherLanes(subs)})
                  \o <<Store(Len(subs) + 1, TRUE)>>]

NativeSubmissions(subs) ==
    [i \in DOMAIN subs |->
        [queue |-> subs[i].lane.queue,
         commands |-> Preamble(subs, i) \o <<Exec(i), Store(i, i \in Published(subs))>>]]
    \o <<Finalizer(subs)>>

Native == NativeSubmissions(ScheduleDeviceLanes(ops, NoMerge))

---------------------------------------------------------------------------------
(* EpochTimeline: two signals, used in turn.                                   *)

FreshTimeline == [active |-> 0, next |-> 1, reset |-> FALSE]

\* EpochTimeline::reserve, the state after it; the point is <<signal, value>>.
Reserve(tl) ==
    IF tl.next > ROLLOVER
    THEN [active |-> 1 - tl.active, next |-> 2, reset |-> TRUE]
    ELSE [tl EXCEPT !.next = @ + 1]

Current(name, tl) == [signal |-> <<name, tl.active>>, value |-> tl.next - 1]

\* SubmissionTimelines::take_resets
Resets(tls) == {<<n, tls[n].active>> : n \in {n \in Timelines : tls[n].reset}}

\* The points of one epoch: reserve_queue for every operation in order, then
\* finalize_device.  slots[i + 1] is the point of slot i.
ReserveEpoch(native) ==
    LET Step(acc, sub) ==
            LET n == IF sub = native[Len(native)] THEN "device" ELSE sub.queue
                tl == Reserve(acc.tls[n])
            IN  [tls |-> [acc.tls EXCEPT ![n] = tl], slots |-> Append(acc.slots, Current(n, tl))]
    IN  FoldLeft(Step, [tls |-> timelines, slots |-> <<Current("device", timelines["device"])>>], native)

\* AmdLinkedPlan::replay patches every command of the native submissions.
Patch(native, slots, e) ==
    [i \in DOMAIN native |->
        [queue |-> native[i].queue,
         commands |-> [c \in DOMAIN native[i].commands |->
            LET k == native[i].commands[c] IN
            [kind |-> k.kind, op |-> k.slot, system |-> k.system, epoch |-> e, point |-> slots[k.slot + 1]]]]]

---------------------------------------------------------------------------------

ReplayInit ==
    /\ ops \in UNION {[1..n -> Operations] : n \in 1..MaxOps}
    /\ timelines = [n \in Timelines |-> FreshTimeline]
    /\ signals = [s \in Timelines \X {0, 1} |-> 0]
    /\ newest = [signal |-> <<"device", 0>>, value |-> 0]
    /\ kernargs = 0 /\ epoch = 0 /\ pending = <<>> /\ poisoned = FALSE
    /\ ring = [q \in Queues |-> <<>>]
    /\ cache = [x \in AllCells |-> Empty]
    /\ mem = [x \in AllCells |-> <<0, 0>>]
    /\ before = mem
    /\ image = mem
    /\ faults = {}

Reached(point) == signals[point.signal] >= point.value

\* Mutant: the host waits for the epoch before the newest one.
RetiredEarly == pending = <<>> /\ signals[newest.signal] + 1 >= newest.value

\* OwnerCtx::synchronize lets the host go on.
Retired == pending = <<>> /\ Reached(newest)

WritersOf(x) == {n \in DOMAIN ops : x \in Cells(ops[n].writes)}

\* replay, up to the first doorbell: pack kernargs, reserve, reset, patch.  A
\* failure on the way restores the timelines and publishes nothing.
Prepare ==
    /\ Retired /\ ~poisoned /\ epoch < MaxEpochs
    /\ kernargs' = epoch + 1
    /\ LET native == Native
           reserved == ReserveEpoch(native)
       IN  /\ signals' = [s \in DOMAIN signals |-> IF s \in Resets(reserved.tls) THEN 0 ELSE signals[s]]
           /\ \/ /\ timelines' = [n \in Timelines |-> [reserved.tls[n] EXCEPT !.reset = FALSE]]
                 /\ pending' = Patch(native, reserved.slots, epoch + 1)
                 /\ epoch' = epoch + 1
                 /\ before' = image
                 /\ image' = [x \in AllCells |-> IF WritersOf(x) = {} THEN image[x]
                                                 ELSE <<epoch + 1, Max(WritersOf(x))>>]
              \/ UNCHANGED <<timelines, pending, epoch, before, image>>
    /\ UNCHANGED <<ops, newest, poisoned, ring, cache, mem, faults>>

\* One doorbell; the owner keeps the finalizer once the last one has rung.
PublishEpoch ==
    /\ pending # <<>>
    /\ ring' = [ring EXCEPT ![Head(pending).queue] = @ \o Head(pending).commands]
    /\ pending' = Tail(pending)
    /\ newest' = IF Len(pending) = 1 THEN Last(Head(pending).commands).point ELSE newest
    /\ UNCHANGED <<ops, timelines, kernargs, epoch, poisoned, signals, cache, mem, before, image, faults>>

\* A checkpoint fails after a doorbell: the device is poisoned.
PublishFails ==
    /\ pending # <<>> /\ Len(pending) <= Len(ops)
    /\ pending' = <<>>
    /\ poisoned' = TRUE
    /\ UNCHANGED <<ops, timelines, newest, kernargs, epoch, signals, ring, cache, mem, before, image, faults>>

\* Between epochs the host may rewrite a buffer of the plan (once per epoch).
HostWrite(x) ==
    /\ Retired /\ ~poisoned /\ epoch \in 1..(MaxEpochs - 1)
    /\ image[x] # <<epoch, 0>>
    /\ mem' = [mem EXCEPT ![x] = <<epoch, 0>>]
    /\ image' = [image EXCEPT ![x] = <<epoch, 0>>]
    /\ UNCHANGED <<ops, hostVars, signals, ring, cache, before, faults>>

\* What operation n must read from x in epoch e.
Expected(n, x, e) ==
    LET earlier == {m \in WritersOf(x) : m < n}
    IN  IF earlier = {} THEN before[x] ELSE <<e, Max(earlier)>>

Seen(q, x) == IF q = "compute" /\ cache[x].valid THEN cache[x].value ELSE mem[x]

RunExec(q, k) ==
    LET reads == Cells(ops[k.op].reads)
        writes == Cells(ops[k.op].writes)
    IN  /\ faults' = faults
            \cup (IF \E x \in reads : Seen(q, x) # Expected(k.op, x, k.epoch) THEN {"stale"} ELSE {})
            \cup (IF q = "compute" /\ kernargs # k.epoch THEN {"kernargs"} ELSE {})
        /\ IF q = "compute"
           THEN /\ cache' = [x \in AllCells |->
                    IF x \in writes THEN [valid |-> TRUE, dirty |-> TRUE, value |-> <<k.epoch, k.op>>]
                    ELSE IF x \in reads /\ ~cache[x].valid THEN [valid |-> TRUE, dirty |-> FALSE, value |-> mem[x]]
                    ELSE cache[x]]
                /\ UNCHANGED mem
           ELSE /\ mem' = [x \in AllCells |-> IF x \in writes THEN <<k.epoch, k.op>> ELSE mem[x]]
                /\ UNCHANGED cache
        /\ UNCHANGED signals

RunStore(q, k) ==
    LET flushed == IF q = "compute" /\ k.system THEN {x \in AllCells : cache[x].dirty} ELSE {}
    IN  /\ signals' = [signals EXCEPT ![k.point.signal] = k.point.value]
        /\ mem' = [x \in AllCells |-> IF x \in flushed THEN cache[x].value ELSE mem[x]]
        /\ cache' = [x \in AllCells |-> IF x \in flushed THEN [cache[x] EXCEPT !.dirty = FALSE] ELSE cache[x]]
        /\ UNCHANGED faults

\* The queue consumes its next command.
Consume(q) ==
    /\ ring[q] # <<>>
    /\ LET k == Head(ring[q]) IN
        \/ /\ k.kind = "barrier"
           /\ cache' = IF q = "compute" THEN [x \in AllCells |-> IF cache[x].dirty THEN cache[x] ELSE Empty] ELSE cache
           /\ UNCHANGED <<mem, signals, faults>>
        \/ k.kind = "wait" /\ Reached(k.point) /\ UNCHANGED <<cache, mem, signals, faults>>
        \/ k.kind = "exec" /\ RunExec(q, k)
        \/ k.kind = "store" /\ RunStore(q, k)
    /\ ring' = [ring EXCEPT ![q] = Tail(@)]
    /\ UNCHANGED <<ops, hostVars, before, image>>

\* The cache may write a line back whenever it likes.
Evict(x) ==
    /\ cache[x].dirty
    /\ mem' = [mem EXCEPT ![x] = cache[x].value]
    /\ cache' = [cache EXCEPT ![x] = Empty]
    /\ UNCHANGED <<ops, hostVars, signals, ring, before, image, faults>>

\* The bounded history is over, or the device is lost.
Ended == (poisoned \/ (epoch = MaxEpochs /\ Retired)) /\ UNCHANGED replayVars

ReplayNext ==
    \/ Prepare \/ PublishEpoch \/ PublishFails
    \/ \E x \in AllCells : HostWrite(x) \/ Evict(x)
    \/ \E q \in Queues : Consume(q)
    \/ Ended

ReplaySpec == ReplayInit /\ [][ReplayNext]_replayVars

---------------------------------------------------------------------------------
(* Properties.                                                                 *)

\* Every operation reads what the operations before it, the epochs before its
\* own and the host left there, although only the stores somebody waits on
\* write the cache back and only waits invalidate it.
FreshReads == "stale" \notin faults

\* No kernel ever runs with the arguments of another epoch: the host repacks
\* them only after the epoch that used them has retired, also when a timeline
\* changes to its shadow signal.
ArgumentsIntact == "kernargs" \notin faults

\* Once the host has seen the last finalizer's point, every command of the
\* epoch has run and memory holds what running the operations in order leaves.
RetiredMeansDone ==
    Retired /\ ~poisoned => (\A q \in Queues : ring[q] = <<>>) /\ mem = image

=================================================================================
