------------------------------ MODULE LaneScratch ------------------------------
(* The scratch memory of one AMD compute lane: PoolQueue::new,                 *)
(* ensure_has_local_memory and PoolQueue::drop (device/src/amd/connector.rs),  *)
(* publish_aql_descriptor and close (device/src/amd/queue.rs).  A PM4 command  *)
(* carries the scratch address packed into it; an AQL queue takes it from the  *)
(* copy of the descriptor that the firmware made when the queue was last       *)
(* mapped.  The lane is leased exclusively: one host thread at a time.         *)
EXTENDS Naturals, Sequences

CONSTANTS SegmentSizes,  \* private_segment_size of the programs
          Initial,       \* size of the scratch a lane is built with
          MaxKernels     \* bound: kernels dispatched

ASSUME ScratchAssumption ==
    SegmentSizes \subseteq Nat /\ Initial \in Nat /\ MaxKernels \in Nat

VARIABLES pm4,         \* whether the queue is a PM4 queue
          scratch,     \* ScratchState: backing and size per thread
          descriptor,  \* the scratch fields of amd_queue_t
          firmware,    \* the firmware's copy of them
          backing,     \* scratch allocations that exist
          old,         \* the allocation a grow replaces
          commands,    \* published kernels the GPU has not begun
          running,     \* the kernel the GPU runs, or Nothing
          segment,     \* the size the current dispatch needs
          scratchStep, \* step of the host
          faulted,     \* the device is poisoned
          torn,        \* an unmap failed between the new state and the descriptor
          kernels      \* kernels dispatched

queueVars == <<descriptor, firmware, commands, running>>
scratchVars == <<queueVars, pm4, scratch, backing, old, segment, scratchStep, faulted, torn, kernels>>

Nothing == [need |-> 0, uses |-> [id |-> 0, size |-> 0]]
Fresh(size) == [id |-> 1 + Len(backing), size |-> size]
Live(s) == backing[s.id]

ScratchInit ==
    /\ pm4 \in BOOLEAN
    /\ scratch = [id |-> 1, size |-> Initial]
    /\ descriptor = scratch /\ firmware = scratch
    /\ backing = <<TRUE>> /\ old = scratch
    /\ commands = <<>> /\ running = Nothing
    /\ segment = 0 /\ scratchStep = "idle" /\ faulted = FALSE /\ torn = FALSE
    /\ kernels = 0

GoOn(label) == scratchStep' = label

\* ensure_has_local_memory: one check, valid because the lease is exclusive.
BeginDispatch(size) ==
    /\ scratchStep = "idle" /\ ~faulted /\ kernels < MaxKernels
    /\ kernels' = kernels + 1
    /\ segment' = size
    /\ GoOn(IF size <= scratch.size THEN "pack" ELSE "drain")
    /\ UNCHANGED <<queueVars, pm4, scratch, backing, old, faulted, torn>>

\* Mutant: the scratch is replaced under the kernels that use it.
NotDrained == TRUE

\* drain_all: the lane's signals have reached the last value handed out.
GrowDrained == commands = <<>> /\ running = Nothing

\* A drain that cannot end times out and poisons the device.
DrainForGrow ==
    /\ scratchStep = "drain"
    /\ \/ faulted /\ GoOn("idle")
       \/ ~faulted /\ GrowDrained /\ GoOn("alloc")
    /\ UNCHANGED <<queueVars, pm4, scratch, backing, old, segment, faulted, torn, kernels>>

\* alloc_scratch, which may fail, and the new ScratchState.
Grow ==
    /\ scratchStep = "alloc"
    /\ \/ GoOn("idle") /\ UNCHANGED <<scratch, backing, old>>
       \/ /\ backing' = Append(backing, TRUE)
          /\ scratch' = Fresh(segment)
          /\ old' = scratch
          /\ GoOn(IF pm4 THEN "free" ELSE "unmap")
    /\ UNCHANGED <<queueVars, pm4, segment, faulted, torn, kernels>>

\* publish_aql_descriptor: unmap the queue ...
Unmap ==
    /\ scratchStep = "unmap"
    /\ \/ GoOn("write") /\ UNCHANGED torn
       \/ GoOn("idle") /\ torn' = TRUE
    /\ UNCHANGED <<queueVars, pm4, scratch, backing, old, segment, faulted, kernels>>

\* Mutant: the descriptor is written in place, without mapping the queue again.
WrittenInPlace == firmware

\* What the firmware uses after the queue was mapped again.
ReadOnRemap == descriptor'

\* ... write the descriptor and map the queue again; one that stays unmapped
\* poisons the device.
WriteAndRemap ==
    /\ scratchStep = "write"
    /\ descriptor' = scratch
    /\ \/ firmware' = ReadOnRemap /\ GoOn("free") /\ UNCHANGED faulted
       \/ faulted' = TRUE /\ GoOn("idle") /\ UNCHANGED firmware
    /\ UNCHANGED <<pm4, commands, running, scratch, backing, old, segment, torn, kernels>>

FreeOld ==
    /\ scratchStep = "free"
    /\ backing' = [backing EXCEPT ![old.id] = FALSE]
    /\ GoOn("pack")
    /\ UNCHANGED <<queueVars, pm4, scratch, old, segment, faulted, torn, kernels>>

\* The kernel is packed with the lane's scratch and published.
PackAndPublish ==
    /\ scratchStep = "pack"
    /\ commands' = Append(commands, [need |-> segment, uses |-> scratch])
    /\ GoOn("idle")
    /\ UNCHANGED <<descriptor, firmware, running, pm4, scratch, backing, old, segment, faulted, torn, kernels>>

(* PoolQueue::drop at the device's end.                                        *)

CloseLane ==
    /\ scratchStep = "idle"
    /\ GoOn("close")
    /\ UNCHANGED <<queueVars, pm4, scratch, backing, old, segment, faulted, torn, kernels>>

\* A panic or a drain that fails quarantines the queue and its backing; a
\* teardown that fails also poisons the device.
DropLane ==
    /\ scratchStep = "close"
    /\ \/ UNCHANGED <<backing, faulted>>
       \/ ~faulted /\ GrowDrained /\ faulted' = TRUE /\ UNCHANGED backing
       \/ ~faulted /\ GrowDrained /\ backing' = [backing EXCEPT ![scratch.id] = FALSE] /\ UNCHANGED faulted
    /\ GoOn("closed")
    /\ UNCHANGED <<queueVars, pm4, scratch, old, segment, torn, kernels>>

(* The GPU, also after a fault was reported: other waves keep running.         *)

BeginKernel ==
    /\ running = Nothing /\ commands # <<>>
    /\ running' = [need |-> Head(commands).need, uses |-> IF pm4 THEN Head(commands).uses ELSE firmware]
    /\ commands' = Tail(commands)
    /\ UNCHANGED <<descriptor, firmware, pm4, scratch, backing, old, segment, scratchStep, faulted, torn, kernels>>

EndKernel ==
    /\ running # Nothing
    /\ running' = Nothing
    /\ UNCHANGED <<descriptor, firmware, commands, pm4, scratch, backing, old, segment, scratchStep, faulted, torn,
                   kernels>>

FaultLane ==
    /\ ~faulted /\ running # Nothing
    /\ faulted' = TRUE
    /\ UNCHANGED <<queueVars, pm4, scratch, backing, old, segment, scratchStep, torn, kernels>>

ScratchNext ==
    \/ \E size \in SegmentSizes : BeginDispatch(size)
    \/ DrainForGrow \/ Grow \/ Unmap \/ WriteAndRemap \/ FreeOld \/ PackAndPublish \/ CloseLane \/ DropLane
    \/ BeginKernel \/ EndKernel \/ FaultLane

ScratchSpec == ScratchInit /\ [][ScratchNext]_scratchVars

---------------------------------------------------------------------------------
(* Properties.                                                                 *)

\* "The exclusive lane lease keeps the new host state and live AQL descriptor
\* atomic": a kernel runs on scratch that still exists and is large enough for it,
\* across grows, failures of every step of a grow, faults and teardown.  The one
\* exception is an unmap that fails after the new state was stored: the next
\* dispatch then skips the grow.
ScratchSuffices ==
    running # Nothing => Live(running.uses) /\ (torn \/ running.uses.size >= running.need)

=================================================================================
