------------------------------ MODULE HcqSchedule ------------------------------
(* The device-lane scheduler of device/src/hcq.rs as operators:                *)
(* schedule_device_lanes turns a program-ordered list of operations into       *)
(* submissions on device/queue lanes with cross-lane waits, and                *)
(* SemanticLinkedPlan::from_lane_submissions binds the waits to the timeline   *)
(* points the executors publish.                                               *)
(*                                                                             *)
(* An operation is [lane, kind, reads, writes]; a copy has one read (src) and  *)
(* one write (dst).  A resource is [id, owner, start, end], as in the code.    *)
EXTENDS Integers, Sequences, FiniteSets, SequencesExt, FiniteSetsExt

CONSTANTS Host,          \* the device that owns staging buffers (DeviceSpec::Cpu)
          CopyQueue,     \* QueueKind::Copy(0)
          Access         \* pairs <<executor, owner>> of can_access

Lane(device, queue) == [device |-> device, queue |-> queue]

\* TopologyResource::overlaps
Overlaps(x, y) == x.id = y.id /\ x.owner = y.owner /\ x.start < y.end /\ y.start < x.end

Src(op) == CHOOSE r \in op.reads : TRUE
Dst(op) == CHOOSE r \in op.writes : TRUE

\* u64::MAX - operation, the identity of the staging buffer of operation n.
StageId(n) == -1 - n

Staged(op) ==
    op.kind = "copy" /\ ~({<<op.lane.device, Src(op).owner>>, <<op.lane.device, Dst(op).owner>>} \subseteq Access)

StageOf(n, op) == [id |-> StageId(n), owner |-> Host, start |-> 0, end |-> Max({Src(op).end - Src(op).start, 1})]

\* Mutant: the leg to the host does not declare that it writes the staging buffer.
ExpandUnlinked(n, op) ==
    << [op |-> n, lane |-> Lane(Src(op).owner, CopyQueue), reads |-> op.reads, writes |-> {}],
       [op |-> n, lane |-> Lane(Dst(op).owner, CopyQueue), reads |-> {StageOf(n, op)}, writes |-> op.writes] >>

\* A copy one side cannot reach becomes two legs through the host.
Expand(n, op) ==
    IF ~Staged(op)
    THEN << [op |-> n, lane |-> op.lane, reads |-> op.reads, writes |-> op.writes] >>
    ELSE << [op |-> n, lane |-> Lane(Src(op).owner, CopyQueue), reads |-> op.reads, writes |-> {StageOf(n, op)}],
            [op |-> n, lane |-> Lane(Dst(op).owner, CopyQueue), reads |-> {StageOf(n, op)}, writes |-> op.writes] >>

Expanded(ops) == FlattenSeq([n \in DOMAIN ops |-> Expand(n, ops[n])])

\* Mutant: write-after-read is not a hazard.
HazardNoWAR(a, b) ==
    \/ \E x \in a.writes, y \in b.reads : Overlaps(x, y)
    \/ \E x \in a.writes, y \in b.writes : Overlaps(x, y)

Hazard(a, b) ==
    \/ \E x \in a.writes, y \in b.reads \cup b.writes : Overlaps(x, y)
    \/ \E x \in a.reads, y \in b.writes : Overlaps(x, y)

\* The value a command stores on its lane's logical timeline.
LaneValue(cmds, c) == Cardinality({d \in 1..c : cmds[d].lane = cmds[c].lane})

\* One wait per lane, for the largest value.
MaxPerLane(waits) == {w \in waits : \A v \in waits : v.lane = w.lane => v.value <= w.value}

\* The unmerged submissions: one per command, waiting on the latest hazard of
\* every other lane.
Raw(cmds) ==
    [c \in DOMAIN cmds |->
        [lane     |-> cmds[c].lane,
         waits    |-> MaxPerLane({[lane |-> cmds[p].lane, value |-> LaneValue(cmds, p)] :
                        p \in {p \in 1..(c-1) : cmds[p].lane # cmds[c].lane /\ Hazard(cmds[p], cmds[c])}}),
         commands |-> <<c>>,
         signal   |-> LaneValue(cmds, c)]]

\* Mutant: a submission joins the last one of its lane, not the last one.
JoinsLane(merged, sub, limits) ==
    IF limits.max_submissions # 1 /\ \E i \in DOMAIN merged : merged[i].lane = sub.lane
    THEN Max({i \in DOMAIN merged : merged[i].lane = sub.lane})
    ELSE 0

\* The index of the submission that `sub` is appended to, or 0: only the last
\* one, on the same lane, and within both limits (0 is unlimited).
Joins(merged, sub, limits) ==
    IF /\ merged # <<>>
       /\ Last(merged).lane = sub.lane
       /\ limits.max_submissions = 0 \/ Len(Last(merged).commands) < limits.max_submissions
       /\ limits.max_commands = 0 \/ Len(Last(merged).commands) + 1 <= limits.max_commands
    THEN Len(merged)
    ELSE 0

Merge(raw, limits) ==
    LET Step(merged, sub) ==
            LET i == Joins(merged, sub, limits)
            IN  IF i = 0 THEN Append(merged, sub)
                ELSE [merged EXCEPT ![i] =
                        [lane     |-> @.lane,
                         waits    |-> MaxPerLane(@.waits \cup sub.waits),
                         commands |-> @.commands \o sub.commands,
                         signal   |-> sub.signal]]
    IN  FoldLeft(Step, <<>>, raw)

\* A merged submission stores only its last value: the first stored value that
\* covers the awaited one.
Boundary(merged, w) ==
    LET i == SelectInSeq(merged, LAMBDA s : s.lane = w.lane /\ s.signal >= w.value)
    IN  IF i = 0 THEN w.value ELSE merged[i].signal

Rewrite(merged) ==
    [i \in DOMAIN merged |->
        [merged[i] EXCEPT !.waits =
            MaxPerLane({[w EXCEPT !.value = Boundary(merged, w)] : w \in @})]]

ScheduleDeviceLanes(ops, limits) == Rewrite(Merge(Raw(Expanded(ops)), limits))

\* EpochTimeline::reserve on a fresh timeline per lane: dense points.
Point(subs, i) == Cardinality({j \in 1..i : subs[j].lane = subs[i].lane})

\* SemanticLinkedPlan: submissions whose waits and stores are concrete points.
Link(subs) ==
    [i \in DOMAIN subs |->
        [lane     |-> subs[i].lane,
         waits    |-> {[lane |-> w.lane,
                        point |-> Point(subs, SelectInSeq(subs, LAMBDA s : s.lane = w.lane /\ s.signal = w.value))] :
                        w \in subs[i].waits},
         commands |-> subs[i].commands,
         point    |-> Point(subs, i)]]

=================================================================================
