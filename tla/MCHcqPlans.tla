-------------------------------- MODULE MCHcqPlans --------------------------------
(* Every plan of MaxPlanOps operations over two devices and one shared buffer. *)
(* Device "d" has a compute and a copy queue, device "e" a compute and a copy  *)
(* queue; only the copies between them are staged through the host.            *)
EXTENDS HcqSchedule, LinkedPlans

CONSTANTS MaxPlanOps, Limits

Buf(owner, start, end) == [id |-> 1, owner |-> owner, start |-> start, end |-> end]

D == Lane("d", "compute")
DC == Lane("d", "copy")
E == Lane("e", "compute")
EC == Lane("e", "copy")
HcqLanes == {D, DC, E, EC}

Execute(lane, r, w) == [lane |-> lane, kind |-> "execute", reads |-> {r}, writes |-> {w}]
CopyOp(lane, r, w) == [lane |-> lane, kind |-> "copy", reads |-> {r}, writes |-> {w}]

\* Two halves of a buffer on d, the whole of it, and a buffer on e.
PlanOperations ==
    { Execute(D, Buf("d", 0, 1), Buf("d", 1, 2)),
      Execute(D, Buf("d", 1, 2), Buf("d", 0, 1)),
      CopyOp(DC, Buf("d", 0, 1), Buf("d", 1, 2)),
      CopyOp(DC, Buf("d", 0, 1), Buf("e", 0, 1)),
      CopyOp(DC, Buf("e", 0, 1), Buf("d", 0, 1)),
      Execute(E, Buf("e", 0, 1), Buf("e", 0, 1)) }

HcqAccess == {<<"d", "d">>, <<"e", "e">>}

PlanOf(ops, limits) ==
    [ops |-> ops, cmds |-> Expanded(ops), subs |-> Link(ScheduleDeviceLanes(ops, limits))]

HcqPlans == {PlanOf(ops, limits) : ops \in [1..MaxPlanOps -> PlanOperations], limits \in Limits}

HcqLimits == {[max_submissions |-> 1, max_commands |-> 0],
              [max_submissions |-> 0, max_commands |-> 0],
              [max_submissions |-> 0, max_commands |-> 2]}

=================================================================================
