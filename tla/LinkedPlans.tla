------------------------------ MODULE LinkedPlans ------------------------------
(* Linked HCQ plans as values, apart from their execution and from the         *)
(* scheduler that makes them: the cells of a resource, and what makes a plan   *)
(* orderly, that is, safe to run on concurrent lanes.                          *)
(*                                                                             *)
(* A plan is [ops, cmds, subs]: the operations in program order, the commands  *)
(* the scheduler expanded them to and the linked submissions.                  *)
EXTENDS Integers, Sequences

\* The storage cells of a resource.
StorageCells(rs) == UNION {{<<r.id, r.owner, a>> : a \in r.start..(r.end - 1)} : r \in rs}

CmdReads(p, c) == StorageCells(p.cmds[c].reads)
CmdWrites(p, c) == StorageCells(p.cmds[c].writes)
OpWrites(p, n) == StorageCells(p.ops[n].writes)

\* An operation of the plan names the cell; a staging buffer's cells are named
\* by none.
NamedByOp(p, x) == \E n \in DOMAIN p.ops : x \in StorageCells(p.ops[n].reads \cup p.ops[n].writes)

\* Command c is number m of submission i.
Placed(p, c, i, m) == i \in DOMAIN p.subs /\ m \in DOMAIN p.subs[i].commands /\ p.subs[i].commands[m] = c

\* Submissions and commands are numbered, and every command is submitted once.
Wellformed(p, lanes) ==
    /\ DOMAIN p.ops \subseteq Nat \ {0} /\ DOMAIN p.cmds \subseteq Nat /\ DOMAIN p.subs \subseteq Nat \ {0}
    /\ \A c \in DOMAIN p.cmds : p.cmds[c].op \in DOMAIN p.ops
    /\ \A i \in DOMAIN p.subs :
        /\ p.subs[i].lane \in lanes
        /\ p.subs[i].point \in Nat \ {0}
        /\ p.subs[i].commands \in Seq(DOMAIN p.cmds)
        /\ \A w \in p.subs[i].waits : w.lane \in lanes /\ w.point \in Nat
    /\ \A c \in DOMAIN p.cmds : \E i \in DOMAIN p.subs : \E m \in DOMAIN p.subs[i].commands : Placed(p, c, i, m)
    /\ \A i, j \in DOMAIN p.subs : \A m \in DOMAIN p.subs[i].commands, n \in DOMAIN p.subs[j].commands :
        p.subs[i].commands[m] = p.subs[j].commands[n] => i = j /\ m = n

\* The points of a lane grow, and a wait is for a point that an earlier
\* submission stores.
PointsGrow(p) ==
    /\ \A i, j \in DOMAIN p.subs : p.subs[i].lane = p.subs[j].lane /\ i < j => p.subs[i].point < p.subs[j].point
    /\ \A j \in DOMAIN p.subs : \A w \in p.subs[j].waits :
        \E i \in DOMAIN p.subs : i < j /\ p.subs[i].lane = w.lane /\ p.subs[i].point >= w.point

Conflict(p, c, d) == CmdWrites(p, c) \cap (CmdReads(p, d) \cup CmdWrites(p, d)) # {} \/ CmdReads(p, c) \cap CmdWrites(p, d) # {}

\* Command d, number n of submission j, starts after number m of submission i.
Behind(p, i, m, j, n) ==
    \/ i = j /\ m < n
    \/ i < j /\ p.subs[i].lane = p.subs[j].lane
    \/ \E w \in p.subs[j].waits : w.lane = p.subs[i].lane /\ w.point >= p.subs[i].point

\* Of two commands that touch a cell, one of which writes it, the second waits.
ConflictsOrdered(p) ==
    \A i, j \in DOMAIN p.subs : \A m \in DOMAIN p.subs[i].commands, n \in DOMAIN p.subs[j].commands :
        LET c == p.subs[i].commands[m]  d == p.subs[j].commands[n]
        IN  c < d /\ Conflict(p, c, d) => Behind(p, i, m, j, n)

\* The commands follow the program: they are in the order of their operations,
\* write the cells their operation writes, and a leg of a copy reads what no
\* earlier leg wrote, but for the staging buffer, which the earlier leg fills.
FollowsProgram(p) ==
    /\ \A c, d \in DOMAIN p.cmds : c < d => p.cmds[c].op <= p.cmds[d].op
    /\ \A n \in DOMAIN p.ops : \A x \in OpWrites(p, n) : \E c \in DOMAIN p.cmds : p.cmds[c].op = n /\ x \in CmdWrites(p, c)
    /\ \A c \in DOMAIN p.cmds : \A x \in CmdWrites(p, c) : NamedByOp(p, x) => x \in OpWrites(p, p.cmds[c].op)
    /\ \A c \in DOMAIN p.cmds : \A x \in CmdReads(p, c) :
        IF NamedByOp(p, x)
        THEN \A d \in DOMAIN p.cmds : d < c /\ p.cmds[d].op = p.cmds[c].op => x \notin CmdWrites(p, d)
        ELSE /\ \E d \in DOMAIN p.cmds : d < c /\ x \in CmdWrites(p, d)
             /\ \A d \in DOMAIN p.cmds : x \in CmdWrites(p, d) => p.cmds[d].op = p.cmds[c].op

Orderly(p, lanes) == Wellformed(p, lanes) /\ PointsGrow(p) /\ ConflictsOrdered(p) /\ FollowsProgram(p)

=================================================================================
