------------------------------ MODULE HcqExecution ------------------------------
(* A linked HCQ plan on hardware: every lane is a queue that runs its          *)
(* submissions in order, concurrently with the other lanes.  A submission      *)
(* first waits for its timeline points, then runs its commands one after the   *)
(* other, then stores its own point (SemanticLinkedPlan::submission).          *)
(*                                                                             *)
(* Memory keeps for every cell the operation that wrote it last: a command     *)
(* disturbs what it writes from its start on and reads until its end.          *)
EXTENDS Integers, Sequences, FiniteSets, LinkedPlans

CONSTANTS Lanes, Plans

VARIABLES plan,      \* the plan being executed
          next,      \* Lane -> index of the submission it runs or waits to run
          at,        \* Lane -> 0 while waiting, else the command it has reached
          running,   \* commands started and not finished
          finished,  \* commands finished
          timeline,  \* Lane -> the point last stored
          storage,   \* Cell -> operation that wrote it last, 0 for the initial content
          stale      \* commands that read something else than in program order

planVars == <<plan, next, at, running, finished, timeline, storage, stale>>

Cmds == DOMAIN plan.cmds
Subs == DOMAIN plan.subs

\* The storage cells of a plan.
CellsOf(p) == UNION {StorageCells(p.cmds[c].reads \cup p.cmds[c].writes) : c \in DOMAIN p.cmds}

\* The next submission of lane l after index i, or 0.
After(l, i) ==
    IF \E j \in Subs : j > i /\ plan.subs[j].lane = l
    THEN CHOOSE j \in Subs : /\ j > i /\ plan.subs[j].lane = l
                             /\ \A k \in Subs : k > i /\ plan.subs[k].lane = l => j <= k
    ELSE 0

PlanInit ==
    /\ plan \in Plans
    /\ next = [l \in Lanes |-> After(l, 0)]
    /\ at = [l \in Lanes |-> 0]
    /\ running = {}
    /\ finished = {}
    /\ timeline = [l \in Lanes |-> 0]
    /\ storage = [x \in CellsOf(plan) |-> 0]
    /\ stale = {}

Sub(l) == plan.subs[next[l]]
Cmd(l) == Sub(l).commands[at[l]]

\* What command c must find in cell x: the last operation before its own that
\* writes x, in the program order of the operations; its own operation for the
\* staging buffer, which no operation of the plan names.
Writers(x) == {n \in DOMAIN plan.ops : x \in StorageCells(plan.ops[n].writes)}
Before(n, x) == {m \in Writers(x) : m < n}
InProgram(x) == \E n \in DOMAIN plan.ops : x \in StorageCells(plan.ops[n].reads \cup plan.ops[n].writes)
InOrder(c, x) ==
    LET n == plan.cmds[c].op IN
    IF ~InProgram(x) THEN n
    ELSE IF Before(n, x) = {} THEN 0
    ELSE CHOOSE m \in Before(n, x) : \A o \in Before(n, x) : o <= m

ReadsStale(c, cells) == \E x \in cells : storage[x] # InOrder(c, x)

WaitsReached(l) == \A w \in Sub(l).waits : timeline[w.lane] >= w.point

\* The Wait commands of the submission are all satisfied.
Begin(l) ==
    /\ next[l] # 0 /\ at[l] = 0
    /\ WaitsReached(l)
    /\ at' = [at EXCEPT ![l] = 1]
    /\ UNCHANGED <<plan, next, running, finished, timeline, storage, stale>>

Start(l) ==
    /\ next[l] # 0 /\ at[l] \in 1..Len(Sub(l).commands)
    /\ Cmd(l) \notin running
    /\ running' = running \cup {Cmd(l)}
    /\ stale' = IF ReadsStale(Cmd(l), StorageCells(plan.cmds[Cmd(l)].reads)) THEN stale \cup {Cmd(l)} ELSE stale
    /\ storage' = [x \in DOMAIN storage |-> IF x \in StorageCells(plan.cmds[Cmd(l)].writes) THEN plan.cmds[Cmd(l)].op ELSE storage[x]]
    /\ UNCHANGED <<plan, next, at, finished, timeline>>

Finish(l) ==
    /\ next[l] # 0 /\ at[l] \in 1..Len(Sub(l).commands)
    /\ Cmd(l) \in running
    /\ running' = running \ {Cmd(l)}
    /\ finished' = finished \cup {Cmd(l)}
    /\ at' = [at EXCEPT ![l] = @ + 1]
    /\ LET own == plan.cmds[Cmd(l)] IN
        /\ stale' = IF ReadsStale(Cmd(l), StorageCells(own.reads) \ StorageCells(own.writes)) THEN stale \cup {Cmd(l)} ELSE stale
        /\ storage' = [x \in DOMAIN storage |-> IF x \in StorageCells(own.writes) THEN own.op ELSE storage[x]]
    /\ UNCHANGED <<plan, next, timeline>>

\* The Store that ends the submission.
StorePoint(l) ==
    /\ next[l] # 0 /\ at[l] = Len(Sub(l).commands) + 1
    /\ timeline' = [timeline EXCEPT ![l] = Sub(l).point]
    /\ next' = [next EXCEPT ![l] = After(l, @)]
    /\ at' = [at EXCEPT ![l] = 0]
    /\ UNCHANGED <<plan, running, finished, storage, stale>>

LaneStep(l) == Begin(l) \/ Start(l) \/ Finish(l) \/ StorePoint(l)

Complete == \A l \in Lanes : next[l] = 0

PlanNext == (\E l \in Lanes : LaneStep(l)) \/ (Complete /\ UNCHANGED planVars)

PlanSpec == PlanInit /\ [][PlanNext]_planVars

---------------------------------------------------------------------------------
(* Properties.                                                                 *)

\* Parallel execution is sequential execution: every command reads what it
\* would have read had the operations run one at a time in program order, and
\* a complete plan leaves the memory that order leaves.
ProgramOrderData ==
    /\ stale = {}
    /\ Complete => \A x \in DOMAIN storage : InProgram(x) /\ Writers(x) # {} =>
                        storage[x] \in Writers(x) /\ \A n \in Writers(x) : n <= storage[x]

\* The lanes never wait for each other in a circle: until the plan is complete
\* some lane can go on.
NoLaneStuck == Complete \/ \E l \in Lanes : next[l] # 0 /\ (at[l] # 0 \/ WaitsReached(l))

=================================================================================
