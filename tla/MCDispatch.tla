------------------------------- MODULE MCDispatch -------------------------------
(* The way of a batch to the device: its kernels are prepared (PrepareKernels) *)
(* and a lane is leased for it (QueuePool).  The two share no state: each      *)
(* behaviour exercises one of them and leaves the other as it starts.          *)
(*                                                                             *)
(* Two batches claim the same keys in opposite orders, one of them naming a    *)
(* key twice; the first may be ephemeral, and the cache holds one kernel.      *)
(* Three clients share two lanes.  The plans such batches make are checked     *)
(* here too (SchedulesOrderly), apart from their execution.                    *)
EXTENDS PrepareKernels, QueuePool, TLC

CONSTANTS t1, t2, k1, k2
VARIABLE part

Opposite == t1 :> <<k1, k2>> @@ t2 :> <<k2, k1, k2>>

FirstEphemeral == {{}, {t1}}

dispatchVars == <<prepareVars, vars, part>>

PrepareAlone(A) == part = "prepare" /\ A /\ UNCHANGED <<vars, part>>
PoolAlone(A) == part = "pool" /\ A /\ UNCHANGED <<prepareVars, part>>

\* The plans that MCPlans executes.
Hcq == INSTANCE MCHcqPlans WITH
           Host <- "host", CopyQueue <- "copy", Access <- {<<"d", "d">>, <<"e", "e">>}, MaxPlanOps <- 4,
           Limits <- {[max_submissions |-> l[1], max_commands |-> l[2]] : l \in {<<1, 0>>, <<0, 0>>, <<0, 2>>}}

\* What the proofs about HcqExecution ask of a plan (LinkedPlans), the scheduler
\* delivers.
ASSUME SchedulesOrderly == \A p \in Hcq!HcqPlans : Hcq!Orderly(p, Hcq!HcqLanes)

\* The key of a slot that no claim has used yet makes no difference.
DispatchInit ==
    /\ part \in {"prepare", "pool"}
    /\ keyOf = [s \in Slot |-> k1]
    /\ part = "pool" => ephemeral = {}
    /\ PrepareInit /\ Init

\* The fairness of PrepareFairSpec and of QueuePool's FairSpec.
DispatchSpec ==
    /\ DispatchInit /\ [][PrepareAlone(PrepareNext) \/ PoolAlone(Next)]_dispatchVars
    /\ \A t \in Thread : /\ WF_dispatchVars(PrepareAlone(Step(t)))
                         /\ \A k \in Key : WF_dispatchVars(PrepareAlone(WorkerStep(t, k)))
    /\ \A c \in Client : /\ WF_dispatchVars(PoolAlone(AcquireStep(c)))
                         /\ WF_dispatchVars(PoolAlone(ReleaseStep(c)))
    /\ WF_dispatchVars(PoolAlone(PoisonNotify))

=================================================================================
