-------------------------------- MODULE MCPlans --------------------------------
(* What a prepared plan rests on: the interned graph (UOpIntern), its compiled *)
(* kernels (KernelCache), the storage its buffers share (MemoryPlanner), the   *)
(* lanes it is scheduled on (HcqExecution), its native replay (HcqReplay) and  *)
(* the tensors it realizes (TensorRegistry).  The six share no state: each     *)
(* behaviour exercises one of them and leaves the others as they start.        *)
EXTENDS KernelCache, MCHcqExecution, MCHcqReplay, MCMemoryPlanner, MCUOpIntern, MCTensorRegistry

VARIABLE part

cacheOnly == <<planVars, replayVars, plannerVars, internVars, registryVars, part>>
lanesOnly == <<vars, replayVars, plannerVars, internVars, registryVars, part>>
replayOnly == <<vars, planVars, plannerVars, internVars, registryVars, part>>
plannerOnly == <<vars, planVars, replayVars, internVars, registryVars, part>>
internOnly == <<vars, planVars, replayVars, plannerVars, registryVars, part>>
registryOnly == <<vars, planVars, replayVars, plannerVars, internVars, part>>

PlansInit ==
    /\ part \in {"cache", "lanes", "replay", "planner", "intern", "registry"}
    /\ part # "cache" => want = CHOOSE w \in [Thread -> Key] : TRUE
    /\ Init
    /\ part # "lanes" => plan = CHOOSE p \in HcqPlans : TRUE
    /\ PlanInit
    /\ part # "replay" => ops = <<CopyOf(0, 1)>>
    /\ ReplayInit /\ OneOfMirrored(ops)
    /\ part # "planner" => program = Loop /\ sizes = (CHOOSE s \in MCSizes : TRUE) /\ mode = "arena"
    /\ PlannerInit
    /\ InternInit
    /\ part # "registry" => task = CHOOSE f \in SharedGraphs : TRUE
    /\ RegistryInit

PlansNext ==
    \/ part = "cache" /\ Next /\ UNCHANGED cacheOnly
    \/ part = "lanes" /\ PlanNext /\ UNCHANGED lanesOnly
    \/ part = "replay" /\ ReplayNext /\ UNCHANGED replayOnly
    \/ part = "planner" /\ PlannerNext /\ UNCHANGED plannerOnly
    \/ part = "intern" /\ (InternNext \/ InternOver) /\ UNCHANGED internOnly
    \/ part = "registry" /\ (RegistryNext \/ RegistryOver) /\ UNCHANGED registryOnly

PlansSpec ==
    PlansInit /\ [][PlansNext]_<<vars, planVars, replayVars, plannerVars, internVars, registryVars, part>>

=================================================================================
