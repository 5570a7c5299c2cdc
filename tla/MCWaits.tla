-------------------------------- MODULE MCWaits --------------------------------
(* Four places where a thread waits until another thread or process is         *)
(* through: the flight of the weight cache (WeightCache), the host timeline    *)
(* signal (CpuTimelineSignal), an epoch's publication (SubmissionFinalizer)    *)
(* and the helpers of a BEAM search (BeamWorkers).  They share no state: each  *)
(* behaviour exercises one of them and leaves the others as they start.        *)
EXTENDS WeightCache, CpuTimelineSignal, SubmissionFinalizer, BeamWorkers

VARIABLE part

allVars == <<vars, signalVars, finVars, beamVars, part>>

CacheAlone(A) == part = "cache" /\ A /\ UNCHANGED <<signalVars, finVars, beamVars, part>>
SignalAlone(A) == part = "signal" /\ A /\ UNCHANGED <<vars, finVars, beamVars, part>>
FinalizerAlone(A) == part = "finalizer" /\ A /\ UNCHANGED <<vars, signalVars, beamVars, part>>
BeamAlone(A) == part = "beam" /\ A /\ UNCHANGED <<vars, signalVars, finVars, part>>

WaitsInit ==
    /\ part \in {"cache", "signal", "finalizer", "beam"}
    /\ Init /\ SignalInit /\ FinInit /\ BeamInit

\* Every waiter has made its waits.
FinalizerDone == (\A w \in FinWaiter : look[w] = "idle" /\ waits[w] = MaxFinWaits) /\ UNCHANGED finVars

\* The search is over, or a helper could not be written to or replaced.
SearchOver ==
    /\ run.at \in {"error", "misorder"} \/ (RunAt("idle") /\ run.wave = MaxWaves)
    /\ UNCHANGED beamVars

WaitsNext ==
    \/ CacheAlone(Next)
    \/ SignalAlone(SignalNext)
    \/ FinalizerAlone(FinNext \/ FinalizerDone)
    \/ BeamAlone(BeamNext \/ SearchOver)

\* The fairness of WeightCache's FairSpec, and waiters of the signal and of the
\* finalizer that are scheduled while time passes; in a BEAM search the pool, its
\* reader threads and the clock go on.  Nothing forces a setter of the signal, the
\* finalizer's publisher, the GPU or a BEAM helper to go on.
WaitsSpec ==
    /\ WaitsInit /\ [][WaitsNext]_allVars
    /\ \A t \in Thread : WF_allVars(CacheAlone(Step(t)))
    /\ \A t \in Waiter : WF_allVars(SignalAlone(WaiterStep(t)))
    /\ \A w \in FinWaiter : WF_allVars(FinalizerAlone(WaitStep(w)))
    /\ WF_allVars(BeamAlone(RunStep))
    /\ \A h \in Helper : WF_allVars(BeamAlone(Forward(h))) /\ WF_allVars(BeamAlone(Age(h)))

=================================================================================
