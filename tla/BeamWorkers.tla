------------------------------- MODULE BeamWorkers -------------------------------
(* The pool of helper processes that compiles the candidates of a BEAM wave    *)
(* (tensor/src/beam_worker.rs): jobs and responses travel through pipes, a     *)
(* reader thread per helper feeds a channel, helpers may crash or hang at any  *)
(* time, are killed at the deadline and are replaced.                          *)
EXTENDS Naturals, Sequences, SequencesExt, FiniteSets

CONSTANTS Helper,       \* process identities; one is used again once it is reaped
          PoolSize,     \* BeamConfig::compile_workers
          Candidates,   \* number of candidates in a wave
          MaxWaves,     \* waves of one search
          MaxTasks,     \* max_tasks_per_child
          MaxCrashes,   \* helpers that die by themselves
          MaxHangs,     \* compilations that never end
          NoJob

ASSUME BeamAssumption ==
    /\ PoolSize \in Nat \ {0} /\ MaxTasks \in Nat \ {0}
    /\ Candidates \in Nat /\ NoJob \notin 1..Candidates
    /\ Cardinality(Helper) > PoolSize

VARIABLES pool,         \* the slots: [helper, busy, tasks]
          process,      \* helper -> "none", "ready", "compiling", "hung", "dead"
          stdin,        \* helper -> jobs written to it
          stdout,       \* helper -> responses written and not read by its reader
          channel,      \* helper -> what its reader sent: responses, "closed"
          late,         \* helper -> its task is older than the timeout
          run,          \* [at, next, finished, slot, wave] of WorkerPool::run
          outcome,      \* candidate -> "open", "answered", "dropped"
          faults        \* [crashes, hangs] so far

beamVars == <<pool, process, stdin, stdout, channel, late, run, outcome, faults>>
helperVars == <<process, stdin, stdout, channel, late>>

Job == 1..Candidates
Spawned(h) == [helper |-> h, busy |-> NoJob, tasks |-> 0]
Open == [c \in Job |-> "open"]

\* WorkerPool::new; that all helpers came up is where a search starts.
BeamInit ==
    \E started \in [1..PoolSize -> Helper] :
        /\ IsInjective(started) /\ started = CHOOSE f \in [1..PoolSize -> Helper] : IsInjective(f)
        /\ pool = [i \in 1..PoolSize |-> Spawned(started[i])]
        /\ process = [h \in Helper |-> IF \E i \in 1..PoolSize : started[i] = h THEN "ready" ELSE "none"]
        /\ stdin = [h \in Helper |-> <<>>]
        /\ stdout = [h \in Helper |-> <<>>]
        /\ channel = [h \in Helper |-> <<>>]
        /\ late = [h \in Helper |-> FALSE]
        /\ run = [at |-> "idle", next |-> 1, finished |-> 0, slot |-> 1, wave |-> 0]
        /\ outcome = Open
        /\ faults = [crashes |-> 0, hangs |-> 0]
--------------------------------------------------------------------------------
(* The helpers, their watchdogs and reader threads                             *)

ReadJob(h) ==
    /\ process[h] = "ready" /\ stdin[h] # <<>>
    /\ process' = [process EXCEPT ![h] = "compiling"]
    /\ UNCHANGED <<pool, stdin, stdout, channel, late, run, outcome, faults>>

\* Success, rejection, error and panic of a candidate all are responses.
Respond(h) ==
    /\ process[h] = "compiling"
    /\ stdout' = [stdout EXCEPT ![h] = Append(@, Head(stdin[h]))]
    /\ stdin' = [stdin EXCEPT ![h] = Tail(@)]
    /\ process' = [process EXCEPT ![h] = "ready"]
    /\ UNCHANGED <<pool, channel, late, run, outcome, faults>>

Hang(h) ==
    /\ process[h] = "compiling" /\ faults.hangs < MaxHangs
    /\ process' = [process EXCEPT ![h] = "hung"]
    /\ faults' = [faults EXCEPT !.hangs = @ + 1]
    /\ UNCHANGED <<pool, stdin, stdout, channel, late, run, outcome>>

Crash(h) ==
    /\ process[h] \in {"ready", "compiling"} /\ faults.crashes < MaxCrashes
    /\ process' = [process EXCEPT ![h] = "dead"]
    /\ faults' = [faults EXCEPT !.crashes = @ + 1]
    /\ UNCHANGED <<pool, stdin, stdout, channel, late, run, outcome>>

\* The helper's own watchdog kills its process group at the same deadline.
Watchdog(h) ==
    /\ process[h] \in {"compiling", "hung"} /\ late[h]
    /\ process' = [process EXCEPT ![h] = "dead"]
    /\ UNCHANGED <<pool, stdin, stdout, channel, late, run, outcome, faults>>

\* The reader forwards what it reads and reports the end of the stream once.
Forward(h) ==
    /\ process[h] # "none"
    /\ \/ /\ stdout[h] # <<>>
          /\ channel' = [channel EXCEPT ![h] = Append(@, Head(stdout[h]))]
          /\ stdout' = [stdout EXCEPT ![h] = Tail(@)]
       \/ /\ stdout[h] = <<>> /\ process[h] = "dead"
          /\ ~Contains(channel[h], NoJob)
          /\ channel' = [channel EXCEPT ![h] = Append(@, NoJob)]
          /\ UNCHANGED stdout
    /\ UNCHANGED <<pool, process, stdin, late, run, outcome, faults>>

\* Time passes: a task that is out may become older than the timeout.
Age(h) ==
    /\ ~late[h] /\ \E i \in DOMAIN pool : pool[i].helper = h /\ pool[i].busy # NoJob
    /\ late' = [late EXCEPT ![h] = TRUE]
    /\ UNCHANGED <<pool, process, stdin, stdout, channel, run, outcome, faults>>
--------------------------------------------------------------------------------
(* WorkerPool::run                                                             *)

RunAt(p) == run.at = p
Current == pool[run.slot]

StartWave ==
    /\ RunAt("idle") /\ run.wave < MaxWaves
    /\ run' = [at |-> "dispatch", next |-> 1, finished |-> 0, slot |-> 1, wave |-> run.wave + 1]
    /\ outcome' = Open
    /\ UNCHANGED <<pool, helperVars, faults>>

\* The outer loop ends when every candidate is accounted for.
Returned == run.finished >= Candidates

\* One slot of the dispatching loop.  Writing to a helper that has died fails,
\* and with it the wave.
Dispatch ==
    /\ RunAt("dispatch") /\ ~Returned /\ run.slot <= Len(pool)
    /\ \/ /\ Current.busy = NoJob /\ run.next <= Candidates /\ process[Current.helper] # "dead"
          /\ stdin' = [stdin EXCEPT ![Current.helper] = Append(@, run.next)]
          /\ late' = [late EXCEPT ![Current.helper] = FALSE]
          /\ pool' = [pool EXCEPT ![run.slot].busy = run.next, ![run.slot].tasks = @ + 1]
          /\ run' = [run EXCEPT !.next = @ + 1, !.slot = @ + 1]
       \/ /\ Current.busy = NoJob /\ run.next <= Candidates /\ process[Current.helper] = "dead"
          /\ run' = [run EXCEPT !.at = "error"]
          /\ UNCHANGED <<stdin, late, pool>>
       \/ /\ Current.busy # NoJob \/ run.next > Candidates
          /\ run' = [run EXCEPT !.slot = @ + 1]
          /\ UNCHANGED <<stdin, late, pool>>
    /\ UNCHANGED <<process, stdout, channel, outcome, faults>>

DispatchDone ==
    /\ RunAt("dispatch") /\ ~Returned /\ run.slot > Len(pool)
    /\ run' = [run EXCEPT !.at = "poll", !.slot = 1]
    /\ UNCHANGED <<pool, helperVars, outcome, faults>>

\* WorkerPool::replace: the last slot moves into the place of the one that goes,
\* the helper is killed and reaped with its reader, and a new one is spawned at
\* the end, which may fail.
Replaced(slots, i) ==
    LET last == Len(slots) IN SubSeq([slots EXCEPT ![i] = slots[last]], 1, last - 1)

Replace(after, result) ==
    LET old == Current.helper
    IN /\ outcome' = result
       /\ \/ \E h \in Helper :
               /\ process[h] = "none" /\ h = CHOOSE g \in Helper : process[g] = "none"
               /\ pool' = Append(Replaced(pool, run.slot), Spawned(h))
               /\ process' = [process EXCEPT ![old] = "none", ![h] = "ready"]
               /\ run' = after
          \/ /\ pool' = Replaced(pool, run.slot)
             /\ process' = [process EXCEPT ![old] = "none"]
             /\ run' = [after EXCEPT !.at = "error"]
       /\ stdin' = [stdin EXCEPT ![old] = <<>>]
       /\ stdout' = [stdout EXCEPT ![old] = <<>>]
       /\ channel' = [channel EXCEPT ![old] = <<>>]
       /\ late' = [late EXCEPT ![old] = FALSE]
       /\ UNCHANGED faults

Polling == RunAt("poll") /\ run.slot <= Len(pool)
Counted(n) == [run EXCEPT !.finished = @ + n]

\* poll_slot looks into the channel before it looks at the clock.
Response == Polling /\ channel[Current.helper] # <<>> /\ Head(channel[Current.helper]) # NoJob
Failed == Polling /\ channel[Current.helper] # <<>> /\ Head(channel[Current.helper]) = NoJob
\* A mutant of TimedOut: no deadline.
NeverLate == Polling /\ FALSE
TimedOut == Polling /\ channel[Current.helper] = <<>> /\ Current.busy # NoJob /\ late[Current.helper]

\* A response that does not belong to the slot's task ends the run.
Misorder ==
    /\ Response /\ Head(channel[Current.helper]) # Current.busy
    /\ run' = [run EXCEPT !.at = "misorder"]
    /\ UNCHANGED <<pool, helperVars, outcome, faults>>

Answer ==
    /\ Response /\ Head(channel[Current.helper]) = Current.busy
    /\ LET answered == [outcome EXCEPT ![Current.busy] = "answered"]
       IN \/ /\ Current.tasks >= MaxTasks
             /\ Replace(Counted(1), answered)
          \/ /\ Current.tasks < MaxTasks
             /\ outcome' = answered
             /\ channel' = [channel EXCEPT ![Current.helper] = Tail(@)]
             /\ pool' = [pool EXCEPT ![run.slot].busy = NoJob]
             /\ run' = [Counted(1) EXCEPT !.slot = @ + 1]
             /\ UNCHANGED <<process, stdin, stdout, late, faults>>

\* A mutant of Drop: the slot is freed and its helper kept.
DropKeeping ==
    /\ Failed \/ TimedOut
    /\ Current.busy # NoJob
    /\ outcome' = [outcome EXCEPT ![Current.busy] = "dropped"]
    /\ pool' = [pool EXCEPT ![run.slot].busy = NoJob]
    /\ run' = [Counted(1) EXCEPT !.slot = @ + 1]
    /\ UNCHANGED <<helperVars, faults>>

\* The candidate of a helper that failed or is late is dropped.
Drop ==
    /\ Failed \/ TimedOut
    /\ IF Current.busy = NoJob
       THEN Replace(run, outcome)
       ELSE Replace(Counted(1), [outcome EXCEPT ![Current.busy] = "dropped"])

IdleSlot ==
    /\ Polling /\ ~Response /\ ~Failed /\ ~TimedOut
    /\ run' = [run EXCEPT !.slot = @ + 1]
    /\ UNCHANGED <<pool, helperVars, outcome, faults>>

PollDone ==
    /\ RunAt("poll") /\ run.slot > Len(pool)
    /\ run' = [run EXCEPT !.at = "dispatch", !.slot = 1]
    /\ UNCHANGED <<pool, helperVars, outcome, faults>>

WaveDone ==
    /\ RunAt("dispatch") /\ Returned /\ run.slot = 1
    /\ run' = [run EXCEPT !.at = "idle"]
    /\ UNCHANGED <<pool, helperVars, outcome, faults>>

RunStep ==
    \/ Dispatch \/ DispatchDone \/ Misorder \/ Answer \/ Drop \/ IdleSlot \/ PollDone \/ WaveDone

BeamNext ==
    \/ StartWave \/ RunStep
    \/ \E h \in Helper :
        ReadJob(h) \/ Respond(h) \/ Hang(h) \/ Crash(h) \/ Watchdog(h) \/ Forward(h) \/ Age(h)

BeamSpec == BeamInit /\ [][BeamNext]_beamVars
--------------------------------------------------------------------------------
(* Properties                                                                  *)

\* Responses reach the candidate they were compiled for, every candidate is
\* accounted for exactly once, and a helper that goes on to the next wave owes
\* nothing: no crash, timeout, late answer or replacement makes run() count a
\* candidate twice or take an answer for another task's.
WavesAccounted ==
    /\ ~RunAt("misorder")
    /\ run.finished = Cardinality({c \in Job : outcome[c] # "open"})
    /\ RunAt("idle") => \A i \in DOMAIN pool :
           pool[i].busy = NoJob /\ channel[pool[i].helper] \in {<<>>, <<NoJob>>}

\* A wave ends, although helpers crash and compilations hang: the timeout sees
\* to it.
WavesEnd == ~RunAt("idle") ~> RunAt("idle") \/ RunAt("error")

=================================================================================
