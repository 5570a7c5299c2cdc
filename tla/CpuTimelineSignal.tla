---------------------------- MODULE CpuTimelineSignal ----------------------------
(* The host timeline signal (device/src/sync.rs, CpuTimelineSignal): an atomic *)
(* counter, and a condvar whose mutex protects nothing.  `set` raises the      *)
(* counter and notifies without taking the mutex; `wait` tests the counter     *)
(* under the mutex and sleeps.  Threads are either setters or waiters; a       *)
(* waiter waits without a limit (timeout_ms = 0, as DeviceContext::wait_for    *)
(* does) or with one.                                                          *)
EXTENDS Naturals

CONSTANTS Setter, Waiter,
          MaxValue,   \* bound: the values set and waited for
          MaxSignalCalls    \* bound: calls each thread makes

ASSUME SignalAssumption ==
    /\ MaxValue \in Nat /\ MaxSignalCalls \in Nat
    /\ Setter \cap Waiter = {}

VARIABLES value,    \* the AtomicU64
          at,       \* where each thread is
          arg,      \* a setter's `value`, a waiter's `target`
          timed,    \* waiters whose current call has a time limit
          mutex,    \* the waiters (at most one) holding the mutex
          sleepers, \* waiters queued on the condvar
          overdue,  \* waiters whose sleep ended by its time limit
          result,   \* Waiter -> outcome of its last call
          signalCalls

signalVars == <<value, at, arg, timed, mutex, sleepers, overdue, result, signalCalls>>

Actor == Setter \cup Waiter

SignalInit ==
    /\ value = 0
    /\ at = [t \in Actor |-> "idle"]
    /\ arg = [t \in Actor |-> 0]
    /\ timed = {} /\ mutex = {} /\ sleepers = {} /\ overdue = {}
    /\ result = [t \in Waiter |-> "none"]
    /\ signalCalls = [t \in Actor |-> 0]

\* Mutant: the value is stored, also over a higher one.
StoredOver(v) == v

\* fetch_max
Raised(v) == IF v > value THEN v ELSE value

\* set: fetch_max; the notification follows only if the value grew.
Set(t, v) ==
    /\ at[t] = "idle" /\ signalCalls[t] < MaxSignalCalls
    /\ signalCalls' = [signalCalls EXCEPT ![t] = @ + 1]
    /\ arg' = [arg EXCEPT ![t] = v]
    /\ value' = Raised(v)
    /\ at' = [at EXCEPT ![t] = IF v > value THEN "notify" ELSE "idle"]
    /\ UNCHANGED <<timed, mutex, sleepers, overdue, result>>

\* set: notify_all, without the mutex.
Notify(t) ==
    /\ at[t] = "notify"
    /\ sleepers' = {}
    /\ at' = [u \in Actor |-> IF u = t THEN "idle"
                               ELSE IF u \in sleepers THEN "relock" ELSE at[u]]
    /\ UNCHANGED <<value, arg, timed, mutex, overdue, result, signalCalls>>

CallWait(t, target, limit) ==
    /\ at[t] = "idle" /\ signalCalls[t] < MaxSignalCalls
    /\ signalCalls' = [signalCalls EXCEPT ![t] = @ + 1]
    /\ arg' = [arg EXCEPT ![t] = target]
    /\ timed' = IF limit THEN timed \cup {t} ELSE timed \ {t}
    /\ at' = [at EXCEPT ![t] = "fast"]
    /\ UNCHANGED <<value, mutex, sleepers, overdue, result>>

Return(t, outcome) ==
    /\ at' = [at EXCEPT ![t] = "idle"]
    /\ result' = [result EXCEPT ![t] = outcome]
    /\ mutex' = mutex \ {t}
    /\ overdue' = overdue \ {t}

\* wait: the test before the mutex.
Fast(t) ==
    /\ at[t] = "fast"
    /\ IF value >= arg[t]
       THEN Return(t, "ok")
       ELSE at' = [at EXCEPT ![t] = "lock"] /\ UNCHANGED <<result, mutex, overdue>>
    /\ UNCHANGED <<value, arg, timed, sleepers, signalCalls>>

Lock(t) ==
    /\ at[t] = "lock" /\ mutex = {}
    /\ mutex' = {t}
    /\ at' = [at EXCEPT ![t] = "test"]
    /\ UNCHANGED <<value, arg, timed, sleepers, overdue, result, signalCalls>>

\* The loop's test, with the mutex held; a timed loop whose deadline has passed
\* (after a notification it slept through) tests once more and gives up.
Test(t) ==
    /\ at[t] = "test"
    /\ \/ value >= arg[t] /\ Return(t, "ok")
       \/ value < arg[t] /\ at' = [at EXCEPT ![t] = "park"] /\ UNCHANGED <<result, mutex, overdue>>
       \/ value < arg[t] /\ t \in timed /\ Return(t, "timeout")
    /\ UNCHANGED <<value, arg, timed, sleepers, signalCalls>>

\* Condvar::wait: queue up and unlock in one step.  A setter may have raised the
\* counter and notified between the test and this step.
ParkWait(t) ==
    /\ at[t] = "park"
    /\ mutex' = {}
    /\ sleepers' = sleepers \cup {t}
    /\ at' = [at EXCEPT ![t] = "asleep"]
    /\ UNCHANGED <<value, arg, timed, overdue, result, signalCalls>>

\* wait_for runs out.
ExpireWait(t) ==
    /\ at[t] = "asleep" /\ t \in timed
    /\ sleepers' = sleepers \ {t}
    /\ overdue' = overdue \cup {t}
    /\ at' = [at EXCEPT ![t] = "relock"]
    /\ UNCHANGED <<value, arg, timed, mutex, result, signalCalls>>

\* After the sleep, with the mutex again: give up only if the limit ran out and
\* the counter, read now, is still short.
GaveUp(t) == t \in overdue /\ value < arg[t]

Relock(t) ==
    /\ at[t] = "relock" /\ mutex = {}
    /\ IF GaveUp(t)
       THEN Return(t, "timeout")
       ELSE /\ mutex' = {t}
            /\ overdue' = overdue \ {t}
            /\ at' = [at EXCEPT ![t] = "test"]
            /\ UNCHANGED result
    /\ UNCHANGED <<value, arg, timed, sleepers, signalCalls>>

WaiterStep(t) == Fast(t) \/ Lock(t) \/ Test(t) \/ ParkWait(t) \/ ExpireWait(t) \/ Relock(t)

SignalDone == (\A t \in Actor : at[t] \in {"idle", "asleep"}) /\ UNCHANGED signalVars

SignalNext ==
    \/ \E t \in Setter : Notify(t) \/ \E v \in 1..MaxValue : Set(t, v)
    \/ \E t \in Waiter :
        \/ WaiterStep(t)
        \/ \E target \in 1..MaxValue, limit \in BOOLEAN : CallWait(t, target, limit)
    \/ SignalDone

SignalSpec == SignalInit /\ [][SignalNext]_signalVars

\* Running threads are scheduled and time passes.  Nothing forces a new call.
SignalFairSpec ==
    /\ SignalSpec
    /\ \A t \in Setter : WF_signalVars(Notify(t))
    /\ \A t \in Waiter : WF_signalVars(WaiterStep(t))

---------------------------------------------------------------------------------
(* Properties.                                                                 *)

\* "Ok(()) if the signal reached the target value, or Err on timeout": a wait with
\* a limit whose target is reached while it is under way ends, and with success.
\* Nothing is asked of the setters: the one that reached the target may stop before
\* it notifies, its notification may fall between the wait's test and its sleep, a
\* late setter may follow it with a lower value, and the limit may run out at the
\* same time.
TimedWaitsAnswer ==
    \A t \in Waiter :
        (t \in timed /\ at[t] # "idle" /\ value >= arg[t]) ~> (at[t] = "idle" /\ result[t] = "ok")

\* A call without a limit returns once the counter has reached its target:
\* "waiters block until the signal reaches or exceeds the target value".
ReachedWaitsEnd ==
    \A t \in Waiter : (at[t] # "idle" /\ value >= arg[t]) ~> (at[t] = "idle")

=================================================================================
