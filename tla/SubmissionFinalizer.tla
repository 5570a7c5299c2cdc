-------------------------- MODULE SubmissionFinalizer --------------------------
(* SubmissionFinalizer (device/src/amd/connector.rs): the object on which      *)
(* owners and drains wait for the epoch of a linked plan.  It is registered    *)
(* Prepared before the first doorbell (AmdLinkedPlan::replay); the publisher   *)
(* then rings the doorbells and marks it Published, or its guard marks it      *)
(* Failed and poisons the device.  A wait parks until the publication is       *)
(* decided, then polls the terminal signal; both phases are timed.             *)
EXTENDS Naturals

CONSTANTS FinWaiter, NoWaiter,
          Doorbells,     \* submissions of the epoch, one doorbell each
          MaxFinWaits    \* bound: waits of each waiter

ASSUME FinAssumption ==
    NoWaiter \notin FinWaiter /\ Doorbells \in Nat \ {0} /\ MaxFinWaits \in Nat

VARIABLES publication,  \* PublicationState
          publisher,    \* step of the publisher
          rung,         \* doorbells rung
          retired,      \* submissions the GPU has finished
          dead,         \* the device's poison latch
          finLock,      \* holder of the publication mutex
          parked,       \* waiters asleep on publication_changed
          expired,      \* waiters whose last sleep ran into the deadline
          look,         \* FinWaiter -> its step
          verdict,      \* FinWaiter -> result of its last wait
          waits         \* FinWaiter -> waits made

epoch == <<publisher, rung, retired>>
finVars == <<epoch, publication, dead, finLock, parked, expired, look, verdict, waits>>

FinInit ==
    /\ publication = "prepared" /\ publisher = "ring"
    /\ rung = 0 /\ retired = 0 /\ dead = FALSE
    /\ finLock = NoWaiter /\ parked = {} /\ expired = {}
    /\ look = [w \in FinWaiter |-> "idle"]
    /\ verdict = [w \in FinWaiter |-> "none"]
    /\ waits = [w \in FinWaiter |-> 0]

(* The publisher.                                                              *)

\* A doorbell and the checkpoint after it, which may end the publication.
Ring ==
    /\ publisher = "ring" /\ rung < Doorbells
    /\ rung' = rung + 1
    /\ publisher' \in {"ring", "abandon"}
    /\ UNCHANGED <<publication, retired, dead, finLock, parked, expired, look, verdict, waits>>

\* The writes before the first doorbell fail or panic: PreparedPublication::drop.
Abandon ==
    /\ publisher = "ring" /\ rung < Doorbells
    /\ publisher' = "abandon"
    /\ UNCHANGED <<publication, rung, retired, dead, finLock, parked, expired, look, verdict, waits>>

MarkPublished ==
    /\ publisher = "ring" /\ rung = Doorbells /\ finLock = NoWaiter
    /\ publication' = "published"
    /\ publisher' = "notify"
    /\ UNCHANGED <<rung, retired, dead, finLock, parked, expired, look, verdict, waits>>

MarkFailed ==
    /\ publisher = "abandon" /\ finLock = NoWaiter
    /\ publication' = "failed"
    /\ publisher' = "notifyFailed"
    /\ UNCHANGED <<rung, retired, dead, finLock, parked, expired, look, verdict, waits>>

\* Mutant: one of the parked waiters is woken.
WokenOne == IF parked = {} THEN {} ELSE {CHOOSE w \in parked : TRUE}

\* notify_all.
WokenAll == parked

NotifyAll ==
    /\ publisher \in {"notify", "notifyFailed"}
    /\ parked' = parked \ WokenAll
    /\ look' = [w \in FinWaiter |-> IF w \in WokenAll THEN "relock" ELSE look[w]]
    /\ publisher' = IF publisher = "notify" THEN "done" ELSE "poison"
    /\ UNCHANGED <<publication, rung, retired, dead, finLock, expired, verdict, waits>>

PoisonCore ==
    /\ publisher = "poison"
    /\ dead' = TRUE
    /\ publisher' = "done"
    /\ UNCHANGED <<publication, rung, retired, finLock, parked, expired, look, verdict, waits>>

(* The GPU.                                                                    *)

RetireNext ==
    /\ retired < rung
    /\ retired' = retired + 1
    /\ UNCHANGED <<publication, publisher, rung, dead, finLock, parked, expired, look, verdict, waits>>

\* A fault, which somebody reports to the device.
Fault ==
    /\ ~dead
    /\ dead' = TRUE
    /\ UNCHANGED <<epoch, publication, finLock, parked, expired, look, verdict, waits>>

(* SubmissionFinalizer::wait                                                   *)

Look(w, label) == look' = [look EXCEPT ![w] = label]

BeginWait(w) ==
    /\ look[w] = "idle" /\ waits[w] < MaxFinWaits
    /\ waits' = [waits EXCEPT ![w] = @ + 1]
    /\ Look(w, "lock")
    /\ UNCHANGED <<epoch, publication, dead, finLock, parked, expired, verdict>>

EndWait(w, result) ==
    /\ verdict' = [verdict EXCEPT ![w] = result]
    /\ Look(w, "idle")

LockPublication(w) ==
    /\ look[w] = "lock" /\ finLock = NoWaiter
    /\ finLock' = w
    /\ Look(w, "test")
    /\ UNCHANGED <<epoch, publication, dead, parked, expired, verdict, waits>>

\* The loop's test, and the sleep that releases the lock.
TestPublication(w) ==
    /\ look[w] = "test"
    /\ \/ publication = "prepared" /\ dead /\ EndWait(w, "poisoned") /\ UNCHANGED parked
       \/ publication = "prepared" /\ ~dead /\ Look(w, "parked") /\ parked' = parked \cup {w} /\ UNCHANGED verdict
       \/ publication = "failed" /\ EndWait(w, "failed") /\ UNCHANGED parked
       \/ publication = "published" /\ Look(w, "poll") /\ UNCHANGED <<verdict, parked>>
    /\ finLock' = NoWaiter
    /\ UNCHANGED <<epoch, publication, dead, expired, waits>>

\* Mutant: the sleep has no deadline.
ParksForEver(w) == FALSE

\* wait_until: the sleep is bounded by the wait's deadline.
DeadlineReached(w) == w \in parked

ExpirePark(w) ==
    /\ DeadlineReached(w)
    /\ parked' = parked \ {w} /\ expired' = expired \cup {w}
    /\ Look(w, "relock")
    /\ UNCHANGED <<epoch, publication, dead, finLock, verdict, waits>>

\* Mutant: an expired sleep is a timeout, whatever happened before the lock was
\* taken again.
ExpiredAnyway(w) == w \in expired

\* `timed_out() && *publication == Prepared`
PublicationTimedOut(w) == w \in expired /\ publication = "prepared"

RelockPublication(w) ==
    /\ look[w] = "relock" /\ finLock = NoWaiter
    /\ IF PublicationTimedOut(w)
       THEN EndWait(w, "unpublished") /\ UNCHANGED finLock
       ELSE Look(w, "test") /\ finLock' = w /\ UNCHANGED verdict
    /\ expired' = expired \ {w}
    /\ UNCHANGED <<epoch, publication, dead, parked, waits>>

\* poll_until on the terminal signal: poison first, then the value, then the
\* time without progress.
Poll(w) ==
    /\ look[w] = "poll"
    /\ \/ dead /\ EndWait(w, "poisoned")
       \/ ~dead /\ retired = Doorbells /\ EndWait(w, "ok")
       \/ ~dead /\ retired < Doorbells /\ EndWait(w, "timeout")
    /\ UNCHANGED <<epoch, publication, dead, finLock, parked, expired, waits>>

WaitStep(w) ==
    LockPublication(w) \/ TestPublication(w) \/ ExpirePark(w) \/ RelockPublication(w) \/ Poll(w)

FinNext ==
    \/ Ring \/ Abandon \/ MarkPublished \/ MarkFailed \/ NotifyAll \/ PoisonCore \/ RetireNext \/ Fault
    \/ \E w \in FinWaiter : BeginWait(w) \/ WaitStep(w)

FinSpec == FinInit /\ [][FinNext]_finVars

---------------------------------------------------------------------------------
(* Properties.                                                                 *)

\* A wait tells the truth: it succeeds only after the last submission of the
\* epoch has retired, reports a publication that timed out only while there is
\* none (also if the deadline passed just as the publisher decided), and a
\* failed publication only if the terminal point will never be stored.
VerdictsTrue ==
    [][\A w \in FinWaiter : look[w] # "idle" /\ look'[w] = "idle" =>
        /\ verdict'[w] = "ok" => retired = Doorbells
        /\ verdict'[w] = "unpublished" => publication = "prepared"
        /\ verdict'[w] \in {"failed", "poisoned"} => dead \/ publisher \in {"notifyFailed", "poison"}]_finVars

\* Whoever parks before the publication is decided is woken by the decision;
\* nobody depends on the deadline once the publisher is through.
DecisionWakes == publisher \in {"done", "poison"} => parked = {}

\* "Parking untimed here wedged the caller for good": every wait ends, also when
\* the publisher never decides and the GPU never makes progress.
FinWaitsEnd == \A w \in FinWaiter : look[w] # "idle" ~> look[w] = "idle"

=================================================================================
