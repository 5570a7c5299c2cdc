------------------------------- MODULE WaitsProofs -------------------------------
(* Safety of two of the places where threads wait for one another: an epoch's  *)
(* finalizer and the helpers of a BEAM search, for any number of waiters,      *)
(* doorbells, helpers and candidates.                                          *)
EXTENDS SubmissionFinalizer, BeamWorkers, FiniteSetTheorems, SequenceTheorems, TLAPS

---------------------------------------------------------------------------------
(* SubmissionFinalizer                                                         *)

FinTypeOK ==
    /\ publication \in {"prepared", "published", "failed"}
    /\ publisher \in {"ring", "abandon", "notify", "notifyFailed", "poison", "done"}
    /\ rung \in Nat /\ retired \in Nat /\ dead \in BOOLEAN
    /\ parked \in SUBSET FinWaiter
    /\ look \in [FinWaiter -> {"idle", "lock", "test", "parked", "relock", "poll"}]
    /\ verdict \in [FinWaiter -> {"none", "ok", "unpublished", "failed", "poisoned", "timeout"}]

\* The publication is decided exactly when the publisher has marked it, and a
\* failed one leaves the device poisoned.
Decision ==
    /\ publication = "prepared" <=> publisher \in {"ring", "abandon"}
    /\ publication = "failed" => publisher \in {"notifyFailed", "poison"} \/ dead

FinInv == FinTypeOK /\ Decision /\ DecisionWakes

\* Every step of the publisher, the GPU and the waiters preserves the invariant.
LEMMA FinStepInv == FinInv /\ [FinNext]_finVars => FinInv'
<1> SUFFICES ASSUME FinInv, [FinNext]_finVars PROVE FinInv'
  OBVIOUS
<1> USE FinAssumption DEF FinInv, FinTypeOK, Decision, DecisionWakes, epoch
<1>1. CASE Ring \/ Abandon \/ MarkPublished \/ MarkFailed
  BY <1>1 DEF Ring, Abandon, MarkPublished, MarkFailed
<1>2. CASE NotifyAll
  BY <1>2 DEF NotifyAll, WokenAll
<1>3. CASE PoisonCore \/ RetireNext \/ Fault
  <2>1. dead' \in BOOLEAN /\ (dead => dead')
    BY <1>3, Zenon DEF PoisonCore, RetireNext, Fault
  <2>2. retired' \in Nat
    BY <1>3 DEF PoisonCore, RetireNext, Fault
  <2>3. PoisonCore => dead'
    BY Zenon DEF PoisonCore
  <2> QED BY <1>3, <2>1, <2>2, <2>3 DEF PoisonCore, RetireNext, Fault
<1>4. ASSUME NEW w \in FinWaiter, BeginWait(w) \/ LockPublication(w) \/ Poll(w) PROVE FinInv'
  BY <1>4 DEF BeginWait, LockPublication, Poll, EndWait, Look
<1>5. ASSUME NEW w \in FinWaiter, TestPublication(w) PROVE FinInv'
  BY <1>5 DEF TestPublication, EndWait, Look
<1>6. ASSUME NEW w \in FinWaiter, ExpirePark(w) \/ RelockPublication(w) PROVE FinInv'
  BY <1>6 DEF ExpirePark, DeadlineReached, RelockPublication, EndWait, Look
<1>7. CASE UNCHANGED finVars
  BY <1>7 DEF finVars
<1> QED
  BY <1>1, <1>2, <1>3, <1>4, <1>5, <1>6, <1>7 DEF FinNext, WaitStep

\* The invariant holds in every behaviour of the finalizer.
LEMMA FinInvariance == FinSpec => []FinInv
<1>1. FinInit => FinInv
  <2>1. FinInit => dead \in BOOLEAN
    BY Zenon DEF FinInit
  <2> QED BY <2>1 DEF FinInit, FinInv, FinTypeOK, Decision, DecisionWakes
<1> QED BY <1>1, FinStepInv, PTL DEF FinSpec

\* Nobody stays parked on a publication that is decided, however many wait.
THEOREM FinDecisionWakes == FinSpec => []DecisionWakes
<1>1. FinInv => DecisionWakes
  BY DEF FinInv
<1> QED BY <1>1, FinInvariance, PTL

\* What SubmissionFinalizer::wait reports is true when it reports it.
THEOREM FinVerdictsTrue == FinSpec => VerdictsTrue
<1> DEFINE True(w) ==
      look[w] # "idle" /\ look'[w] = "idle" =>
        /\ verdict'[w] = "ok" => retired = Doorbells
        /\ verdict'[w] = "unpublished" => publication = "prepared"
        /\ verdict'[w] \in {"failed", "poisoned"} => dead \/ publisher \in {"notifyFailed", "poison"}
<1>1. FinInv /\ [FinNext]_finVars => [\A w \in FinWaiter : True(w)]_finVars
  <2> SUFFICES ASSUME FinInv, FinNext, NEW w \in FinWaiter PROVE True(w)
    OBVIOUS
  <2> USE DEF FinInv, FinTypeOK
  <2>1. CASE Ring \/ Abandon \/ MarkPublished \/ MarkFailed \/ NotifyAll \/ PoisonCore \/ RetireNext \/ Fault
    BY <2>1 DEF Ring, Abandon, MarkPublished, MarkFailed, NotifyAll, PoisonCore, RetireNext, Fault
  <2>2. ASSUME NEW v \in FinWaiter, BeginWait(v) \/ LockPublication(v) \/ ExpirePark(v) PROVE True(w)
    BY <2>2 DEF BeginWait, LockPublication, ExpirePark, Look
  <2>3. ASSUME NEW v \in FinWaiter, TestPublication(v) PROVE True(w)
    BY <2>3 DEF TestPublication, EndWait, Look, Decision
  <2>4. ASSUME NEW v \in FinWaiter, RelockPublication(v) PROVE True(w)
    BY <2>4 DEF RelockPublication, PublicationTimedOut, EndWait, Look
  <2>5. ASSUME NEW v \in FinWaiter, Poll(v) PROVE True(w)
    BY <2>5 DEF Poll, EndWait, Look
  <2> QED BY <2>1, <2>2, <2>3, <2>4, <2>5 DEF FinNext, WaitStep
<1> QED BY <1>1, FinInvariance, PTL DEF FinSpec, VerdictsTrue

---------------------------------------------------------------------------------
(* BeamWorkers                                                                 *)

Slot == [helper : Helper, busy : Job \cup {NoJob}, tasks : Nat]
Run == [at : {"idle", "dispatch", "poll", "error", "misorder"},
        next : Nat \ {0}, finished : Nat, slot : Nat \ {0}, wave : Nat]

BeamTypeOK ==
    /\ pool \in Seq(Slot)
    /\ process \in [Helper -> {"none", "ready", "compiling", "hung", "dead"}]
    /\ stdin \in [Helper -> Seq(Job)] /\ stdout \in [Helper -> Seq(Job)]
    /\ channel \in [Helper -> Seq(Job \cup {NoJob})]
    /\ run \in Run
    /\ outcome \in [Job -> {"open", "answered", "dropped"}]

\* What is under way between the pool and a helper whose task is c.
Owes(h, c) ==
    \/ stdin[h] = <<c>> /\ stdout[h] = <<>> /\ channel[h] \in {<<>>, <<NoJob>>}
    \/ stdin[h] = <<>> /\ stdout[h] = <<c>> /\ channel[h] = <<>>
    \/ stdin[h] = <<>> /\ stdout[h] = <<>> /\ channel[h] \in {<<c>>, <<c, NoJob>>}

OwesNothing(h) == stdin[h] = <<>> /\ stdout[h] = <<>> /\ channel[h] \in {<<>>, <<NoJob>>}

\* A helper compiles what was written to it; the end of its stream is reported
\* only after its death; without a process there are no pipes.
Pipes(h) ==
    /\ process[h] \in {"compiling", "hung"} => stdin[h] # <<>>
    /\ (\E i \in DOMAIN channel[h] : channel[h][i] = NoJob) => process[h] = "dead"
    /\ process[h] = "none" => stdin[h] = <<>> /\ stdout[h] = <<>> /\ channel[h] = <<>>

\* A slot's helper owes the slot's task and nothing else.
SlotOK(i) ==
    /\ process[pool[i].helper] # "none"
    /\ IF pool[i].busy = NoJob THEN OwesNothing(pool[i].helper) ELSE Owes(pool[i].helper, pool[i].busy)
    /\ pool[i].busy # NoJob => pool[i].busy < run.next /\ outcome[pool[i].busy] = "open"

Slots ==
    /\ \A i \in DOMAIN pool : SlotOK(i)
    /\ \A i, j \in DOMAIN pool : pool[i].helper = pool[j].helper => i = j
    /\ \A i, j \in DOMAIN pool : pool[i].busy = pool[j].busy /\ pool[i].busy # NoJob => i = j

\* Candidates not yet handed out are open, and what is counted is what is decided.
Ledger ==
    /\ \A c \in Job : c >= run.next => outcome[c] = "open"
    /\ run.finished = Cardinality({c \in Job : outcome[c] # "open"})
    /\ run.at # "misorder"
    /\ run.at = "idle" => \A i \in DOMAIN pool : pool[i].busy = NoJob

BeamInv == BeamTypeOK /\ (\A h \in Helper : Pipes(h)) /\ Slots /\ Ledger

\* The pipes of a helper hold at most a job and the end of its stream.
LEMMA OneInPipe ==
    ASSUME NEW S, NEW c \in S
    PROVE  /\ <<c>> # <<>> /\ Head(<<c>>) = c /\ Tail(<<c>>) = <<>>
           /\ Append(<<>>, c) = <<c>> /\ <<c>>[1] = c /\ Len(<<c>>) = 1 /\ 1 \in DOMAIN <<c>>
<1>1. <<c>> # <<>> /\ Head(<<c>>) = c /\ <<c>>[1] = c /\ Len(<<c>>) = 1 /\ 1 \in DOMAIN <<c>>
  OBVIOUS
<1>2. Tail(<<c>>) = <<>>
  OBVIOUS
<1>3. Append(<<>>, c) = <<c>>
  OBVIOUS
<1> QED BY <1>1, <1>2, <1>3

\* The same of a job followed by the end of the stream.
LEMMA TwoInPipe ==
    ASSUME NEW S, NEW c \in S, NEW n \in S
    PROVE  /\ <<c, n>> # <<>> /\ Head(<<c, n>>) = c /\ Tail(<<c, n>>) = <<n>>
           /\ Append(<<c>>, n) = <<c, n>>
           /\ <<c, n>>[1] = c /\ <<c, n>>[2] = n /\ Len(<<c, n>>) = 2
<1>1. <<c, n>> # <<>> /\ Head(<<c, n>>) = c /\ <<c, n>>[1] = c /\ <<c, n>>[2] = n /\ Len(<<c, n>>) = 2
  OBVIOUS
<1>2. <<c>> \in Seq(S) /\ <<n>> \in Seq(S) /\ <<c, n>> \in Seq(S) /\ Len(<<c>>) = 1 /\ Len(<<n>>) = 1
      /\ <<c>>[1] = c /\ <<n>>[1] = n
  OBVIOUS
<1>3. Append(<<c>>, n) = <<c, n>>
  <2>1. /\ Append(<<c>>, n) \in Seq(S) /\ Len(Append(<<c>>, n)) = 2
        /\ Append(<<c>>, n)[1] = c /\ Append(<<c>>, n)[2] = n
    BY <1>2, AppendProperties
  <2>2. \A i \in 1..2 : Append(<<c>>, n)[i] = <<c, n>>[i]
    BY <1>1, <2>1
  <2> QED BY <1>1, <1>2, <2>1, <2>2, SeqEqual
<1>4. Tail(<<c, n>>) = <<n>>
  <2>1. /\ Tail(<<c, n>>) \in Seq(S) /\ Len(Tail(<<c, n>>)) = 1
        /\ Tail(<<c, n>>)[1] = n
    BY <1>1, <1>2, HeadTailProperties
  <2> QED BY <1>2, <2>1, SeqEqual
<1> QED BY <1>1, <1>3, <1>4

\* A step of one helper, its reader or the clock keeps the invariant if what the
\* helper owes stays what it owes.
LEMMA HelperSteps ==
    ASSUME BeamInv, NEW h \in Helper, BeamTypeOK', UNCHANGED <<pool, run, outcome>>,
           \A g \in Helper \ {h} : /\ process'[g] = process[g] /\ stdin'[g] = stdin[g]
                                   /\ stdout'[g] = stdout[g] /\ channel'[g] = channel[g],
           Pipes(h)', process[h] # "none" => process'[h] # "none",
           OwesNothing(h) => OwesNothing(h)',
           \A c \in Job : Owes(h, c) => Owes(h, c)'
    PROVE  BeamInv'
<1>1. \A g \in Helper : Pipes(g)'
  BY DEF BeamInv, Pipes
<1>2. ASSUME NEW i \in DOMAIN pool PROVE SlotOK(i)'
  <2> DEFINE g == pool[i].helper
  <2>1. g \in Helper /\ pool[i].busy \in Job \cup {NoJob}
    <3>1. pool[i] \in Slot
      <4>1. pool \in Seq(Slot) /\ i \in 1..Len(pool)
        BY <1>2, LenProperties DEF BeamInv, BeamTypeOK
      <4> QED BY <4>1, ElementOfSeq
    <3> QED BY <3>1 DEF Slot
  <2>2. SlotOK(i)
    BY <1>2 DEF BeamInv, Slots
  <2>3. CASE g = h
    BY <2>1, <2>2, <2>3 DEF SlotOK
  <2>4. CASE g # h
    BY <2>1, <2>2, <2>4 DEF SlotOK, OwesNothing, Owes
  <2> QED BY <2>3, <2>4
<1>3. Slots'
  BY <1>2 DEF BeamInv, Slots
<1>4. Ledger'
  BY DEF BeamInv, Ledger
<1> QED BY <1>1, <1>3, <1>4 DEF BeamInv

\* The helpers and their readers.
LEMMA HelperInv ==
    ASSUME BeamInv, NEW h \in Helper,
           ReadJob(h) \/ Respond(h) \/ Hang(h) \/ Crash(h) \/ Watchdog(h) \/ Forward(h) \/ Age(h)
    PROVE  BeamInv'
<1>0. /\ BeamTypeOK /\ Pipes(h) /\ NoJob \notin Job
      /\ stdin[h] \in Seq(Job) /\ stdout[h] \in Seq(Job) /\ channel[h] \in Seq(Job \cup {NoJob})
  BY BeamAssumption DEF BeamInv, BeamTypeOK, Job
<1>1. CASE ReadJob(h) \/ Hang(h) \/ Crash(h) \/ Watchdog(h)
  <2>1. /\ UNCHANGED <<pool, run, outcome, stdin, stdout, channel>>
        /\ \E s \in {"compiling", "hung", "dead"} :
             /\ process' = [process EXCEPT ![h] = s]
             /\ s \in {"compiling", "hung"} => stdin[h] # <<>> /\ process[h] # "dead"
    BY <1>0, <1>1 DEF ReadJob, Hang, Crash, Watchdog, Pipes
  <2>2. PICK s \in {"compiling", "hung", "dead"} :
             /\ process' = [process EXCEPT ![h] = s]
             /\ s \in {"compiling", "hung"} => stdin[h] # <<>> /\ process[h] # "dead"
    BY <2>1
  <2>3. BeamTypeOK' /\ process'[h] = s /\ \A g \in Helper \ {h} : process'[g] = process[g]
    BY <1>0, <2>1, <2>2 DEF BeamTypeOK
  <2>4. Pipes(h)'
    BY <1>0, <2>1, <2>2, <2>3 DEF Pipes
  <2> QED
    BY <1>0, <2>1, <2>2, <2>3, <2>4, HelperSteps DEF OwesNothing, Owes
<1>2. CASE Respond(h)
  <2> DEFINE c == Head(stdin[h])
  <2>1. /\ process[h] = "compiling" /\ stdin[h] # <<>>
        /\ UNCHANGED <<pool, channel, run, outcome>>
        /\ stdout' = [stdout EXCEPT ![h] = Append(@, c)]
        /\ stdin' = [stdin EXCEPT ![h] = Tail(@)]
        /\ process' = [process EXCEPT ![h] = "ready"]
    BY <1>0, <1>2 DEF Respond, Pipes
  <2>2. c \in Job /\ Tail(stdin[h]) \in Seq(Job) /\ Append(stdout[h], c) \in Seq(Job)
    BY <1>0, <2>1, HeadTailProperties, AppendProperties
  <2>3. /\ BeamTypeOK'
        /\ process'[h] = "ready" /\ stdin'[h] = Tail(stdin[h]) /\ stdout'[h] = Append(stdout[h], c)
        /\ \A g \in Helper \ {h} : /\ process'[g] = process[g] /\ stdin'[g] = stdin[g]
                                   /\ stdout'[g] = stdout[g] /\ channel'[g] = channel[g]
    BY <1>0, <2>1, <2>2 DEF BeamTypeOK
  <2>4. Pipes(h)' /\ channel[h] # <<NoJob>>
    <3>1. channel[h] # <<NoJob>>
      BY <1>0, <2>1, OneInPipe DEF Pipes
    <3> QED BY <1>0, <2>1, <2>3, <3>1 DEF Pipes
  <2>5. ASSUME NEW d \in Job, Owes(h, d) PROVE Owes(h, d)'
    <3>1. stdin[h] = <<d>> /\ stdout[h] = <<>> /\ channel[h] = <<>>
      BY <2>1, <2>4, <2>5 DEF Owes
    <3>2. stdin'[h] = <<>> /\ stdout'[h] = <<d>> /\ channel'[h] = <<>>
      BY <2>1, <2>3, <3>1, OneInPipe
    <3> QED BY <3>2 DEF Owes
  <2> QED BY <2>1, <2>3, <2>4, <2>5, HelperSteps DEF OwesNothing
<1>3. CASE Forward(h)
  <2>1. CASE stdout[h] # <<>>
    <3> DEFINE c == Head(stdout[h])
    <3>1. /\ UNCHANGED <<pool, process, stdin, run, outcome>>
          /\ process[h] # "none"
          /\ channel' = [channel EXCEPT ![h] = Append(@, c)]
          /\ stdout' = [stdout EXCEPT ![h] = Tail(@)]
      BY <1>3, <2>1 DEF Forward
    <3>2. c \in Job /\ Tail(stdout[h]) \in Seq(Job) /\ Append(channel[h], c) \in Seq(Job \cup {NoJob})
      BY <1>0, <2>1, HeadTailProperties, AppendProperties
    <3>3. /\ BeamTypeOK'
          /\ stdout'[h] = Tail(stdout[h]) /\ channel'[h] = Append(channel[h], c)
          /\ \A g \in Helper \ {h} : /\ process'[g] = process[g] /\ stdin'[g] = stdin[g]
                                     /\ stdout'[g] = stdout[g] /\ channel'[g] = channel[g]
      BY <1>0, <3>1, <3>2 DEF BeamTypeOK
    <3>4. Pipes(h)'
      <4>1. ASSUME \E i \in DOMAIN channel'[h] : channel'[h][i] = NoJob PROVE process[h] = "dead"
        BY <1>0, <3>2, <3>3, <4>1, AppendProperties DEF Pipes
      <4> QED BY <1>0, <3>1, <4>1 DEF Pipes
    <3>5. ASSUME NEW d \in Job, Owes(h, d) PROVE Owes(h, d)'
      <4>1. stdin[h] = <<>> /\ stdout[h] = <<d>> /\ channel[h] = <<>>
        BY <2>1, <3>5 DEF Owes
      <4>2. stdin'[h] = <<>> /\ stdout'[h] = <<>> /\ channel'[h] = <<d>>
        BY <3>1, <3>3, <4>1, OneInPipe
      <4> QED BY <4>2 DEF Owes
    <3> QED BY <2>1, <3>1, <3>3, <3>4, <3>5, HelperSteps DEF OwesNothing
  <2>2. CASE stdout[h] = <<>>
    <3>1. /\ UNCHANGED <<pool, process, stdin, stdout, run, outcome>>
          /\ process[h] = "dead" /\ ~Contains(channel[h], NoJob)
          /\ channel' = [channel EXCEPT ![h] = Append(@, NoJob)]
      BY <1>3, <2>2 DEF Forward
    <3>2. Append(channel[h], NoJob) \in Seq(Job \cup {NoJob})
      BY <1>0, AppendProperties
    <3>3. /\ BeamTypeOK'
          /\ channel'[h] = Append(channel[h], NoJob)
          /\ \A g \in Helper \ {h} : channel'[g] = channel[g]
      BY <1>0, <3>1, <3>2 DEF BeamTypeOK
    <3>4. Pipes(h)'
      BY <1>0, <3>1 DEF Pipes
    <3>5. /\ channel[h] # <<NoJob>>
          /\ \A d \in Job : channel[h] # <<d, NoJob>>
      <4>1. NoJob \in Job \cup {NoJob} /\ Job \subseteq Job \cup {NoJob}
        OBVIOUS
      <4>2. channel[h] # <<NoJob>>
        <5>1. <<NoJob>>[1] = NoJob /\ Len(<<NoJob>>) = 1
          OBVIOUS
        <5> QED BY <3>1, <5>1 DEF Contains
      <4>3. ASSUME NEW d \in Job PROVE channel[h] # <<d, NoJob>>
        <5>1. <<d, NoJob>>[2] = NoJob /\ Len(<<d, NoJob>>) = 2
          OBVIOUS
        <5> QED BY <3>1, <5>1 DEF Contains
      <4> QED BY <4>2, <4>3
    <3>6. OwesNothing(h) => OwesNothing(h)'
      <4>1. Append(<<>>, NoJob) = <<NoJob>>
        BY OneInPipe
      <4> QED BY <3>1, <3>3, <3>5, <4>1 DEF OwesNothing
    <3>7. ASSUME NEW d \in Job, Owes(h, d) PROVE Owes(h, d)'
      <4>1. CASE stdin[h] = <<d>> /\ channel[h] = <<>>
        <5>1. Append(<<>>, NoJob) = <<NoJob>>
          BY OneInPipe
        <5> QED BY <2>2, <3>1, <3>3, <4>1, <5>1 DEF Owes
      <4>2. CASE stdin[h] = <<>> /\ channel[h] = <<d>>
        <5>1. d \in Job \cup {NoJob} /\ NoJob \in Job \cup {NoJob}
          OBVIOUS
        <5>2. Append(<<d>>, NoJob) = <<d, NoJob>>
          BY <5>1, TwoInPipe
        <5> QED BY <2>2, <3>1, <3>3, <4>2, <5>2 DEF Owes
      <4>3. stdout[h] # <<d>>
        BY <2>2
      <4> QED BY <3>5, <3>7, <4>1, <4>2, <4>3 DEF Owes
    <3> QED BY <3>1, <3>3, <3>4, <3>6, <3>7, HelperSteps
  <2> QED BY <2>1, <2>2
<1>4. CASE Age(h)
  <2>1. UNCHANGED <<pool, process, stdin, stdout, channel, run, outcome>>
    BY <1>4 DEF Age
  <2>2. BeamTypeOK' /\ Pipes(h)'
    BY <1>0, <2>1 DEF BeamTypeOK, Pipes
  <2> QED BY <2>1, <2>2, HelperSteps DEF OwesNothing, Owes
<1> QED BY <1>1, <1>2, <1>3, <1>4

\* Deciding an open candidate adds one to the decided ones.
LEMMA DecideOne ==
    ASSUME NEW c \in Job, NEW v \in {"answered", "dropped"}, outcome \in [Job -> {"open", "answered", "dropped"}],
           outcome[c] = "open"
    PROVE  /\ [outcome EXCEPT ![c] = v] \in [Job -> {"open", "answered", "dropped"}]
           /\ Cardinality({d \in Job : [outcome EXCEPT ![c] = v][d] # "open"})
                = Cardinality({d \in Job : outcome[d] # "open"}) + 1
<1> DEFINE Decided0 == {d \in Job : outcome[d] # "open"}
<1>1. IsFiniteSet(Decided0)
  <2>1. IsFiniteSet(Job)
    BY FS_Interval, BeamAssumption DEF Job
  <2> QED BY <2>1, FS_Subset
<1>2. {d \in Job : [outcome EXCEPT ![c] = v][d] # "open"} = Decided0 \cup {c}
  OBVIOUS
<1>3. c \notin Decided0
  OBVIOUS
<1>4. Cardinality(Decided0 \cup {c}) = Cardinality(Decided0) + 1
  <2> HIDE DEF Decided0
  <2> QED BY <1>1, <1>3, FS_AddElement
<1> QED BY <1>2, <1>4

\* When as many candidates are decided as the wave has, none is open.
LEMMA AllDecided ==
    ASSUME Candidates <= Cardinality({d \in Job : outcome[d] # "open"}), NEW c \in Job
    PROVE  outcome[c] # "open"
<1> DEFINE Decided0 == {d \in Job : outcome[d] # "open"}
<1>1. IsFiniteSet(Job) /\ Cardinality(Job) = Candidates
  BY FS_Interval, BeamAssumption DEF Job
<1>2. Decided0 \in SUBSET Job
  OBVIOUS
<1>3. Cardinality(Decided0) \in Nat /\ Cardinality(Decided0) <= Cardinality(Job)
      /\ (Cardinality(Job) = Cardinality(Decided0) => Job = Decided0)
  <2> HIDE DEF Decided0
  <2> QED BY <1>1, <1>2, FS_Subset, FS_CardinalityType
<1>4. Candidates <= Cardinality(Decided0) /\ Candidates \in Nat
  BY BeamAssumption
<1>5. Job = Decided0
  <2> HIDE DEF Decided0
  <2> QED BY <1>1, <1>3, <1>4
<1> QED BY <1>5

\* Steps of run() that move its own position only.
LEMMA PositionInv ==
    ASSUME BeamInv, UNCHANGED <<pool, process, stdin, stdout, channel, outcome>>,
           BeamTypeOK', run'.next = run.next, run'.finished = run.finished, run'.at # "misorder",
           run'.at = "idle" => \A i \in DOMAIN pool : pool[i].busy = NoJob
    PROVE  BeamInv'
<1>1. \A h \in Helper : Pipes(h)'
  BY DEF BeamInv, Pipes
<1>2. \A i \in DOMAIN pool : SlotOK(i)'
  BY DEF BeamInv, Slots, SlotOK, OwesNothing, Owes
<1>3. Slots'
  BY <1>2 DEF BeamInv, Slots
<1>4. Ledger'
  BY DEF BeamInv, Ledger
<1> QED BY <1>1, <1>3, <1>4 DEF BeamInv

\* A slot's task and helper have their types.
LEMMA SlotType ==
    ASSUME BeamInv, NEW i \in DOMAIN pool
    PROVE  /\ pool[i] \in Slot /\ pool[i].helper \in Helper /\ pool[i].busy \in Job \cup {NoJob}
           /\ pool[i].tasks \in Nat /\ i \in 1..Len(pool) /\ Len(pool) \in Nat
<1>1. pool \in Seq(Slot) /\ i \in 1..Len(pool) /\ Len(pool) \in Nat
  BY LenProperties DEF BeamInv, BeamTypeOK
<1>2. pool[i] \in Slot
  BY <1>1, ElementOfSeq
<1> QED BY <1>1, <1>2 DEF Slot

\* Positions of run() that pass from slot to slot and between its two loops.
LEMMA WalkInv ==
    ASSUME BeamInv, DispatchDone \/ Misorder \/ IdleSlot \/ PollDone \/ WaveDone
    PROVE  BeamInv'
<1>1. CASE DispatchDone
  <2>1. /\ UNCHANGED <<pool, process, stdin, stdout, channel, outcome>>
        /\ run' = [run EXCEPT !.at = "poll", !.slot = 1]
    BY <1>1 DEF DispatchDone, helperVars
  <2>2. run' \in Run /\ run'.next = run.next /\ run'.finished = run.finished /\ run'.at # "misorder" /\ run'.at # "idle"
    <3>1. run \in Run
      BY DEF BeamInv, BeamTypeOK
    <3>2. run' = [at |-> "poll", next |-> run.next, finished |-> run.finished, slot |-> 1, wave |-> run.wave]
      BY <2>1, <3>1 DEF Run
    <3> QED BY <3>1, <3>2 DEF Run
  <2>3. BeamTypeOK'
    BY <2>1, <2>2 DEF BeamInv, BeamTypeOK
  <2> QED BY <2>1, <2>2, <2>3, PositionInv
<1>2. CASE IdleSlot
  <2>1. /\ UNCHANGED <<pool, process, stdin, stdout, channel, outcome>>
        /\ run' = [run EXCEPT !.slot = @ + 1] /\ run.at = "poll"
    BY <1>2 DEF IdleSlot, Polling, RunAt, helperVars
  <2>2. run' \in Run /\ run'.next = run.next /\ run'.finished = run.finished /\ run'.at # "misorder" /\ run'.at # "idle"
    <3>1. run \in Run
      BY DEF BeamInv, BeamTypeOK
    <3> QED BY <2>1, <3>1 DEF Run
  <2>3. BeamTypeOK'
    BY <2>1, <2>2 DEF BeamInv, BeamTypeOK
  <2> QED BY <2>1, <2>2, <2>3, PositionInv
<1>3. CASE PollDone
  <2>1. /\ UNCHANGED <<pool, process, stdin, stdout, channel, outcome>>
        /\ run' = [run EXCEPT !.at = "dispatch", !.slot = 1]
    BY <1>3 DEF PollDone, helperVars
  <2>2. run' \in Run /\ run'.next = run.next /\ run'.finished = run.finished /\ run'.at # "misorder" /\ run'.at # "idle"
    <3>1. run \in Run
      BY DEF BeamInv, BeamTypeOK
    <3>2. run' = [at |-> "dispatch", next |-> run.next, finished |-> run.finished, slot |-> 1, wave |-> run.wave]
      BY <2>1, <3>1 DEF Run
    <3> QED BY <3>1, <3>2 DEF Run
  <2>3. BeamTypeOK'
    BY <2>1, <2>2 DEF BeamInv, BeamTypeOK
  <2> QED BY <2>1, <2>2, <2>3, PositionInv
<1>4. CASE WaveDone
  <2>1. /\ UNCHANGED <<pool, process, stdin, stdout, channel, outcome>>
        /\ run' = [run EXCEPT !.at = "idle"] /\ run.finished >= Candidates
    BY <1>4 DEF WaveDone, Returned, helperVars
  <2>2. Candidates <= Cardinality({d \in Job : outcome[d] # "open"})
    BY <2>1, BeamAssumption DEF BeamInv, BeamTypeOK, Run, Ledger
  <2>3. ASSUME NEW i \in DOMAIN pool PROVE pool[i].busy = NoJob
    <3>1. pool[i].busy # NoJob => outcome[pool[i].busy] = "open"
      BY <2>3 DEF BeamInv, Slots, SlotOK
    <3>2. pool[i].busy \in Job \cup {NoJob}
      BY <2>3, SlotType
    <3> QED BY <2>2, <3>1, <3>2, AllDecided
  <2>4. BeamTypeOK' /\ run'.next = run.next /\ run'.finished = run.finished /\ run'.at = "idle"
    BY <2>1 DEF BeamInv, BeamTypeOK, Run
  <2> QED BY <2>1, <2>3, <2>4, PositionInv
<1>5. CASE Misorder
  <2> DEFINE s == run.slot
             h == pool[s].helper
  <2>1. s \in DOMAIN pool /\ channel[h] # <<>> /\ Head(channel[h]) # NoJob /\ Head(channel[h]) # pool[s].busy
    BY <1>5, LenProperties DEF BeamInv, BeamTypeOK, Run, Misorder, Response, Polling, Current
  <2>2. SlotOK(s) /\ pool[s].busy \in Job \cup {NoJob}
    BY <2>1, SlotType DEF BeamInv, Slots
  <2>3. Head(<<NoJob>>) = NoJob
    BY OneInPipe
  <2>4. CASE pool[s].busy = NoJob
    BY <2>1, <2>2, <2>3, <2>4 DEF SlotOK, OwesNothing
  <2>5. CASE pool[s].busy # NoJob
    <3> DEFINE c == pool[s].busy
    <3>1. Head(<<c>>) = c /\ Head(<<c, NoJob>>) = c
      BY OneInPipe, TwoInPipe
    <3>2. channel[h] \in {<<>>, <<NoJob>>, <<c>>, <<c, NoJob>>}
      BY <2>2, <2>5 DEF SlotOK, Owes
    <3> QED BY <2>1, <2>3, <3>1, <3>2
  <2> QED BY <2>4, <2>5
<1> QED BY <1>1, <1>2, <1>3, <1>4, <1>5

\* A slot whose helper, task and position are untouched stays as it was.
LEMMA SlotFrame ==
    ASSUME BeamInv, NEW i \in DOMAIN pool, NEW j, pool'[j] = pool[i],
           LET h == pool[i].helper IN
             /\ process'[h] = process[h] /\ stdin'[h] = stdin[h]
             /\ stdout'[h] = stdout[h] /\ channel'[h] = channel[h],
           run'.next >= run.next,
           pool[i].busy # NoJob => outcome'[pool[i].busy] = outcome[pool[i].busy],
           run' \in Run
    PROVE  SlotOK(j)'
<1>1. SlotOK(i) /\ pool[i].busy \in Job \cup {NoJob} /\ run \in Run
  BY SlotType DEF BeamInv, Slots, BeamTypeOK
<1>2. pool[i].busy # NoJob => pool[i].busy < run'.next
  <2>1. run.next \in Nat /\ run'.next \in Nat /\ Job \subseteq Nat
    BY <1>1 DEF Run, Job
  <2> QED BY <1>1, <2>1 DEF SlotOK
<1> QED BY <1>1, <1>2 DEF SlotOK, OwesNothing, Owes

\* What a slot becomes when it is given a task.
LEMMA GivenTask ==
    ASSUME NEW r \in Slot, NEW c \in Job
    PROVE  LET e == [r EXCEPT !.busy = c, !.tasks = @ + 1]
           IN  e \in Slot /\ e.helper = r.helper /\ e.busy = c
<1> DEFINE f == [r EXCEPT !.busy = c]
<1>1. f \in Slot /\ f.helper = r.helper /\ f.busy = c
  BY DEF Slot
<1>2. [f EXCEPT !.tasks = @ + 1] \in Slot /\ [f EXCEPT !.tasks = @ + 1].helper = f.helper
      /\ [f EXCEPT !.tasks = @ + 1].busy = f.busy
  <2> HIDE DEF f
  <2> QED BY <1>1 DEF Slot
<1>3. [r EXCEPT !.busy = c, !.tasks = @ + 1] = [f EXCEPT !.tasks = @ + 1]
  OBVIOUS
<1> QED BY <1>1, <1>2, <1>3

\* A task handed to a slot: its helper owes nothing and is alive, so it owes just
\* this task afterwards.
LEMMA DispatchInv == ASSUME BeamInv, Dispatch PROVE BeamInv'
<1>0. run \in Run /\ BeamTypeOK /\ Slots /\ Ledger /\ \A g \in Helper : Pipes(g)
  BY DEF BeamInv, BeamTypeOK
<1>1. PICK s \in DOMAIN pool : s = run.slot /\ run.at = "dispatch"
  BY <1>0, LenProperties DEF Dispatch, RunAt, Run, BeamTypeOK
<1>2. PICK h \in Helper : h = pool[s].helper
  BY SlotType
<1>9. pool[s] \in Slot /\ SlotOK(s) /\ s \in 1..Len(pool)
  BY <1>0, SlotType DEF Slots
<1>8. PICK c \in Nat : c = run.next
  BY <1>0 DEF Run
<1>3. CASE pool[s].busy = NoJob /\ c <= Candidates /\ process[h] # "dead"
  <2>1. /\ stdin' = [stdin EXCEPT ![h] = Append(@, c)]
        /\ pool' = [pool EXCEPT ![s].busy = c, ![s].tasks = @ + 1]
        /\ run' = [run EXCEPT !.next = @ + 1, !.slot = @ + 1]
        /\ UNCHANGED <<process, stdout, channel, outcome>>
    BY <1>0, <1>1, <1>2, <1>8, <1>3, BeamAssumption DEF Dispatch, Current, Run
  <2>2. c \in Job /\ NoJob \notin Job /\ run.finished \in Nat
    BY <1>0, <1>1, <1>8, <1>3, BeamAssumption DEF Run, Job
  <2>3. /\ run' \in Run /\ run'.next = c + 1 /\ run'.finished = run.finished /\ run'.at = "dispatch"
    <3>1. run' = [at |-> "dispatch", next |-> run.next + 1, finished |-> run.finished, slot |-> run.slot + 1, wave |-> run.wave]
      BY <1>0, <1>1, <1>8, <2>1 DEF Run
    <3> QED BY <1>0, <1>1, <1>8, <3>1 DEF Run
  <2>4. OwesNothing(h) /\ process[h] # "none" /\ channel[h] = <<>>
    <3>1. OwesNothing(h) /\ process[h] # "none"
      BY <1>2, <1>9, <1>3 DEF SlotOK
    <3>2. channel[h] # <<NoJob>>
      BY <1>0, <1>1, <1>8, <1>2, <1>9, <1>3, OneInPipe DEF Pipes
    <3> QED BY <3>1, <3>2 DEF OwesNothing
  <2>5. /\ stdin \in [Helper -> Seq(Job)] /\ stdin'[h] = <<c>> /\ stdin' \in [Helper -> Seq(Job)]
        /\ \A g \in Helper \ {h} : stdin'[g] = stdin[g]
    <3>1. stdin \in [Helper -> Seq(Job)] /\ stdin[h] = <<>> /\ <<c>> \in Seq(Job)
      BY <1>0, <1>1, <1>8, <2>2, <2>4 DEF BeamTypeOK, OwesNothing
    <3>2. stdin' = [stdin EXCEPT ![h] = <<c>>]
      BY <2>1, <2>2, <3>1, OneInPipe
    <3> QED BY <1>2, <1>9, <3>1, <3>2
  <2>6. /\ pool' \in Seq(Slot) /\ DOMAIN pool' = DOMAIN pool
        /\ pool'[s].helper = h /\ pool'[s].busy = c
        /\ \A i \in DOMAIN pool : i # s => pool'[i] = pool[i]
    <3> DEFINE taken == [pool[s] EXCEPT !.busy = c, !.tasks = @ + 1]
    <3>1. pool' = [pool EXCEPT ![s] = taken]
      BY <1>1, <2>1
    <3>2. taken \in Slot /\ taken.helper = h /\ taken.busy = c /\ pool \in Seq(Slot)
      BY <1>0, <1>2, <1>9, <2>2, GivenTask DEF BeamTypeOK
    <3> HIDE DEF taken
    <3>3. pool' \in Seq(Slot)
      BY <1>2, <1>9, <3>1, <3>2, ExceptSeq
    <3>4. pool'[s] = taken
      BY <1>1, <3>1
    <3> QED BY <1>1, <3>1, <3>2, <3>3, <3>4
  <2>7. SlotOK(s)'
    <3>1. Owes(h, c)'
      BY <2>1, <2>4, <2>5 DEF Owes, OwesNothing
    <3>2. outcome[c] = "open" /\ c < run'.next
      BY <1>0, <1>1, <1>8, <2>2, <2>3 DEF Ledger, Run
    <3> QED BY <2>1, <2>2, <2>4, <2>6, <3>1, <3>2 DEF SlotOK
  <2>8. ASSUME NEW i \in DOMAIN pool, i # s PROVE SlotOK(i)' /\ pool[i].helper # h /\ pool[i].busy # c
    <3>1. pool[i].helper # h /\ pool[i].helper \in Helper
      BY <1>0, <1>2, <2>8, SlotType DEF Slots
    <3>2. pool[i].busy # c
      BY <1>0, <1>1, <1>8, <2>2, <2>8 DEF Slots, SlotOK, Run
    <3>3. run'.next >= run.next
      BY <1>0, <1>1, <1>8, <2>3 DEF Run
    <3> QED BY <2>1, <2>3, <2>5, <2>6, <2>8, <3>1, <3>2, <3>3, SlotFrame
  <2>9. Slots'
    <3>1. \A i \in DOMAIN pool' : SlotOK(i)'
      BY <2>6, <2>7, <2>8
    <3>2. ASSUME NEW i \in DOMAIN pool', NEW j \in DOMAIN pool', pool'[i].helper = pool'[j].helper PROVE i = j
      BY <1>0, <1>1, <1>8, <2>6, <2>8, <3>2 DEF Slots
    <3>3. ASSUME NEW i \in DOMAIN pool', NEW j \in DOMAIN pool', pool'[i].busy = pool'[j].busy, pool'[i].busy # NoJob
          PROVE  i = j
      BY <1>0, <1>1, <1>8, <2>6, <2>8, <3>3 DEF Slots
    <3> QED BY <3>1, <3>2, <3>3 DEF Slots
  <2>10. ASSUME NEW g \in Helper PROVE Pipes(g)'
    <3>1. CASE g = h
      BY <1>0, <1>1, <1>8, <2>1, <2>4, <2>5, <3>1, OneInPipe DEF Pipes
    <3>2. CASE g # h
      BY <1>0, <1>1, <1>8, <2>1, <2>5, <3>2 DEF Pipes
    <3> QED BY <3>1, <3>2
  <2>11. Ledger'
    <3>1. \A d \in Job : d >= run'.next => d >= run.next
      BY <1>0, <1>1, <1>8, <2>3 DEF Run, Job
    <3> QED BY <1>0, <1>1, <1>8, <2>1, <2>3, <3>1 DEF Ledger
  <2>12. BeamTypeOK'
    BY <1>0, <1>1, <1>8, <2>1, <2>3, <2>5, <2>6 DEF BeamTypeOK
  <2> QED BY <2>9, <2>10, <2>11, <2>12 DEF BeamInv
<1>4. CASE ~(pool[s].busy = NoJob /\ c <= Candidates /\ process[h] # "dead")
  <2>1. /\ UNCHANGED <<pool, process, stdin, stdout, channel, outcome>>
        /\ run' = [run EXCEPT !.at = "error"] \/ run' = [run EXCEPT !.slot = @ + 1]
    BY <1>1, <1>2, <1>8, <1>4 DEF Dispatch, Current
  <2>2. run' \in Run /\ run'.next = run.next /\ run'.finished = run.finished /\ run'.at # "misorder" /\ run'.at # "idle"
    BY <1>0, <1>1, <1>8, <2>1 DEF Run
  <2>3. BeamTypeOK'
    BY <1>0, <1>1, <1>8, <2>1, <2>2 DEF BeamTypeOK
  <2> QED BY <2>1, <2>2, <2>3, PositionInv
<1> QED BY <1>3, <1>4

\* WorkerPool::replace keeps every slot but the one that goes.
LEMMA ReplacedSlots ==
    ASSUME NEW p \in Seq(Slot), NEW i \in 1..Len(p)
    PROVE  /\ Replaced(p, i) \in Seq(Slot) /\ Len(Replaced(p, i)) = Len(p) - 1
           /\ \A j \in 1..Len(p) - 1 : Replaced(p, i)[j] = IF j = i THEN p[Len(p)] ELSE p[j]
<1> DEFINE n == Len(p)
           moved == [p EXCEPT ![i] = p[n]]
<1>1. n \in Nat \ {0} /\ p[n] \in Slot
  BY ElementOfSeq, LenProperties
<1>2. moved \in Seq(Slot) /\ Len(moved) = n
  BY <1>1, ExceptSeq
<1>3. \A j \in 1..n : moved[j] = (IF j = i THEN p[n] ELSE p[j])
  BY LenProperties
<1>4. \A j \in 1..n - 1 : moved[j] \in Slot
  <2> HIDE DEF moved
  <2> QED BY <1>1, <1>2, ElementOfSeq
<1>5. /\ SubSeq(moved, 1, n - 1) \in Seq(Slot) /\ Len(SubSeq(moved, 1, n - 1)) = n - 1
      /\ \A j \in 1..n - 1 : SubSeq(moved, 1, n - 1)[j] = moved[j]
  <2> DEFINE m == n - 1
  <2>1. m \in Nat /\ \A j \in 1..m : moved[j] \in Slot
    BY <1>1, <1>4
  <2> HIDE DEF moved, m
  <2>2. /\ SubSeq(moved, 1, m) \in Seq(Slot)
        /\ Len(SubSeq(moved, 1, m)) = IF 1 <= m THEN m - 1 + 1 ELSE 0
        /\ \A j \in 1..m - 1 + 1 : SubSeq(moved, 1, m)[j] = moved[1 + j - 1]
    BY <2>1, SubSeqProperties
  <2>3. /\ Len(SubSeq(moved, 1, m)) = m
        /\ \A j \in 1..m : SubSeq(moved, 1, m)[j] = moved[j]
    BY <2>1, <2>2
  <2> QED BY <2>2, <2>3 DEF m
<1>6. Replaced(p, i) = SubSeq(moved, 1, n - 1)
  BY DEF Replaced
<1> QED BY <1>1, <1>3, <1>5, <1>6

\* A slot goes with what its helper owed: nobody else's task, pipe or process is
\* touched, and the helper that may take its place starts with empty pipes.
LEMMA ReplaceInv ==
    ASSUME BeamInv, run.at = "poll", NEW s \in DOMAIN pool, s = run.slot, NEW after, NEW decided,
           Replace(after, decided),
           \/ pool[s].busy = NoJob /\ after = run /\ decided = outcome
           \/ /\ pool[s].busy # NoJob /\ after = Counted(1)
              /\ \E v \in {"answered", "dropped"} : decided = [outcome EXCEPT ![pool[s].busy] = v]
    PROVE  BeamInv'
<1>0. run \in Run /\ BeamTypeOK /\ Slots /\ Ledger /\ \A g \in Helper : Pipes(g)
  BY DEF BeamInv, BeamTypeOK
<1>1. PICK old \in Helper : old = pool[s].helper
  BY SlotType
<1>2. SlotOK(s) /\ process[old] # "none" /\ s \in 1..Len(pool) /\ pool[s].busy \in Job \cup {NoJob}
  BY <1>0, <1>1, SlotType DEF Slots, SlotOK
<1>3. /\ outcome' \in [Job -> {"open", "answered", "dropped"}]
      /\ after \in Run /\ after.at = "poll" /\ after.next = run.next
      /\ after.finished = Cardinality({d \in Job : outcome'[d] # "open"})
      /\ \A d \in Job : d # pool[s].busy => outcome'[d] = outcome[d]
  <2>1. outcome' = decided
    BY DEF Replace
  <2>2. CASE pool[s].busy = NoJob
    BY <1>0, <2>1, <2>2 DEF BeamTypeOK, Ledger
  <2>3. CASE pool[s].busy # NoJob
    <3>1. PICK v \in {"answered", "dropped"} : decided = [outcome EXCEPT ![pool[s].busy] = v]
      BY <2>3
    <3>2. pool[s].busy \in Job /\ outcome[pool[s].busy] = "open" /\ outcome \in [Job -> {"open", "answered", "dropped"}]
      BY <1>0, <1>2, <2>3 DEF SlotOK, BeamTypeOK
    <3>3. after = [run EXCEPT !.finished = @ + 1]
      BY <2>3 DEF Counted
    <3>4. /\ after \in Run /\ after.at = "poll" /\ after.next = run.next
          /\ after.finished = run.finished + 1
      BY <1>0, <3>3 DEF Run
    <3>5. /\ outcome' \in [Job -> {"open", "answered", "dropped"}]
          /\ Cardinality({d \in Job : outcome'[d] # "open"}) = Cardinality({d \in Job : outcome[d] # "open"}) + 1
      BY <2>1, <3>1, <3>2, DecideOne
    <3>6. run.finished = Cardinality({d \in Job : outcome[d] # "open"})
      BY <1>0 DEF Ledger
    <3>7. \A d \in Job : d # pool[s].busy => outcome'[d] = outcome[d]
      BY <2>1, <3>1, <3>2
    <3> QED BY <3>4, <3>5, <3>6, <3>7
  <2> QED BY <2>2, <2>3
<1>4. /\ run' \in Run /\ run'.at \in {"poll", "error"} /\ run'.next = run.next
      /\ run'.finished = Cardinality({d \in Job : outcome'[d] # "open"})
  <2>1. run' = after \/ run' = [after EXCEPT !.at = "error"]
    BY DEF Replace
  <2>2. run' \in Run /\ run'.at \in {"poll", "error"} /\ run'.next = after.next /\ run'.finished = after.finished
    BY <1>3, <2>1 DEF Run
  <2> QED BY <1>3, <2>2
<1>5. /\ stdin' = [stdin EXCEPT ![old] = <<>>] /\ stdout' = [stdout EXCEPT ![old] = <<>>]
      /\ channel' = [channel EXCEPT ![old] = <<>>]
  BY <1>1 DEF Replace, Current
<1>6. /\ stdin' \in [Helper -> Seq(Job)] /\ stdout' \in [Helper -> Seq(Job)]
      /\ channel' \in [Helper -> Seq(Job \cup {NoJob})]
      /\ stdin'[old] = <<>> /\ stdout'[old] = <<>> /\ channel'[old] = <<>>
      /\ \A g \in Helper \ {old} : stdin'[g] = stdin[g] /\ stdout'[g] = stdout[g] /\ channel'[g] = channel[g]
  <2>1. <<>> \in Seq(Job) /\ <<>> \in Seq(Job \cup {NoJob})
    OBVIOUS
  <2> QED BY <1>0, <1>5, <2>1 DEF BeamTypeOK
<1>7. PICK kept \in Seq(Slot) : kept = Replaced(pool, s) /\ Len(kept) = Len(pool) - 1
          /\ \A j \in 1..Len(pool) - 1 : kept[j] = IF j = s THEN pool[Len(pool)] ELSE pool[j]
  BY <1>0, <1>2, ReplacedSlots DEF BeamTypeOK
<1>8. Len(pool) \in Nat /\ DOMAIN pool = 1..Len(pool) /\ DOMAIN kept = 1..Len(pool) - 1
  BY <1>0, <1>7, LenProperties DEF BeamTypeOK
<1> DEFINE From(j) == IF j = s THEN Len(pool) ELSE j
           Fresh(g) == process[g] = "none" /\ process'[g] = "ready"
<1>9. /\ process' \in [Helper -> {"none", "ready", "compiling", "hung", "dead"}] /\ process'[old] = "none"
      /\ \A g \in Helper : g # old => process'[g] = process[g] \/ Fresh(g)
      /\ pool' \in Seq(Slot)
      /\ \A j \in DOMAIN pool' : \/ /\ j \in 1..Len(pool) - 1 /\ pool'[j] = pool[From(j)]
                                 \/ /\ j = Len(pool)
                                    /\ \E h \in Helper : Fresh(h) /\ pool'[j] = Spawned(h)
  <2>1. CASE \E h \in Helper : /\ process[h] = "none" /\ pool' = Append(kept, Spawned(h))
                               /\ process' = [process EXCEPT ![old] = "none", ![h] = "ready"]
    <3>1. PICK h \in Helper : /\ process[h] = "none" /\ pool' = Append(kept, Spawned(h))
                              /\ process' = [process EXCEPT ![old] = "none", ![h] = "ready"]
      BY <2>1
    <3>2. Spawned(h) \in Slot
      BY DEF Spawned, Slot
    <3>3. /\ process' \in [Helper -> {"none", "ready", "compiling", "hung", "dead"}]
          /\ process'[h] = "ready" /\ process'[old] = "none"
          /\ \A g \in Helper : g # old /\ g # h => process'[g] = process[g]
      BY <1>0, <1>2, <3>1 DEF BeamTypeOK
    <3>4. pool' \in Seq(Slot) /\ Len(pool') = Len(pool)
      BY <1>7, <1>8, <3>1, <3>2, AppendProperties
    <3>5. pool'[Len(pool)] = Spawned(h)
      BY <1>7, <1>8, <3>1, <3>2, AppendProperties
    <3>6. \A j \in 1..Len(pool) - 1 : pool'[j] = pool[From(j)]
      BY <1>7, <1>8, <3>1, <3>2, AppendProperties
    <3>7. \A j \in DOMAIN pool' : j \in 1..Len(pool) - 1 \/ j = Len(pool)
      BY <1>8, <3>4, LenProperties
    <3>8. Fresh(h) /\ \A g \in Helper : g # old => process'[g] = process[g] \/ Fresh(g)
      BY <3>1, <3>3
    <3> HIDE DEF Fresh, From
    <3> QED BY <3>3, <3>4, <3>5, <3>6, <3>7, <3>8
  <2>2. CASE pool' = kept /\ process' = [process EXCEPT ![old] = "none"]
    <3>1. /\ process' \in [Helper -> {"none", "ready", "compiling", "hung", "dead"}] /\ process'[old] = "none"
          /\ \A g \in Helper : g # old => process'[g] = process[g]
      BY <1>0, <2>2 DEF BeamTypeOK
    <3>2. pool' \in Seq(Slot) /\ \A j \in DOMAIN pool' : j \in 1..Len(pool) - 1 /\ pool'[j] = pool[From(j)]
      BY <1>7, <1>8, <2>2
    <3> QED BY <3>1, <3>2
  <2> QED BY <1>1, <1>7, <2>1, <2>2 DEF Replace, Current
<1>10. ASSUME NEW j \in 1..Len(pool) - 1 PROVE From(j) \in DOMAIN pool /\ From(j) # s
  BY <1>2, <1>8, <1>10
<1>11. ASSUME NEW i \in DOMAIN pool, i # s
       PROVE  /\ pool[i].helper \in Helper /\ pool[i].helper # old /\ ~Fresh(pool[i].helper)
              /\ pool[i].busy \in Job \cup {NoJob} /\ (pool[i].busy # NoJob => pool[i].busy # pool[s].busy)
  BY <1>0, <1>1, <1>11, SlotType DEF Slots, SlotOK
<1>12. ASSUME NEW i \in DOMAIN pool, i # s, NEW j, pool'[j] = pool[i] PROVE SlotOK(j)'
  <2>1. run'.next >= run.next
    BY <1>0, <1>4 DEF Run
  <2>2. process'[pool[i].helper] = process[pool[i].helper]
    BY <1>9, <1>11, <1>12
  <2> HIDE DEF Fresh
  <2> QED BY <1>3, <1>4, <1>6, <1>11, <1>12, <2>1, <2>2, SlotFrame
<1>13. ASSUME NEW j, NEW h \in Helper, Fresh(h), pool'[j] = Spawned(h) PROVE SlotOK(j)' /\ pool'[j].busy = NoJob
  <2>1. pool'[j].helper = h /\ pool'[j].busy = NoJob
    BY <1>13 DEF Spawned
  <2>2. OwesNothing(h)'
    BY <1>0, <1>6, <1>13 DEF Pipes, OwesNothing
  <2> QED BY <1>13, <2>1, <2>2 DEF SlotOK
<1>14. Slots'
  <2>1. ASSUME NEW j \in DOMAIN pool' PROVE SlotOK(j)'
    BY <1>9, <1>10, <1>12, <1>13, <2>1
  <2>2. ASSUME NEW i \in DOMAIN pool', NEW j \in DOMAIN pool', pool'[i].helper = pool'[j].helper PROVE i = j
    <3>1. CASE i \in 1..Len(pool) - 1 /\ j \in 1..Len(pool) - 1
      <4>1. pool'[i] = pool[From(i)] /\ pool'[j] = pool[From(j)]
        BY <1>8, <1>9, <2>2, <3>1
      <4>2. From(i) = From(j)
        <5>1. From(i) \in DOMAIN pool /\ From(j) \in DOMAIN pool
          BY <1>10, <3>1
        <5> HIDE DEF From
        <5> QED BY <1>0, <2>2, <4>1, <5>1 DEF Slots
      <4> QED BY <1>8, <3>1, <4>2
    <3>2. CASE i = Len(pool) /\ j = Len(pool)
      BY <3>2
    <3>3. CASE i \in 1..Len(pool) - 1 /\ j = Len(pool)
      BY <1>8, <1>9, <1>10, <1>11, <2>2, <3>3 DEF Spawned
    <3>4. CASE j \in 1..Len(pool) - 1 /\ i = Len(pool)
      BY <1>8, <1>9, <1>10, <1>11, <2>2, <3>4 DEF Spawned
    <3> QED BY <1>9, <2>2, <3>1, <3>2, <3>3, <3>4
  <2>3. ASSUME NEW i \in DOMAIN pool', NEW j \in DOMAIN pool', pool'[i].busy = pool'[j].busy, pool'[i].busy # NoJob
        PROVE  i = j
    <3>1. i \in 1..Len(pool) - 1 /\ j \in 1..Len(pool) - 1
      BY <1>9, <1>13, <2>3
    <3>2. pool'[i] = pool[From(i)] /\ pool'[j] = pool[From(j)]
      BY <1>8, <1>9, <2>3, <3>1
    <3>3. From(i) = From(j)
      <4>1. From(i) \in DOMAIN pool /\ From(j) \in DOMAIN pool
        BY <1>10, <3>1
      <4> HIDE DEF From
      <4> QED BY <1>0, <2>3, <3>2, <4>1 DEF Slots
    <3> QED BY <1>8, <3>1, <3>3
  <2> QED BY <2>1, <2>2, <2>3 DEF Slots
<1>15. ASSUME NEW g \in Helper PROVE Pipes(g)'
  <2>1. CASE g = old
    BY <1>6, <1>9, <2>1 DEF Pipes
  <2>2. CASE g # old /\ Fresh(g)
    <3>1. process'[g] = "ready" /\ channel[g] = <<>> /\ channel'[g] = channel[g]
      BY <1>0, <1>6, <2>2 DEF Pipes
    <3>2. DOMAIN channel'[g] = {}
      BY <3>1
    <3> QED BY <3>1, <3>2 DEF Pipes
  <2>3. CASE g # old /\ ~Fresh(g)
    <3>1. process'[g] = process[g]
      BY <1>9, <2>3
    <3>2. Pipes(g) /\ stdin'[g] = stdin[g] /\ stdout'[g] = stdout[g] /\ channel'[g] = channel[g]
      BY <1>0, <1>6, <2>3
    <3> HIDE DEF Fresh
    <3> QED BY <3>1, <3>2 DEF Pipes
  <2> QED BY <2>1, <2>2, <2>3
<1>16. Ledger'
  <2>1. ASSUME NEW d \in Job, d >= run'.next PROVE outcome'[d] = "open"
    <3>1. d >= run.next /\ run.next \in Nat /\ d \in Nat
      BY <1>0, <1>4, <2>1 DEF Run, Job
    <3>2. d # pool[s].busy
      BY <1>2, <2>1, <3>1, BeamAssumption DEF SlotOK, Job
    <3> QED BY <1>0, <1>3, <2>1, <3>1, <3>2 DEF Ledger
  <2> QED BY <1>4, <2>1 DEF Ledger
<1>17. BeamTypeOK'
  BY <1>3, <1>4, <1>6, <1>9 DEF BeamTypeOK
<1> QED BY <1>14, <1>15, <1>16, <1>17 DEF BeamInv

\* An answer frees its slot or, at the end of the helper's life, replaces it.
LEMMA AnswerInv == ASSUME BeamInv, Answer PROVE BeamInv'
<1>0. run \in Run /\ BeamTypeOK /\ Slots /\ Ledger /\ \A g \in Helper : Pipes(g)
  BY DEF BeamInv, BeamTypeOK
<1>1. PICK s \in DOMAIN pool : s = run.slot /\ run.at = "poll"
  BY <1>0, LenProperties DEF Answer, Response, Polling, RunAt, Run, BeamTypeOK
<1>2. PICK h \in Helper : h = pool[s].helper
  BY SlotType
<1>3. /\ SlotOK(s) /\ pool[s] \in Slot /\ s \in 1..Len(pool)
      /\ channel[h] # <<>> /\ Head(channel[h]) = pool[s].busy /\ pool[s].busy # NoJob
  BY <1>0, <1>1, <1>2, SlotType DEF Slots, Answer, Response, Current
<1>4. PICK c \in Job : c = pool[s].busy
  BY <1>3, SlotType
<1>5. CASE pool[s].tasks >= MaxTasks
  <2>1. Replace(Counted(1), [outcome EXCEPT ![pool[s].busy] = "answered"])
    BY <1>0, <1>1, <1>3, <1>5, BeamAssumption, SlotType DEF Answer, Current
  <2> QED BY <1>1, <1>3, <2>1, ReplaceInv
<1>6. CASE ~(pool[s].tasks >= MaxTasks)
  <2>1. /\ outcome' = [outcome EXCEPT ![c] = "answered"]
        /\ channel' = [channel EXCEPT ![h] = Tail(@)]
        /\ pool' = [pool EXCEPT ![s].busy = NoJob]
        /\ run' = [[run EXCEPT !.finished = @ + 1] EXCEPT !.slot = @ + 1]
        /\ UNCHANGED <<process, stdin, stdout>>
    BY <1>1, <1>2, <1>4, <1>6 DEF Answer, Current, Counted
  <2>2. outcome[c] = "open" /\ c < run.next /\ Owes(h, c) /\ NoJob \notin Job /\ process[h] # "none"
    BY <1>2, <1>3, <1>4, BeamAssumption DEF SlotOK, Job
  <2>3. stdin[h] = <<>> /\ stdout[h] = <<>> /\ channel[h] \in {<<c>>, <<c, NoJob>>}
    <3>1. channel[h] # <<NoJob>>
      BY <1>3, <2>2, <1>4, OneInPipe
    <3> QED BY <1>3, <2>2, <3>1 DEF Owes
  <2>4. Tail(channel[h]) \in {<<>>, <<NoJob>>} /\ Tail(channel[h]) \in Seq(Job \cup {NoJob})
        /\ (Tail(channel[h]) = <<NoJob>> => process[h] = "dead")
    <3>1. Tail(<<c>>) = <<>> /\ Tail(<<c, NoJob>>) = <<NoJob>>
      BY OneInPipe, TwoInPipe
    <3>2. Tail(channel[h]) = <<NoJob>> => channel[h] = <<c, NoJob>>
      BY <2>3, <3>1, OneInPipe
    <3>3. <<c, NoJob>>[2] = NoJob /\ 2 \in DOMAIN <<c, NoJob>>
      OBVIOUS
    <3>4. channel[h] = <<c, NoJob>> => process[h] = "dead"
      BY <1>0, <3>3 DEF Pipes
    <3>5. <<>> \in Seq(Job \cup {NoJob}) /\ <<NoJob>> \in Seq(Job \cup {NoJob})
      OBVIOUS
    <3>6. Tail(channel[h]) \in {<<>>, <<NoJob>>}
      BY <2>3, <3>1
    <3> QED BY <3>2, <3>4, <3>5, <3>6
  <2>5. /\ channel' \in [Helper -> Seq(Job \cup {NoJob})] /\ channel'[h] = Tail(channel[h])
        /\ \A g \in Helper \ {h} : channel'[g] = channel[g]
    BY <1>0, <2>1, <2>4 DEF BeamTypeOK
  <2>6. /\ run' \in Run /\ run'.next = run.next /\ run'.at = "poll" /\ run'.finished = run.finished + 1
    <3>1. [run EXCEPT !.finished = @ + 1] \in Run /\ [run EXCEPT !.finished = @ + 1].next = run.next
          /\ [run EXCEPT !.finished = @ + 1].at = "poll" /\ [run EXCEPT !.finished = @ + 1].finished = run.finished + 1
      BY <1>0, <1>1 DEF Run
    <3>2. \A r \in Run : /\ [r EXCEPT !.slot = @ + 1] \in Run /\ [r EXCEPT !.slot = @ + 1].next = r.next
                         /\ [r EXCEPT !.slot = @ + 1].at = r.at /\ [r EXCEPT !.slot = @ + 1].finished = r.finished
      BY DEF Run
    <3> QED BY <2>1, <3>1, <3>2
  <2>7. /\ outcome' \in [Job -> {"open", "answered", "dropped"}]
        /\ run'.finished = Cardinality({d \in Job : outcome'[d] # "open"})
        /\ \A d \in Job : d # c => outcome'[d] = outcome[d]
    <3>1. /\ outcome' \in [Job -> {"open", "answered", "dropped"}]
          /\ Cardinality({d \in Job : outcome'[d] # "open"}) = Cardinality({d \in Job : outcome[d] # "open"}) + 1
      <4>1. outcome \in [Job -> {"open", "answered", "dropped"}] /\ "answered" \in {"answered", "dropped"}
        BY <1>0 DEF BeamTypeOK
      <4> QED BY <2>1, <2>2, <4>1, DecideOne
    <3>2. \A d \in Job : d # c => outcome'[d] = outcome[d]
      BY <1>0, <2>1 DEF BeamTypeOK
    <3> QED BY <1>0, <2>6, <3>1, <3>2 DEF Ledger
  <2>8. /\ pool' \in Seq(Slot) /\ DOMAIN pool' = DOMAIN pool
        /\ pool'[s].helper = h /\ pool'[s].busy = NoJob
        /\ \A i \in DOMAIN pool : i # s => pool'[i] = pool[i]
    <3> DEFINE free == [pool[s] EXCEPT !.busy = NoJob]
    <3>1. free \in Slot /\ free.helper = h /\ free.busy = NoJob
      BY <1>2, <1>3 DEF Slot
    <3>2. pool' = [pool EXCEPT ![s] = free] /\ pool \in Seq(Slot)
      BY <1>0, <2>1 DEF BeamTypeOK
    <3> HIDE DEF free
    <3>3. pool' \in Seq(Slot)
      BY <1>3, <3>1, <3>2, ExceptSeq
    <3> QED BY <3>1, <3>2, <3>3
  <2>9. SlotOK(s)'
    <3>1. OwesNothing(h)'
      BY <2>1, <2>3, <2>4, <2>5 DEF OwesNothing
    <3> QED BY <2>1, <2>2, <2>8, <3>1 DEF SlotOK
  <2>10. ASSUME NEW i \in DOMAIN pool, i # s PROVE SlotOK(i)' /\ pool[i].helper # h
    <3>1. /\ pool[i].helper # h /\ pool[i].helper \in Helper /\ pool[i].busy # c
          /\ pool[i].busy \in Job \cup {NoJob}
      BY <1>0, <1>2, <1>3, <1>4, <2>10, SlotType DEF Slots
    <3>2. run'.next >= run.next
      BY <1>0, <2>6 DEF Run
    <3> QED BY <2>1, <2>5, <2>6, <2>7, <2>8, <2>10, <3>1, <3>2, SlotFrame
  <2>11. Slots'
    <3>1. \A i \in DOMAIN pool' : SlotOK(i)'
      BY <2>8, <2>9, <2>10
    <3>2. ASSUME NEW i \in DOMAIN pool', NEW j \in DOMAIN pool', pool'[i].helper = pool'[j].helper PROVE i = j
      BY <1>0, <2>8, <2>10, <3>2 DEF Slots
    <3>3. ASSUME NEW i \in DOMAIN pool', NEW j \in DOMAIN pool', pool'[i].busy = pool'[j].busy, pool'[i].busy # NoJob
          PROVE  i = j
      BY <1>0, <2>8, <3>3 DEF Slots
    <3> QED BY <3>1, <3>2, <3>3 DEF Slots
  <2>12. ASSUME NEW g \in Helper PROVE Pipes(g)'
    <3>1. CASE g = h
      <4>1. ASSUME \E i \in DOMAIN channel'[h] : channel'[h][i] = NoJob PROVE process[h] = "dead"
        <5>1. DOMAIN <<>> = {}
          OBVIOUS
        <5> QED BY <2>4, <2>5, <4>1, <5>1
      <4> QED BY <1>0, <2>1, <2>2, <3>1, <4>1 DEF Pipes
    <3>2. CASE g # h
      BY <1>0, <2>1, <2>5, <3>2 DEF Pipes
    <3> QED BY <3>1, <3>2
  <2>13. Ledger'
    <3>1. ASSUME NEW d \in Job, d >= run'.next PROVE outcome'[d] = "open"
      <4>1. d # c /\ d >= run.next
        BY <1>0, <2>2, <2>6, <3>1 DEF Run, Job
      <4> QED BY <1>0, <2>7, <4>1 DEF Ledger
    <3> QED BY <2>6, <2>7, <3>1 DEF Ledger
  <2>14. BeamTypeOK'
    BY <1>0, <2>1, <2>5, <2>6, <2>7, <2>8 DEF BeamTypeOK
  <2> QED BY <2>11, <2>12, <2>13, <2>14 DEF BeamInv
<1> QED BY <1>5, <1>6

\* A dropped candidate's slot is replaced.
LEMMA DropInv == ASSUME BeamInv, Drop PROVE BeamInv'
<1>0. run \in Run /\ BeamTypeOK
  BY DEF BeamInv, BeamTypeOK
<1>1. PICK s \in DOMAIN pool : s = run.slot /\ run.at = "poll"
  BY <1>0, LenProperties DEF Drop, Failed, TimedOut, Polling, RunAt, Run, BeamTypeOK
<1>2. CASE pool[s].busy = NoJob
  BY <1>1, <1>2, ReplaceInv DEF Drop, Current
<1>3. CASE pool[s].busy # NoJob
  <2>1. Replace(Counted(1), [outcome EXCEPT ![pool[s].busy] = "dropped"])
    BY <1>1, <1>3 DEF Drop, Current
  <2> QED BY <1>1, <1>3, <2>1, ReplaceInv
<1> QED BY <1>2, <1>3

\* A wave starts from slots that owe nothing.
LEMMA StartInv == ASSUME BeamInv, StartWave PROVE BeamInv'
<1>0. run \in Run /\ BeamTypeOK /\ Slots /\ Ledger /\ \A g \in Helper : Pipes(g)
  BY DEF BeamInv, BeamTypeOK
<1>1. /\ run.at = "idle" /\ outcome' = Open /\ UNCHANGED <<pool, process, stdin, stdout, channel>>
      /\ run' = [at |-> "dispatch", next |-> 1, finished |-> 0, slot |-> 1, wave |-> run.wave + 1]
  BY DEF StartWave, RunAt, helperVars
<1>2. run' \in Run /\ run'.finished = 0 /\ run'.at = "dispatch"
  BY <1>0, <1>1 DEF Run
<1>3. /\ outcome' \in [Job -> {"open", "answered", "dropped"}] /\ \A c \in Job : outcome'[c] = "open"
      /\ Cardinality({d \in Job : outcome'[d] # "open"}) = 0
  <2>1. outcome' \in [Job -> {"open", "answered", "dropped"}] /\ \A c \in Job : outcome'[c] = "open"
    BY <1>1 DEF Open
  <2>2. {d \in Job : outcome'[d] # "open"} = {}
    BY <2>1
  <2> QED BY <2>1, <2>2, FS_EmptySet
<1>4. \A i \in DOMAIN pool : SlotOK(i)'
  BY <1>0, <1>1 DEF Slots, SlotOK, Ledger, OwesNothing
<1>5. Slots'
  BY <1>0, <1>1, <1>4 DEF Slots
<1>6. Ledger'
  BY <1>2, <1>3 DEF Ledger
<1>7. \A g \in Helper : Pipes(g)'
  BY <1>0, <1>1 DEF Pipes
<1>8. BeamTypeOK'
  BY <1>0, <1>1, <1>2, <1>3 DEF BeamTypeOK
<1> QED BY <1>5, <1>6, <1>7, <1>8 DEF BeamInv

\* The pool comes up with as many helpers as it has slots.
LEMMA BeamInitInv == BeamInit => BeamInv
<1> SUFFICES ASSUME BeamInit PROVE BeamInv
  OBVIOUS
<1>1. PICK started \in [1..PoolSize -> Helper] :
        /\ IsInjective(started)
        /\ pool = [i \in 1..PoolSize |-> Spawned(started[i])]
        /\ process = [h \in Helper |-> IF \E i \in 1..PoolSize : started[i] = h THEN "ready" ELSE "none"]
  BY DEF BeamInit
<1>2. /\ stdin = [h \in Helper |-> <<>>] /\ stdout = [h \in Helper |-> <<>>] /\ channel = [h \in Helper |-> <<>>]
      /\ run = [at |-> "idle", next |-> 1, finished |-> 0, slot |-> 1, wave |-> 0] /\ outcome = Open
  BY DEF BeamInit
<1>3. /\ pool \in Seq(Slot) /\ DOMAIN pool = 1..PoolSize
      /\ \A i \in 1..PoolSize : pool[i].helper = started[i] /\ pool[i].busy = NoJob /\ started[i] \in Helper
  <2>1. \A h \in Helper : Spawned(h) \in Slot /\ Spawned(h).helper = h /\ Spawned(h).busy = NoJob
    BY DEF Spawned, Slot
  <2>2. PoolSize \in Nat
    BY BeamAssumption
  <2>3. \A i \in 1..PoolSize : Spawned(started[i]) \in Slot
    BY <2>1
  <2>4. pool \in Seq(Slot)
    BY <1>1, <2>2, <2>3
  <2> QED BY <1>1, <2>1, <2>4
<1>4. BeamTypeOK
  <2>1. <<>> \in Seq(Job) /\ <<>> \in Seq(Job \cup {NoJob})
    OBVIOUS
  <2>2. run \in Run /\ outcome \in [Job -> {"open", "answered", "dropped"}]
    BY <1>2 DEF Run, Open
  <2>3. process \in [Helper -> {"none", "ready", "compiling", "hung", "dead"}]
    BY <1>1
  <2> QED BY <1>2, <1>3, <2>1, <2>2, <2>3 DEF BeamTypeOK
<1>5. ASSUME NEW h \in Helper PROVE Pipes(h)
  <2>1. process[h] \in {"ready", "none"} /\ channel[h] = <<>> /\ DOMAIN <<>> = {}
    BY <1>1, <1>2
  <2> QED BY <1>2, <2>1 DEF Pipes
<1>6. Slots
  <2>1. \A i \in DOMAIN pool : SlotOK(i)
    BY <1>1, <1>2, <1>3 DEF SlotOK, OwesNothing
  <2> QED BY <1>1, <1>3, <2>1 DEF Slots, IsInjective
<1>7. Ledger
  <2>1. {d \in Job : outcome[d] # "open"} = {}
    BY <1>2 DEF Open
  <2> QED BY <1>2, <1>3, <2>1, FS_EmptySet DEF Ledger, Open
<1> QED BY <1>4, <1>5, <1>6, <1>7 DEF BeamInv

\* However many helpers crash, hang or are replaced, and whenever they do: no
\* response is taken for another task's, every candidate of a wave is counted
\* once, and no helper carries a task into the next wave.
THEOREM BeamWavesAccounted == BeamSpec => []WavesAccounted
<1>1. BeamInv /\ [BeamNext]_beamVars => BeamInv'
  <2> SUFFICES ASSUME BeamInv, [BeamNext]_beamVars PROVE BeamInv'
    OBVIOUS
  <2>1. CASE UNCHANGED beamVars
    <3>1. BeamTypeOK'
      BY <2>1 DEF beamVars, BeamInv, BeamTypeOK
    <3> QED BY <2>1, <3>1, PositionInv DEF beamVars, BeamInv, Ledger
  <2> QED
    BY <2>1, StartInv, DispatchInv, WalkInv, AnswerInv, DropInv, HelperInv DEF BeamNext, RunStep
<1>2. BeamInv => WavesAccounted
  BY DEF BeamInv, Slots, SlotOK, OwesNothing, Ledger, WavesAccounted, RunAt
<1> QED BY <1>1, <1>2, BeamInitInv, PTL DEF BeamSpec

=================================================================================
