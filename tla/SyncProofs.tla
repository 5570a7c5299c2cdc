------------------------------- MODULE SyncProofs -------------------------------
(* Proofs about ScopedSync, for any number of threads, storages and plans and  *)
(* any operations of the plans: the tokens recorded on a storage are enough    *)
(* for a host access to follow the calls that have returned                    *)
(* (SyncAccessFenced), and for the plans that share a storage to be ordered on *)
(* the GPU where lanes are tracked (SyncPlansOrdered).                         *)
EXTENDS ScopedSync, SequenceTheorems, TLAPS

---------------------------------------------------------------------------------
(* Types.                                                                      *)

Executing == {"order", "tails", "op", "launch", "record"}
Draining == {"lanes", "laneWait"}
Waiting == {"lookup", "access"} \cup Draining
HostUse == {"read", "copyin", "stage"}

\* One launch: the at-th of a lane.
Submission == [plan : Streams, at : Nat \ {0}]
Launched == [touches : SUBSET Storage, after : SUBSET Submission, owes : SUBSET Submission]
Token == [plan : Streams, upto : Nat, writes : BOOLEAN]

LaneTypes ==
    /\ stream \in [Streams -> Seq(Launched)]
    /\ done \in [Streams -> Nat] /\ settled \in [Streams -> Nat]
    /\ submitted \in [Plan -> Nat] /\ covered \in [Plan -> Nat] /\ copiesSeen \in [Plan -> Nat]

TableTypes ==
    /\ producers \in [Storage -> SUBSET Token]
    /\ place \in [Storage -> {"used", "pooled", "leaving", "taken", "backend"}]
    /\ busy \subseteq Plan /\ failed \subseteq Plan

ThreadTypes ==
    /\ step \in [SyncThread -> {"idle"} \cup Executing \cup Waiting]
    /\ plan \in [SyncThread -> Plan \cup {NoPlan}]
    /\ next \in [SyncThread -> Nat \ {0}]
    /\ gate \in [SyncThread -> SUBSET Submission] /\ owes \in [SyncThread -> SUBSET Submission]
    /\ token \in [SyncThread -> [plan : Plan \cup {NoPlan}, upto : Nat, seq : Nat]]
    /\ left \in [SyncThread -> SUBSET (Plan \cup Storage)]
    /\ base \in [SyncThread -> Storage \cup {NoStorage}]
    /\ tokens \in [SyncThread -> SUBSET Token]
    /\ must \in [SyncThread -> SUBSET Submission]
    /\ after \in [SyncThread -> {"none", "free", "alloc"} \cup HostUse]

SyncTypes == LaneTypes /\ TableTypes /\ ThreadTypes

---------------------------------------------------------------------------------
(* The inductive invariant.                                                    *)

\* The tokens T cover the first n launches of q, as far as these have not ended.
Cover(T, q, n) == done[q] >= n \/ \E y \in T : y.plan = q /\ y.upto >= n

\* A storage's tokens do, with the kind of access that later plans look at.
CoverKind(s, q, n) ==
    \/ done[q] >= n
    \/ \E y \in producers[s] : y.plan = q /\ y.upto >= n /\ (s \in Writes(q) => y.writes)

\* What the lanes hold; a copy is settled when it is enqueued.
Lanes ==
    /\ \A q \in Streams : done[q] <= Len(stream[q]) /\ settled[q] <= Len(stream[q])
    /\ settled[Copy] = Len(stream[Copy])
    /\ \A q \in Plan : \A i \in 1..Len(stream[q]) : stream[q][i].touches \subseteq Accesses(q)

\* A plan is executed by one thread, has not failed before and keeps its
\* storages in use.
Executors ==
    \A t \in SyncThread :
        /\ step[t] \in Executing \/ after[t] = "stage" => plan[t] \in Plan
        /\ plan[t] \in Plan =>
            /\ plan[t] \in busy /\ plan[t] \notin failed
            /\ \A s \in Accesses(plan[t]) : place[s] = "used"
            /\ \A u \in SyncThread : plan[u] = plan[t] => u = t
        /\ step[t] = "launch" => next[t] <= Len(Ops[plan[t]])

\* While a token is recorded, the storages visited have it or need it no more.
Records(t) ==
    step[t] = "record" =>
        /\ token[t].upto = Len(stream[plan[t]])
        /\ left[t] \subseteq Accesses(plan[t])
        /\ \A s \in Accesses(plan[t]) \ left[t] : CoverKind(s, plan[t], Len(stream[plan[t]]))

Recording == \A t \in SyncThread : Records(t)

\* A storage has tokens for the settled launches that may touch it.
Kept ==
    /\ \A q \in Plan \ failed : \A s \in Accesses(q) : CoverKind(s, q, settled[q])
    /\ \A i \in 1..settled[Copy] : \A s \in stream[Copy][i].touches : Cover(producers[s], Copy, i)

\* Tokens T cover all that may touch s.
CoverAll(T, s) ==
    /\ \A q \in Plan \ failed : s \in Accesses(q) => Cover(T, q, settled[q])
    /\ \A i \in 1..settled[Copy] : s \in stream[Copy][i].touches => Cover(T, Copy, i)

\* Where the storage is that a thread waits for; a storage is freed or handed
\* out by one thread.
WaitsFor(t) ==
    /\ step[t] \notin Waiting => base[t] = NoStorage /\ after[t] = "none"
    /\ step[t] \in Waiting =>
        /\ base[t] \in Storage
        /\ \/ after[t] = "free" /\ place[base[t]] = "leaving"
           \/ after[t] = "alloc" /\ place[base[t]] = "taken"
           \/ after[t] \in HostUse /\ place[base[t]] = "used"
        /\ after[t] \notin HostUse => \A u \in SyncThread : base[u] = base[t] => u = t

\* The backend has only drained storages.
Places ==
    /\ \A t \in SyncThread : WaitsFor(t)
    /\ \A s \in Storage : place[s] = "backend" => CoverAll({}, s)

\* x belongs to a call that has returned and may touch s.
Returned(x, s) ==
    /\ x.at <= settled[x.plan]
    /\ x.plan \in Plan => s \in Accesses(x.plan)
    /\ x.plan = Copy => s \in stream[Copy][x.at].touches

\* What a waiting thread has to follow is covered by what it waits for.
Fence(t) ==
    /\ step[t] = "lookup" => \A x \in must[t] : x.plan = plan[t] \/ Returned(x, base[t])
    /\ step[t] \in Draining =>
        /\ left[t] \subseteq Plan
        /\ \A x \in must[t] : x.plan \in failed \cup {plan[t]} \/ Cover(tokens[t], x.plan, x.at)
        /\ after[t] = "free" => CoverAll(tokens[t], base[t])
    /\ step[t] = "access" =>
        /\ \A x \in must[t] : x.plan \in failed \cup {plan[t]} \/ IsDone(x)
        /\ after[t] = "free" => CoverAll({}, base[t])

Fences == \A t \in SyncThread : Fence(t)

SyncInv == SyncTypes /\ Lanes /\ Executors /\ Recording /\ Kept /\ Places /\ Fences

\* The launches an execute has to follow: found at its start, in the gate once
\* the tokens have been looked at.
Owes(t) ==
    plan[t] \in Plan =>
        \A x \in owes[t] :
            /\ x.at <= settled[x.plan] /\ x.plan # plan[t]
            /\ x.plan \in Plan => Conflict(plan[t], x.plan)
            /\ x.plan \in Plan /\ step[t] # "order" => x.plan \in failed \/ IsDone(x) \/ x \in gate[t]
            /\ x.plan = Copy /\ step[t] = "launch" =>
                \/ IsDone(x) \/ x \in gate[t]
                \/ \E j \in 1..Len(stream[plan[t]]) : x \in stream[plan[t]][j].after

Owing == \A t \in SyncThread : Owes(t)

\* A launch is waited for by what its owner launched before or with it.
Followed ==
    \A p \in Plan : \A i \in 1..Len(stream[p]) : \A x \in stream[p][i].owes :
        x.plan \in failed \/ IsDone(x) \/ \E j \in 1..i : x \in stream[p][j].after

\* A launch ends after those it waits for.
Gated ==
    \A p \in Plan : \A i \in 1..done[p] : \A x \in stream[p][i].after : IsDone(x)

\* The c-th copy, seen by the lane of p, is waited for by one of its launches.
CopySeen(p, c) ==
    LET x == [plan |-> Copy, at |-> c] IN
    \/ IsDone(x)
    \/ \E j \in 1..Len(stream[p]) : x \in stream[p][j].after
    \/ \E t \in SyncThread : plan[t] = p /\ step[t] = "launch" /\ x \in gate[t]

CopiesFollowed == \A p \in Plan \ failed : \A c \in 1..copiesSeen[p] : CopySeen(p, c)

OrderInv == Owing /\ Followed /\ Gated /\ CopiesFollowed

---------------------------------------------------------------------------------
(* The operators.                                                              *)

\* The members of AllOf.
LEMMA AllOfMembers ==
    ASSUME NEW p \in Streams, NEW n \in Nat
    PROVE  /\ \A x \in AllOf(p, n) : x \in Submission /\ x.plan = p /\ x.at <= n
           /\ \A x \in Submission : x.plan = p /\ x.at <= n => x \in AllOf(p, n)
  BY DEF AllOf, Submission

\* A plan's accesses are storages, and those of its operations.
LEMMA AccessesContain ==
    ASSUME NEW p \in Plan
    PROVE  /\ Accesses(p) \subseteq Storage /\ Writes(p) \subseteq Accesses(p)
           /\ Len(Ops[p]) \in Nat
           /\ \A i \in 1..Len(Ops[p]) :
                /\ Ops[p][i].reads \subseteq Accesses(p) /\ Ops[p][i].writes \subseteq Accesses(p)
<1> DEFINE Kind == [host : BOOLEAN, reads : SUBSET Storage, writes : SUBSET Storage]
<1>1. Ops[p] \in Seq(Kind)
  BY SyncAssumption
<1>2. \A o \in Kind : o.reads \subseteq Storage /\ o.writes \subseteq Storage
  OBVIOUS
<1>3. Len(Ops[p]) \in Nat /\ \A i \in 1..Len(Ops[p]) : Ops[p][i] \in Kind
  <2> HIDE DEF Kind
  <2> QED  BY <1>1
<1>4. \A i \in 1..Len(Ops[p]) : Ops[p][i].reads \subseteq Storage /\ Ops[p][i].writes \subseteq Storage
  BY <1>2, <1>3
<1> QED  BY <1>3, <1>4 DEF Accesses, Writes

\* A launch is appended to a lane.
LEMMA LaunchAppended ==
    ASSUME NEW q \in Seq(Launched), NEW e \in Launched
    PROVE  /\ Append(q, e) \in Seq(Launched) /\ Len(q) \in Nat /\ Len(Append(q, e)) = Len(q) + 1
           /\ \A i \in 1..Len(q) : Append(q, e)[i] = q[i]
           /\ Append(q, e)[Len(q) + 1] = e
  BY AppendProperties

\* record_cuda_producer keeps the other lanes' tokens, and its own covers upto.
LEMMA RecordedTokens ==
    ASSUME TableTypes, NEW s \in Storage, NEW p \in Streams, NEW upto \in Nat, NEW K
    PROVE  /\ Recorded(s, p, upto, s \in K) \subseteq Token
           /\ \A y \in producers[s] : y.plan # p => y \in Recorded(s, p, upto, s \in K)
           /\ \E y \in Recorded(s, p, upto, s \in K) : y.plan = p /\ y.upto = upto /\ (s \in K => y.writes)
<1> DEFINE old == {x \in producers[s] : x.plan = p}
           inherited == \E x \in old : x.writes /\ done[p] < x.upto
           new == [plan |-> p, upto |-> upto, writes |-> s \in K \/ inherited]
<1>1. Recorded(s, p, upto, s \in K) = (producers[s] \ old) \cup {new}
  BY Zenon DEF Recorded
<1>2. producers[s] \subseteq Token
  BY DEF TableTypes
<1>3. (s \in K \/ inherited) \in BOOLEAN
  OBVIOUS
<1>4. new \in Token /\ new.plan = p /\ new.upto = upto /\ (s \in K => new.writes)
  <2> HIDE DEF inherited
  <2> QED  BY <1>3 DEF Token
<1> HIDE DEF new, old
<1>5. \A y \in producers[s] : y.plan # p => y \notin old
  BY DEF old
<1> QED  BY <1>1, <1>2, <1>4, <1>5

\* A copy's token is one that writes.
LEMMA RecordedCopy ==
    ASSUME NEW s, NEW p, NEW upto
    PROVE  Recorded(s, p, upto, TRUE) = Recorded(s, p, upto, s \in {s})
<1>1. (s \in {s}) = TRUE
  OBVIOUS
<1> QED  BY <1>1, Zenon

---------------------------------------------------------------------------------
(* What every step does: it completes, settles and fails more, leaves the      *)
(* enqueued copies as they are, and settles only what touches storages in use. *)

Advance ==
    /\ \A q \in Streams :
        /\ done[q] \in Nat /\ done'[q] \in Nat /\ done[q] <= done'[q]
        /\ settled[q] \in Nat /\ settled'[q] \in Nat /\ settled[q] <= settled'[q]
    /\ failed \subseteq failed'
    /\ \A i \in 1..settled[Copy] : stream'[Copy][i] = stream[Copy][i]
    /\ \A q \in Plan \ failed' : \A s \in Accesses(q) : settled'[q] = settled[q] \/ place[s] = "used"
    /\ \A i \in 1..settled'[Copy] : i <= settled[Copy] \/ \A s \in stream'[Copy][i].touches : place[s] = "used"

\* The locals of a thread that does not take the step.
Same(u) ==
    /\ step'[u] = step[u] /\ plan'[u] = plan[u] /\ token'[u] = token[u] /\ left'[u] = left[u]
    /\ base'[u] = base[u] /\ tokens'[u] = tokens[u] /\ must'[u] = must[u] /\ after'[u] = after[u]

\* The step leaves s tokens for what they covered.
TokensKept(s) ==
    \A q \in Streams : \A n \in 0..Len(stream[q]) :
        /\ CoverKind(s, q, n) => CoverKind(s, q, n)'
        /\ Cover(producers[s], q, n) => Cover(producers[s], q, n)'

\* What tokens cover stays covered.
LEMMA CoverStays ==
    ASSUME Advance, NEW T, NEW q \in Streams, NEW n \in Nat, Cover(T, q, n)
    PROVE  Cover(T, q, n)'
  BY DEF Advance, Cover

\* So does what touches a storage that is not in use: nothing is added to it.
LEMMA CoverAllStays ==
    ASSUME Advance, NEW T, NEW s, place[s] # "used", CoverAll(T, s)
    PROVE  CoverAll(T, s)'
<1>1. \A q \in Plan \ failed' : s \in Accesses(q) => Cover(T, q, settled[q])'
  <2> SUFFICES ASSUME NEW q \in Plan \ failed', s \in Accesses(q) PROVE Cover(T, q, settled[q])'
    OBVIOUS
  <2>1. q \in Plan \ failed /\ q \in Streams /\ settled'[q] = settled[q] /\ settled[q] \in Nat
    BY DEF Advance, Streams
  <2>2. PICK n \in Nat : n = settled[q]
    BY <2>1
  <2>3. Cover(T, q, n)
    BY <2>1, <2>2 DEF CoverAll
  <2>4. Cover(T, q, n)'
    BY <2>1, <2>3, CoverStays
  <2> QED  BY <2>1, <2>2, <2>4 DEF Cover
<1>2. \A i \in 1..settled'[Copy] : s \in stream'[Copy][i].touches => Cover(T, Copy, i)'
  <2> SUFFICES ASSUME NEW i \in 1..settled'[Copy], s \in stream'[Copy][i].touches PROVE Cover(T, Copy, i)'
    OBVIOUS
  <2>1. Copy \in Streams /\ settled[Copy] \in Nat /\ settled'[Copy] \in Nat
    BY DEF Advance, Streams
  <2>2. i \in 1..settled[Copy] /\ stream'[Copy][i] = stream[Copy][i]
    BY <2>1 DEF Advance
  <2>3. Cover(T, Copy, i)
    BY <2>2 DEF CoverAll
  <2> QED  BY <2>1, <2>2, <2>3, CoverStays
<1> QED  BY <1>1, <1>2 DEF CoverAll, Cover

\* A thread that does not take the step keeps its part of the invariant.
LEMMA RecordsStays ==
    ASSUME SyncInv, NEW u \in SyncThread, Same(u),
           plan[u] \in Plan => stream'[plan[u]] = stream[plan[u]],
           \A s \in Storage : place[s] = "used" => TokensKept(s)
    PROVE  Records(u)'
<1> SUFFICES ASSUME step[u] = "record"
             PROVE  /\ token'[u].upto = Len(stream'[plan'[u]])
                    /\ left'[u] \subseteq Accesses(plan'[u])
                    /\ \A s \in Accesses(plan'[u]) \ left'[u] : CoverKind(s, plan[u], Len(stream[plan[u]]))'
  BY DEF Records, Same, CoverKind
<1>1. plan[u] \in Plan /\ \A s \in Accesses(plan[u]) : place[s] = "used"
  BY DEF SyncInv, Executors, Executing
<1>2. PICK p \in Plan, n \in Nat : p = plan[u] /\ n = Len(stream[p])
  <2>1. Len(stream[plan[u]]) \in Nat
    BY <1>1 DEF SyncInv, SyncTypes, LaneTypes, Streams
  <2> QED  BY <1>1, <2>1
<1>3. /\ token[u].upto = n /\ left[u] \subseteq Accesses(p)
      /\ \A s \in Accesses(p) \ left[u] : CoverKind(s, p, n)
  BY <1>2 DEF SyncInv, Recording, Records
<1>4. plan'[u] = p /\ stream'[p] = stream[p] /\ token'[u] = token[u] /\ left'[u] = left[u]
  BY <1>2 DEF Same
<1>5. \A s \in Accesses(p) \ left[u] : CoverKind(s, p, n)'
  <2> SUFFICES ASSUME NEW s \in Accesses(p) \ left[u] PROVE CoverKind(s, p, n)'
    OBVIOUS
  <2>1. TokensKept(s)
    BY <1>1, <1>2, AccessesContain
  <2>2. p \in Streams /\ n \in 0..Len(stream[p]) /\ CoverKind(s, p, n)
    BY <1>2, <1>3 DEF Streams
  <2> QED  BY <2>1, <2>2 DEF TokensKept
<1> QED  BY <1>2, <1>3, <1>4, <1>5 DEF CoverKind

\* Its fence stays closed: what it must follow is still covered.
LEMMA FenceStays ==
    ASSUME SyncInv, Advance, NEW u \in SyncThread, Same(u)
    PROVE  Fence(u)'
<1>1. /\ step'[u] = step[u] /\ plan'[u] = plan[u] /\ base'[u] = base[u] /\ tokens'[u] = tokens[u]
      /\ must'[u] = must[u] /\ after'[u] = after[u] /\ left'[u] = left[u]
  BY DEF Same
<1>2. Fence(u) /\ WaitsFor(u) /\ Lanes
  BY DEF SyncInv, Fences, Places
<1>3. must[u] \subseteq Submission /\ failed \subseteq failed'
  BY DEF SyncInv, SyncTypes, ThreadTypes, Advance
<1>4. \A x \in must[u] : x.plan \in Streams /\ x.at \in Nat /\ x.at >= 1
  BY <1>3 DEF Submission
<1>5. \A x \in must[u], s \in Storage : Returned(x, s) => Returned(x, s)'
  BY <1>4 DEF Returned, Advance, Streams
<1>6. \A x \in must[u] : Cover(tokens[u], x.plan, x.at) => Cover(tokens[u], x.plan, x.at)'
  <2> SUFFICES ASSUME NEW x \in must[u], Cover(tokens[u], x.plan, x.at) PROVE Cover(tokens[u], x.plan, x.at)'
    OBVIOUS
  <2>1. PICK T : T = tokens[u]
    OBVIOUS
  <2>2. Cover(T, x.plan, x.at)'
    BY <1>4, <2>1, CoverStays
  <2> QED  BY <1>1, <2>1, <2>2 DEF Cover
<1>7. \A x \in must[u] : IsDone(x) => IsDone(x)'
  BY <1>4 DEF IsDone, Advance
<1>8. PICK T, s : T = tokens[u] /\ s = base[u]
  OBVIOUS
<1>9. step[u] \in Waiting /\ after[u] = "free" => place[s] # "used" /\ s \in Storage
  BY <1>2, <1>8 DEF WaitsFor, HostUse
<1>10. step[u] \in Waiting /\ after[u] = "free" => (CoverAll(T, s) => CoverAll(T, s)') /\ (CoverAll({}, s) => CoverAll({}, s)')
  BY <1>9, CoverAllStays
<1>11. step[u] = "lookup" => \A x \in must'[u] : x.plan = plan'[u] \/ Returned(x, base[u])'
  BY <1>1, <1>2, <1>5, <1>8 DEF Fence, WaitsFor, Waiting, Returned
<1>12. step[u] \in Draining =>
        /\ left'[u] \subseteq Plan
        /\ \A x \in must'[u] : x.plan \in failed' \cup {plan'[u]} \/ Cover(tokens[u], x.plan, x.at)'
        /\ after'[u] = "free" => CoverAll(tokens[u], base[u])'
  BY <1>1, <1>2, <1>3, <1>6, <1>8, <1>10 DEF Fence, Waiting, Cover, CoverAll
<1>13. step[u] = "access" =>
        /\ \A x \in must'[u] : x.plan \in failed' \cup {plan'[u]} \/ IsDone(x)'
        /\ after'[u] = "free" => CoverAll({}, base[u])'
  BY <1>1, <1>2, <1>3, <1>7, <1>8, <1>10 DEF Fence, Waiting, CoverAll, Cover
<1> QED  BY <1>1, <1>11, <1>12, <1>13 DEF Fence

\* The table is left alone.
LEMMA NoTokenChange ==
    ASSUME Advance, producers' = producers
    PROVE  \A s \in Storage : TokensKept(s)
<1> SUFFICES ASSUME NEW s \in Storage, NEW q \in Streams, NEW n \in 0..Len(stream[q])
             PROVE  /\ CoverKind(s, q, n) => CoverKind(s, q, n)'
                    /\ Cover(producers[s], q, n) => Cover(producers[s], q, n)'
  BY DEF TokensKept
<1>1. n \in Int /\ done[q] \in Nat /\ done'[q] \in Nat /\ done[q] <= done'[q]
  BY DEF Advance
<1> QED  BY <1>1 DEF Cover, CoverKind

\* The tokens kept are enough while nothing is settled.
LEMMA KeptStays ==
    ASSUME SyncInv, \A s \in Storage : TokensKept(s), failed \subseteq failed', settled' = settled,
           stream'[Copy] = stream[Copy]
    PROVE  Kept'
<1>1. LaneTypes /\ Lanes /\ Kept
  BY DEF SyncInv, SyncTypes
<1>2. \A q \in Plan \ failed' : \A s \in Accesses(q) : CoverKind(s, q, settled[q])'
  <2> SUFFICES ASSUME NEW q \in Plan \ failed', NEW s \in Accesses(q) PROVE CoverKind(s, q, settled[q])'
    OBVIOUS
  <2>1. q \in Streams /\ s \in Storage /\ q \in Plan \ failed
    BY AccessesContain DEF Streams
  <2>2. PICK n : n = settled[q] /\ n \in 0..Len(stream[q])
    BY <1>1, <2>1 DEF LaneTypes, Lanes
  <2>3. CoverKind(s, q, n)
    BY <1>1, <2>1, <2>2 DEF Kept
  <2>4. CoverKind(s, q, n)'
    BY <2>1, <2>2, <2>3 DEF TokensKept
  <2> QED  BY <2>2, <2>4 DEF CoverKind
<1>3. \A i \in 1..settled[Copy] : \A s \in stream[Copy][i].touches : Cover(producers[s], Copy, i)'
  <2> SUFFICES ASSUME NEW i \in 1..settled[Copy], NEW s \in stream[Copy][i].touches PROVE Cover(producers[s], Copy, i)'
    OBVIOUS
  <2>1. Copy \in Streams /\ i \in 1..Len(stream[Copy]) /\ i \in 0..Len(stream[Copy])
    BY <1>1 DEF Streams, Lanes, LaneTypes
  <2>2. stream[Copy][i] \in Launched
    BY <1>1, <2>1 DEF LaneTypes
  <2>3. s \in Storage
    BY <2>2 DEF Launched
  <2>4. Cover(producers[s], Copy, i)
    BY <1>1 DEF Kept
  <2> QED  BY <2>1, <2>3, <2>4 DEF TokensKept
<1> QED  BY <1>2, <1>3 DEF Kept, Cover, CoverKind

\* The backend's storages stay drained.
LEMMA BackendStays ==
    ASSUME SyncInv, Advance, NEW s \in Storage, place[s] = "backend"
    PROVE  CoverAll({}, s)'
  BY CoverAllStays DEF SyncInv, Places

\* What the launches to follow range over.
LEMMA FollowedTyped ==
    ASSUME SyncInv
    PROVE  /\ \A p \in Streams : AllOf(p, settled[p]) \subseteq Submission /\ AllOf(p, Len(stream[p])) \subseteq Submission
           /\ \A p \in Plan : Earlier(p) \subseteq Submission
           /\ \A t \in SyncThread, s \in Storage : Follows(t, s) \subseteq Submission
           /\ \A y \in Token : AllOf(y.plan, y.upto) \subseteq Submission
<1>1. \A p \in Streams : settled[p] \in Nat /\ Len(stream[p]) \in Nat
  BY DEF SyncInv, SyncTypes, LaneTypes
<1>2. \A p \in Streams, n \in Nat : AllOf(p, n) \subseteq Submission
  BY AllOfMembers
<1>3. \A p \in Streams : AllOf(p, settled[p]) \subseteq Submission /\ AllOf(p, Len(stream[p])) \subseteq Submission
  BY <1>1, <1>2
<1>4. \A p \in Plan : Earlier(p) \subseteq Submission
  <2> SUFFICES ASSUME NEW p \in Plan, NEW x \in Earlier(p) PROVE x \in Submission
    OBVIOUS
  <2>1. (\E q \in Plan : x \in AllOf(q, settled[q])) \/ x \in AllOf(Copy, settled[Copy])
    BY DEF Earlier
  <2> QED  BY <1>3, <2>1 DEF Streams
<1>5. \A t \in SyncThread, s \in Storage : Follows(t, s) \subseteq Submission
  BY <1>3 DEF Follows
<1> QED  BY <1>2, <1>3, <1>4, <1>5 DEF Token

\* What wait_storage is told to follow at its call.
LEMMA FollowsReturned ==
    ASSUME SyncInv, NEW t \in SyncThread, NEW s \in Storage, NEW x \in Follows(t, s)
    PROVE  x.plan = plan[t] \/ Returned(x, s)
<1>1. PICK p \in Streams : x \in AllOf(p, IF p = plan[t] THEN Len(stream[p]) ELSE settled[p]) /\ s \in stream[p][x.at].touches
  BY DEF Follows
<1>2. CASE p = plan[t]
  <2>1. Len(stream[p]) \in Nat
    BY DEF SyncInv, SyncTypes, LaneTypes
  <2> QED  BY <1>1, <1>2, <2>1, AllOfMembers
<1>3. CASE p # plan[t]
  <2>1. settled[p] \in Nat /\ Len(stream[p]) \in Nat /\ settled[p] <= Len(stream[p])
    BY DEF SyncInv, SyncTypes, LaneTypes, Lanes
  <2>2. x \in Submission /\ x.plan = p /\ x.at <= settled[p]
    BY <1>1, <1>3, <2>1, AllOfMembers
  <2>3. x.at \in 1..Len(stream[p])
    BY <2>1, <2>2 DEF Submission
  <2>4. p \in Plan => s \in Accesses(p)
    BY <1>1, <2>3 DEF SyncInv, Lanes
  <2> QED  BY <1>1, <2>2, <2>4 DEF Returned
<1> QED  BY <1>2, <1>3

\* execute claims the plan: its lane and the tables are as they were.
LEMMA ExecuteStep ==
    ASSUME SyncInv, NEW t \in SyncThread, NEW p \in Plan, Execute(t, p)
    PROVE  SyncInv' /\ Advance
<1>0. LaneTypes /\ TableTypes /\ ThreadTypes /\ Lanes /\ Executors /\ Recording /\ Kept /\ Places /\ Fences
  BY DEF SyncInv, SyncTypes
<1>1. LaneTypes' /\ TableTypes'
  BY <1>0, SyncAssumption DEF Execute, Step, LaneTypes, TableTypes, Executors, Executing, lanes, Streams
<1>2. ThreadTypes'
  <2>1. Earlier(p) \subseteq Submission
    BY FollowedTyped
  <2> QED  BY <1>0, <2>1 DEF Execute, Step, ThreadTypes, Executing, Waiting, Draining, HostUse, lanes, tables, locals
<1>3. Lanes'
  BY <1>0, <1>1, SyncAssumption DEF Execute, Step, Lanes, LaneTypes, lanes, Streams
<1>4. Executors'
  BY <1>0, <1>2, SyncAssumption DEF Execute, Step, Executors, Executing, Waiting, Draining, HostUse, ThreadTypes,
                                    Places, WaitsFor, lanes
<1>5. Advance
  BY <1>0, <1>1, <1>3 DEF Execute, Step, Advance, LaneTypes, Lanes, lanes, Streams
<1>6. \A u \in SyncThread \ {t} : Same(u)
  BY <1>0 DEF Execute, Step, Same, ThreadTypes, lanes
<1>7. \A r \in Storage : TokensKept(r)
  BY <1>5, NoTokenChange DEF Execute, Step, lanes
<1>8. Kept'
  BY <1>5, <1>7, KeptStays DEF Execute, Step, Advance, lanes
<1>9. Recording'
  <2>1. \A u \in SyncThread \ {t} : Records(u)'
    BY <1>0, <1>6, <1>7, RecordsStays DEF Execute, Step, Executors, Executing, lanes
  <2>2. Records(t)'
    BY <1>0, <1>1 DEF Execute, Step, Records, ThreadTypes, lanes
  <2> QED  BY <2>1, <2>2 DEF Recording
<1>10. Fences'
  <2>1. \A u \in SyncThread \ {t} : Fence(u)'
    BY <1>5, <1>6, FenceStays
  <2>2. Fence(t)'
    BY <1>0 DEF Execute, Step, Fence, ThreadTypes, Draining, lanes
  <2> QED  BY <2>1, <2>2 DEF Fences
<1>11. Places'
  <2>1. \A u \in SyncThread : WaitsFor(u)'
    BY <1>0, <1>2, SyncAssumption DEF Execute, Step, Places, WaitsFor, ThreadTypes, TableTypes, Executors, Executing,
                                      Waiting, Draining, HostUse, lanes
  <2>2. \A r \in Storage : place'[r] = "backend" => CoverAll({}, r)'
    BY <1>0, <1>5, BackendStays DEF Execute, Step, lanes, TableTypes
  <2> QED  BY <2>1, <2>2 DEF Places
<1> QED  BY <1>1, <1>2, <1>3, <1>4, <1>5, <1>8, <1>9, <1>10, <1>11 DEF SyncInv, SyncTypes

\* Looking at the tokens changes the gate alone.
LEMMA OrderTokensStep ==
    ASSUME SyncInv, NEW t \in SyncThread, OrderTokens(t)
    PROVE  SyncInv' /\ Advance
<1>0. LaneTypes /\ TableTypes /\ ThreadTypes /\ Lanes /\ Executors /\ Recording /\ Kept /\ Places /\ Fences
  BY DEF SyncInv, SyncTypes
<1>1. LaneTypes' /\ TableTypes'
  BY <1>0, SyncAssumption DEF OrderTokens, Step, LaneTypes, TableTypes, Executors, Executing, lanes, tables, Streams
<1>2. ThreadTypes'
  <2> DEFINE waits == {x \in UNION {producers[s] \X {s} : s \in Accesses(plan[t])} : Conflicting(plan[t], x[2], x[1])}
             ordered == IF TracksLanes THEN UNION {AllOf(x[1].plan, x[1].upto) : x \in waits} ELSE {}
  <2>1. gate' = [gate EXCEPT ![t] = ordered]
    BY Zenon DEF OrderTokens
  <2>2. ordered \subseteq Submission
    <3> SUFFICES ASSUME NEW x \in waits PROVE AllOf(x[1].plan, x[1].upto) \subseteq Submission
      OBVIOUS
    <3>1. PICK s \in Accesses(plan[t]) : x \in producers[s] \X {s}
      OBVIOUS
    <3>2. plan[t] \in Plan
      BY <1>0 DEF OrderTokens, Executors, Executing
    <3>3. producers[s] \subseteq Token
      BY <1>0, <3>2, AccessesContain DEF TableTypes
    <3>4. x[1] \in Token
      BY <3>1, <3>3
    <3> QED  BY <3>4, FollowedTyped
  <2> HIDE DEF ordered, waits
  <2>3. gate' \in [SyncThread -> SUBSET Submission]
    BY <1>0, <2>1, <2>2 DEF ThreadTypes
  <2> QED  BY <1>0, <2>3 DEF OrderTokens, Step, ThreadTypes, Executing, Waiting, Draining, HostUse, lanes, tables,
                             locals
<1>3. Lanes'
  BY <1>0, <1>1, SyncAssumption DEF OrderTokens, Step, Lanes, LaneTypes, lanes, tables, Streams
<1>4. Executors'
  BY <1>0, <1>2, SyncAssumption DEF OrderTokens, Step, Executors, Executing, Waiting, Draining, HostUse, ThreadTypes,
                                    Places, WaitsFor, lanes, tables
<1>5. Advance
  BY <1>0, <1>1, <1>3 DEF OrderTokens, Step, Advance, LaneTypes, Lanes, lanes, tables, Streams
<1>6. \A u \in SyncThread \ {t} : Same(u)
  BY <1>0 DEF OrderTokens, Step, Same, ThreadTypes, lanes, tables
<1>7. \A r \in Storage : TokensKept(r)
  BY <1>5, NoTokenChange DEF OrderTokens, Step, lanes, tables
<1>8. Kept'
  BY <1>5, <1>7, KeptStays DEF OrderTokens, Step, Advance, lanes, tables
<1>9. Recording'
  <2>1. \A u \in SyncThread \ {t} : Records(u)'
    BY <1>0, <1>6, <1>7, RecordsStays DEF OrderTokens, Step, Executors, Executing, lanes, tables
  <2>2. Records(t)'
    BY <1>0, <1>1 DEF OrderTokens, Step, Records, ThreadTypes, lanes, tables
  <2> QED  BY <2>1, <2>2 DEF Recording
<1>10. Fences'
  <2>1. \A u \in SyncThread \ {t} : Fence(u)'
    BY <1>5, <1>6, FenceStays
  <2>2. Fence(t)'
    BY <1>0 DEF OrderTokens, Step, Fence, ThreadTypes, Draining, lanes, tables
  <2> QED  BY <2>1, <2>2 DEF Fences
<1>11. Places'
  <2>1. \A u \in SyncThread : WaitsFor(u)'
    BY <1>0, <1>2, SyncAssumption DEF OrderTokens, Step, Places, WaitsFor, ThreadTypes, TableTypes, Executors,
                                      Executing, Waiting, Draining, HostUse, lanes, tables
  <2>2. \A r \in Storage : place'[r] = "backend" => CoverAll({}, r)'
    BY <1>0, <1>5, BackendStays DEF OrderTokens, Step, lanes, tables, TableTypes
  <2> QED  BY <2>1, <2>2 DEF Places
<1> QED  BY <1>1, <1>2, <1>3, <1>4, <1>5, <1>8, <1>9, <1>10, <1>11 DEF SyncInv, SyncTypes

\* So does looking at the tails.
LEMMA OrderTailsStep ==
    ASSUME SyncInv, NEW t \in SyncThread, OrderTails(t)
    PROVE  SyncInv' /\ Advance
<1>0. LaneTypes /\ TableTypes /\ ThreadTypes /\ Lanes /\ Executors /\ Recording /\ Kept /\ Places /\ Fences
  BY DEF SyncInv, SyncTypes
<1>1. LaneTypes' /\ TableTypes'
  BY <1>0, SyncAssumption DEF OrderTails, Step, LaneTypes, TableTypes, Executors, Executing, lanes, tables, Streams
<1>2. ThreadTypes'
  <2> DEFINE tails == IF TracksLanes
                      THEN UNION {AllOf(q, Len(stream[q])) : q \in {q \in Plan \ {plan[t]} : Unpublished(q)}}
                      ELSE {}
  <2>1. gate' = [gate EXCEPT ![t] = @ \cup tails]
    BY Zenon DEF OrderTails
  <2>2. tails \subseteq Submission
    <3> SUFFICES ASSUME NEW q \in Plan PROVE AllOf(q, Len(stream[q])) \subseteq Submission
      OBVIOUS
    <3> QED  BY FollowedTyped DEF Streams
  <2> HIDE DEF tails
  <2>3. gate' \in [SyncThread -> SUBSET Submission]
    BY <1>0, <2>1, <2>2 DEF ThreadTypes
  <2> QED  BY <1>0, <2>3 DEF OrderTails, Step, ThreadTypes, Executing, Waiting, Draining, HostUse, lanes, tables,
                             locals
<1>3. Lanes'
  BY <1>0, <1>1, SyncAssumption DEF OrderTails, Step, Lanes, LaneTypes, lanes, tables, Streams
<1>4. Executors'
  BY <1>0, <1>2, SyncAssumption DEF OrderTails, Step, Executors, Executing, Waiting, Draining, HostUse, ThreadTypes,
                                    Places, WaitsFor, lanes, tables
<1>5. Advance
  BY <1>0, <1>1, <1>3 DEF OrderTails, Step, Advance, LaneTypes, Lanes, lanes, tables, Streams
<1>6. \A u \in SyncThread \ {t} : Same(u)
  BY <1>0 DEF OrderTails, Step, Same, ThreadTypes, lanes, tables
<1>7. \A r \in Storage : TokensKept(r)
  BY <1>5, NoTokenChange DEF OrderTails, Step, lanes, tables
<1>8. Kept'
  BY <1>5, <1>7, KeptStays DEF OrderTails, Step, Advance, lanes, tables
<1>9. Recording'
  <2>1. \A u \in SyncThread \ {t} : Records(u)'
    BY <1>0, <1>6, <1>7, RecordsStays DEF OrderTails, Step, Executors, Executing, lanes, tables
  <2>2. Records(t)'
    BY <1>0, <1>1 DEF OrderTails, Step, Records, ThreadTypes, lanes, tables
  <2> QED  BY <2>1, <2>2 DEF Recording
<1>10. Fences'
  <2>1. \A u \in SyncThread \ {t} : Fence(u)'
    BY <1>5, <1>6, FenceStays
  <2>2. Fence(t)'
    BY <1>0 DEF OrderTails, Step, Fence, ThreadTypes, Draining, lanes, tables
  <2> QED  BY <2>1, <2>2 DEF Fences
<1>11. Places'
  <2>1. \A u \in SyncThread : WaitsFor(u)'
    BY <1>0, <1>2, SyncAssumption DEF OrderTails, Step, Places, WaitsFor, ThreadTypes, TableTypes, Executors,
                                      Executing, Waiting, Draining, HostUse, lanes, tables
  <2>2. \A r \in Storage : place'[r] = "backend" => CoverAll({}, r)'
    BY <1>0, <1>5, BackendStays DEF OrderTails, Step, lanes, tables, TableTypes
  <2> QED  BY <2>1, <2>2 DEF Places
<1> QED  BY <1>1, <1>2, <1>3, <1>4, <1>5, <1>8, <1>9, <1>10, <1>11 DEF SyncInv, SyncTypes

\* mark_unpublished counts a launch that is not there yet.
LEMMA MarkStep ==
    ASSUME SyncInv, NEW t \in SyncThread, Mark(t)
    PROVE  SyncInv' /\ Advance
<1>0. LaneTypes /\ TableTypes /\ ThreadTypes /\ Lanes /\ Executors /\ Recording /\ Kept /\ Places /\ Fences
  BY DEF SyncInv, SyncTypes
<1>1. LaneTypes' /\ TableTypes'
  <2>1. Len(stream[Copy]) \in Nat /\ plan[t] \in Plan
    BY <1>0 DEF LaneTypes, Streams, Mark, Executors, Executing
  <2>2. copiesSeen' \in [Plan -> Nat] /\ submitted' \in [Plan -> Nat]
    BY <1>0, <2>1 DEF Mark, LaneTypes
  <2> QED  BY <1>0, <2>2 DEF Mark, LaneTypes, TableTypes, lanes, tables, locals
<1>2. ThreadTypes'
  <2>1. AfterCopies(t) \subseteq Submission
    BY FollowedTyped DEF AfterCopies, Streams
  <2>2. gate' \in [SyncThread -> SUBSET Submission]
    BY <1>0, <2>1 DEF Mark, ThreadTypes
  <2> QED  BY <1>0, <2>2 DEF Mark, Step, ThreadTypes, Executing, Waiting, Draining, HostUse, lanes, tables, locals
<1>3. Lanes'
  BY <1>0, <1>1, SyncAssumption DEF Mark, Step, Lanes, LaneTypes, tables, Streams
<1>4. Executors'
  BY <1>0, <1>2, SyncAssumption DEF Mark, Step, Executors, Executing, Waiting, Draining, HostUse, ThreadTypes,
                                    Places, WaitsFor, lanes, tables
<1>5. Advance
  BY <1>0, <1>1, <1>3 DEF Mark, Step, Advance, LaneTypes, Lanes, tables, Streams
<1>6. \A u \in SyncThread \ {t} : Same(u)
  BY <1>0 DEF Mark, Step, Same, ThreadTypes, tables
<1>7. \A r \in Storage : TokensKept(r)
  BY <1>5, NoTokenChange DEF Mark, Step, tables
<1>8. Kept'
  BY <1>5, <1>7, KeptStays DEF Mark, Step, Advance, tables
<1>9. Recording'
  <2>1. \A u \in SyncThread \ {t} : Records(u)'
    BY <1>0, <1>6, <1>7, RecordsStays DEF Mark, Step, Executors, Executing, tables
  <2>2. Records(t)'
    BY <1>0, <1>1 DEF Mark, Step, Records, ThreadTypes, tables
  <2> QED  BY <2>1, <2>2 DEF Recording
<1>10. Fences'
  <2>1. \A u \in SyncThread \ {t} : Fence(u)'
    BY <1>5, <1>6, FenceStays
  <2>2. Fence(t)'
    BY <1>0 DEF Mark, Step, Fence, ThreadTypes, Draining, lanes, tables
  <2> QED  BY <2>1, <2>2 DEF Fences
<1>11. Places'
  <2>1. \A u \in SyncThread : WaitsFor(u)'
    BY <1>0, <1>2, SyncAssumption DEF Mark, Step, Places, WaitsFor, ThreadTypes, TableTypes, Executors, Executing,
                                      Waiting, Draining, HostUse, lanes, tables
  <2>2. \A r \in Storage : place'[r] = "backend" => CoverAll({}, r)'
    BY <1>0, <1>5, BackendStays DEF Mark, Step, tables, TableTypes
  <2> QED  BY <2>1, <2>2 DEF Places
<1> QED  BY <1>1, <1>2, <1>3, <1>4, <1>5, <1>8, <1>9, <1>10, <1>11 DEF SyncInv, SyncTypes

\* A launch extends the lane of its only executor, with storages the plan accesses.
LEMMA LaunchStep ==
    ASSUME SyncInv, NEW t \in SyncThread, Launch(t)
    PROVE  SyncInv' /\ Advance
<1>0. LaneTypes /\ TableTypes /\ ThreadTypes /\ Lanes /\ Executors /\ Recording /\ Kept /\ Places /\ Fences
  BY DEF SyncInv, SyncTypes
<1> DEFINE p == plan[t]
           new == [touches |-> Op(t).reads \cup Op(t).writes, after |-> gate[t], owes |-> owes[t]]
<1>a. p \in Plan /\ p \in Streams /\ p # Copy /\ stream[p] \in Seq(Launched) /\ stream' = [stream EXCEPT ![p] = Append(@, new)]
  BY <1>0, SyncAssumption DEF Launch, Executors, Executing, LaneTypes, Streams
<1>b. Op(t).reads \subseteq Accesses(p) /\ Op(t).writes \subseteq Accesses(p) /\ Accesses(p) \subseteq Storage
  <2>1. next[t] \in 1..Len(Ops[p])
    BY <1>0, <1>a, AccessesContain DEF Executors, ThreadTypes, Launch
  <2> QED  BY <1>a, <2>1, AccessesContain DEF Op
<1>c. new \in Launched /\ new.touches \subseteq Accesses(p)
  BY <1>0, <1>b DEF Launched, ThreadTypes
<1> HIDE DEF new, p
<1>d. /\ stream'[p] \in Seq(Launched) /\ Len(stream[p]) \in Nat /\ Len(stream'[p]) = Len(stream[p]) + 1
      /\ \A i \in 1..Len(stream[p]) : stream'[p][i] = stream[p][i]
      /\ stream'[p][Len(stream[p]) + 1] = new
      /\ \A q \in Streams : q # p => stream'[q] = stream[q]
  BY <1>0, <1>a, <1>c, LaunchAppended DEF LaneTypes
<1>1. LaneTypes' /\ TableTypes'
  BY <1>0, <1>a, <1>d DEF Launch, LaneTypes, TableTypes, tables
<1>2. ThreadTypes'
  BY <1>0, SyncAssumption DEF Launch, Step, ThreadTypes, Executing, Waiting, Draining, HostUse, Executors,
                              TableTypes, lanes, tables
<1>3. Lanes'
  <2>1. done' = done /\ settled' = settled
    BY DEF Launch
  <2>2. \A q \in Streams : Len(stream[q]) \in Nat /\ Len(stream[q]) <= Len(stream'[q]) /\ Len(stream'[q]) \in Nat
    <3>1. Len(stream[p]) <= Len(stream'[p]) /\ Len(stream'[p]) \in Nat
      BY <1>d
    <3>2. \A q \in Streams : Len(stream[q]) \in Nat
      BY <1>0 DEF LaneTypes
    <3> QED  BY <1>d, <3>1, <3>2
  <2>3. \A q \in Streams : done'[q] <= Len(stream'[q]) /\ settled'[q] <= Len(stream'[q])
    BY <1>0, <2>1, <2>2 DEF Lanes, LaneTypes
  <2>4. settled'[Copy] = Len(stream'[Copy])
    BY <1>0, <1>a, <1>d, <2>1 DEF Lanes, Streams
  <2>5. \A q \in Plan : \A i \in 1..Len(stream'[q]) : stream'[q][i].touches \subseteq Accesses(q)
    <3> SUFFICES ASSUME NEW q \in Plan, NEW i \in 1..Len(stream'[q]) PROVE stream'[q][i].touches \subseteq Accesses(q)
      OBVIOUS
    <3>1. CASE q # p
      BY <1>0, <1>d, <3>1 DEF Lanes, Streams
    <3>2. CASE q = p /\ i \in 1..Len(stream[p])
      BY <1>0, <1>d, <3>2 DEF Lanes
    <3>3. CASE q = p /\ i = Len(stream[p]) + 1
      BY <1>c, <1>d, <3>3
    <3> QED  BY <1>d, <3>1, <3>2, <3>3
  <2> QED  BY <2>3, <2>4, <2>5 DEF Lanes
<1>4. Executors'
  BY <1>0, <1>2, SyncAssumption DEF Launch, Step, Executors, Executing, Waiting, Draining, HostUse, ThreadTypes,
                                    Places, WaitsFor, lanes, tables
<1>5. Advance
  BY <1>0, <1>1, <1>3 DEF Launch, Step, Advance, LaneTypes, Lanes, tables, Streams
<1>6. \A u \in SyncThread \ {t} : Same(u)
  BY <1>0 DEF Launch, Step, Same, ThreadTypes, tables
<1>7. \A r \in Storage : TokensKept(r)
  BY <1>5, NoTokenChange DEF Launch, Step, tables
<1>8. Kept'
  BY <1>5, <1>7, <1>a, <1>d, KeptStays DEF Launch, Step, Streams, Advance, tables
<1>9. Recording'
  <2>1. \A u \in SyncThread \ {t} : Records(u)'
    BY <1>0, <1>6, <1>7, RecordsStays DEF Launch, Step, Executors, Executing, tables
  <2>2. Records(t)'
    BY <1>0, <1>1 DEF Launch, Step, Records, ThreadTypes, tables
  <2> QED  BY <2>1, <2>2 DEF Recording
<1>10. Fences'
  <2>1. \A u \in SyncThread \ {t} : Fence(u)'
    BY <1>5, <1>6, FenceStays
  <2>2. Fence(t)'
    BY <1>0 DEF Launch, Step, Fence, ThreadTypes, Draining, lanes, tables
  <2> QED  BY <2>1, <2>2 DEF Fences
<1>11. Places'
  <2>1. \A u \in SyncThread : WaitsFor(u)'
    BY <1>0, <1>2, SyncAssumption DEF Launch, Step, Places, WaitsFor, ThreadTypes, TableTypes, Executors, Executing,
                                      Waiting, Draining, HostUse, lanes, tables
  <2>2. \A r \in Storage : place'[r] = "backend" => CoverAll({}, r)'
    BY <1>0, <1>5, BackendStays DEF Launch, Step, tables, TableTypes
  <2> QED  BY <2>1, <2>2 DEF Places
<1> QED  BY <1>1, <1>2, <1>3, <1>4, <1>5, <1>8, <1>9, <1>10, <1>11 DEF SyncInv, SyncTypes

\* A staged copy leg starts to wait for its source, which its plan keeps in use.
LEMMA StageStep ==
    ASSUME SyncInv, NEW t \in SyncThread, Stage(t)
    PROVE  SyncInv' /\ Advance
<1>0. LaneTypes /\ TableTypes /\ ThreadTypes /\ Lanes /\ Executors /\ Recording /\ Kept /\ Places /\ Fences
  BY DEF SyncInv, SyncTypes
<1>a. plan[t] \in Plan /\ Op(t).reads \subseteq Accesses(plan[t]) /\ next[t] \in 1..Len(Ops[plan[t]])
  <2>1. plan[t] \in Plan
    BY <1>0 DEF Stage, Executors, Executing
  <2>2. next[t] \in 1..Len(Ops[plan[t]])
    BY <1>0, <2>1, AccessesContain DEF Stage, ThreadTypes
  <2> QED  BY <2>1, <2>2, AccessesContain DEF Op
<1>1. LaneTypes' /\ TableTypes'
  BY <1>0, SyncAssumption DEF Stage, Step, CallWait, LaneTypes, TableTypes, Executors, Executing, lanes, tables,
                              Streams
<1>2. ThreadTypes'
  <2>0. PICK s \in Op(t).reads : CallWait(t, s, "stage")
    BY DEF Stage
  <2>1. s \in Storage
    BY <1>a, <2>0, AccessesContain
  <2>2. must' \in [SyncThread -> SUBSET Submission]
    BY <1>0, <2>0, <2>1, FollowedTyped DEF CallWait, ThreadTypes
  <2> QED  BY <1>0, <2>0, <2>1, <2>2 DEF Stage, CallWait, Step, ThreadTypes, Executing, Waiting, Draining, HostUse,
                                         lanes, tables, locals
<1>3. Lanes'
  BY <1>0, <1>1, SyncAssumption DEF Stage, Step, CallWait, Lanes, LaneTypes, lanes, tables, Streams
<1>4. Executors'
  BY <1>0, <1>2, SyncAssumption DEF Stage, Step, CallWait, Executors, Executing, Waiting, Draining, HostUse,
                                    ThreadTypes, Places, WaitsFor, lanes, tables
<1>5. Advance
  BY <1>0, <1>1, <1>3 DEF Stage, Step, CallWait, Advance, LaneTypes, Lanes, lanes, tables, Streams
<1>6. \A u \in SyncThread \ {t} : Same(u)
  BY <1>0 DEF Stage, Step, CallWait, Same, ThreadTypes, lanes, tables
<1>7. \A r \in Storage : TokensKept(r)
  BY <1>5, NoTokenChange DEF Stage, Step, CallWait, lanes, tables
<1>8. Kept'
  BY <1>5, <1>7, KeptStays DEF Stage, Step, CallWait, Advance, lanes, tables
<1>9. Recording'
  <2>1. \A u \in SyncThread \ {t} : Records(u)'
    BY <1>0, <1>6, <1>7, RecordsStays DEF Stage, Step, CallWait, Executors, Executing, lanes, tables
  <2>2. Records(t)'
    BY <1>0, <1>1 DEF Stage, Step, CallWait, Records, ThreadTypes, lanes, tables
  <2> QED  BY <2>1, <2>2 DEF Recording
<1>10. Fences'
  <2>1. \A u \in SyncThread \ {t} : Fence(u)'
    BY <1>5, <1>6, FenceStays
  <2>2. Fence(t)'
    <3>0. PICK s \in Op(t).reads : CallWait(t, s, "stage")
      BY DEF Stage
    <3>a. s \in Storage
      BY <1>a, <3>0, AccessesContain
    <3>1. step'[t] = "lookup" /\ base'[t] = s /\ must'[t] = Follows(t, s) /\ plan'[t] = plan[t]
      BY <1>0, <3>0 DEF Stage, CallWait, Step, ThreadTypes
    <3>2. \A x \in Follows(t, s) : x.plan = plan[t] \/ Returned(x, s)
      BY <3>a, FollowsReturned
    <3>3. \A x \in Follows(t, s) : Returned(x, s) => Returned(x, s)'
      BY DEF Stage, Returned, lanes, tables
    <3> QED  BY <3>1, <3>2, <3>3 DEF Fence, Draining, Returned
  <2> QED  BY <2>1, <2>2 DEF Fences
<1>11. Places'
  <2>1. \A u \in SyncThread : WaitsFor(u)'
    <3>0. PICK s \in Op(t).reads : CallWait(t, s, "stage")
      BY DEF Stage
    <3>1. s \in Storage /\ place[s] = "used" /\ place' = place
      BY <1>0, <1>a, <3>0, AccessesContain DEF Stage, Executors, tables
    <3>2. step'[t] = "lookup" /\ base'[t] = s /\ after'[t] = "stage"
      BY <1>0, <3>0 DEF CallWait, Step, ThreadTypes
    <3>3. \A u \in SyncThread \ {t} : base'[u] = base[u] /\ after'[u] = after[u] /\ step'[u] = step[u]
      BY <1>6 DEF Same
    <3>4. WaitsFor(t)'
      BY <3>1, <3>2 DEF WaitsFor, Waiting, HostUse
    <3>5. \A u \in SyncThread \ {t} : WaitsFor(u)'
      BY <1>0, <3>1, <3>2, <3>3 DEF Places, WaitsFor
    <3> QED  BY <3>4, <3>5
  <2>2. \A r \in Storage : place'[r] = "backend" => CoverAll({}, r)'
    BY <1>0, <1>5, BackendStays DEF Stage, Step, CallWait, lanes, tables, TableTypes
  <2> QED  BY <2>1, <2>2 DEF Places
<1> QED  BY <1>1, <1>2, <1>3, <1>4, <1>5, <1>8, <1>9, <1>10, <1>11 DEF SyncInv, SyncTypes

\* A failed execute settles its launches without tokens, and exempts its plan.
LEMMA ExecuteFailsStep ==
    ASSUME SyncInv, NEW t \in SyncThread, ExecuteFails(t)
    PROVE  SyncInv' /\ Advance
<1>0. LaneTypes /\ TableTypes /\ ThreadTypes /\ Lanes /\ Executors /\ Recording /\ Kept /\ Places /\ Fences
  BY DEF SyncInv, SyncTypes
<1>a. /\ plan[t] \in Plan /\ plan[t] \in Streams /\ plan[t] # Copy /\ Len(stream[plan[t]]) \in Nat
      /\ \A u \in SyncThread : plan[u] = plan[t] => u = t
  BY <1>0, SyncAssumption DEF ExecuteFails, Executors, Executing, LaneTypes, Streams
<1>1. LaneTypes' /\ TableTypes'
  BY <1>0, SyncAssumption DEF ExecuteFails, Step, EndExecute, LaneTypes, TableTypes, Executors, Executing, Streams
<1>2. ThreadTypes'
  BY <1>0, SyncAssumption DEF ExecuteFails, Step, EndExecute, ThreadTypes, Executing, Waiting, Draining, HostUse,
                              Executors, TableTypes, lanes
<1>3. Lanes'
  BY <1>0, <1>1, SyncAssumption DEF ExecuteFails, Step, EndExecute, Lanes, LaneTypes, Streams
<1>4. Executors'
  <2>1. \A u \in SyncThread \ {t} : step'[u] = step[u] /\ plan'[u] = plan[u] /\ after'[u] = after[u] /\ next'[u] = next[u]
    BY <1>0 DEF ExecuteFails, EndExecute, Step, ThreadTypes
  <2>2. step'[t] = "idle" /\ plan'[t] = NoPlan /\ after'[t] = "none"
    BY <1>0 DEF ExecuteFails, EndExecute, Step, ThreadTypes, Places, WaitsFor, Waiting, Draining
  <2>3. place' = place /\ busy' = busy \ {plan[t]} /\ failed' \subseteq failed \cup {plan[t]}
    BY DEF ExecuteFails, EndExecute
  <2> QED  BY <1>0, <1>a, <2>1, <2>2, <2>3, SyncAssumption DEF Executors, Executing
<1>5. Advance
  BY <1>0, <1>1, <1>3 DEF ExecuteFails, Step, EndExecute, Advance, LaneTypes, Lanes, Streams
<1>6. \A u \in SyncThread \ {t} : Same(u)
  BY <1>0 DEF ExecuteFails, Step, EndExecute, Same, ThreadTypes
<1>7. \A r \in Storage : TokensKept(r)
  BY <1>5, NoTokenChange DEF ExecuteFails, Step, EndExecute
<1>8. Kept'
  <2>1. /\ settled' = [settled EXCEPT ![plan[t]] = Len(stream[plan[t]])] /\ stream' = stream /\ done' = done
        /\ producers' = producers /\ failed' = failed \cup {plan[t]}
    BY DEF ExecuteFails, EndExecute
  <2>2. \A q \in Plan \ failed' : \A s \in Accesses(q) : CoverKind(s, q, settled'[q])
    BY <1>0, <1>a, <2>1 DEF Kept, LaneTypes, Streams
  <2>3. settled'[Copy] = settled[Copy]
    BY <1>0, <1>a, <2>1 DEF LaneTypes, Streams
  <2> QED  BY <1>0, <2>1, <2>2, <2>3 DEF Kept, CoverKind, Cover
<1>9. Recording'
  <2>1. \A u \in SyncThread \ {t} : Records(u)'
    BY <1>0, <1>6, <1>7, RecordsStays DEF ExecuteFails, Step, EndExecute, Executors, Executing
  <2>2. Records(t)'
    BY <1>0, <1>1 DEF ExecuteFails, Step, EndExecute, Records, ThreadTypes
  <2> QED  BY <2>1, <2>2 DEF Recording
<1>10. Fences'
  <2>1. \A u \in SyncThread \ {t} : Fence(u)'
    BY <1>5, <1>6, FenceStays
  <2>2. Fence(t)'
    BY <1>0 DEF ExecuteFails, Step, EndExecute, Fence, ThreadTypes, Draining, lanes
  <2> QED  BY <2>1, <2>2 DEF Fences
<1>11. Places'
  <2>1. \A u \in SyncThread : WaitsFor(u)'
    BY <1>0, <1>2, SyncAssumption DEF ExecuteFails, Step, EndExecute, Places, WaitsFor, ThreadTypes, TableTypes,
                                      Executors, Executing, Waiting, Draining, HostUse, lanes
  <2>2. \A r \in Storage : place'[r] = "backend" => CoverAll({}, r)'
    BY <1>0, <1>5, BackendStays DEF ExecuteFails, Step, EndExecute, TableTypes
  <2> QED  BY <2>1, <2>2 DEF Places
<1> QED  BY <1>1, <1>2, <1>3, <1>4, <1>5, <1>8, <1>9, <1>10, <1>11 DEF SyncInv, SyncTypes

\* The token covers the lane as it is.
LEMMA MintStep ==
    ASSUME SyncInv, NEW t \in SyncThread, Mint(t)
    PROVE  SyncInv' /\ Advance
<1>0. LaneTypes /\ TableTypes /\ ThreadTypes /\ Lanes /\ Executors /\ Recording /\ Kept /\ Places /\ Fences
  BY DEF SyncInv, SyncTypes
<1>1. LaneTypes' /\ TableTypes'
  BY <1>0, SyncAssumption DEF Mint, Step, LaneTypes, TableTypes, Executors, Executing, lanes, tables, Streams
<1>2. ThreadTypes'
  <2>1. plan[t] \in Plan /\ Len(stream[plan[t]]) \in Nat /\ submitted[plan[t]] \in Nat /\ Accesses(plan[t]) \subseteq Storage
    BY <1>0, AccessesContain DEF Mint, Executors, Executing, LaneTypes, Streams
  <2>2. token' \in [SyncThread -> [plan : Plan \cup {NoPlan}, upto : Nat, seq : Nat]]
    BY <1>0, <2>1 DEF Mint, ThreadTypes
  <2>3. left' \in [SyncThread -> SUBSET (Plan \cup Storage)]
    BY <1>0, <2>1 DEF Mint, ThreadTypes
  <2> QED  BY <1>0, <2>2, <2>3 DEF Mint, Step, ThreadTypes, Executing, Waiting, Draining, HostUse, lanes, tables,
                                   locals
<1>3. Lanes'
  BY <1>0, <1>1, SyncAssumption DEF Mint, Step, Lanes, LaneTypes, lanes, tables, Streams
<1>4. Executors'
  BY <1>0, <1>2, SyncAssumption DEF Mint, Step, Executors, Executing, Waiting, Draining, HostUse, ThreadTypes,
                                    Places, WaitsFor, lanes, tables
<1>5. Advance
  BY <1>0, <1>1, <1>3 DEF Mint, Step, Advance, LaneTypes, Lanes, lanes, tables, Streams
<1>6. \A u \in SyncThread \ {t} : Same(u)
  BY <1>0 DEF Mint, Step, Same, ThreadTypes, lanes, tables
<1>7. \A r \in Storage : TokensKept(r)
  BY <1>5, NoTokenChange DEF Mint, Step, lanes, tables
<1>8. Kept'
  BY <1>5, <1>7, KeptStays DEF Mint, Step, Advance, lanes, tables
<1>9. Recording'
  <2>1. \A u \in SyncThread \ {t} : Records(u)'
    BY <1>0, <1>6, <1>7, RecordsStays DEF Mint, Step, Executors, Executing, lanes, tables
  <2>2. Records(t)'
    BY <1>0, <1>1 DEF Mint, Step, Records, ThreadTypes, lanes, tables
  <2> QED  BY <2>1, <2>2 DEF Recording
<1>10. Fences'
  <2>1. \A u \in SyncThread \ {t} : Fence(u)'
    BY <1>5, <1>6, FenceStays
  <2>2. Fence(t)'
    BY <1>0 DEF Mint, Step, Fence, ThreadTypes, Draining, lanes, tables
  <2> QED  BY <2>1, <2>2 DEF Fences
<1>11. Places'
  <2>1. \A u \in SyncThread : WaitsFor(u)'
    BY <1>0, <1>2, SyncAssumption DEF Mint, Step, Places, WaitsFor, ThreadTypes, TableTypes, Executors, Executing,
                                      Waiting, Draining, HostUse, lanes, tables
  <2>2. \A r \in Storage : place'[r] = "backend" => CoverAll({}, r)'
    BY <1>0, <1>5, BackendStays DEF Mint, Step, lanes, tables, TableTypes
  <2> QED  BY <2>1, <2>2 DEF Places
<1> QED  BY <1>1, <1>2, <1>3, <1>4, <1>5, <1>8, <1>9, <1>10, <1>11 DEF SyncInv, SyncTypes

\* A recorded token replaces the lane's older one and covers more.
LEMMA RecordStep ==
    ASSUME SyncInv, NEW t \in SyncThread, Record(t)
    PROVE  SyncInv' /\ Advance
<1>0. LaneTypes /\ TableTypes /\ ThreadTypes /\ Lanes /\ Executors /\ Recording /\ Kept /\ Places /\ Fences
  BY DEF SyncInv, SyncTypes
<1>a. PICK s \in left[t] :
        /\ producers' = [producers EXCEPT ![s] = Recorded(s, plan[t], token[t].upto, s \in Writes(plan[t]))]
        /\ left' = [left EXCEPT ![t] = @ \ {s}]
  BY Zenon DEF Record
<1> DEFINE p == plan[t]
           n == Len(stream[p])
           new == Recorded(s, p, n, s \in Writes(p))
<1>b. /\ p \in Plan /\ p \in Streams /\ s \in Storage /\ n \in Nat /\ producers' = [producers EXCEPT ![s] = new]
      /\ left[t] \subseteq Accesses(p) /\ step[t] = "record"
      /\ new \subseteq Token
      /\ \A y \in producers[s] : y.plan # p => y \in new
      /\ \E y \in new : y.plan = p /\ y.upto = n /\ (s \in Writes(p) => y.writes)
  <2>1. p \in Plan /\ p \in Streams /\ n \in Nat
    BY <1>0 DEF Record, Executors, Executing, LaneTypes, Streams
  <2>2. token[t].upto = n /\ left[t] \subseteq Accesses(p) /\ step[t] = "record"
    BY <1>0 DEF Record, Recording, Records
  <2>3. s \in Storage
    BY <2>1, <2>2, AccessesContain
  <2> HIDE DEF p, n
  <2>5. /\ Recorded(s, p, n, s \in Writes(p)) \subseteq Token
        /\ \A y \in producers[s] : y.plan # p => y \in Recorded(s, p, n, s \in Writes(p))
        /\ \E y \in Recorded(s, p, n, s \in Writes(p)) : y.plan = p /\ y.upto = n /\ (s \in Writes(p) => y.writes)
    BY <1>0, <2>1, <2>3, RecordedTokens
  <2>6. producers' = [producers EXCEPT ![s] = new]
    BY <1>a, <2>2 DEF p
  <2> QED  BY <2>1, <2>2, <2>3, <2>5, <2>6
<1> HIDE DEF new
<1>1. LaneTypes' /\ TableTypes'
  <2>1. producers' \in [Storage -> SUBSET Token]
    BY <1>0, <1>a, <1>b DEF TableTypes
  <2> QED  BY <1>0, <2>1 DEF Record, LaneTypes, TableTypes, lanes
<1>2. ThreadTypes'
  BY <1>0, SyncAssumption DEF Record, ThreadTypes, Executing, Waiting, Draining, HostUse, Executors, TableTypes,
                              lanes, Streams
<1>3. Lanes'
  BY <1>0, <1>1, SyncAssumption DEF Record, Lanes, LaneTypes, lanes, Streams
<1>4. Executors'
  BY <1>0, <1>2, SyncAssumption DEF Record, Executors, Executing, Waiting, Draining, HostUse, ThreadTypes, Places,
                                    WaitsFor, lanes
<1>5. Advance
  BY <1>0, <1>1, <1>3 DEF Record, Advance, LaneTypes, Lanes, lanes, Streams
<1>6. \A u \in SyncThread \ {t} : Same(u)
  BY <1>0 DEF Record, Same, ThreadTypes, lanes
<1>7. \A r \in Storage : TokensKept(r)
  <2> SUFFICES ASSUME NEW r \in Storage, NEW q \in Streams, NEW m \in 0..Len(stream[q])
               PROVE  /\ CoverKind(r, q, m) => CoverKind(r, q, m)'
                      /\ Cover(producers[r], q, m) => Cover(producers[r], q, m)'
    BY DEF TokensKept
  <2>1. done' = done
    BY DEF Record, lanes
  <2>2. CASE r # s
    BY <1>0, <1>b, <2>1, <2>2 DEF Cover, CoverKind, TableTypes
  <2>3. CASE r = s
    <3>1. producers'[s] = new
      BY <1>0, <1>b DEF TableTypes
    <3>2. CASE q # p
      BY <1>b, <2>1, <2>3, <3>1, <3>2 DEF Cover, CoverKind
    <3>3. CASE q = p
      <4>1. m \in Int /\ n >= m /\ n \in Nat
        BY <1>b, <3>3
      <4>2. PICK y \in producers'[s] : y.plan = q /\ y.upto = n /\ (s \in Writes(q) => y.writes)
        BY <1>b, <3>1, <3>3
      <4> HIDE DEF n, p
      <4> QED  BY <2>3, <4>1, <4>2 DEF Cover, CoverKind
    <3> QED  BY <3>2, <3>3
  <2> QED  BY <2>2, <2>3
<1>8. Kept'
  BY <1>5, <1>7, KeptStays DEF Record, Advance, lanes
<1>9. Recording'
  <2>1. \A u \in SyncThread \ {t} : Records(u)'
    BY <1>0, <1>6, <1>7, RecordsStays DEF Record, Executors, Executing, lanes
  <2>2. Records(t)'
    <3>1. step'[t] = "record" /\ token'[t] = token[t] /\ plan' = plan /\ stream' = stream /\ left'[t] = left[t] \ {s} /\ done' = done
      BY <1>0, <1>a, <1>b DEF Record, ThreadTypes, lanes
    <3>2. token[t].upto = n /\ \A r \in Accesses(p) \ left[t] : CoverKind(r, p, n)
      BY <1>0, <1>b DEF Recording, Records
    <3>3. \A r \in Accesses(p) \ left[t] : CoverKind(r, p, n)'
      <4> SUFFICES ASSUME NEW r \in Accesses(p) \ left[t] PROVE CoverKind(r, p, n)'
        OBVIOUS
      <4>1. PICK k \in Nat, q \in Plan : k = n /\ q = p
        BY <1>b
      <4>2. r \in Storage /\ q \in Streams /\ k \in 0..Len(stream[q]) /\ CoverKind(r, q, k)
        BY <1>b, <3>2, <4>1, AccessesContain
      <4>3. CoverKind(r, q, k)'
        BY <1>7, <4>2 DEF TokensKept
      <4> QED  BY <3>1, <4>1, <4>3 DEF CoverKind
    <3>4. CoverKind(s, p, n)'
      <4>1. producers'[s] = new
        BY <1>0, <1>b DEF TableTypes
      <4> QED  BY <1>b, <3>1, <4>1 DEF CoverKind
    <3> QED  BY <1>b, <3>1, <3>2, <3>3, <3>4 DEF Records
  <2> QED  BY <2>1, <2>2 DEF Recording
<1>10. Fences'
  <2>1. \A u \in SyncThread \ {t} : Fence(u)'
    BY <1>5, <1>6, FenceStays
  <2>2. Fence(t)'
    BY <1>0 DEF Record, Fence, ThreadTypes, Draining, lanes
  <2> QED  BY <2>1, <2>2 DEF Fences
<1>11. Places'
  <2>1. \A u \in SyncThread : WaitsFor(u)'
    BY <1>0, <1>2, SyncAssumption DEF Record, Places, WaitsFor, ThreadTypes, TableTypes, Executors, Executing,
                                      Waiting, Draining, HostUse, lanes
  <2>2. \A r \in Storage : place'[r] = "backend" => CoverAll({}, r)'
    BY <1>0, <1>5, BackendStays DEF Record, lanes, TableTypes
  <2> QED  BY <2>1, <2>2 DEF Places
<1> QED  BY <1>1, <1>2, <1>3, <1>4, <1>5, <1>8, <1>9, <1>10, <1>11 DEF SyncInv, SyncTypes

\* The end of execute settles what the recorded tokens cover.
LEMMA PublishedStep ==
    ASSUME SyncInv, NEW t \in SyncThread, Published(t)
    PROVE  SyncInv' /\ Advance
<1>0. LaneTypes /\ TableTypes /\ ThreadTypes /\ Lanes /\ Executors /\ Recording /\ Kept /\ Places /\ Fences
  BY DEF SyncInv, SyncTypes
<1>a. /\ plan[t] \in Plan /\ plan[t] \in Streams /\ plan[t] # Copy /\ Len(stream[plan[t]]) \in Nat
      /\ \A u \in SyncThread : plan[u] = plan[t] => u = t
  BY <1>0, SyncAssumption DEF Published, Executors, Executing, LaneTypes, Streams
<1>1. LaneTypes' /\ TableTypes'
  <2>1. settled' \in [Streams -> Nat]
    BY <1>0, <1>a DEF Published, EndExecute, LaneTypes
  <2>2. token[t].seq \in Nat
    BY <1>0 DEF ThreadTypes
  <2>3. covered' \in [Plan -> Nat]
    BY <1>0, <1>a, <2>2 DEF Published, LaneTypes
  <2> QED  BY <1>0, <2>1, <2>3 DEF Published, EndExecute, LaneTypes, TableTypes
<1>2. ThreadTypes'
  BY <1>0, SyncAssumption DEF Published, Step, EndExecute, ThreadTypes, Executing, Waiting, Draining, HostUse,
                              Executors, TableTypes, lanes
<1>3. Lanes'
  BY <1>0, <1>1, SyncAssumption DEF Published, Step, EndExecute, Lanes, LaneTypes, Streams
<1>4. Executors'
  <2>1. \A u \in SyncThread \ {t} : step'[u] = step[u] /\ plan'[u] = plan[u] /\ after'[u] = after[u] /\ next'[u] = next[u]
    BY <1>0 DEF Published, EndExecute, Step, ThreadTypes
  <2>2. step'[t] = "idle" /\ plan'[t] = NoPlan /\ after'[t] = "none"
    BY <1>0 DEF Published, EndExecute, Step, ThreadTypes, Places, WaitsFor, Waiting, Draining
  <2>3. place' = place /\ busy' = busy \ {plan[t]} /\ failed' \subseteq failed \cup {plan[t]}
    BY DEF Published, EndExecute
  <2> QED  BY <1>0, <1>a, <2>1, <2>2, <2>3, SyncAssumption DEF Executors, Executing
<1>5. Advance
  <2>1. settled' = [settled EXCEPT ![plan[t]] = Len(stream[plan[t]])] /\ stream' = stream /\ done' = done /\ failed' = failed
    BY DEF Published, EndExecute
  <2>2. \A q \in Streams : q # plan[t] => settled'[q] = settled[q]
    BY <1>0, <2>1 DEF LaneTypes
  <2>3. settled'[plan[t]] = Len(stream[plan[t]]) /\ settled[plan[t]] <= Len(stream[plan[t]])
    BY <1>0, <1>a, <2>1 DEF LaneTypes, Lanes
  <2>4. \A s \in Accesses(plan[t]) : place[s] = "used"
    BY <1>0, <1>a DEF Executors
  <2>5. \A q \in Streams : done[q] \in Nat /\ settled[q] \in Nat /\ settled'[q] \in Nat /\ settled[q] <= settled'[q]
    <3>1. \A q \in Streams : done[q] \in Nat /\ settled[q] \in Nat /\ settled'[q] \in Nat
      BY <1>0, <1>1 DEF LaneTypes
    <3>2. settled[plan[t]] <= settled'[plan[t]]
      BY <2>3
    <3> QED  BY <2>2, <3>1, <3>2
  <2> QED  BY <1>a, <2>1, <2>2, <2>4, <2>5 DEF Advance, Streams
<1>6. \A u \in SyncThread \ {t} : Same(u)
  BY <1>0 DEF Published, Step, EndExecute, Same, ThreadTypes
<1>7. \A r \in Storage : TokensKept(r)
  BY <1>5, NoTokenChange DEF Published, Step, EndExecute
<1>8. Kept'
  <2>1. /\ settled' = [settled EXCEPT ![plan[t]] = Len(stream[plan[t]])] /\ stream' = stream /\ done' = done
        /\ producers' = producers /\ failed' = failed
    BY DEF Published, EndExecute
  <2>2. \A s \in Accesses(plan[t]) : CoverKind(s, plan[t], Len(stream[plan[t]]))
    BY <1>0 DEF Published, Recording, Records
  <2>3. \A q \in Plan \ failed : \A s \in Accesses(q) : CoverKind(s, q, settled'[q])
    BY <1>0, <1>a, <2>1, <2>2 DEF Kept, LaneTypes, Streams
  <2>4. settled'[Copy] = settled[Copy]
    BY <1>0, <1>a, <2>1 DEF LaneTypes, Streams
  <2> QED  BY <1>0, <2>1, <2>3, <2>4 DEF Kept, CoverKind, Cover
<1>9. Recording'
  <2>1. \A u \in SyncThread \ {t} : Records(u)'
    BY <1>0, <1>6, <1>7, RecordsStays DEF Published, Step, EndExecute, Executors, Executing
  <2>2. Records(t)'
    BY <1>0, <1>1 DEF Published, Step, EndExecute, Records, ThreadTypes
  <2> QED  BY <2>1, <2>2 DEF Recording
<1>10. Fences'
  <2>1. \A u \in SyncThread \ {t} : Fence(u)'
    BY <1>5, <1>6, FenceStays
  <2>2. Fence(t)'
    BY <1>0 DEF Published, Step, EndExecute, Fence, ThreadTypes, Draining, lanes
  <2> QED  BY <2>1, <2>2 DEF Fences
<1>11. Places'
  <2>1. \A u \in SyncThread : WaitsFor(u)'
    BY <1>0, <1>2, SyncAssumption DEF Published, Step, EndExecute, Places, WaitsFor, ThreadTypes, TableTypes,
                                      Executors, Executing, Waiting, Draining, HostUse, lanes
  <2>2. \A r \in Storage : place'[r] = "backend" => CoverAll({}, r)'
    BY <1>0, <1>5, BackendStays DEF Published, Step, EndExecute, TableTypes
  <2> QED  BY <2>1, <2>2 DEF Places
<1> QED  BY <1>1, <1>2, <1>3, <1>4, <1>5, <1>8, <1>9, <1>10, <1>11 DEF SyncInv, SyncTypes

\* The copied tokens cover what the access must follow, since the storage's tokens do.
LEMMA LookupStep ==
    ASSUME SyncInv, NEW t \in SyncThread, Lookup(t)
    PROVE  SyncInv' /\ Advance
<1>0. LaneTypes /\ TableTypes /\ ThreadTypes /\ Lanes /\ Executors /\ Recording /\ Kept /\ Places /\ Fences
  BY DEF SyncInv, SyncTypes
<1>1. LaneTypes' /\ TableTypes'
  BY <1>0, SyncAssumption DEF Lookup, Step, LaneTypes, TableTypes, Executors, Executing, lanes, tables, Streams
<1>2. ThreadTypes'
  <2>1. base[t] \in Storage
    BY <1>0 DEF Lookup, Places, WaitsFor, Waiting
  <2>2. tokens' \in [SyncThread -> SUBSET Token]
    BY <1>0, <2>1 DEF Lookup, TableTypes, ThreadTypes
  <2>3. left' \in [SyncThread -> SUBSET (Plan \cup Storage)]
    BY <1>0 DEF Lookup, ThreadTypes
  <2> QED  BY <1>0, <2>2, <2>3 DEF Lookup, Step, ThreadTypes, Executing, Waiting, Draining, HostUse, lanes, tables,
                                   locals
<1>3. Lanes'
  BY <1>0, <1>1, SyncAssumption DEF Lookup, Step, Lanes, LaneTypes, lanes, tables, Streams
<1>4. Executors'
  BY <1>0, <1>2, SyncAssumption DEF Lookup, Step, Executors, Executing, Waiting, Draining, HostUse, ThreadTypes,
                                    Places, WaitsFor, lanes, tables
<1>5. Advance
  BY <1>0, <1>1, <1>3 DEF Lookup, Step, Advance, LaneTypes, Lanes, lanes, tables, Streams
<1>6. \A u \in SyncThread \ {t} : Same(u)
  BY <1>0 DEF Lookup, Step, Same, ThreadTypes, lanes, tables
<1>7. \A r \in Storage : TokensKept(r)
  BY <1>5, NoTokenChange DEF Lookup, Step, lanes, tables
<1>8. Kept'
  BY <1>5, <1>7, KeptStays DEF Lookup, Step, Advance, lanes, tables
<1>9. Recording'
  <2>1. \A u \in SyncThread \ {t} : Records(u)'
    BY <1>0, <1>6, <1>7, RecordsStays DEF Lookup, Step, Executors, Executing, lanes, tables
  <2>2. Records(t)'
    BY <1>0, <1>1 DEF Lookup, Step, Records, ThreadTypes, lanes, tables
  <2> QED  BY <2>1, <2>2 DEF Recording
<1>10. Fences'
  <2>1. \A u \in SyncThread \ {t} : Fence(u)'
    BY <1>5, <1>6, FenceStays
  <2>2. Fence(t)'
    <3>1. step[t] = "lookup" /\ step'[t] = "lanes" /\ tokens'[t] = producers[base[t]] /\ left'[t] \subseteq Plan
      BY <1>0 DEF Lookup, Step, ThreadTypes
    <3>2. UNCHANGED <<stream, done, settled, failed, plan, base, must, after>>
      BY DEF Lookup, lanes, tables
    <3>3. PICK s \in Storage : s = base[t]
      BY <1>0 DEF Lookup, Places, WaitsFor, Waiting
    <3>4. \A q \in Plan \ failed : s \in Accesses(q) => Cover(producers[s], q, settled[q])
      BY <1>0 DEF Kept, CoverKind, Cover
    <3>5. CoverAll(producers[s], s)
      BY <1>0, <3>4 DEF Kept, CoverAll
    <3>6. \A x \in must[t] : x.plan \in failed \cup {plan[t]} \/ Cover(producers[s], x.plan, x.at)
      <4> SUFFICES ASSUME NEW x \in must[t], x.plan \notin failed, x.plan # plan[t] PROVE Cover(producers[s], x.plan, x.at)
        OBVIOUS
      <4>1. x \in Submission /\ Returned(x, s)
        BY <1>0, <3>1, <3>3 DEF Fences, Fence, ThreadTypes
      <4>2. x.plan \in Streams /\ x.at \in Nat /\ x.at >= 1 /\ x.at <= settled[x.plan] /\ settled[x.plan] \in Nat
        BY <1>0, <4>1 DEF Submission, Returned, LaneTypes
      <4>3. CASE x.plan = Copy
        BY <1>0, <4>1, <4>2, <4>3 DEF Returned, Kept
      <4>4. CASE x.plan \in Plan
        <5>1. Cover(producers[s], x.plan, settled[x.plan])
          BY <3>4, <4>1, <4>4 DEF Returned
        <5>2. done[x.plan] \in Nat /\ \A y \in producers[s] : y.upto \in Nat
          BY <1>0, <4>2 DEF LaneTypes, TableTypes, Token
        <5> QED  BY <4>2, <5>1, <5>2 DEF Cover
      <4> QED  BY <4>2, <4>3, <4>4 DEF Streams
    <3> QED  BY <3>1, <3>2, <3>3, <3>5, <3>6 DEF Fence, Draining, Cover, CoverAll
  <2> QED  BY <2>1, <2>2 DEF Fences
<1>11. Places'
  <2>1. \A u \in SyncThread : WaitsFor(u)'
    BY <1>0, <1>2, SyncAssumption DEF Lookup, Step, Places, WaitsFor, ThreadTypes, TableTypes, Executors, Executing,
                                      Waiting, Draining, HostUse, lanes, tables
  <2>2. \A r \in Storage : place'[r] = "backend" => CoverAll({}, r)'
    BY <1>0, <1>5, BackendStays DEF Lookup, Step, lanes, tables, TableTypes
  <2> QED  BY <2>1, <2>2 DEF Places
<1> QED  BY <1>1, <1>2, <1>3, <1>4, <1>5, <1>8, <1>9, <1>10, <1>11 DEF SyncInv, SyncTypes

\* Visiting a lane keeps the copied tokens.
LEMMA VisitLaneStep ==
    ASSUME SyncInv, NEW t \in SyncThread, VisitLane(t)
    PROVE  SyncInv' /\ Advance
<1>0. LaneTypes /\ TableTypes /\ ThreadTypes /\ Lanes /\ Executors /\ Recording /\ Kept /\ Places /\ Fences
  BY DEF SyncInv, SyncTypes
<1>1. LaneTypes' /\ TableTypes'
  BY <1>0, SyncAssumption DEF VisitLane, Step, LaneTypes, TableTypes, Executors, Executing, lanes, tables, Streams
<1>2. ThreadTypes'
  <2>1. PICK p \in left[t] :
          /\ left' = [left EXCEPT ![t] = @ \ {p}]
          /\ IF Unpublished(p)
             THEN /\ token' = [token EXCEPT ![t] = [plan |-> p, upto |-> Len(stream[p]), seq |-> submitted[p]]]
                  /\ Step(t, "laneWait")
             ELSE UNCHANGED <<token, step>>
    BY Zenon DEF VisitLane
  <2>2. p \in Plan
    BY <1>0 DEF VisitLane, Fences, Fence, Draining
  <2>3. [plan |-> p, upto |-> Len(stream[p]), seq |-> submitted[p]] \in [plan : Plan \cup {NoPlan}, upto : Nat, seq : Nat]
    BY <1>0, <2>2 DEF LaneTypes, Streams
  <2>4. token' \in [SyncThread -> [plan : Plan \cup {NoPlan}, upto : Nat, seq : Nat]]
    BY <1>0, <2>1, <2>3 DEF ThreadTypes
  <2>5. step' \in [SyncThread -> {"idle"} \cup Executing \cup Waiting] /\ left' \in [SyncThread -> SUBSET (Plan \cup Storage)]
    BY <1>0, <2>1 DEF ThreadTypes, Step, Executing, Waiting, Draining, HostUse
  <2> QED  BY <1>0, <2>4, <2>5 DEF VisitLane, ThreadTypes, lanes, tables, locals
<1>3. Lanes'
  BY <1>0, <1>1, SyncAssumption DEF VisitLane, Step, Lanes, LaneTypes, lanes, tables, Streams
<1>4. Executors'
  BY <1>0, <1>2, SyncAssumption DEF VisitLane, Step, Executors, Executing, Waiting, Draining, HostUse, ThreadTypes,
                                    Places, WaitsFor, lanes, tables
<1>5. Advance
  BY <1>0, <1>1, <1>3 DEF VisitLane, Step, Advance, LaneTypes, Lanes, lanes, tables, Streams
<1>6. \A u \in SyncThread \ {t} : Same(u)
  BY <1>0 DEF VisitLane, Step, Same, ThreadTypes, lanes, tables
<1>7. \A r \in Storage : TokensKept(r)
  BY <1>5, NoTokenChange DEF VisitLane, Step, lanes, tables
<1>8. Kept'
  BY <1>5, <1>7, KeptStays DEF VisitLane, Step, Advance, lanes, tables
<1>9. Recording'
  <2>1. \A u \in SyncThread \ {t} : Records(u)'
    BY <1>0, <1>6, <1>7, RecordsStays DEF VisitLane, Step, Executors, Executing, lanes, tables
  <2>2. Records(t)'
    BY <1>0, <1>1 DEF VisitLane, Step, Records, ThreadTypes, lanes, tables
  <2> QED  BY <2>1, <2>2 DEF Recording
<1>10. Fences'
  <2>1. \A u \in SyncThread \ {t} : Fence(u)'
    BY <1>5, <1>6, FenceStays
  <2>2. Fence(t)'
    <3>1. step[t] = "lanes" /\ step'[t] \in Draining /\ left'[t] \subseteq left[t]
      BY <1>0 DEF VisitLane, Step, ThreadTypes, Draining
    <3>2. UNCHANGED <<lanes, failed, plan, base, tokens, must, after>>
      BY DEF VisitLane, tables
    <3>3. Fence(t)
      BY <1>0 DEF Fences
    <3> QED  BY <3>1, <3>2, <3>3 DEF Fence, Draining, Cover, CoverAll, lanes
  <2> QED  BY <2>1, <2>2 DEF Fences
<1>11. Places'
  <2>1. \A u \in SyncThread : WaitsFor(u)'
    BY <1>0, <1>2, SyncAssumption DEF VisitLane, Step, Places, WaitsFor, ThreadTypes, TableTypes, Executors,
                                      Executing, Waiting, Draining, HostUse, lanes, tables
  <2>2. \A r \in Storage : place'[r] = "backend" => CoverAll({}, r)'
    BY <1>0, <1>5, BackendStays DEF VisitLane, Step, lanes, tables, TableTypes
  <2> QED  BY <2>1, <2>2 DEF Places
<1> QED  BY <1>1, <1>2, <1>3, <1>4, <1>5, <1>8, <1>9, <1>10, <1>11 DEF SyncInv, SyncTypes

\* A drained lane changes the counts alone.
LEMMA LaneDrainedStep ==
    ASSUME SyncInv, NEW t \in SyncThread, LaneDrained(t)
    PROVE  SyncInv' /\ Advance
<1>0. LaneTypes /\ TableTypes /\ ThreadTypes /\ Lanes /\ Executors /\ Recording /\ Kept /\ Places /\ Fences
  BY DEF SyncInv, SyncTypes
<1>1. LaneTypes' /\ TableTypes'
  <2>1. token[t].seq \in Nat
    BY <1>0 DEF ThreadTypes
  <2>2. covered' \in [Plan -> Nat]
    BY <1>0, <2>1 DEF LaneDrained, LaneTypes
  <2> QED  BY <1>0, <2>2 DEF LaneDrained, LaneTypes, TableTypes, tables
<1>2. ThreadTypes'
  BY <1>0, SyncAssumption DEF LaneDrained, Step, ThreadTypes, Executing, Waiting, Draining, HostUse, Executors,
                              TableTypes, lanes, tables, locals
<1>3. Lanes'
  BY <1>0, <1>1, SyncAssumption DEF LaneDrained, Step, Lanes, LaneTypes, lanes, tables, locals, Streams
<1>4. Executors'
  BY <1>0, <1>2, SyncAssumption DEF LaneDrained, Step, Executors, Executing, Waiting, Draining, HostUse, ThreadTypes,
                                    Places, WaitsFor, lanes, tables, locals
<1>5. Advance
  BY <1>0, <1>1, <1>3 DEF LaneDrained, Step, Advance, LaneTypes, Lanes, lanes, tables, locals, Streams
<1>6. \A u \in SyncThread \ {t} : Same(u)
  BY <1>0 DEF LaneDrained, Step, Same, ThreadTypes, lanes, tables, locals
<1>7. \A r \in Storage : TokensKept(r)
  BY <1>5, NoTokenChange DEF LaneDrained, Step, lanes, tables, locals
<1>8. Kept'
  BY <1>5, <1>7, KeptStays DEF LaneDrained, Step, Advance, lanes, tables, locals
<1>9. Recording'
  <2>1. \A u \in SyncThread \ {t} : Records(u)'
    BY <1>0, <1>6, <1>7, RecordsStays DEF LaneDrained, Step, Executors, Executing, lanes, tables, locals
  <2>2. Records(t)'
    BY <1>0, <1>1 DEF LaneDrained, Step, Records, ThreadTypes, lanes, tables, locals
  <2> QED  BY <2>1, <2>2 DEF Recording
<1>10. Fences'
  <2>1. \A u \in SyncThread \ {t} : Fence(u)'
    BY <1>5, <1>6, FenceStays
  <2>2. Fence(t)'
    <3>1. step[t] = "laneWait" /\ step'[t] = "lanes"
      BY <1>0 DEF LaneDrained, Step, ThreadTypes
    <3>2. UNCHANGED <<stream, done, settled, failed, plan, left, base, tokens, must, after>>
      BY DEF LaneDrained, tables, locals
    <3>3. Fence(t)
      BY <1>0 DEF Fences
    <3> QED  BY <3>1, <3>2, <3>3 DEF Fence, Draining, Cover, CoverAll
  <2> QED  BY <2>1, <2>2 DEF Fences
<1>11. Places'
  <2>1. \A u \in SyncThread : WaitsFor(u)'
    BY <1>0, <1>2, SyncAssumption DEF LaneDrained, Step, Places, WaitsFor, ThreadTypes, TableTypes, Executors,
                                      Executing, Waiting, Draining, HostUse, lanes, tables, locals
  <2>2. \A r \in Storage : place'[r] = "backend" => CoverAll({}, r)'
    BY <1>0, <1>5, BackendStays DEF LaneDrained, Step, lanes, tables, locals, TableTypes
  <2> QED  BY <2>1, <2>2 DEF Places
<1> QED  BY <1>1, <1>2, <1>3, <1>4, <1>5, <1>8, <1>9, <1>10, <1>11 DEF SyncInv, SyncTypes

\* Tokens that have been waited for are dropped from the table: nothing needs them.
LEMMA TokensWaitedStep ==
    ASSUME SyncInv, NEW t \in SyncThread, TokensWaited(t)
    PROVE  SyncInv' /\ Advance
<1>0. LaneTypes /\ TableTypes /\ ThreadTypes /\ Lanes /\ Executors /\ Recording /\ Kept /\ Places /\ Fences
  BY DEF SyncInv, SyncTypes
<1>1. LaneTypes' /\ TableTypes'
  BY <1>0, SyncAssumption DEF TokensWaited, Step, LaneTypes, TableTypes, Executors, Executing, lanes, locals, Streams
<1>2. ThreadTypes'
  BY <1>0, SyncAssumption DEF TokensWaited, Step, ThreadTypes, Executing, Waiting, Draining, HostUse, Executors,
                              TableTypes, lanes, locals, Streams
<1>3. Lanes'
  BY <1>0, <1>1, SyncAssumption DEF TokensWaited, Step, Lanes, LaneTypes, lanes, locals, Streams
<1>4. Executors'
  BY <1>0, <1>2, SyncAssumption DEF TokensWaited, Step, Executors, Executing, Waiting, Draining, HostUse,
                                    ThreadTypes, Places, WaitsFor, lanes, locals
<1>5. Advance
  BY <1>0, <1>1, <1>3 DEF TokensWaited, Step, Advance, LaneTypes, Lanes, lanes, locals, Streams
<1>6. \A u \in SyncThread \ {t} : Same(u)
  BY <1>0 DEF TokensWaited, Step, Same, ThreadTypes, lanes, locals
<1>7. \A r \in Storage : TokensKept(r)
  <2> SUFFICES ASSUME NEW s \in Storage, NEW q \in Streams, NEW n \in 0..Len(stream[q])
               PROVE  /\ CoverKind(s, q, n) => CoverKind(s, q, n)'
                      /\ Cover(producers[s], q, n) => Cover(producers[s], q, n)'
    BY DEF TokensKept
  <2>1. \A y \in producers[s] : y.plan = q /\ y.upto >= n => y \in producers'[s] \/ done[q] >= n
    <3>1. \A y \in producers[s] : y \notin producers'[s] => done[y.plan] >= y.upto
      BY <1>0 DEF TokensWaited, TableTypes
    <3>2. \A y \in producers[s] : y.upto \in Nat
      BY <1>0 DEF TableTypes, Token
    <3>3. n \in Int /\ done[q] \in Nat
      BY <1>0 DEF LaneTypes
    <3> QED  BY <3>1, <3>2, <3>3
  <2>2. done' = done
    BY DEF TokensWaited, lanes
  <2> QED  BY <2>1, <2>2 DEF Cover, CoverKind
<1>8. Kept'
  BY <1>5, <1>7, KeptStays DEF TokensWaited, Step, Advance, lanes, locals
<1>9. Recording'
  <2>1. \A u \in SyncThread \ {t} : Records(u)'
    BY <1>0, <1>6, <1>7, RecordsStays DEF TokensWaited, Step, Executors, Executing, lanes, locals
  <2>2. Records(t)'
    BY <1>0, <1>1 DEF TokensWaited, Step, Records, ThreadTypes, lanes, locals
  <2> QED  BY <2>1, <2>2 DEF Recording
<1>10. Fences'
  <2>1. \A u \in SyncThread \ {t} : Fence(u)'
    BY <1>5, <1>6, FenceStays
  <2>2. Fence(t)'
    <3>1. step[t] = "lanes" /\ step'[t] = "access" /\ \A y \in tokens[t] : done[y.plan] >= y.upto /\ y.upto \in Nat /\ done[y.plan] \in Nat
      BY <1>0 DEF TokensWaited, Step, ThreadTypes, LaneTypes, Token
    <3>2. UNCHANGED <<stream, done, settled, failed, plan, base, must, after>>
      BY DEF TokensWaited, lanes, locals
    <3>3. Fence(t) /\ \A x \in must[t] : x.at \in Nat /\ x.plan \in Streams
      BY <1>0 DEF Fences, ThreadTypes, Submission
    <3>4. \A q \in Streams, n \in Nat : Cover(tokens[t], q, n) => done[q] >= n
      BY <1>0, <3>1 DEF Cover, LaneTypes
    <3>5. \A x \in must[t] : x.plan \in failed \cup {plan[t]} \/ IsDone(x)
      BY <1>0, <3>1, <3>3, <3>4 DEF Fence, Draining, IsDone, LaneTypes
    <3>6. after[t] = "free" => CoverAll({}, base[t])
      <4> SUFFICES ASSUME after[t] = "free" PROVE CoverAll({}, base[t])
        OBVIOUS
      <4>1. CoverAll(tokens[t], base[t])
        BY <3>1, <3>3 DEF Fence, Draining
      <4>2. \A q \in Plan \ failed : base[t] \in Accesses(q) => done[q] >= settled[q]
        BY <1>0, <3>4, <4>1 DEF CoverAll, LaneTypes, Streams
      <4>3. \A i \in 1..settled[Copy] : base[t] \in stream[Copy][i].touches => done[Copy] >= i
        BY <3>4, <4>1 DEF CoverAll, Streams
      <4> QED  BY <4>2, <4>3 DEF CoverAll, Cover
    <3> QED  BY <3>1, <3>2, <3>5, <3>6 DEF Fence, Draining, CoverAll, Cover, IsDone
  <2> QED  BY <2>1, <2>2 DEF Fences
<1>11. Places'
  <2>1. \A u \in SyncThread : WaitsFor(u)'
    BY <1>0, <1>2, SyncAssumption DEF TokensWaited, Step, Places, WaitsFor, ThreadTypes, TableTypes, Executors,
                                      Executing, Waiting, Draining, HostUse, lanes, locals
  <2>2. \A r \in Storage : place'[r] = "backend" => CoverAll({}, r)'
    BY <1>0, <1>5, BackendStays DEF TokensWaited, Step, lanes, locals, TableTypes
  <2> QED  BY <2>1, <2>2 DEF Places
<1> QED  BY <1>1, <1>2, <1>3, <1>4, <1>5, <1>8, <1>9, <1>10, <1>11 DEF SyncInv, SyncTypes

\* The access opens a place, or enqueues a copy together with its token.
LEMMA AccessStep ==
    ASSUME SyncInv, NEW t \in SyncThread, Access(t)
    PROVE  SyncInv' /\ Advance
<1>0. LaneTypes /\ TableTypes /\ ThreadTypes /\ Lanes /\ Executors /\ Recording /\ Kept /\ Places /\ Fences
  BY DEF SyncInv, SyncTypes
<1> DEFINE e(r) == [touches |-> {r}, after |-> {}, owes |-> {}]
<1>a. PICK s \in Storage : s = base[t]
  BY <1>0 DEF Access, Places, WaitsFor, Waiting
<1>b. /\ step[t] = "access" /\ UNCHANGED <<submitted, covered, copiesSeen, done, busy, failed, plan, gate, owes, token, left, spent>>
      /\ must' = [must EXCEPT ![t] = {}] /\ tokens' = [tokens EXCEPT ![t] = {}] /\ base' = [base EXCEPT ![t] = NoStorage]
      /\ after' = [after EXCEPT ![t] = "none"] /\ next' = IF after[t] = "stage" THEN [next EXCEPT ![t] = @ + 1] ELSE next
      /\ step' = [step EXCEPT ![t] = IF after[t] = "stage" THEN "op" ELSE "idle"]
  BY DEF Access, Step
<1>c. \/ after[t] \in HostUse /\ place[s] = "used" /\ place' = place
      \/ after[t] = "alloc" /\ place[s] = "taken" /\ place' = [place EXCEPT ![s] = "used"]
      \/ after[t] = "free" /\ place[s] = "leaving" /\ place' = [place EXCEPT ![s] = "backend"]
  BY <1>0, <1>a, <1>b DEF Access, Places, WaitsFor, HostUse, Waiting
<1>d. \/ stream' = stream /\ settled' = settled /\ producers' = producers
      \/ /\ after[t] = "copyin"
         /\ stream' = [stream EXCEPT ![Copy] = Append(@, e(s))]
         /\ settled' = [settled EXCEPT ![Copy] = @ + 1]
         /\ producers' = [producers EXCEPT ![s] = Recorded(s, Copy, settled'[Copy], TRUE)]
  BY <1>a, Zenon DEF Access, EnqueueCopy
<1>e. Copy \in Streams /\ Copy \notin Plan
  BY SyncAssumption DEF Streams
<1>f. e(s) \in Launched /\ e(s).touches = {s}
  BY DEF Launched
<1> HIDE DEF e
\* The copy lane, when it is appended to.
<1>g. ASSUME after[t] = "copyin", stream' = [stream EXCEPT ![Copy] = Append(@, e(s))], settled' = [settled EXCEPT ![Copy] = @ + 1],
             producers' = [producers EXCEPT ![s] = Recorded(s, Copy, settled'[Copy], TRUE)]
      PROVE  /\ stream'[Copy] \in Seq(Launched) /\ Len(stream[Copy]) \in Nat /\ Len(stream'[Copy]) = Len(stream[Copy]) + 1
             /\ \A i \in 1..Len(stream[Copy]) : stream'[Copy][i] = stream[Copy][i]
             /\ stream'[Copy][Len(stream[Copy]) + 1] = e(s)
             /\ \A q \in Plan : stream'[q] = stream[q] /\ settled'[q] = settled[q]
             /\ settled[Copy] = Len(stream[Copy]) /\ settled'[Copy] = Len(stream[Copy]) + 1
             /\ producers'[s] \subseteq Token
             /\ \A y \in producers[s] : y.plan # Copy => y \in producers'[s]
             /\ \E y \in producers'[s] : y.plan = Copy /\ y.upto = Len(stream[Copy]) + 1 /\ y.writes
             /\ \A r \in Storage \ {s} : producers'[r] = producers[r]
  <2>1. /\ stream'[Copy] \in Seq(Launched) /\ Len(stream[Copy]) \in Nat /\ Len(stream'[Copy]) = Len(stream[Copy]) + 1
        /\ \A i \in 1..Len(stream[Copy]) : stream'[Copy][i] = stream[Copy][i]
        /\ stream'[Copy][Len(stream[Copy]) + 1] = e(s)
    <3>1. stream[Copy] \in Seq(Launched) /\ stream'[Copy] = Append(stream[Copy], e(s))
      BY <1>0, <1>e, <1>g DEF LaneTypes
    <3> QED  BY <1>f, <3>1, LaunchAppended
  <2>2. \A q \in Plan : stream'[q] = stream[q] /\ settled'[q] = settled[q]
    BY <1>0, <1>e, <1>g DEF LaneTypes, Streams
  <2>3. settled[Copy] = Len(stream[Copy]) /\ settled'[Copy] = Len(stream[Copy]) + 1
    BY <1>0, <1>e, <1>g DEF LaneTypes, Lanes
  <2>4. PICK n \in Nat : n = settled'[Copy]
    BY <2>1, <2>3
  <2>5. producers'[s] = Recorded(s, Copy, n, s \in {s}) /\ \A r \in Storage \ {s} : producers'[r] = producers[r]
    <3>1. producers'[s] = Recorded(s, Copy, n, TRUE) /\ \A r \in Storage \ {s} : producers'[r] = producers[r]
      BY <1>0, <1>g, <2>4 DEF TableTypes
    <3> QED  BY <3>1, RecordedCopy
  <2>6. /\ producers'[s] \subseteq Token
        /\ \A y \in producers[s] : y.plan # Copy => y \in producers'[s]
        /\ \E y \in producers'[s] : y.plan = Copy /\ y.upto = n /\ (s \in {s} => y.writes)
    BY <1>0, <1>e, <2>5, RecordedTokens
  <2>7. \E y \in producers'[s] : y.plan = Copy /\ y.upto = Len(stream[Copy]) + 1 /\ y.writes
    BY <2>3, <2>4, <2>6
  <2> QED  BY <2>1, <2>2, <2>3, <2>5, <2>6, <2>7
<1>1. LaneTypes' /\ TableTypes'
  <2>1. stream' \in [Streams -> Seq(Launched)] /\ settled' \in [Streams -> Nat] /\ producers' \in [Storage -> SUBSET Token]
    <3>1. CASE stream' = stream /\ settled' = settled /\ producers' = producers
      BY <1>0, <3>1 DEF LaneTypes, TableTypes
    <3>2. CASE ~(stream' = stream /\ settled' = settled /\ producers' = producers)
      <4>1. /\ stream' = [stream EXCEPT ![Copy] = Append(@, e(s))] /\ stream'[Copy] \in Seq(Launched)
            /\ settled' = [settled EXCEPT ![Copy] = @ + 1] /\ producers'[s] \subseteq Token
            /\ producers' = [producers EXCEPT ![s] = Recorded(s, Copy, settled'[Copy], TRUE)]
        BY <1>d, <1>g, <3>2
      <4>2. stream' \in [Streams -> Seq(Launched)]
        BY <1>0, <1>e, <4>1 DEF LaneTypes
      <4>3. settled' \in [Streams -> Nat]
        BY <1>0, <1>e, <4>1 DEF LaneTypes
      <4>4. producers' \in [Storage -> SUBSET Token]
        BY <1>0, <4>1 DEF TableTypes
      <4> QED  BY <4>2, <4>3, <4>4
    <3> QED  BY <3>1, <3>2
  <2>2. place' \in [Storage -> {"used", "pooled", "leaving", "taken", "backend"}]
    BY <1>0, <1>c DEF TableTypes
  <2>3. done' = done /\ submitted' = submitted /\ covered' = covered /\ copiesSeen' = copiesSeen /\ busy' = busy /\ failed' = failed
    BY <1>b
  <2> QED  BY <1>0, <2>1, <2>2, <2>3 DEF LaneTypes, TableTypes
<1>2. ThreadTypes'
  BY <1>0, SyncAssumption DEF Access, Step, EnqueueCopy, ThreadTypes, Executing, Waiting, Draining, HostUse,
                              Executors, TableTypes, lanes, Streams
<1>3. Lanes'
  <2>1. CASE stream' = stream /\ settled' = settled
    BY <1>0, <1>b, <2>1 DEF Lanes
  <2>2. CASE ~(stream' = stream /\ settled' = settled)
    <3>1. /\ Len(stream[Copy]) \in Nat /\ Len(stream'[Copy]) = Len(stream[Copy]) + 1 /\ settled'[Copy] = Len(stream[Copy]) + 1
          /\ \A q \in Plan : stream'[q] = stream[q] /\ settled'[q] = settled[q]
      BY <1>d, <1>g, <2>2
    <3>2. done'[Copy] <= Len(stream'[Copy]) /\ settled'[Copy] <= Len(stream'[Copy])
      BY <1>0, <1>b, <1>e, <3>1 DEF Lanes, LaneTypes
    <3> QED  BY <1>0, <1>b, <3>1, <3>2 DEF Lanes, Streams
  <2> QED  BY <2>1, <2>2
<1>4. Executors'
  <2>1. \A u \in SyncThread : plan[u] \in Plan => \A r \in Accesses(plan[u]) : place'[r] = "used"
    BY <1>0, <1>c, AccessesContain DEF Executors, TableTypes
  <2>2. \A u \in SyncThread \ {t} : step'[u] = step[u] /\ after'[u] = after[u] /\ next'[u] = next[u]
    BY <1>0, <1>b DEF ThreadTypes
  <2>3. plan' = plan /\ busy' = busy /\ failed' = failed /\ after'[t] = "none" /\ step'[t] # "launch"
    BY <1>0, <1>b DEF ThreadTypes
  <2>4. step'[t] \in Executing => after[t] = "stage"
    BY <1>0, <1>b DEF ThreadTypes, Executing
  <2> QED  BY <1>0, <2>1, <2>2, <2>3, <2>4 DEF Executors
<1>5. Advance
  <2>1. \A q \in Streams : done[q] \in Nat /\ done'[q] = done[q] /\ settled[q] \in Nat /\ settled'[q] \in Nat
    BY <1>0, <1>1, <1>b DEF LaneTypes
  <2>2. CASE stream' = stream /\ settled' = settled
    BY <1>b, <2>1, <2>2, <1>e DEF Advance
  <2>3. CASE ~(stream' = stream /\ settled' = settled)
    <3>1. /\ Len(stream[Copy]) \in Nat /\ settled[Copy] = Len(stream[Copy]) /\ settled'[Copy] = Len(stream[Copy]) + 1
          /\ \A i \in 1..Len(stream[Copy]) : stream'[Copy][i] = stream[Copy][i]
          /\ stream'[Copy][Len(stream[Copy]) + 1] = e(s)
          /\ \A q \in Plan : stream'[q] = stream[q] /\ settled'[q] = settled[q]
      BY <1>d, <1>g, <2>3
    <3>2. place[s] = "used"
      BY <1>c, <1>d, <2>3
    <3>3. \A q \in Streams : settled[q] <= settled'[q]
      BY <2>1, <3>1 DEF Streams
    <3>4. \A i \in 1..settled'[Copy] : i <= settled[Copy] \/ \A r \in stream'[Copy][i].touches : place[r] = "used"
      <4> SUFFICES ASSUME NEW i \in 1..settled'[Copy], ~(i <= settled[Copy]) PROVE stream'[Copy][i].touches = {s}
        BY <3>2
      <4>1. i = Len(stream[Copy]) + 1
        BY <3>1
      <4> QED  BY <1>f, <3>1, <4>1
    <3> QED  BY <1>b, <2>1, <3>1, <3>3, <3>4 DEF Advance
  <2> QED  BY <2>2, <2>3
<1>6. \A u \in SyncThread \ {t} : Same(u)
  BY <1>0 DEF Access, Step, EnqueueCopy, Same, ThreadTypes
<1>7. \A r \in Storage : TokensKept(r)
  <2>1. CASE producers' = producers
    BY <1>5, <2>1, NoTokenChange
  <2>2. CASE producers' # producers
    <3>1. /\ Len(stream[Copy]) \in Nat
          /\ \A y \in producers[s] : y.plan # Copy => y \in producers'[s]
          /\ \E y \in producers'[s] : y.plan = Copy /\ y.upto = Len(stream[Copy]) + 1 /\ y.writes
          /\ \A r \in Storage \ {s} : producers'[r] = producers[r]
      BY <1>d, <1>g, <2>2
    <3> SUFFICES ASSUME NEW r \in Storage, NEW q \in Streams, NEW m \in 0..Len(stream[q])
                 PROVE  /\ CoverKind(r, q, m) => CoverKind(r, q, m)'
                        /\ Cover(producers[r], q, m) => Cover(producers[r], q, m)'
      BY DEF TokensKept
    <3>2. done' = done
      BY <1>b
    <3>3. CASE r # s
      BY <3>1, <3>2, <3>3 DEF Cover, CoverKind
    <3>4. CASE r = s /\ q # Copy
      BY <3>1, <3>2, <3>4 DEF Cover, CoverKind
    <3>5. CASE r = s /\ q = Copy
      <4>1. \E y \in producers'[s] : y.plan = q /\ y.upto >= m /\ y.writes
        BY <3>1, <3>5
      <4> QED  BY <3>5, <4>1 DEF Cover, CoverKind
    <3> QED  BY <3>3, <3>4, <3>5
  <2> QED  BY <2>1, <2>2
<1>8. Kept'
  <2>1. CASE stream' = stream /\ settled' = settled
    BY <1>5, <1>7, <2>1, KeptStays DEF Advance
  <2>2. CASE ~(stream' = stream /\ settled' = settled)
    <3>1. /\ Len(stream[Copy]) \in Nat /\ settled[Copy] = Len(stream[Copy]) /\ settled'[Copy] = Len(stream[Copy]) + 1
          /\ \A i \in 1..Len(stream[Copy]) : stream'[Copy][i] = stream[Copy][i]
          /\ stream'[Copy][Len(stream[Copy]) + 1] = e(s)
          /\ \A q \in Plan : settled'[q] = settled[q]
          /\ \E y \in producers'[s] : y.plan = Copy /\ y.upto = Len(stream[Copy]) + 1 /\ y.writes
      BY <1>d, <1>g, <2>2
    <3>2. \A q \in Plan \ failed' : \A r \in Accesses(q) : CoverKind(r, q, settled[q])'
      <4> SUFFICES ASSUME NEW q \in Plan \ failed', NEW r \in Accesses(q) PROVE CoverKind(r, q, settled[q])'
        OBVIOUS
      <4>1. q \in Streams /\ r \in Storage /\ q \in Plan \ failed
        BY <1>b, AccessesContain DEF Streams
      <4>2. PICK n : n = settled[q] /\ n \in 0..Len(stream[q])
        BY <1>0, <4>1 DEF LaneTypes, Lanes
      <4>3. CoverKind(r, q, n)
        BY <1>0, <4>1, <4>2 DEF Kept
      <4>4. CoverKind(r, q, n)'
        BY <1>7, <4>1, <4>2, <4>3 DEF TokensKept
      <4> QED  BY <3>1, <4>2, <4>4 DEF CoverKind
    <3>3. \A i \in 1..settled'[Copy] : \A r \in stream'[Copy][i].touches : Cover(producers[r], Copy, i)'
      <4> SUFFICES ASSUME NEW i \in 1..settled'[Copy], NEW r \in stream'[Copy][i].touches PROVE Cover(producers[r], Copy, i)'
        OBVIOUS
      <4>1. CASE i = Len(stream[Copy]) + 1
        <5>1. r = s
          BY <1>f, <3>1, <4>1
        <5>2. \E y \in producers'[s] : y.plan = Copy /\ y.upto >= i
          BY <3>1, <4>1
        <5> QED  BY <5>1, <5>2 DEF Cover
      <4>2. CASE i \in 1..Len(stream[Copy])
        <5>1. r \in stream[Copy][i].touches /\ i \in 1..settled[Copy] /\ i \in 0..Len(stream[Copy])
          BY <3>1, <4>2
        <5>2. stream[Copy][i] \in Launched
          BY <1>0, <1>e, <4>2 DEF LaneTypes
        <5>3. r \in Storage /\ Cover(producers[r], Copy, i)
          BY <1>0, <5>1, <5>2 DEF Kept, Launched
        <5> QED  BY <1>7, <1>e, <5>1, <5>3 DEF TokensKept
      <4> QED  BY <3>1, <4>1, <4>2
    <3> QED  BY <3>2, <3>3 DEF Kept, Cover, CoverKind
  <2> QED  BY <2>1, <2>2
<1>9. Recording'
  <2>1. \A u \in SyncThread \ {t} : Records(u)'
    <3>1. \A q \in Plan : stream'[q] = stream[q]
      BY <1>d, <1>g
    <3> QED  BY <1>6, <1>7, <3>1, RecordsStays
  <2>2. Records(t)'
    BY <1>0, <1>1 DEF Access, Step, EnqueueCopy, Records, ThreadTypes
  <2> QED  BY <2>1, <2>2 DEF Recording
<1>10. Fences'
  <2>1. \A u \in SyncThread \ {t} : Fence(u)'
    BY <1>5, <1>6, FenceStays
  <2>2. Fence(t)'
    BY <1>0 DEF Access, Step, EnqueueCopy, Fence, ThreadTypes, Draining, lanes
  <2> QED  BY <2>1, <2>2 DEF Fences
<1>11. Places'
  <2>1. \A u \in SyncThread : WaitsFor(u)'
    BY <1>0, <1>2, SyncAssumption DEF Access, Step, EnqueueCopy, Places, WaitsFor, ThreadTypes, TableTypes,
                                      Executors, Executing, Waiting, Draining, HostUse, lanes
  <2>2. \A r \in Storage : place'[r] = "backend" => CoverAll({}, r)'
    <3> SUFFICES ASSUME NEW r \in Storage, place'[r] = "backend" PROVE CoverAll({}, r)'
      OBVIOUS
    <3>1. CASE place[r] = "backend"
      BY <1>5, <3>1, BackendStays
    <3>2. CASE place[r] # "backend"
      <4>1. r = s /\ after[t] = "free" /\ place[r] # "used"
        BY <1>0, <1>c, <3>2 DEF TableTypes
      <4>2. CoverAll({}, r)
        BY <1>0, <1>a, <1>b, <4>1 DEF Fences, Fence
      <4> QED  BY <1>5, <4>1, <4>2, CoverAllStays
    <3> QED  BY <3>1, <3>2
  <2> QED  BY <2>1, <2>2 DEF Places
<1> QED  BY <1>1, <1>2, <1>3, <1>4, <1>5, <1>8, <1>9, <1>10, <1>11 DEF SyncInv, SyncTypes

\* A host access starts with what has returned.
LEMMA HostAccessStep ==
    ASSUME SyncInv, NEW t \in SyncThread, NEW s \in Storage, NEW purpose \in {"read", "copyin"}, HostAccess(t, s, purpose)
    PROVE  SyncInv' /\ Advance
<1>0. LaneTypes /\ TableTypes /\ ThreadTypes /\ Lanes /\ Executors /\ Recording /\ Kept /\ Places /\ Fences
  BY DEF SyncInv, SyncTypes
<1>1. LaneTypes' /\ TableTypes'
  BY <1>0, SyncAssumption DEF HostAccess, Step, Called, CallWait, LaneTypes, TableTypes, Executors, Executing, lanes,
                              tables, Streams
<1>2. ThreadTypes'
  <2>1. Follows(t, s) \subseteq Submission
    BY FollowedTyped
  <2>2. must' \in [SyncThread -> SUBSET Submission]
    BY <1>0, <2>1 DEF HostAccess, Called, CallWait, Step, ThreadTypes
  <2> QED  BY <1>0, <2>2 DEF HostAccess, Called, CallWait, Step, ThreadTypes, Executing, Waiting, Draining, HostUse,
                             lanes, tables, locals
<1>3. Lanes'
  BY <1>0, <1>1, SyncAssumption DEF HostAccess, Step, Called, CallWait, Lanes, LaneTypes, lanes, tables, Streams
<1>4. Executors'
  BY <1>0, <1>2, SyncAssumption DEF HostAccess, Step, Called, CallWait, Executors, Executing, Waiting, Draining,
                                    HostUse, ThreadTypes, Places, WaitsFor, lanes, tables
<1>5. Advance
  BY <1>0, <1>1, <1>3 DEF HostAccess, Step, Called, CallWait, Advance, LaneTypes, Lanes, lanes, tables, Streams
<1>6. \A u \in SyncThread \ {t} : Same(u)
  BY <1>0 DEF HostAccess, Step, Called, CallWait, Same, ThreadTypes, lanes, tables
<1>7. \A r \in Storage : TokensKept(r)
  BY <1>5, NoTokenChange DEF HostAccess, Step, Called, CallWait, lanes, tables
<1>8. Kept'
  BY <1>5, <1>7, KeptStays DEF HostAccess, Step, Called, CallWait, Advance, lanes, tables
<1>9. Recording'
  <2>1. \A u \in SyncThread \ {t} : Records(u)'
    BY <1>0, <1>6, <1>7, RecordsStays DEF HostAccess, Step, Called, CallWait, Executors, Executing, lanes, tables
  <2>2. Records(t)'
    BY <1>0, <1>1 DEF HostAccess, Step, Called, CallWait, Records, ThreadTypes, lanes, tables
  <2> QED  BY <2>1, <2>2 DEF Recording
<1>10. Fences'
  <2>1. \A u \in SyncThread \ {t} : Fence(u)'
    BY <1>5, <1>6, FenceStays
  <2>2. Fence(t)'
    <3>1. step'[t] = "lookup" /\ base'[t] = s /\ must'[t] = Follows(t, s) /\ plan'[t] = plan[t]
      BY <1>0 DEF HostAccess, Called, CallWait, Step, ThreadTypes
    <3>2. \A x \in Follows(t, s) : x.plan = plan[t] \/ Returned(x, s)
      BY FollowsReturned
    <3>3. \A x \in Follows(t, s) : Returned(x, s) => Returned(x, s)'
      BY DEF HostAccess, Called, CallWait, Step, Returned, lanes, tables
    <3> QED  BY <3>1, <3>2, <3>3 DEF Fence, Draining, Returned
  <2> QED  BY <2>1, <2>2 DEF Fences
<1>11. Places'
  <2>1. \A u \in SyncThread : WaitsFor(u)'
    BY <1>0, <1>2, SyncAssumption DEF HostAccess, Step, Called, CallWait, Places, WaitsFor, ThreadTypes, TableTypes,
                                      Executors, Executing, Waiting, Draining, HostUse, lanes, tables
  <2>2. \A r \in Storage : place'[r] = "backend" => CoverAll({}, r)'
    BY <1>0, <1>5, BackendStays DEF HostAccess, Step, Called, CallWait, lanes, tables, TableTypes
  <2> QED  BY <2>1, <2>2 DEF Places
<1> QED  BY <1>1, <1>2, <1>3, <1>4, <1>5, <1>8, <1>9, <1>10, <1>11 DEF SyncInv, SyncTypes

\* A storage that is freed has no user; it is pooled, or waited for.
LEMMA FreeBufferStep ==
    ASSUME SyncInv, NEW t \in SyncThread, NEW s \in Storage, FreeBuffer(t, s)
    PROVE  SyncInv' /\ Advance
<1>0. LaneTypes /\ TableTypes /\ ThreadTypes /\ Lanes /\ Executors /\ Recording /\ Kept /\ Places /\ Fences
  BY DEF SyncInv, SyncTypes
<1>a. /\ place[s] = "used" /\ step[t] = "idle" /\ \A u \in SyncThread : base[u] # s
      /\ \A q \in busy : s \notin Accesses(q)
  BY DEF FreeBuffer, Called, Idle
<1>b. UNCHANGED <<lanes, producers, busy, failed, plan, next, gate, owes, token, left, tokens>>
  BY DEF FreeBuffer
<1>c. \/ place' = [place EXCEPT ![s] = "pooled"] /\ UNCHANGED <<base, after, must, step>>
      \/ place' = [place EXCEPT ![s] = "leaving"] /\ CallWait(t, s, "free")
  BY DEF FreeBuffer
<1>1. LaneTypes' /\ TableTypes'
  BY <1>0, <1>b, <1>c DEF LaneTypes, TableTypes, lanes
<1>2. ThreadTypes'
  <2>1. Follows(t, s) \subseteq Submission
    BY FollowedTyped
  <2>2. must' \in [SyncThread -> SUBSET Submission]
    BY <1>0, <1>c, <2>1 DEF CallWait, ThreadTypes
  <2>3. /\ step' \in [SyncThread -> {"idle"} \cup Executing \cup Waiting] /\ base' \in [SyncThread -> Storage \cup {NoStorage}]
        /\ after' \in [SyncThread -> {"none", "free", "alloc"} \cup HostUse]
    <3>1. CASE UNCHANGED <<base, after, must, step>>
      BY <1>0, <3>1 DEF ThreadTypes
    <3>2. CASE CallWait(t, s, "free")
      BY <1>0, <3>2 DEF CallWait, Step, ThreadTypes, Executing, Waiting, Draining, HostUse
    <3> QED  BY <1>c, <3>1, <3>2
  <2>4. /\ plan' = plan /\ next' = next /\ gate' = gate /\ owes' = owes /\ token' = token /\ left' = left
        /\ tokens' = tokens
    BY <1>b
  <2>5. /\ plan' \in [SyncThread -> Plan \cup {NoPlan}] /\ next' \in [SyncThread -> Nat \ {0}]
        /\ gate' \in [SyncThread -> SUBSET Submission] /\ owes' \in [SyncThread -> SUBSET Submission]
        /\ token' \in [SyncThread -> [plan : Plan \cup {NoPlan}, upto : Nat, seq : Nat]]
        /\ left' \in [SyncThread -> SUBSET (Plan \cup Storage)] /\ tokens' \in [SyncThread -> SUBSET Token]
    BY <1>0, <2>4 DEF ThreadTypes
  <2> QED  BY <2>2, <2>3, <2>5 DEF ThreadTypes, Executing, Waiting, Draining, HostUse
<1>3. Lanes'
  BY <1>0, <1>1, SyncAssumption DEF FreeBuffer, Step, Called, CallWait, Idle, Lanes, LaneTypes, lanes, Streams
<1>4. Executors'
  <2>1. \A u \in SyncThread : plan[u] \in Plan => s \notin Accesses(plan[u])
    BY <1>0, <1>a DEF Executors
  <2>2. \A r \in Storage \ {s} : place'[r] = place[r]
    BY <1>0, <1>c DEF TableTypes
  <2>3. \A u \in SyncThread : plan[u] \in Plan => \A r \in Accesses(plan[u]) : place'[r] = place[r]
    BY <2>1, <2>2, AccessesContain
  <2>4. \A u \in SyncThread : (step'[u] \in Executing \/ after'[u] = "stage") => (step[u] \in Executing \/ after[u] = "stage")
    BY <1>0, <1>c DEF CallWait, Step, ThreadTypes, Executing
  <2>5. \A u \in SyncThread : step'[u] = "launch" => step[u] = "launch"
    BY <1>0, <1>c DEF CallWait, Step, ThreadTypes
  <2> QED  BY <1>0, <1>b, <2>3, <2>4, <2>5 DEF Executors
<1>5. Advance
  BY <1>0, <1>1, <1>3 DEF FreeBuffer, Step, Called, CallWait, Idle, Advance, LaneTypes, Lanes, lanes, Streams
<1>6. \A u \in SyncThread \ {t} : Same(u)
  BY <1>0 DEF FreeBuffer, Step, Called, CallWait, Idle, Same, ThreadTypes, lanes
<1>7. \A r \in Storage : TokensKept(r)
  BY <1>5, NoTokenChange DEF FreeBuffer, Step, Called, CallWait, Idle, lanes
<1>8. Kept'
  BY <1>5, <1>7, KeptStays DEF FreeBuffer, Step, Called, CallWait, Idle, Advance, lanes
<1>9. Recording'
  <2>1. \A u \in SyncThread \ {t} : Records(u)'
    BY <1>0, <1>6, <1>7, RecordsStays DEF FreeBuffer, Step, Called, CallWait, Idle, Executors, Executing, lanes
  <2>2. Records(t)'
    BY <1>0, <1>1 DEF FreeBuffer, Step, Called, CallWait, Idle, Records, ThreadTypes, lanes
  <2> QED  BY <2>1, <2>2 DEF Recording
<1>10. Fences'
  <2>1. \A u \in SyncThread \ {t} : Fence(u)'
    BY <1>5, <1>6, FenceStays
  <2>2. Fence(t)'
    <3>1. CASE step' = step
      BY <1>0, <1>a, <3>1 DEF Fence, Draining
    <3>2. CASE CallWait(t, s, "free")
      <4>1. step'[t] = "lookup" /\ base'[t] = s /\ must'[t] = Follows(t, s) /\ plan'[t] = plan[t]
        BY <1>0, <1>b, <3>2 DEF CallWait, Step, ThreadTypes
      <4>2. \A x \in Follows(t, s) : x.plan = plan[t] \/ Returned(x, s)
        BY FollowsReturned
      <4>3. \A x \in Follows(t, s) : Returned(x, s) => Returned(x, s)'
        BY <1>b DEF Returned, lanes
      <4> QED  BY <4>1, <4>2, <4>3 DEF Fence, Draining, Returned
    <3> QED  BY <1>c, <3>1, <3>2
  <2> QED  BY <2>1, <2>2 DEF Fences
<1>11. Places'
  <2>1. \A u \in SyncThread : WaitsFor(u)'
    BY <1>0, <1>2, SyncAssumption DEF FreeBuffer, Step, Called, CallWait, Idle, Places, WaitsFor, ThreadTypes,
                                      TableTypes, Executors, Executing, Waiting, Draining, HostUse, lanes
  <2>2. \A r \in Storage : place'[r] = "backend" => CoverAll({}, r)'
    BY <1>0, <1>5, BackendStays DEF FreeBuffer, Step, Called, CallWait, Idle, lanes, TableTypes
  <2> QED  BY <2>1, <2>2 DEF Places
<1> QED  BY <1>1, <1>2, <1>3, <1>4, <1>5, <1>8, <1>9, <1>10, <1>11 DEF SyncInv, SyncTypes

\* A pooled storage has no user when it is popped.
LEMMA AllocPooledStep ==
    ASSUME SyncInv, NEW t \in SyncThread, NEW s \in Storage, AllocPooled(t, s)
    PROVE  SyncInv' /\ Advance
<1>0. LaneTypes /\ TableTypes /\ ThreadTypes /\ Lanes /\ Executors /\ Recording /\ Kept /\ Places /\ Fences
  BY DEF SyncInv, SyncTypes
<1>1. LaneTypes' /\ TableTypes'
  BY <1>0, SyncAssumption DEF AllocPooled, Step, Called, PopFenced, CallWait, LaneTypes, TableTypes, Executors,
                              Executing, lanes, Streams
<1>2. ThreadTypes'
  <2>1. Follows(t, s) \subseteq Submission
    BY FollowedTyped
  <2>2. must' \in [SyncThread -> SUBSET Submission]
    BY <1>0, <2>1 DEF AllocPooled, Called, PopFenced, CallWait, Step, ThreadTypes
  <2> QED  BY <1>0, <2>2 DEF AllocPooled, Called, PopFenced, CallWait, Step, ThreadTypes, Executing, Waiting,
                             Draining, HostUse, lanes, tables, locals
<1>3. Lanes'
  BY <1>0, <1>1, SyncAssumption DEF AllocPooled, Step, Called, PopFenced, CallWait, Lanes, LaneTypes, lanes, Streams
<1>4. Executors'
  BY <1>0, <1>2, SyncAssumption DEF AllocPooled, Step, Called, PopFenced, CallWait, Executors, Executing, Waiting,
                                    Draining, HostUse, ThreadTypes, Places, WaitsFor, lanes
<1>5. Advance
  BY <1>0, <1>1, <1>3 DEF AllocPooled, Step, Called, PopFenced, CallWait, Advance, LaneTypes, Lanes, lanes, Streams
<1>6. \A u \in SyncThread \ {t} : Same(u)
  BY <1>0 DEF AllocPooled, Step, Called, PopFenced, CallWait, Same, ThreadTypes, lanes
<1>7. \A r \in Storage : TokensKept(r)
  BY <1>5, NoTokenChange DEF AllocPooled, Step, Called, PopFenced, CallWait, lanes
<1>8. Kept'
  BY <1>5, <1>7, KeptStays DEF AllocPooled, Step, Called, PopFenced, CallWait, Advance, lanes
<1>9. Recording'
  <2>1. \A u \in SyncThread \ {t} : Records(u)'
    BY <1>0, <1>6, <1>7, RecordsStays DEF AllocPooled, Step, Called, PopFenced, CallWait, Executors, Executing, lanes
  <2>2. Records(t)'
    BY <1>0, <1>1 DEF AllocPooled, Step, Called, PopFenced, CallWait, Records, ThreadTypes, lanes
  <2> QED  BY <2>1, <2>2 DEF Recording
<1>10. Fences'
  <2>1. \A u \in SyncThread \ {t} : Fence(u)'
    BY <1>5, <1>6, FenceStays
  <2>2. Fence(t)'
    <3>1. step'[t] = "lookup" /\ base'[t] = s /\ must'[t] = Follows(t, s) /\ plan'[t] = plan[t]
      BY <1>0 DEF AllocPooled, Called, PopFenced, CallWait, Step, ThreadTypes
    <3>2. \A x \in Follows(t, s) : x.plan = plan[t] \/ Returned(x, s)
      BY FollowsReturned
    <3>3. \A x \in Follows(t, s) : Returned(x, s) => Returned(x, s)'
      BY DEF AllocPooled, Called, PopFenced, CallWait, Step, Returned, lanes
    <3> QED  BY <3>1, <3>2, <3>3 DEF Fence, Draining, Returned
  <2> QED  BY <2>1, <2>2 DEF Fences
<1>11. Places'
  <2>1. \A u \in SyncThread : WaitsFor(u)'
    <3>1. step'[t] = "lookup" /\ base'[t] = s /\ after'[t] = "alloc" /\ place'[s] = "taken"
      BY <1>0 DEF AllocPooled, Called, PopFenced, CallWait, Step, ThreadTypes, TableTypes
    <3>2. \A u \in SyncThread : base[u] # s
      BY <1>0, SyncAssumption DEF Places, WaitsFor, AllocPooled
    <3>3. \A u \in SyncThread \ {t} : base'[u] = base[u] /\ after'[u] = after[u] /\ step'[u] = step[u]
      BY <1>6 DEF Same
    <3>4. \A r \in Storage \ {s} : place'[r] = place[r]
      BY <1>0 DEF AllocPooled, PopFenced, TableTypes
    <3>5. WaitsFor(t)'
      BY <3>1, <3>2, <3>3 DEF WaitsFor, Waiting, HostUse
    <3>6. \A u \in SyncThread \ {t} : WaitsFor(u)'
      BY <1>0, <3>1, <3>2, <3>3, <3>4 DEF Places, WaitsFor
    <3> QED  BY <3>5, <3>6
  <2>2. \A r \in Storage : place'[r] = "backend" => CoverAll({}, r)'
    BY <1>0, <1>5, BackendStays DEF AllocPooled, Step, Called, PopFenced, CallWait, lanes, TableTypes
  <2> QED  BY <2>1, <2>2 DEF Places
<1> QED  BY <1>1, <1>2, <1>3, <1>4, <1>5, <1>8, <1>9, <1>10, <1>11 DEF SyncInv, SyncTypes

\* A storage of the backend is drained, so its tokens may be forgotten.
LEMMA AllocFreshStep ==
    ASSUME SyncInv, NEW t \in SyncThread, NEW s \in Storage, AllocFresh(t, s)
    PROVE  SyncInv' /\ Advance
<1>0. LaneTypes /\ TableTypes /\ ThreadTypes /\ Lanes /\ Executors /\ Recording /\ Kept /\ Places /\ Fences
  BY DEF SyncInv, SyncTypes
<1>1. LaneTypes' /\ TableTypes'
  BY <1>0, SyncAssumption DEF AllocFresh, Called, LaneTypes, TableTypes, Executors, Executing, lanes, Streams
<1>2. ThreadTypes'
  BY <1>0, SyncAssumption DEF AllocFresh, Called, ThreadTypes, Executing, Waiting, Draining, HostUse, Executors,
                              TableTypes, lanes
<1>3. Lanes'
  BY <1>0, <1>1, SyncAssumption DEF AllocFresh, Called, Lanes, LaneTypes, lanes, Streams
<1>4. Executors'
  BY <1>0, <1>2, SyncAssumption DEF AllocFresh, Called, Executors, Executing, Waiting, Draining, HostUse,
                                    ThreadTypes, Places, WaitsFor, lanes
<1>5. Advance
  BY <1>0, <1>1, <1>3 DEF AllocFresh, Called, Advance, LaneTypes, Lanes, lanes, Streams
<1>6. \A u \in SyncThread : Same(u)
  BY <1>0 DEF AllocFresh, Called, Same, ThreadTypes, lanes
<1>7. \A r \in Storage \ {s} : TokensKept(r)
  <2>1. \A r \in Storage \ {s} : producers'[r] = producers[r]
    BY <1>0 DEF AllocFresh, TableTypes
  <2>2. done' = done
    BY DEF AllocFresh, lanes
  <2> QED  BY <2>1, <2>2 DEF TokensKept, Cover, CoverKind
<1>8. Kept'
  <2>1. CoverAll({}, s) /\ failed' = failed /\ settled' = settled /\ stream' = stream /\ done' = done
    BY <1>0 DEF AllocFresh, Places, lanes
  <2>2. \A q \in Plan \ failed : s \in Accesses(q) => done[q] >= settled[q]
    BY <2>1 DEF CoverAll, Cover
  <2>3. \A i \in 1..settled[Copy] : s \in stream[Copy][i].touches => done[Copy] >= i
    BY <2>1 DEF CoverAll, Cover
  <2>4. \A r \in Storage \ {s} : producers'[r] = producers[r]
    BY <1>0 DEF AllocFresh, TableTypes
  <2>5. \A q \in Plan \ failed : \A r \in Accesses(q) : CoverKind(r, q, settled[q])'
    BY <1>0, <2>1, <2>2, <2>4, AccessesContain DEF Kept, CoverKind
  <2>6. \A i \in 1..settled[Copy] : stream[Copy][i].touches \subseteq Storage
    <3>1. \A i \in 1..settled[Copy] : i \in 1..Len(stream[Copy])
      BY <1>0 DEF Lanes
    <3>2. stream[Copy] \in Seq(Launched)
      BY <1>0 DEF LaneTypes, Streams
    <3>3. \A i \in 1..Len(stream[Copy]) : stream[Copy][i] \in Launched
      BY <3>2
    <3> QED  BY <3>1, <3>3 DEF Launched
  <2>7. \A i \in 1..settled[Copy] : \A r \in stream[Copy][i].touches : Cover(producers[r], Copy, i)'
    BY <1>0, <2>1, <2>3, <2>4, <2>6 DEF Kept, Cover
  <2> QED  BY <2>1, <2>5, <2>7 DEF Kept, CoverKind, Cover
<1>9. Recording'
  <2>1. \A r \in Storage : place[r] = "used" => TokensKept(r)
    BY <1>0, <1>7 DEF AllocFresh
  <2> QED  BY <1>6, <2>1, RecordsStays DEF AllocFresh, Recording, lanes
<1>10. Fences'
  BY <1>5, <1>6, FenceStays DEF Fences
<1>11. Places'
  <2>1. \A u \in SyncThread : WaitsFor(u)'
    BY <1>0, <1>2, SyncAssumption DEF AllocFresh, Called, Places, WaitsFor, ThreadTypes, TableTypes, Executors,
                                      Executing, Waiting, Draining, HostUse, lanes
  <2>2. \A r \in Storage : place'[r] = "backend" => CoverAll({}, r)'
    BY <1>0, <1>5, BackendStays DEF AllocFresh, Called, lanes, TableTypes
  <2> QED  BY <2>1, <2>2 DEF Places
<1> QED  BY <1>1, <1>2, <1>3, <1>4, <1>5, <1>8, <1>9, <1>10, <1>11 DEF SyncInv, SyncTypes

\* The GPU only adds to what is done.
LEMMA CompleteStep ==
    ASSUME SyncInv, NEW p \in Streams, Complete(p)
    PROVE  SyncInv' /\ Advance
<1>0. LaneTypes /\ TableTypes /\ ThreadTypes /\ Lanes /\ Executors /\ Recording /\ Kept /\ Places /\ Fences
  BY DEF SyncInv, SyncTypes
<1>1. LaneTypes' /\ TableTypes'
  <2>1. done' \in [Streams -> Nat]
    BY <1>0 DEF Complete, LaneTypes
  <2> QED  BY <1>0, <2>1 DEF Complete, LaneTypes, TableTypes, tables
<1>2. ThreadTypes'
  BY <1>0, SyncAssumption DEF Complete, ThreadTypes, Executing, Waiting, Draining, HostUse, Executors, TableTypes,
                              lanes, tables, locals, Streams
<1>3. Lanes'
  BY <1>0, <1>1, SyncAssumption DEF Complete, Lanes, LaneTypes, tables, locals, Streams
<1>4. Executors'
  BY <1>0, <1>2, SyncAssumption DEF Complete, Executors, Executing, Waiting, Draining, HostUse, ThreadTypes, Places,
                                    WaitsFor, lanes, tables, locals
<1>5. Advance
  BY <1>0, <1>1, <1>3 DEF Complete, Advance, LaneTypes, Lanes, tables, locals, Streams
<1>6. \A u \in SyncThread : Same(u)
  BY <1>0 DEF Complete, Same, ThreadTypes, tables, locals
<1>7. \A r \in Storage : TokensKept(r)
  BY <1>5, NoTokenChange DEF Complete, tables, locals
<1>8. Kept'
  BY <1>5, <1>7, KeptStays DEF Complete, Advance, tables, locals
<1>9. Recording'
  BY <1>0, <1>6, <1>7, RecordsStays DEF Complete, Recording, tables, locals
<1>10. Fences'
  BY <1>5, <1>6, FenceStays DEF Fences
<1>11. Places'
  <2>1. \A u \in SyncThread : WaitsFor(u)'
    BY <1>0, <1>2, SyncAssumption DEF Complete, Places, WaitsFor, ThreadTypes, TableTypes, Executors, Executing,
                                      Waiting, Draining, HostUse, lanes, tables, locals
  <2>2. \A r \in Storage : place'[r] = "backend" => CoverAll({}, r)'
    BY <1>0, <1>5, BackendStays DEF Complete, tables, locals, TableTypes
  <2> QED  BY <2>1, <2>2 DEF Places
<1> QED  BY <1>1, <1>2, <1>3, <1>4, <1>5, <1>8, <1>9, <1>10, <1>11 DEF SyncInv, SyncTypes

---------------------------------------------------------------------------------
(* ReturnedFenced.                                                             *)

\* The initial state satisfies the invariant.
LEMMA SyncStarts == SyncInit => SyncInv
<1> SUFFICES ASSUME SyncInit PROVE SyncInv
  OBVIOUS
<1>1. /\ \A q \in Streams : stream[q] = << >> /\ done[q] = 0 /\ settled[q] = 0
      /\ \A t \in SyncThread : step[t] = "idle" /\ plan[t] = NoPlan /\ base[t] = NoStorage /\ after[t] = "none"
      /\ \A s \in Storage : place[s] = "used"
      /\ Copy \in Streams /\ Plan \subseteq Streams /\ NoPlan \notin Plan
  BY SyncAssumption DEF SyncInit, Streams
<1>2. << >> \in Seq(Launched) /\ Len(<< >>) = 0
  OBVIOUS
<1>3. LaneTypes
  BY <1>2 DEF SyncInit, LaneTypes
<1>4. TableTypes
  BY DEF SyncInit, TableTypes
<1>5. ThreadTypes
  BY DEF SyncInit, ThreadTypes, NoneYet
<1>6. Lanes
  BY <1>1, <1>2 DEF Lanes
<1>7. Executors
  BY <1>1 DEF Executors, Executing
<1>8. Recording /\ Fences
  BY <1>1 DEF Recording, Records, Fences, Fence, Draining
<1>9. Kept
  BY <1>1 DEF Kept, CoverKind
<1>10. Places
  BY <1>1 DEF Places, WaitsFor, Waiting, Draining
<1> QED  BY <1>3, <1>4, <1>5, <1>6, <1>7, <1>8, <1>9, <1>10 DEF SyncInv, SyncTypes

\* Every step keeps the invariant and advances.
LEMMA SyncKeeps == SyncInv /\ SyncNext => SyncInv' /\ Advance
<1> SUFFICES ASSUME SyncInv, SyncNext PROVE SyncInv' /\ Advance
  OBVIOUS
<1>1. CASE \E t \in SyncThread : SyncStep(t)
  BY <1>1, OrderTokensStep, OrderTailsStep, MarkStep, LaunchStep, StageStep, ExecuteFailsStep, MintStep, RecordStep,
     PublishedStep, LookupStep, VisitLaneStep, LaneDrainedStep, TokensWaitedStep, AccessStep DEF SyncStep
<1>2. CASE \E t \in SyncThread, p \in Plan : Execute(t, p)
  BY <1>2, ExecuteStep
<1>3. CASE \E t \in SyncThread, s \in Storage, purpose \in {"read", "copyin"} : HostAccess(t, s, purpose)
  BY <1>3, HostAccessStep
<1>4. CASE \E t \in SyncThread, s \in Storage : FreeBuffer(t, s) \/ AllocPooled(t, s) \/ AllocFresh(t, s)
  BY <1>4, FreeBufferStep, AllocPooledStep, AllocFreshStep
<1>5. CASE \E p \in Streams : Complete(p)
  BY <1>5, CompleteStep
<1> QED  BY <1>1, <1>2, <1>3, <1>4, <1>5, Zenon DEF SyncNext

\* So does a stuttering step, as far as the invariant goes.
LEMMA SyncStutters == SyncInv /\ UNCHANGED syncVars => SyncInv'
<1> SUFFICES ASSUME SyncInv, UNCHANGED syncVars PROVE SyncInv'
  OBVIOUS
<1>1. UNCHANGED <<stream, done, settled, submitted, covered, copiesSeen, producers, place, busy, failed, step>>
  BY DEF syncVars, lanes, tables
<1>2. UNCHANGED <<plan, next, gate, owes, token, left, base, tokens, must, after>>
  BY DEF syncVars, locals
<1>3. SyncTypes'
  BY <1>1, <1>2 DEF SyncInv, SyncTypes, LaneTypes, TableTypes, ThreadTypes
<1>4. Lanes' /\ Executors'
  BY <1>1, <1>2 DEF SyncInv, Lanes, Executors
<1>5. Recording' /\ Kept'
  BY <1>1, <1>2 DEF SyncInv, Recording, Records, Kept, CoverKind, Cover
<1>6. Places' /\ Fences'
  BY <1>1, <1>2 DEF SyncInv, Places, WaitsFor, Fences, Fence, CoverAll, Cover, Returned, IsDone
<1> QED  BY <1>3, <1>4, <1>5, <1>6 DEF SyncInv

\* The invariant of the specification.
THEOREM SyncInvariance == SyncSpec => []SyncInv
<1>1. SyncInv /\ [SyncNext]_syncVars => SyncInv'
  BY SyncKeeps, SyncStutters
<1> QED  BY SyncStarts, <1>1, PTL DEF SyncSpec

\* A host access, a free and a recycled allocation follow every kernel and copy
\* on the storage that was submitted by a call that has returned without error
\* (CudaDevice::wait_storage and record_producer), for any threads, storages,
\* plans and number of calls, with tracked lanes (CUDA) or without (AMD).
THEOREM SyncAccessFenced == SyncSpec => []ReturnedFenced
<1>1. SyncInv => ReturnedFenced
  BY DEF SyncInv, Fences, Fence, ReturnedFenced
<1> QED  BY SyncInvariance, <1>1, PTL

---------------------------------------------------------------------------------
(* PlansOrdered, where lanes are tracked.                                      *)

\* A launch that has ended has ended for good.
LEMMA DoneStays ==
    ASSUME Advance, NEW x \in Submission, IsDone(x)
    PROVE  IsDone(x)'
  BY DEF Advance, IsDone, Submission

\* The launches in gates, debts and lanes.
LEMMA SubmissionsTyped ==
    ASSUME SyncInv
    PROVE  /\ \A t \in SyncThread : owes[t] \subseteq Submission /\ gate[t] \subseteq Submission
           /\ \A p \in Plan : /\ Len(stream[p]) \in Nat
                              /\ \A i \in 1..Len(stream[p]) : /\ stream[p][i].owes \subseteq Submission
                                                              /\ stream[p][i].after \subseteq Submission
<1>1. \A t \in SyncThread : owes[t] \subseteq Submission /\ gate[t] \subseteq Submission
  BY DEF SyncInv, SyncTypes, ThreadTypes
<1>2. \A p \in Plan : stream[p] \in Seq(Launched)
  BY DEF SyncInv, SyncTypes, LaneTypes, Streams
<1>3. \A p \in Plan : Len(stream[p]) \in Nat /\ \A i \in 1..Len(stream[p]) : stream[p][i] \in Launched
  BY <1>2
<1> QED  BY <1>1, <1>3 DEF Launched

\* A step that launches nothing on a plan's lane and orders nothing.
Quiet ==
    /\ gate' = gate /\ owes' = owes /\ copiesSeen' = copiesSeen
    /\ \A p \in Plan : stream'[p] = stream[p]
    /\ \A u \in SyncThread : plan'[u] \in Plan =>
        /\ plan'[u] = plan[u]
        /\ step[u] = "order" => step'[u] = "order"
        /\ step'[u] = "launch" => step[u] = "launch"
    /\ \A u \in SyncThread : step[u] = "launch" /\ plan[u] \notin failed' => plan'[u] = plan[u] /\ step'[u] = "launch"
    /\ \A p \in Plan : \A i \in 1..done'[p] : i <= done[p] \/ \A x \in stream[p][i].after : IsDone(x)

\* A quiet step keeps the order.
LEMMA QuietOrder ==
    ASSUME SyncInv, OrderInv, SyncInv', Advance, Quiet
    PROVE  OrderInv'
<1>0. Owing /\ Followed /\ Gated /\ CopiesFollowed
  BY DEF OrderInv
<1>1. /\ \A p \in Plan : stream'[p] = stream[p] /\ Len(stream[p]) \in Nat
      /\ gate' = gate /\ owes' = owes /\ copiesSeen' = copiesSeen /\ failed \subseteq failed'
  BY SubmissionsTyped DEF Quiet, Advance
<1>2. Owing'
  <2> SUFFICES ASSUME NEW t \in SyncThread, plan'[t] \in Plan, NEW x \in owes[t]
               PROVE  /\ x.at <= settled'[x.plan] /\ x.plan # plan'[t]
                      /\ x.plan \in Plan => Conflict(plan'[t], x.plan)
                      /\ x.plan \in Plan /\ step'[t] # "order" => x.plan \in failed' \/ IsDone(x)' \/ x \in gate'[t]
                      /\ x.plan = Copy /\ step'[t] = "launch" =>
                          \/ IsDone(x)' \/ x \in gate'[t]
                          \/ \E j \in 1..Len(stream'[plan'[t]]) : x \in stream'[plan'[t]][j].after
    BY <1>1 DEF Owing, Owes
  <2>1. x \in Submission
    BY SubmissionsTyped
  <2>2. plan'[t] = plan[t] /\ (step[t] = "order" => step'[t] = "order") /\ (step'[t] = "launch" => step[t] = "launch")
    BY DEF Quiet
  <2>3. x.plan \in Streams /\ x.at \in Nat /\ settled[x.plan] <= settled'[x.plan] /\ settled[x.plan] \in Nat /\ settled'[x.plan] \in Nat
    BY <2>1 DEF Submission, Advance
  <2>4. /\ x.at <= settled[x.plan] /\ x.plan # plan[t]
        /\ x.plan \in Plan => Conflict(plan[t], x.plan)
        /\ x.plan \in Plan /\ step[t] # "order" => x.plan \in failed \/ IsDone(x) \/ x \in gate[t]
        /\ x.plan = Copy /\ step[t] = "launch" =>
            \/ IsDone(x) \/ x \in gate[t]
            \/ \E j \in 1..Len(stream[plan[t]]) : x \in stream[plan[t]][j].after
    BY <1>0, <2>2 DEF Owing, Owes
  <2>5. IsDone(x) => IsDone(x)'
    BY <2>1, DoneStays
  <2>6. x.at <= settled'[x.plan]
    BY <2>3, <2>4
  <2> HIDE DEF IsDone
  <2> QED  BY <1>1, <2>2, <2>4, <2>5, <2>6
<1>3. Followed'
  <2> SUFFICES ASSUME NEW p \in Plan, NEW i \in 1..Len(stream[p]), NEW x \in stream[p][i].owes
               PROVE  x.plan \in failed' \/ IsDone(x)' \/ \E j \in 1..i : x \in stream[p][j].after
    BY <1>1 DEF Followed
  <2>1. x \in Submission
    BY SubmissionsTyped
  <2> QED  BY <1>0, <1>1, <2>1, DoneStays DEF Followed
<1>4. Gated'
  <2> SUFFICES ASSUME NEW p \in Plan, NEW i \in 1..done'[p], NEW x \in stream[p][i].after
               PROVE  IsDone(x)'
    BY <1>1 DEF Gated
  <2>1. p \in Streams /\ done'[p] \in Nat /\ done[p] \in Nat /\ done'[p] <= Len(stream[p])
    BY <1>1 DEF SyncInv, Lanes, Streams, Advance
  <2>2. i \in 1..Len(stream[p])
    BY <1>1, <2>1
  <2>3. x \in Submission
    BY <2>2, SubmissionsTyped
  <2>4. IsDone(x)
    BY <1>0, <2>1 DEF Gated, Quiet
  <2> QED  BY <2>3, <2>4, DoneStays
<1>5. CopiesFollowed'
  <2> SUFFICES ASSUME NEW p \in Plan \ failed', NEW c \in 1..copiesSeen[p] PROVE CopySeen(p, c)'
    BY <1>1 DEF CopiesFollowed
  <2>1. p \in Plan \ failed /\ CopySeen(p, c)
    BY <1>0, <1>1 DEF CopiesFollowed
  <2>2. PICK x : x = [plan |-> Copy, at |-> c]
    OBVIOUS
  <2>3. x \in Submission
    <3>1. copiesSeen[p] \in Nat
      BY <2>1 DEF SyncInv, SyncTypes, LaneTypes
    <3> QED  BY <2>2, <3>1 DEF Submission, Streams
  <2>4. \/ IsDone(x) \/ \E j \in 1..Len(stream[p]) : x \in stream[p][j].after
        \/ \E t \in SyncThread : plan[t] = p /\ step[t] = "launch" /\ x \in gate[t]
    BY <2>1, <2>2 DEF CopySeen
  <2>5. \/ IsDone(x)' \/ \E j \in 1..Len(stream'[p]) : x \in stream'[p][j].after
        \/ \E t \in SyncThread : plan'[t] = p /\ step'[t] = "launch" /\ x \in gate'[t]
    <3>1. CASE IsDone(x)
      BY <2>3, <3>1, DoneStays
    <3>2. CASE \E j \in 1..Len(stream[p]) : x \in stream[p][j].after
      BY <1>1, <3>2
    <3>3. CASE \E t \in SyncThread : plan[t] = p /\ step[t] = "launch" /\ x \in gate[t]
      BY <1>1, <3>3 DEF Quiet
    <3> QED  BY <2>4, <3>1, <3>2, <3>3
  <2> QED  BY <2>2, <2>5 DEF CopySeen
<1> QED  BY <1>2, <1>3, <1>4, <1>5 DEF OrderInv

\* The steps that are quiet.
LEMMA QuietSteps ==
    ASSUME SyncInv, NEW t \in SyncThread,
           \/ Stage(t) \/ ExecuteFails(t) \/ Mint(t) \/ Record(t) \/ Published(t)
           \/ Lookup(t) \/ VisitLane(t) \/ LaneDrained(t) \/ TokensWaited(t) \/ Access(t)
    PROVE  Quiet
<1>0. ThreadTypes /\ LaneTypes /\ Executors /\ Copy \notin Plan /\ Plan \subseteq Streams /\ NoPlan \notin Plan
  BY SyncAssumption DEF SyncInv, SyncTypes, Streams
<1>1. /\ gate' = gate /\ owes' = owes /\ copiesSeen' = copiesSeen /\ done' = done
  BY DEF Stage, ExecuteFails, Mint, Record, Published, Lookup, VisitLane, LaneDrained, TokensWaited, Access, lanes,
         locals
<1>2. \A p \in Plan : stream'[p] = stream[p]
  BY <1>0 DEF Stage, ExecuteFails, EndExecute, Mint, Record, Published, Lookup, VisitLane, LaneDrained, TokensWaited,
              Access, EnqueueCopy, lanes, LaneTypes
<1>3. \A u \in SyncThread \ {t} : plan'[u] = plan[u] /\ step'[u] = step[u]
  BY <1>0 DEF Stage, ExecuteFails, EndExecute, Mint, Record, Published, Lookup, VisitLane, LaneDrained, TokensWaited,
              Access, CallWait, Step, locals, ThreadTypes
<1>4. /\ plan'[t] = plan[t] \/ plan'[t] = NoPlan
      /\ step[t] = "order" \/ step[t] = "launch" => ExecuteFails(t)
      /\ step'[t] # "launch"
  BY <1>0 DEF Stage, ExecuteFails, EndExecute, Mint, Record, Published, Lookup, VisitLane, LaneDrained, TokensWaited,
              Access, CallWait, Step, locals, ThreadTypes
<1>5. ExecuteFails(t) => plan'[t] = NoPlan /\ plan[t] \in failed'
  BY <1>0 DEF ExecuteFails, EndExecute, ThreadTypes
<1> QED  BY <1>0, <1>1, <1>2, <1>3, <1>4, <1>5 DEF Quiet

\* The calls that do not execute are quiet.
LEMMA QuietCalls ==
    ASSUME SyncInv, NEW t \in SyncThread, NEW s \in Storage,
           \/ \E purpose \in {"read", "copyin"} : HostAccess(t, s, purpose)
           \/ FreeBuffer(t, s) \/ AllocPooled(t, s) \/ AllocFresh(t, s)
    PROVE  Quiet
<1>0. ThreadTypes
  BY DEF SyncInv, SyncTypes
<1>1. gate' = gate /\ owes' = owes /\ copiesSeen' = copiesSeen /\ done' = done /\ stream' = stream /\ plan' = plan
  BY DEF HostAccess, FreeBuffer, AllocPooled, AllocFresh, lanes
<1>2. \A u \in SyncThread \ {t} : step'[u] = step[u]
  BY <1>0 DEF HostAccess, FreeBuffer, AllocPooled, AllocFresh, PopFenced, CallWait, Step, ThreadTypes
<1>3. step[t] = "idle" /\ step'[t] # "launch"
  BY <1>0 DEF HostAccess, FreeBuffer, AllocPooled, AllocFresh, PopFenced, CallWait, Called, Step, ThreadTypes
<1> QED  BY <1>1, <1>2, <1>3 DEF Quiet

\* The end of a launch is quiet: it ended after those it waits for.
LEMMA QuietComplete ==
    ASSUME SyncInv, NEW p \in Streams, Complete(p)
    PROVE  Quiet
<1>0. LaneTypes /\ Plan \subseteq Streams
  BY DEF SyncInv, SyncTypes, Streams
<1>1. UNCHANGED <<gate, owes, copiesSeen, stream, plan, step, failed>>
  BY DEF Complete, tables, locals
<1>2. \A q \in Plan : \A i \in 1..done'[q] : i <= done[q] \/ \A x \in stream[q][i].after : IsDone(x)
  <2> SUFFICES ASSUME NEW q \in Plan, NEW i \in 1..done'[q], ~(i <= done[q]) PROVE \A x \in stream[q][i].after : IsDone(x)
    OBVIOUS
  <2>1. q = p /\ done'[p] = done[p] + 1 /\ done[p] \in Nat
    BY <1>0 DEF Complete, LaneTypes
  <2>2. i = done[p] + 1
    BY <2>1
  <2> QED  BY <2>1, <2>2 DEF Complete
<1> QED  BY <1>1, <1>2 DEF Quiet

\* The steps that order and launch.
LEMMA ExecuteOrder ==
    ASSUME SyncInv, OrderInv, NEW t \in SyncThread, NEW p \in Plan, Execute(t, p)
    PROVE  OrderInv'
<1>0. Owing /\ Followed /\ Gated /\ CopiesFollowed /\ ThreadTypes
  BY DEF OrderInv, SyncInv, SyncTypes
<1>1. UNCHANGED <<stream, done, settled, copiesSeen, failed, gate>>
  BY DEF Execute, lanes
<1>2. \A u \in SyncThread \ {t} : plan'[u] = plan[u] /\ step'[u] = step[u] /\ owes'[u] = owes[u]
  BY <1>0 DEF Execute, Step, ThreadTypes
<1>3. plan'[t] = p /\ step[t] = "idle" /\ step'[t] = "order" /\ owes'[t] = Earlier(p)
  BY <1>0 DEF Execute, Step, ThreadTypes
<1>4. \A x \in Earlier(p) : x.at <= settled[x.plan] /\ x.plan # p /\ (x.plan \in Plan => Conflict(p, x.plan))
  <2> SUFFICES ASSUME NEW x \in Earlier(p)
               PROVE  x.at <= settled[x.plan] /\ x.plan # p /\ (x.plan \in Plan => Conflict(p, x.plan))
    OBVIOUS
  <2>1. (\E q \in Plan \ {p} : x \in AllOf(q, settled[q]) /\ Conflict(p, q)) \/ x \in AllOf(Copy, settled[Copy])
    BY DEF Earlier
  <2>2. \A q \in Streams : settled[q] \in Nat
    BY DEF SyncInv, SyncTypes, LaneTypes
  <2>3. \A q \in Streams : x \in AllOf(q, settled[q]) => x.plan = q /\ x.at <= settled[q]
    BY <2>2, AllOfMembers
  <2> QED  BY <2>1, <2>3, SyncAssumption DEF Streams
<1>5. Owing'
  <2>1. Owes(t)'
    BY <1>1, <1>3, <1>4 DEF Owes
  <2>2. \A u \in SyncThread \ {t} : Owes(u)'
    BY <1>0, <1>1, <1>2 DEF Owing, Owes, IsDone
  <2> QED  BY <2>1, <2>2 DEF Owing
<1>6. Followed' /\ Gated'
  BY <1>0, <1>1 DEF Followed, Gated, IsDone
<1>7. CopiesFollowed'
  BY <1>0, <1>1, <1>2, <1>3 DEF CopiesFollowed, CopySeen, IsDone
<1> QED  BY <1>5, <1>6, <1>7 DEF OrderInv

\* order_lane_after finds a conflicting token for every plan that is owed.
LEMMA OrderTokensOrder ==
    ASSUME SyncInv, OrderInv, TracksLanes, NEW t \in SyncThread, OrderTokens(t)
    PROVE  OrderInv'
<1> DEFINE p == plan[t]
           waits == {x \in UNION {producers[s] \X {s} : s \in Accesses(p)} : Conflicting(p, x[2], x[1])}
           ordered == UNION {AllOf(x[1].plan, x[1].upto) : x \in waits}
<1>0. Owing /\ Followed /\ Gated /\ CopiesFollowed /\ ThreadTypes /\ TableTypes /\ LaneTypes /\ Kept /\ Lanes
  BY DEF OrderInv, SyncInv, SyncTypes
<1>1. UNCHANGED <<stream, done, settled, copiesSeen, failed, owes, plan>>
  BY DEF OrderTokens, lanes, tables
<1>2. p \in Plan /\ step[t] = "order" /\ step'[t] = "tails" /\ gate' = [gate EXCEPT ![t] = ordered]
  <2>1. p \in Plan /\ step[t] = "order" /\ step'[t] = "tails"
    BY DEF SyncInv, SyncTypes, ThreadTypes, OrderTokens, Step, Executors, Executing
  <2>2. gate' = [gate EXCEPT ![t] = IF TracksLanes THEN ordered ELSE {}]
    BY Zenon DEF OrderTokens
  <2> HIDE DEF ordered, p
  <2> QED  BY <2>1, <2>2
<1>3. \A u \in SyncThread \ {t} : step'[u] = step[u] /\ gate'[u] = gate[u]
  BY <1>0, <1>2 DEF OrderTokens, Step, ThreadTypes
<1>4. \A x \in owes[t] : x.plan \in Plan => x.plan \in failed \/ IsDone(x) \/ x \in ordered
  <2> SUFFICES ASSUME NEW x \in owes[t], x.plan \in Plan, x.plan \notin failed, ~IsDone(x) PROVE x \in ordered
    OBVIOUS
  <2>1. PICK q \in Plan : q = x.plan
    OBVIOUS
  <2>2. x.at <= settled[q] /\ q # p /\ Conflict(p, q)
    BY <1>0, <1>2, <2>1 DEF Owing, Owes
  <2>3. x \in Submission /\ x.at \in Nat /\ q \in Streams /\ settled[q] \in Nat /\ done[q] \in Nat
    BY <1>0, <2>1, SubmissionsTyped DEF Submission, LaneTypes, Streams
  <2>4. ~(done[q] >= settled[q])
    BY <2>1, <2>2, <2>3 DEF IsDone
  <2>5. PICK s \in Accesses(p) : s \in Accesses(q) /\ (s \in Writes(p) \/ s \in Writes(q))
    BY <1>2, <2>2, AccessesContain DEF Conflict
  <2>6. PICK y \in producers[s] : y.plan = q /\ y.upto >= settled[q] /\ (s \in Writes(q) => y.writes)
    BY <1>0, <2>1, <2>4, <2>5 DEF Kept, CoverKind
  <2>7. y \in Token /\ y.upto \in Nat
    BY <1>0, <1>2, <2>5, <2>6, AccessesContain DEF TableTypes, Token
  <2>8. Conflicting(p, s, y)
    BY <2>2, <2>5, <2>6, SyncAssumption DEF Conflicting
  <2>9. <<y, s>> \in waits
    <3>1. <<y, s>> \in producers[s] \X {s} /\ <<y, s>>[1] = y /\ <<y, s>>[2] = s
      OBVIOUS
    <3> HIDE DEF p
    <3> QED  BY <2>5, <2>8, <3>1
  <2>10. x \in AllOf(y.plan, y.upto)
    BY <2>1, <2>2, <2>3, <2>6, <2>7, AllOfMembers
  <2> HIDE DEF waits
  <2>11. PICK z \in waits : z = <<y, s>>
    BY <2>9
  <2>12. z[1] = y
    BY <2>11
  <2> QED  BY <2>10, <2>12
<1>5. gate'[t] = ordered
  BY <1>0, <1>2 DEF ThreadTypes
<1> HIDE DEF ordered
<1>6. Owing'
  <2>1. Owes(t)'
    BY <1>0, <1>1, <1>2, <1>4, <1>5 DEF Owing, Owes, IsDone
  <2>2. \A u \in SyncThread \ {t} : Owes(u)'
    BY <1>0, <1>1, <1>3 DEF Owing, Owes, IsDone
  <2> QED  BY <2>1, <2>2 DEF Owing
<1>7. Followed' /\ Gated'
  BY <1>0, <1>1 DEF Followed, Gated, IsDone
<1>8. CopiesFollowed'
  BY <1>0, <1>1, <1>2, <1>3 DEF CopiesFollowed, CopySeen, IsDone
<1> QED  BY <1>6, <1>7, <1>8 DEF OrderInv

\* wait_on_gpu only adds to the gate.
LEMMA OrderTailsOrder ==
    ASSUME SyncInv, OrderInv, NEW t \in SyncThread, OrderTails(t)
    PROVE  OrderInv'
<1>0. Owing /\ Followed /\ Gated /\ CopiesFollowed /\ ThreadTypes
  BY DEF OrderInv, SyncInv, SyncTypes
<1>1. UNCHANGED <<stream, done, settled, copiesSeen, failed, owes, plan>>
  BY DEF OrderTails, lanes, tables
<1>2. step[t] = "tails" /\ step'[t] = "op" /\ gate[t] \subseteq gate'[t]
  BY <1>0 DEF OrderTails, Step, ThreadTypes
<1>3. \A u \in SyncThread \ {t} : step'[u] = step[u] /\ gate'[u] = gate[u]
  BY <1>0 DEF OrderTails, Step, ThreadTypes
<1>4. Owing'
  <2>1. Owes(t)'
    BY <1>0, <1>1, <1>2 DEF Owing, Owes, IsDone
  <2>2. \A u \in SyncThread \ {t} : Owes(u)'
    BY <1>0, <1>1, <1>3 DEF Owing, Owes, IsDone
  <2> QED  BY <2>1, <2>2 DEF Owing
<1>5. Followed' /\ Gated'
  BY <1>0, <1>1 DEF Followed, Gated, IsDone
<1>6. CopiesFollowed'
  BY <1>0, <1>1, <1>2, <1>3 DEF CopiesFollowed, CopySeen, IsDone
<1> QED  BY <1>4, <1>5, <1>6 DEF OrderInv

\* order_launch: a lane waits for the last copy, or has waited for it before.
LEMMA MarkOrder ==
    ASSUME SyncInv, OrderInv, TracksLanes, NEW t \in SyncThread, Mark(t)
    PROVE  OrderInv'
<1> DEFINE p == plan[t]
<1>0. Owing /\ Followed /\ Gated /\ CopiesFollowed /\ ThreadTypes /\ LaneTypes /\ Lanes /\ Executors
  BY DEF OrderInv, SyncInv, SyncTypes
<1>1. UNCHANGED <<stream, done, settled, failed, owes, plan>>
  BY DEF Mark, tables
<1>2. /\ step[t] = "op" /\ step'[t] = "launch" /\ gate[t] \subseteq gate'[t] /\ AfterCopies(t) \subseteq gate'[t]
  BY <1>0 DEF Mark, Step, ThreadTypes
<1>3. \A u \in SyncThread \ {t} : step'[u] = step[u] /\ gate'[u] = gate[u]
  BY <1>0 DEF Mark, Step, ThreadTypes
<1>4. p \in Plan /\ p \notin failed /\ \A u \in SyncThread : plan[u] = p => u = t
  BY <1>0, <1>2 DEF Executors, Executing
<1>5. PICK n \in Nat : n = Len(stream[Copy]) /\ n = settled[Copy]
  BY <1>0 DEF LaneTypes, Lanes, Streams
<1>6. copiesSeen'[p] = n /\ \A q \in Plan \ {p} : copiesSeen'[q] = copiesSeen[q]
  BY <1>0, <1>4, <1>5 DEF Mark, LaneTypes
\* Every copy enqueued by now is in the gate or was seen by the lane.
<1>7. \A x \in Submission : x.plan = Copy /\ x.at <= n =>
        IsDone(x) \/ x \in gate'[t] \/ \E j \in 1..Len(stream[p]) : x \in stream[p][j].after
  <2> SUFFICES ASSUME NEW x \in Submission, x.plan = Copy, x.at <= n
               PROVE  IsDone(x) \/ x \in gate'[t] \/ \E j \in 1..Len(stream[p]) : x \in stream[p][j].after
    OBVIOUS
  <2>1. CASE n # copiesSeen[p]
    <3>1. AfterCopies(t) = AllOf(Copy, n)
      BY <1>5, <2>1 DEF AfterCopies
    <3>2. x \in AllOf(Copy, n)
      BY AllOfMembers DEF Streams
    <3> QED  BY <1>2, <3>1, <3>2
  <2>2. CASE n = copiesSeen[p]
    <3>1. PICK c \in 1..n : c = x.at
      BY DEF Submission
    <3>2. x = [plan |-> Copy, at |-> c]
      BY <3>1 DEF Submission
    <3>3. CopySeen(p, c)
      BY <1>0, <1>4, <2>2 DEF CopiesFollowed
    <3>4. \/ IsDone(x) \/ \E j \in 1..Len(stream[p]) : x \in stream[p][j].after
          \/ \E u \in SyncThread : plan[u] = p /\ step[u] = "launch" /\ x \in gate[u]
      BY <3>2, <3>3 DEF CopySeen
    <3> QED  BY <1>2, <1>4, <3>4
  <2> QED  BY <2>1, <2>2
<1>8. Owing'
  <2>1. Owes(t)'
    <3> SUFFICES ASSUME NEW x \in owes[t]
                 PROVE  /\ x.at <= settled[x.plan] /\ x.plan # p
                        /\ x.plan \in Plan => Conflict(p, x.plan)
                        /\ x.plan \in Plan => x.plan \in failed \/ IsDone(x) \/ x \in gate'[t]
                        /\ x.plan = Copy =>
                            \/ IsDone(x) \/ x \in gate'[t]
                            \/ \E j \in 1..Len(stream[p]) : x \in stream[p][j].after
      BY <1>1 DEF Owes, IsDone
    <3>1. x \in Submission
      BY SubmissionsTyped
    <3>2. /\ x.at <= settled[x.plan] /\ x.plan # p
          /\ x.plan \in Plan => Conflict(p, x.plan)
          /\ x.plan \in Plan => x.plan \in failed \/ IsDone(x) \/ x \in gate[t]
      BY <1>0, <1>2, <1>4 DEF Owing, Owes
    <3>3. x.plan = Copy => x.at <= n
      BY <1>5, <3>2
    <3> QED  BY <1>2, <1>7, <3>1, <3>2, <3>3
  <2>2. \A u \in SyncThread \ {t} : Owes(u)'
    BY <1>0, <1>1, <1>3 DEF Owing, Owes, IsDone
  <2> QED  BY <2>1, <2>2 DEF Owing
<1>9. Followed' /\ Gated'
  BY <1>0, <1>1 DEF Followed, Gated, IsDone
<1>10. CopiesFollowed'
  <2> SUFFICES ASSUME NEW q \in Plan \ failed, NEW c \in 1..copiesSeen'[q] PROVE CopySeen(q, c)'
    BY <1>1 DEF CopiesFollowed
  <2>1. CASE q # p
    BY <1>0, <1>1, <1>3, <1>6, <2>1 DEF CopiesFollowed, CopySeen, IsDone
  <2>2. CASE q = p
    <3>1. PICK x : x = [plan |-> Copy, at |-> c]
      OBVIOUS
    <3>2. x \in Submission /\ x.plan = Copy /\ x.at <= n
      BY <1>6, <2>2, <3>1 DEF Submission, Streams
    <3>3. IsDone(x) \/ x \in gate'[t] \/ \E j \in 1..Len(stream[p]) : x \in stream[p][j].after
      BY <1>7, <3>2
    <3> QED  BY <1>1, <1>2, <2>2, <3>1, <3>3 DEF CopySeen, IsDone
  <2> QED  BY <2>1, <2>2
<1> QED  BY <1>8, <1>9, <1>10 DEF OrderInv

\* A launch takes the gate with it.
LEMMA LaunchOrder ==
    ASSUME SyncInv, OrderInv, NEW t \in SyncThread, Launch(t)
    PROVE  OrderInv'
<1> DEFINE p == plan[t]
           new == [touches |-> Op(t).reads \cup Op(t).writes, after |-> gate[t], owes |-> owes[t]]
<1>0. Owing /\ Followed /\ Gated /\ CopiesFollowed /\ ThreadTypes /\ LaneTypes /\ Lanes /\ Executors
  BY DEF OrderInv, SyncInv, SyncTypes
<1>1. UNCHANGED <<done, settled, copiesSeen, failed, owes, plan, gate>>
  BY DEF Launch, tables
<1>2. step[t] = "launch" /\ step'[t] = "op" /\ \A u \in SyncThread \ {t} : step'[u] = step[u]
  BY <1>0 DEF Launch, Step, ThreadTypes
<1>3. /\ p \in Plan /\ p \in Streams /\ stream[p] \in Seq(Launched) /\ next[t] \in 1..Len(Ops[p])
      /\ \A u \in SyncThread : plan[u] = p => u = t
  <2>1. p \in Plan /\ \A u \in SyncThread : plan[u] = p => u = t
    BY <1>0, <1>2 DEF Executors, Executing
  <2>2. next[t] \in 1..Len(Ops[p])
    BY <1>0, <1>2, <2>1, AccessesContain DEF Executors, ThreadTypes
  <2> QED  BY <1>0, <2>1, <2>2 DEF LaneTypes, Streams
<1>4. new \in Launched /\ new.after = gate[t] /\ new.owes = owes[t]
  <2>1. Op(t).reads \subseteq Storage /\ Op(t).writes \subseteq Storage
    BY <1>3, AccessesContain DEF Op
  <2> QED  BY <1>0, <2>1 DEF Launched, ThreadTypes
<1>5. stream' = [stream EXCEPT ![p] = Append(@, new)]
  BY DEF Launch
<1> HIDE DEF new, p
<1>6. PICK n \in Nat :
        /\ n = Len(stream[p]) /\ Len(stream'[p]) = n + 1 /\ stream'[p][n + 1] = new
        /\ \A i \in 1..n : stream'[p][i] = stream[p][i]
        /\ \A q \in Plan : q # p => stream'[q] = stream[q]
  <2>1. stream'[p] = Append(stream[p], new) /\ \A q \in Plan : q # p => stream'[q] = stream[q]
    BY <1>0, <1>3, <1>5 DEF LaneTypes, Streams
  <2>2. /\ Len(stream[p]) \in Nat /\ Len(Append(stream[p], new)) = Len(stream[p]) + 1
        /\ \A i \in 1..Len(stream[p]) : Append(stream[p], new)[i] = stream[p][i]
        /\ Append(stream[p], new)[Len(stream[p]) + 1] = new
    BY <1>3, <1>4, LaunchAppended
  <2> QED  BY <2>1, <2>2
<1>7. \A q \in Plan, i \in Nat : i \in 1..Len(stream[q]) => i \in 1..Len(stream'[q]) /\ stream'[q][i] = stream[q][i]
  BY <1>6
<1>8. \A q \in Plan : Len(stream[q]) \in Nat
  BY SubmissionsTyped
<1>9. Owing'
  <2>1. Owes(t)'
    BY <1>0, <1>1, <1>2 DEF Owing, Owes, IsDone
  <2>2. \A u \in SyncThread \ {t} : Owes(u)'
    <3> SUFFICES ASSUME NEW u \in SyncThread \ {t}, plan[u] \in Plan PROVE Owes(u)'
      BY <1>1 DEF Owes
    <3>1. stream'[plan[u]] = stream[plan[u]]
      BY <1>3, <1>6
    <3> QED  BY <1>0, <1>1, <1>2, <3>1 DEF Owing, Owes, IsDone
  <2> QED  BY <2>1, <2>2 DEF Owing
<1>10. Followed'
  <2> SUFFICES ASSUME NEW q \in Plan, NEW i \in 1..Len(stream'[q]), NEW x \in stream'[q][i].owes
               PROVE  x.plan \in failed \/ IsDone(x) \/ \E j \in 1..i : x \in stream'[q][j].after
    BY <1>1 DEF Followed, IsDone
  <2>1. CASE i \in 1..Len(stream[q])
    <3>1. x.plan \in failed \/ IsDone(x) \/ \E j \in 1..i : x \in stream[q][j].after
      BY <1>0, <1>7, <2>1 DEF Followed
    <3>2. \A j \in 1..i : stream'[q][j] = stream[q][j]
      BY <1>7, <1>8, <2>1
    <3> QED  BY <3>1, <3>2
  <2>2. CASE i \notin 1..Len(stream[q])
    <3>1. q = p /\ i = n + 1
      BY <1>6, <2>2
    <3>2. x \in owes[t] /\ stream'[p][n + 1].after = gate[t]
      BY <1>4, <1>6, <3>1
    <3>3. x \in Submission /\ x.plan \in Streams
      BY <3>2, SubmissionsTyped DEF Submission
    <3>4. \/ x.plan \in failed \/ IsDone(x) \/ x \in gate[t]
          \/ \E j \in 1..Len(stream[p]) : x \in stream[p][j].after
      BY <1>0, <1>2, <1>3, <3>2, <3>3 DEF Owing, Owes, Streams, p
    <3>5. ASSUME NEW j \in 1..Len(stream[p]), x \in stream[p][j].after PROVE j \in 1..i /\ x \in stream'[q][j].after
      BY <1>6, <3>1, <3>5
    <3>6. x \in gate[t] => i \in 1..i /\ x \in stream'[q][i].after
      BY <3>1, <3>2
    <3> QED  BY <3>4, <3>5, <3>6
  <2> QED  BY <2>1, <2>2
<1>11. Gated'
  <2> SUFFICES ASSUME NEW q \in Plan, NEW i \in 1..done[q], NEW x \in stream'[q][i].after PROVE IsDone(x)
    BY <1>1 DEF Gated, IsDone
  <2>1. i \in 1..Len(stream[q])
    BY <1>0, <1>8 DEF Lanes, LaneTypes, Streams
  <2> QED  BY <1>0, <1>7, <2>1 DEF Gated
<1>12. CopiesFollowed'
  <2> SUFFICES ASSUME NEW q \in Plan \ failed, NEW c \in 1..copiesSeen[q] PROVE CopySeen(q, c)'
    BY <1>1 DEF CopiesFollowed
  <2>1. PICK x : x = [plan |-> Copy, at |-> c]
    OBVIOUS
  <2>2. \/ IsDone(x) \/ \E j \in 1..Len(stream[q]) : x \in stream[q][j].after
        \/ \E u \in SyncThread : plan[u] = q /\ step[u] = "launch" /\ x \in gate[u]
    BY <1>0, <2>1 DEF CopiesFollowed, CopySeen
  <2>3. \/ IsDone(x) \/ \E j \in 1..Len(stream'[q]) : x \in stream'[q][j].after
        \/ \E u \in SyncThread : plan[u] = q /\ step'[u] = "launch" /\ x \in gate[u]
    <3>1. CASE \E j \in 1..Len(stream[q]) : x \in stream[q][j].after
      BY <1>7, <3>1
    <3>2. ASSUME NEW u \in SyncThread, plan[u] = q, step[u] = "launch", x \in gate[u], u # t
          PROVE  step'[u] = "launch"
      BY <1>2, <3>2
    <3>3. plan[t] = q /\ x \in gate[t] => n + 1 \in 1..Len(stream'[q]) /\ x \in stream'[q][n + 1].after
      BY <1>4, <1>6 DEF p
    <3> QED  BY <2>2, <3>1, <3>2, <3>3
  <2> QED  BY <1>1, <2>1, <2>3 DEF CopySeen, IsDone
<1> QED  BY <1>9, <1>10, <1>11, <1>12 DEF OrderInv

\* Nothing is owed at the start.
LEMMA OrderStarts == SyncInit => OrderInv
<1> SUFFICES ASSUME SyncInit PROVE OrderInv
  OBVIOUS
<1>1. /\ \A p \in Plan : stream[p] = << >> /\ done[p] = 0 /\ copiesSeen[p] = 0
      /\ \A t \in SyncThread : plan[t] = NoPlan
      /\ NoPlan \notin Plan
  BY SyncAssumption DEF SyncInit, Streams
<1>2. Len(<< >>) = 0
  OBVIOUS
<1> QED  BY <1>1, <1>2 DEF OrderInv, Owing, Owes, Followed, Gated, CopiesFollowed

\* Every step keeps the order.
LEMMA OrderKeeps ==
    ASSUME TracksLanes, SyncInv, OrderInv, SyncNext
    PROVE  OrderInv'
<1>0. SyncInv' /\ Advance
  BY SyncKeeps
<1>1. CASE \E t \in SyncThread : SyncStep(t)
  <2> SUFFICES ASSUME NEW t \in SyncThread, SyncStep(t) PROVE OrderInv'
    BY <1>1
  <2>1. CASE OrderTokens(t) \/ OrderTails(t) \/ Mark(t) \/ Launch(t)
    BY <2>1, OrderTokensOrder, OrderTailsOrder, MarkOrder, LaunchOrder
  <2>2. CASE ~(OrderTokens(t) \/ OrderTails(t) \/ Mark(t) \/ Launch(t))
    <3>1. \/ Stage(t) \/ ExecuteFails(t) \/ Mint(t) \/ Record(t) \/ Published(t)
          \/ Lookup(t) \/ VisitLane(t) \/ LaneDrained(t) \/ TokensWaited(t) \/ Access(t)
      BY <2>2 DEF SyncStep
    <3> QED  BY <1>0, <3>1, QuietSteps, QuietOrder
  <2> QED  BY <2>1, <2>2
<1>2. CASE \E t \in SyncThread, p \in Plan : Execute(t, p)
  BY <1>2, ExecuteOrder
<1>3. CASE \E t \in SyncThread, s \in Storage :
              \/ \E purpose \in {"read", "copyin"} : HostAccess(t, s, purpose)
              \/ FreeBuffer(t, s) \/ AllocPooled(t, s) \/ AllocFresh(t, s)
  BY <1>0, <1>3, QuietCalls, QuietOrder
<1>4. CASE \E p \in Streams : Complete(p)
  BY <1>0, <1>4, QuietComplete, QuietOrder
<1> QED  BY <1>1, <1>2, <1>3, <1>4, Zenon DEF SyncNext

\* A stuttering step keeps it too.
LEMMA OrderStutters == OrderInv /\ UNCHANGED syncVars => OrderInv'
<1> SUFFICES ASSUME OrderInv, UNCHANGED syncVars PROVE OrderInv'
  OBVIOUS
<1>1. UNCHANGED <<stream, done, settled, copiesSeen, failed, step, plan, gate, owes>>
  BY DEF syncVars, lanes, tables, locals
<1> QED  BY <1>1 DEF OrderInv, Owing, Owes, Followed, Gated, CopiesFollowed, CopySeen, IsDone

\* Where lanes are tracked (CUDA), a plan's kernel never ends before a kernel or
\* copy that conflicts with its plan and belongs to a call that returned without
\* error before its execute began (order_lane_after, order_launch): although
\* tokens are replaced, inherited and pruned by waits meanwhile.
THEOREM SyncPlansOrdered == TracksLanes => (SyncSpec => []PlansOrdered)
<1> SUFFICES ASSUME TracksLanes PROVE SyncSpec => []PlansOrdered
  OBVIOUS
<1>1. SyncInv /\ OrderInv /\ [SyncNext]_syncVars => OrderInv'
  BY OrderKeeps, OrderStutters
<1>2. SyncInv /\ OrderInv => PlansOrdered
  <2> SUFFICES ASSUME SyncInv, OrderInv, NEW p \in Plan, NEW i \in 1..done[p], NEW x \in stream[p][i].owes,
                      x.plan \notin failed
               PROVE  IsDone(x)
    BY DEF PlansOrdered
  <2>1. done[p] \in Nat /\ Len(stream[p]) \in Nat /\ done[p] <= Len(stream[p])
    BY DEF SyncInv, SyncTypes, LaneTypes, Lanes, Streams
  <2>2. i \in 1..Len(stream[p])
    BY <2>1
  <2>3. IsDone(x) \/ \E j \in 1..i : x \in stream[p][j].after
    BY <2>2 DEF OrderInv, Followed
  <2>4. ASSUME NEW j \in 1..i, x \in stream[p][j].after PROVE IsDone(x)
    <3>1. j \in 1..done[p]
      BY <2>1
    <3> QED  BY <2>4, <3>1 DEF OrderInv, Gated
  <2> QED  BY <2>3, <2>4
<1> QED  BY SyncInvariance, OrderStarts, <1>1, <1>2, PTL DEF SyncSpec

=================================================================================
