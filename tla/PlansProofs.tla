------------------------------- MODULE PlansProofs -------------------------------
(* What a prepared plan rests on: the interned graph, the compiled programs    *)
(* and the storages of realized tensors.                                       *)
(*                                                                             *)
(* Hash consing, for any number of threads, operations and calls.  Every Arc   *)
(* of a node has one owner: a handle, a reader of the table, a call that is    *)
(* making the node, an operation on its way in, a live parent, an activation   *)
(* of drop or the teardown queue.  The invariant counts them (Counted) and     *)
(* says what a call may rely on between two of its steps (Staged), which nodes *)
(* are dying and in which activation (Deaths), and that a queue outlives no    *)
(* drain (Queued).                                                             *)
(*                                                                             *)
(* The compiled-program cache, for any number of threads, keys and calls.      *)
(* What is published must already be right while its maker holds it: a kernel  *)
(* about to be published was compiled for the key of the call, by a caller     *)
(* that is not ephemeral.                                                      *)
(*                                                                             *)
(* Realizing tensors, for any number of threads, each with a tensor of its     *)
(* own.  An identity is settled when it is bound and nobody has yet to store   *)
(* into it; a graph stands for a tensor when it computes the tensor's data     *)
(* from a settled identity, or by the store its call started with.  The        *)
(* invariant says which graphs stand for a tensor at each step of a call.      *)
EXTENDS UOpIntern, KernelCache, TensorRegistry, SequenceTheorems, FiniteSetTheorems, TLAPS

---------------------------------------------------------------------------------
(* Counting                                                                    *)

Bit(b) == IF b THEN 1 ELSE 0

\* Where the sequences in box name n.
Spots(box, n) == {x \in (DOMAIN box) \X Nat : x[2] \in DOMAIN box[x[1]] /\ box[x[1]][x[2]] = n}

\* A set that differs from a finite one in t alone.
LEMMA OneMember ==
    ASSUME NEW S, NEW T, NEW t, IsFiniteSet(S), \A u : u # t => (u \in T <=> u \in S)
    PROVE  /\ IsFiniteSet(T) /\ Cardinality(T) \in Nat /\ Cardinality(S) \in Nat
           /\ Cardinality(T) + Bit(t \in S) = Cardinality(S) + Bit(t \in T)
<1>1. Cardinality(S) \in Nat
  BY FS_CardinalityType
<1>2. CASE t \in T
  <2>1. T = S \cup {t}
    BY <1>2
  <2>2. IsFiniteSet(T) /\ Cardinality(T) = IF t \in S THEN Cardinality(S) ELSE Cardinality(S) + 1
    BY <2>1, FS_AddElement
  <2> QED BY <1>1, <1>2, <2>2 DEF Bit
<1>3. CASE t \notin T
  <2>1. T = S \ {t}
    BY <1>3
  <2>2. IsFiniteSet(T) /\ Cardinality(T) = IF t \in S THEN Cardinality(S) - 1 ELSE Cardinality(S)
    BY <2>1, FS_RemoveElement
  <2>3. Cardinality(T) \in Nat
    BY <2>2, FS_CardinalityType
  <2> QED BY <1>1, <1>3, <2>2, <2>3 DEF Bit
<1> QED BY <1>2, <1>3

\* How often a sequence names n.
LEMMA OccurrencesType ==
    ASSUME NEW n, NEW s \in Seq(UNode)
    PROVE  IsFiniteSet({i \in DOMAIN s : s[i] = n}) /\ Occurrences(n, s) \in Nat
<1>1. DOMAIN s = 1..Len(s) /\ Len(s) \in Nat
  BY LenProperties
<1>2. IsFiniteSet(1..Len(s))
  BY <1>1, FS_Interval
<1>3. IsFiniteSet({i \in DOMAIN s : s[i] = n})
  BY <1>1, <1>2, FS_Subset
<1> QED BY <1>3, FS_CardinalityType DEF Occurrences

\* The empty sequence names no node.
LEMMA OccurrencesNone ==
    ASSUME NEW n
    PROVE  Occurrences(n, <<>>) = 0
<1>1. {i \in DOMAIN <<>> : <<>>[i] = n} = {}
  OBVIOUS
<1> QED BY <1>1, FS_EmptySet DEF Occurrences

\* A node that a sequence does not name occurs in it zero times.
LEMMA OccurrencesZero ==
    ASSUME NEW n, NEW s, \A i \in DOMAIN s : s[i] # n
    PROVE  Occurrences(n, s) = 0
<1>1. {i \in DOMAIN s : s[i] = n} = {}
  OBVIOUS
<1> QED BY <1>1, FS_EmptySet DEF Occurrences

\* A node that a sequence names occurs in it at least once.
LEMMA OccurrencesSome ==
    ASSUME NEW n, NEW s \in Seq(UNode), NEW i \in DOMAIN s, s[i] = n
    PROVE  Occurrences(n, s) >= 1
<1>1. PICK places : places = {j \in DOMAIN s : s[j] = n}
  OBVIOUS
<1>2. places # {}
  BY <1>1
<1>3. IsFiniteSet(places) /\ Occurrences(n, s) \in Nat
  BY <1>1, OccurrencesType
<1>4. Cardinality(places) # 0
  BY <1>2, <1>3, FS_EmptySet
<1> QED BY <1>1, <1>3, <1>4 DEF Occurrences

\* Taking the first element away lowers the count of that node alone.
LEMMA OccurrencesTail ==
    ASSUME NEW n, NEW s \in Seq(UNode), s # <<>>
    PROVE  Tail(s) \in Seq(UNode) /\ Occurrences(n, Tail(s)) + Bit(Head(s) = n) = Occurrences(n, s)
<1> DEFINE I == {i \in DOMAIN s : s[i] = n}
           J == {i \in DOMAIN Tail(s) : Tail(s)[i] = n}
           K == I \ {1}
           f == [j \in J |-> j + 1]
<1>1. /\ Len(s) \in Nat \ {0} /\ DOMAIN s = 1..Len(s)
      /\ Tail(s) \in Seq(UNode) /\ Len(Tail(s)) = Len(s) - 1 /\ DOMAIN Tail(s) = 1..(Len(s) - 1)
      /\ \A i \in 1..(Len(s) - 1) : Tail(s)[i] = s[i + 1]
  BY LenProperties, EmptySeq, HeadTailProperties
<1>2. Head(s) = s[1]
  BY <1>1
<1>3. IsFiniteSet(I) /\ IsFiniteSet(J)
  BY <1>1, OccurrencesType
<1>4. f \in Bijection(J, K)
  <2>1. f \in [J -> K]
    BY <1>1
  <2>2. \A a, b \in J : f[a] = f[b] => a = b
    BY <1>1
  <2>3. \A k \in K : \E j \in J : f[j] = k
    <3> TAKE k \in K
    <3>1. k - 1 \in J
      BY <1>1
    <3> QED BY <3>1, <1>1
  <2> QED BY <2>1, <2>2, <2>3 DEF Bijection, Injection, Surjection, IsInjective
<1>5. Cardinality(K) = Cardinality(J)
  BY <1>3, <1>4, FS_Bijection DEF ExistsBijection
<1>6. Cardinality(K) = IF 1 \in I THEN Cardinality(I) - 1 ELSE Cardinality(I)
  BY <1>3, FS_RemoveElement
<1>7. 1 \in I <=> Head(s) = n
  BY <1>1, <1>2
<1>8. Cardinality(I) \in Nat /\ Cardinality(J) \in Nat
  BY <1>3, FS_CardinalityType
<1>9. Occurrences(n, s) = Cardinality(I) /\ Occurrences(n, Tail(s)) = Cardinality(J)
  BY DEF Occurrences
<1> HIDE DEF I, J, K
<1> QED BY <1>1, <1>5, <1>6, <1>7, <1>8, <1>9 DEF Bit

\* A box that is filled anew changes the count by what it names.
LEMMA OneBox ==
    ASSUME NEW box, NEW edited, NEW b \in DOMAIN box, NEW n, IsFiniteSet(Spots(box, n)),
           DOMAIN edited = DOMAIN box, \A a \in DOMAIN box : a # b => edited[a] = box[a],
           box[b] \in Seq(UNode), edited[b] \in Seq(UNode)
    PROVE  /\ IsFiniteSet(Spots(edited, n)) /\ Cardinality(Spots(edited, n)) \in Nat
           /\ Cardinality(Spots(box, n)) \in Nat
           /\ Cardinality(Spots(edited, n)) + Occurrences(n, box[b])
                = Cardinality(Spots(box, n)) + Occurrences(n, edited[b])
<1> DEFINE Here(s) == {i \in DOMAIN s : s[i] = n}
           In(s) == {<<b, i>> : i \in Here(s)}
           Rest == {x \in Spots(box, n) : x[1] # b}
<1>1. ASSUME NEW s \in Seq(UNode)
      PROVE  IsFiniteSet(In(s)) /\ Cardinality(In(s)) = Occurrences(n, s)
  <2> DEFINE f == [i \in Here(s) |-> <<b, i>>]
  <2>1. f \in [Here(s) -> In(s)]
    OBVIOUS
  <2>2. \A i, j \in Here(s) : f[i] = f[j] => i = j
    OBVIOUS
  <2>3. \A x \in In(s) : \E i \in Here(s) : f[i] = x
    OBVIOUS
  <2>4. f \in Bijection(Here(s), In(s))
    BY <2>1, <2>2, <2>3 DEF Bijection, Injection, Surjection, IsInjective
  <2>5. IsFiniteSet(Here(s))
    BY OccurrencesType
  <2> QED BY <2>4, <2>5, FS_Bijection DEF ExistsBijection, Occurrences
<1>2. IsFiniteSet(Rest)
  BY FS_Subset
<1>3. ASSUME NEW any, DOMAIN any = DOMAIN box, \A a \in DOMAIN box : a # b => any[a] = box[a], any[b] \in Seq(UNode)
      PROVE  /\ IsFiniteSet(Spots(any, n))
             /\ Cardinality(Spots(any, n)) = Cardinality(Rest) + Occurrences(n, any[b])
             /\ Cardinality(Spots(any, n)) \in Nat
  <2>1. DOMAIN any[b] \subseteq Nat
    BY <1>3, LenProperties
  <2>2. Spots(any, n) = Rest \cup In(any[b])
    BY <1>3, <2>1 DEF Spots
  <2>3. Rest \cap In(any[b]) = {}
    OBVIOUS
  <2>4. IsFiniteSet(In(any[b])) /\ Cardinality(In(any[b])) = Occurrences(n, any[b])
    BY <1>1, <1>3
  <2> HIDE DEF Rest, In
  <2>5. IsFiniteSet(Spots(any, n))
    BY <1>2, <2>2, <2>4, FS_Union
  <2>6. Cardinality(Spots(any, n)) = Cardinality(Rest) + Cardinality(In(any[b])) - Cardinality({})
    BY <1>2, <2>2, <2>3, <2>4, FS_Union
  <2> QED BY <1>2, <2>4, <2>5, <2>6, FS_EmptySet, FS_CardinalityType
<1>4. Cardinality(Rest) \in Nat /\ Occurrences(n, box[b]) \in Nat /\ Occurrences(n, edited[b]) \in Nat
  BY <1>2, FS_CardinalityType, OccurrencesType
<1>5. Cardinality(Spots(box, n)) = Cardinality(Rest) + Occurrences(n, box[b])
  BY <1>3
<1>6. IsFiniteSet(Spots(edited, n)) /\ Cardinality(Spots(edited, n)) = Cardinality(Rest) + Occurrences(n, edited[b])
  BY <1>3
<1> HIDE DEF Rest
<1> QED BY <1>4, <1>5, <1>6

\* The last element of a sequence, exchanged or taken off.
LEMMA LastExchanged ==
    ASSUME NEW S, NEW s \in Seq(S), s # <<>>, NEW e \in S
    PROVE  /\ Len(s) \in Nat \ {0} /\ Last(s) = s[Len(s)] /\ Last(s) \in S
           /\ Front(s) \in Seq(S) /\ Len(Front(s)) = Len(s) - 1
           /\ \A i \in 1..(Len(s) - 1) : Front(s)[i] = s[i]
           /\ Append(Front(s), e) \in Seq(S) /\ Len(Append(Front(s), e)) = Len(s)
           /\ Append(Front(s), e)[Len(s)] = e
           /\ \A i \in 1..(Len(s) - 1) : Append(Front(s), e)[i] = s[i]
<1>1. Len(s) \in Nat \ {0} /\ \A i \in 1..Len(s) : s[i] \in S
  BY EmptySeq, ElementOfSeq
<1>2. /\ Front(s) \in Seq(S) /\ Len(Front(s)) = Len(s) - 1
      /\ \A i \in 1..(Len(s) - 1) : Front(s)[i] = s[i]
  <2>1. 1 \in Int /\ Len(s) - 1 \in Int /\ \A i \in 1..(Len(s) - 1) : s[i] \in S
    BY <1>1
  <2> DEFINE k == Len(s) - 1
             r == SubSeq(s, 1, k)
  <2>2. r \in Seq(S) /\ Len(r) = (IF 1 <= k THEN k - 1 + 1 ELSE 0) /\ \A i \in 1..(k - 1 + 1) : r[i] = s[1 + i - 1]
    BY <2>1, SubSeqProperties
  <2>3. Front(s) = r
    BY DEF Front
  <2>4. k \in Nat /\ k = Len(s) - 1
    BY <1>1
  <2> HIDE DEF r, k
  <2>5. Len(r) = k
    BY <2>2, <2>4
  <2>6. ASSUME NEW i \in 1..k PROVE r[i] = s[i]
    <3>1. i \in 1..(k - 1 + 1) /\ 1 + i - 1 = i
      BY <2>4
    <3>2. r[i] = s[1 + i - 1]
      BY <2>2, <3>1
    <3> QED BY <3>1, <3>2
  <2>7. \A i \in 1..k : r[i] = s[i]
    BY <2>6
  <2> QED BY <2>2, <2>3, <2>4, <2>5, <2>7
<1>3. /\ Append(Front(s), e) \in Seq(S) /\ Len(Append(Front(s), e)) = Len(s)
      /\ \A i \in 1..(Len(s) - 1) : Append(Front(s), e)[i] = Front(s)[i]
      /\ Append(Front(s), e)[Len(s)] = e
  BY <1>1, <1>2, AppendProperties
<1> QED BY <1>1, <1>2, <1>3 DEF Last

---------------------------------------------------------------------------------
(* UOpIntern: the types                                                        *)

Content == [op : (DOMAIN Arity) \cup {"none"}, kids : Seq(UNode)]
Frame == {fr \in [node : UNode, at : {"retire", "inspect", "glue", "drain"}, rest : Seq(UNode)] :
            fr.at \in {"retire", "inspect"} => fr.rest = <<>>}
Owning == {"probe", "probed", "upgrade", "alloc"}
Making == [at : {"idle", "compute", "compared", "decide", "lost"} \cup Owning,
           op : Content, found : SUBSET UNode, node : SUBSET UNode]

InternShape ==
    /\ structure \in [UNode -> Content]
    /\ strong \in [UNode -> Int]
    /\ uops \in SUBSET UNode
    /\ handles \in [Builder -> SUBSET UNode]
    /\ making \in [Builder -> Making]
    /\ frames \in [Builder -> Seq(Frame)]
    /\ draining \in [Builder -> BOOLEAN]
    /\ deferred \in [Builder -> Seq(Seq(UNode))]

---------------------------------------------------------------------------------
(* Who has an Arc of a node                                                    *)

\* The operation a thread passed to new, the nodes' own children, the payloads
\* that are being released and those in the queue of the teardown.
OpBox == [t \in Builder |-> IF making[t].at \in Owning THEN making[t].op.kids ELSE <<>>]
NodeBox == [p \in UNode |-> structure[p].kids]
RestOf(s, i) == IF i \in DOMAIN s THEN s[i].rest ELSE <<>>
PartOf(s, i) == IF i \in DOMAIN s THEN s[i] ELSE <<>>
FrameBox == [x \in Builder \X Nat |-> RestOf(frames[x[1]], x[2])]
QueueBox == [x \in Builder \X Nat |-> PartOf(deferred[x[1]], x[2])]

Reads(t, n) == making[t].at \in {"probed", "compared"} /\ n \in making[t].found

Keepers(n) == {t \in Builder : n \in handles[t]}
Readers(n) == {t \in Builder : Reads(t, n)}
Makers(n) == {t \in Builder : n \in making[t].node}

Finite(n) ==
    /\ IsFiniteSet(Keepers(n)) /\ IsFiniteSet(Readers(n)) /\ IsFiniteSet(Makers(n))
    /\ IsFiniteSet(Spots(OpBox, n)) /\ IsFiniteSet(Spots(NodeBox, n))
    /\ IsFiniteSet(Spots(FrameBox, n)) /\ IsFiniteSet(Spots(QueueBox, n))

Owners(n) ==
    Cardinality(Keepers(n)) + Cardinality(Readers(n)) + Cardinality(Makers(n))
        + Cardinality(Spots(OpBox, n)) + Cardinality(Spots(NodeBox, n))
        + Cardinality(Spots(FrameBox, n)) + Cardinality(Spots(QueueBox, n))

Counted == \A n \in UNode : Finite(n) /\ strong[n] = Owners(n)

\* What thread t, node p and the boxes f and q have of it.
Share(t, p, f, q, n) ==
    Bit(n \in handles[t]) + Bit(Reads(t, n)) + Bit(n \in making[t].node)
        + Occurrences(n, OpBox[t]) + Occurrences(n, NodeBox[p])
        + Occurrences(n, FrameBox[f]) + Occurrences(n, QueueBox[q])

\* The boxes hold sequences of nodes, ...
Boxed ==
    /\ \A t \in Builder : OpBox[t] \in Seq(UNode)
    /\ \A p \in UNode : NodeBox[p] \in Seq(UNode)
    /\ \A x \in Builder \X Nat : FrameBox[x] \in Seq(UNode) /\ QueueBox[x] \in Seq(UNode)

\* ... in every state the variables of which have their types.
LEMMA BoxTypes == InternShape => Boxed
<1> SUFFICES ASSUME InternShape PROVE Boxed
  OBVIOUS
<1>1. \A t \in Builder : OpBox[t] \in Seq(UNode)
  BY EmptySeq DEF InternShape, OpBox, Making, Content
<1>2. \A p \in UNode : NodeBox[p] \in Seq(UNode)
  BY DEF InternShape, NodeBox, Content
<1>3. ASSUME NEW x \in Builder \X Nat PROVE FrameBox[x] \in Seq(UNode)
  <2>1. CASE x[2] \in DOMAIN frames[x[1]]
    <3>1. frames[x[1]][x[2]] \in Frame
      BY <2>1, LenProperties, ElementOfSeq DEF InternShape
    <3> QED BY <2>1, <3>1 DEF FrameBox, RestOf, Frame
  <2>2. CASE x[2] \notin DOMAIN frames[x[1]]
    BY <2>2, EmptySeq DEF FrameBox, RestOf
  <2> QED BY <2>1, <2>2
<1>4. ASSUME NEW x \in Builder \X Nat PROVE QueueBox[x] \in Seq(UNode)
  <2>1. CASE x[2] \in DOMAIN deferred[x[1]]
    <3>1. deferred[x[1]][x[2]] \in Seq(UNode)
      BY <2>1, LenProperties, ElementOfSeq DEF InternShape
    <3> QED BY <2>1, <3>1 DEF QueueBox, PartOf
  <2>2. CASE x[2] \notin DOMAIN deferred[x[1]]
    BY <2>2, EmptySeq DEF QueueBox, PartOf
  <2> QED BY <2>1, <2>2
<1> QED BY <1>1, <1>2, <1>3, <1>4 DEF Boxed

\* The same of the state after a step.
LEMMA BoxTypesAfter == InternShape' => Boxed'
  BY BoxTypes, PTL

\* A step of one thread that touches one node and one box of each kind changes
\* the number of owners by their share.
LEMMA Recount ==
    ASSUME InternShape, InternShape', Counted, NEW t \in Builder, NEW p \in UNode,
           NEW f \in Builder \X Nat, NEW q \in Builder \X Nat,
           \A u \in Builder : u # t => handles'[u] = handles[u] /\ making'[u] = making[u],
           \A m \in UNode : m # p => structure'[m] = structure[m],
           \A x \in Builder \X Nat : x # f => FrameBox'[x] = FrameBox[x],
           \A x \in Builder \X Nat : x # q => QueueBox'[x] = QueueBox[x],
           NEW n \in UNode
    PROVE  /\ Finite(n)' /\ Owners(n) \in Nat /\ Owners(n)' \in Nat
           /\ Share(t, p, f, q, n) \in Nat /\ Share(t, p, f, q, n)' \in Nat
           /\ Owners(n)' + Share(t, p, f, q, n) = Owners(n) + Share(t, p, f, q, n)'
<1>0. Finite(n)
  BY DEF Counted
<1>1. /\ IsFiniteSet(Keepers(n)') /\ Cardinality(Keepers(n)') \in Nat /\ Cardinality(Keepers(n)) \in Nat
      /\ Cardinality(Keepers(n)') + Bit(n \in handles[t]) = Cardinality(Keepers(n)) + Bit(n \in handles'[t])
  <2>1. t \in Keepers(n) <=> n \in handles[t]
    BY DEF Keepers
  <2>2. t \in Keepers(n)' <=> n \in handles'[t]
    BY DEF Keepers
  <2>3. \A u : u # t => (u \in Keepers(n)' <=> u \in Keepers(n))
    BY DEF Keepers
  <2>4. IsFiniteSet(Keepers(n))
    BY <1>0 DEF Finite
  <2> HIDE DEF Keepers
  <2>5. /\ IsFiniteSet(Keepers(n)') /\ Cardinality(Keepers(n)') \in Nat /\ Cardinality(Keepers(n)) \in Nat
        /\ Cardinality(Keepers(n)') + Bit(t \in Keepers(n)) = Cardinality(Keepers(n)) + Bit(t \in Keepers(n)')
    BY <2>3, <2>4, OneMember
  <2> QED BY <2>1, <2>2, <2>5 DEF Bit
<1>2. /\ IsFiniteSet(Readers(n)') /\ Cardinality(Readers(n)') \in Nat /\ Cardinality(Readers(n)) \in Nat
      /\ Cardinality(Readers(n)') + Bit(Reads(t, n)) = Cardinality(Readers(n)) + Bit(Reads(t, n)')
  <2>1. t \in Readers(n) <=> Reads(t, n)
    BY DEF Readers
  <2>2. t \in Readers(n)' <=> Reads(t, n)'
    BY DEF Readers
  <2>3. \A u : u # t => (u \in Readers(n)' <=> u \in Readers(n))
    BY DEF Readers, Reads
  <2>4. IsFiniteSet(Readers(n))
    BY <1>0 DEF Finite
  <2>5. /\ IsFiniteSet(Readers(n)') /\ Cardinality(Readers(n)') \in Nat /\ Cardinality(Readers(n)) \in Nat
        /\ Cardinality(Readers(n)') + Bit(t \in Readers(n)) = Cardinality(Readers(n)) + Bit(t \in Readers(n)')
    BY <2>3, <2>4, OneMember
  <2> QED BY <2>1, <2>2, <2>5 DEF Bit
<1>3. /\ IsFiniteSet(Makers(n)') /\ Cardinality(Makers(n)') \in Nat /\ Cardinality(Makers(n)) \in Nat
      /\ Cardinality(Makers(n)') + Bit(n \in making[t].node) = Cardinality(Makers(n)) + Bit(n \in making'[t].node)
  <2>1. t \in Makers(n) <=> n \in making[t].node
    BY DEF Makers
  <2>2. t \in Makers(n)' <=> n \in making'[t].node
    BY DEF Makers
  <2>3. \A u : u # t => (u \in Makers(n)' <=> u \in Makers(n))
    BY DEF Makers
  <2>4. IsFiniteSet(Makers(n))
    BY <1>0 DEF Finite
  <2>5. /\ IsFiniteSet(Makers(n)') /\ Cardinality(Makers(n)') \in Nat /\ Cardinality(Makers(n)) \in Nat
        /\ Cardinality(Makers(n)') + Bit(t \in Makers(n)) = Cardinality(Makers(n)) + Bit(t \in Makers(n)')
    BY <2>3, <2>4, OneMember
  <2> QED BY <2>1, <2>2, <2>5 DEF Bit
<1>4. /\ IsFiniteSet(Spots(OpBox, n)') /\ Cardinality(Spots(OpBox, n)') \in Nat /\ Cardinality(Spots(OpBox, n)) \in Nat
      /\ Cardinality(Spots(OpBox, n)') + Occurrences(n, OpBox[t]) = Cardinality(Spots(OpBox, n)) + Occurrences(n, OpBox'[t])
  <2>1. DOMAIN OpBox = Builder /\ DOMAIN OpBox' = Builder /\ \A u \in Builder : u # t => OpBox'[u] = OpBox[u]
    BY DEF OpBox
  <2>2. OpBox[t] \in Seq(UNode) /\ OpBox'[t] \in Seq(UNode)
    BY BoxTypes, BoxTypesAfter DEF Boxed
  <2>3. IsFiniteSet(Spots(OpBox, n))
    BY <1>0 DEF Finite
  <2> HIDE DEF OpBox
  <2>4. Spots(OpBox, n)' = Spots(OpBox', n)
    BY DEF Spots
  <2> QED BY <2>1, <2>2, <2>3, <2>4, OneBox
<1>5. /\ IsFiniteSet(Spots(NodeBox, n)') /\ Cardinality(Spots(NodeBox, n)') \in Nat /\ Cardinality(Spots(NodeBox, n)) \in Nat
      /\ Cardinality(Spots(NodeBox, n)') + Occurrences(n, NodeBox[p]) = Cardinality(Spots(NodeBox, n)) + Occurrences(n, NodeBox'[p])
  <2>1. DOMAIN NodeBox = UNode /\ DOMAIN NodeBox' = UNode /\ \A u \in UNode : u # p => NodeBox'[u] = NodeBox[u]
    BY DEF NodeBox
  <2>2. NodeBox[p] \in Seq(UNode) /\ NodeBox'[p] \in Seq(UNode)
    BY BoxTypes, BoxTypesAfter DEF Boxed
  <2>3. IsFiniteSet(Spots(NodeBox, n))
    BY <1>0 DEF Finite
  <2>4. Spots(NodeBox, n)' = Spots(NodeBox', n)
    BY DEF Spots
  <2> QED BY <2>1, <2>2, <2>3, <2>4, OneBox
<1>6. /\ IsFiniteSet(Spots(FrameBox, n)') /\ Cardinality(Spots(FrameBox, n)') \in Nat /\ Cardinality(Spots(FrameBox, n)) \in Nat
      /\ Cardinality(Spots(FrameBox, n)') + Occurrences(n, FrameBox[f]) = Cardinality(Spots(FrameBox, n)) + Occurrences(n, FrameBox'[f])
  <2>1. DOMAIN FrameBox = Builder \X Nat /\ DOMAIN FrameBox' = Builder \X Nat
    BY DEF FrameBox
  <2>2. FrameBox[f] \in Seq(UNode) /\ FrameBox'[f] \in Seq(UNode)
    BY BoxTypes, BoxTypesAfter DEF Boxed
  <2>3. IsFiniteSet(Spots(FrameBox, n))
    BY <1>0 DEF Finite
  <2>4. Spots(FrameBox, n)' = Spots(FrameBox', n)
    BY DEF Spots
  <2> QED BY <2>1, <2>2, <2>3, <2>4, OneBox
<1>7. /\ IsFiniteSet(Spots(QueueBox, n)') /\ Cardinality(Spots(QueueBox, n)') \in Nat /\ Cardinality(Spots(QueueBox, n)) \in Nat
      /\ Cardinality(Spots(QueueBox, n)') + Occurrences(n, QueueBox[q]) = Cardinality(Spots(QueueBox, n)) + Occurrences(n, QueueBox'[q])
  <2>1. DOMAIN QueueBox = Builder \X Nat /\ DOMAIN QueueBox' = Builder \X Nat
    BY DEF QueueBox
  <2>2. QueueBox[q] \in Seq(UNode) /\ QueueBox'[q] \in Seq(UNode)
    BY BoxTypes, BoxTypesAfter DEF Boxed
  <2>3. IsFiniteSet(Spots(QueueBox, n))
    BY <1>0 DEF Finite
  <2>4. Spots(QueueBox, n)' = Spots(QueueBox', n)
    BY DEF Spots
  <2> QED BY <2>1, <2>2, <2>3, <2>4, OneBox
<1>8. /\ Bit(n \in handles[t]) \in Nat /\ Bit(n \in handles'[t]) \in Nat
      /\ Bit(Reads(t, n)) \in Nat /\ Bit(Reads(t, n)') \in Nat
      /\ Bit(n \in making[t].node) \in Nat /\ Bit(n \in making'[t].node) \in Nat
  BY DEF Bit
<1>9. /\ Occurrences(n, OpBox[t]) \in Nat /\ Occurrences(n, OpBox'[t]) \in Nat
      /\ Occurrences(n, NodeBox[p]) \in Nat /\ Occurrences(n, NodeBox'[p]) \in Nat
      /\ Occurrences(n, FrameBox[f]) \in Nat /\ Occurrences(n, FrameBox'[f]) \in Nat
      /\ Occurrences(n, QueueBox[q]) \in Nat /\ Occurrences(n, QueueBox'[q]) \in Nat
  BY BoxTypes, BoxTypesAfter, OccurrencesType DEF Boxed
<1>10. Finite(n)'
  BY <1>1, <1>2, <1>3, <1>4, <1>5, <1>6, <1>7 DEF Finite
<1>11. Share(t, p, f, q, n)' =
        Bit(n \in handles'[t]) + Bit(Reads(t, n)') + Bit(n \in making'[t].node)
        + Occurrences(n, OpBox'[t]) + Occurrences(n, NodeBox'[p])
        + Occurrences(n, FrameBox'[f]) + Occurrences(n, QueueBox'[q])
  BY DEF Share, Occurrences, Bit
<1>12. Owners(n)' = Cardinality(Keepers(n)') + Cardinality(Readers(n)') + Cardinality(Makers(n)')
        + Cardinality(Spots(OpBox, n)') + Cardinality(Spots(NodeBox, n)')
        + Cardinality(Spots(FrameBox, n)') + Cardinality(Spots(QueueBox, n)')
  BY DEF Owners
<1> HIDE DEF Keepers, Readers, Makers, Spots, OpBox, NodeBox, FrameBox, QueueBox, Reads, Bit
<1>13. Share(t, p, f, q, n) \in Nat /\ Share(t, p, f, q, n)' \in Nat
  BY <1>8, <1>9, <1>11 DEF Share
<1>14. Owners(n) \in Nat /\ Owners(n)' \in Nat
  BY <1>1, <1>2, <1>3, <1>4, <1>5, <1>6, <1>7, <1>12 DEF Owners
<1>15. Owners(n)' + Share(t, p, f, q, n) = Owners(n) + Share(t, p, f, q, n)'
  BY <1>1, <1>2, <1>3, <1>4, <1>5, <1>6, <1>7, <1>8, <1>9, <1>11, <1>12 DEF Share, Owners
<1> QED BY <1>10, <1>13, <1>14, <1>15

\* What thread t has of node n outside of its teardowns.
Mine(t, n) ==
    Bit(n \in handles[t]) + Bit(Reads(t, n)) + Bit(n \in making[t].node) + Occurrences(n, OpBox[t])

\* A step keeps the count of a node if it changes it as it changes the shares.
LEMMA KeepsCount ==
    ASSUME InternShape, InternShape', Counted, NEW t \in Builder, NEW p \in UNode,
           NEW f \in Builder \X Nat, NEW q \in Builder \X Nat,
           \A u \in Builder : u # t => handles'[u] = handles[u] /\ making'[u] = making[u],
           \A m \in UNode : m # p => structure'[m] = structure[m],
           \A x \in Builder \X Nat : x # f => FrameBox'[x] = FrameBox[x],
           \A x \in Builder \X Nat : x # q => QueueBox'[x] = QueueBox[x],
           NEW n \in UNode, NEW now, strong'[n] = now, now \in Int,
           now + Share(t, p, f, q, n) = strong[n] + Share(t, p, f, q, n)'
    PROVE  Finite(n)' /\ strong'[n] = Owners(n)'
<1>1. /\ Finite(n)' /\ Owners(n) \in Nat /\ Owners(n)' \in Nat
      /\ Share(t, p, f, q, n) \in Nat /\ Share(t, p, f, q, n)' \in Nat
      /\ Owners(n)' + Share(t, p, f, q, n) = Owners(n) + Share(t, p, f, q, n)'
  BY Recount
<1>2. strong[n] = Owners(n)
  BY DEF Counted
<1> HIDE DEF Owners, Share
<1> QED BY <1>1, <1>2

\* The same for a step outside of the teardowns.
LEMMA KeepsCountOfMine ==
    ASSUME InternShape, InternShape', Counted, NEW t \in Builder,
           \A u \in Builder : u # t => handles'[u] = handles[u] /\ making'[u] = making[u],
           structure' = structure, FrameBox' = FrameBox, deferred' = deferred,
           NEW n \in UNode, NEW now, strong'[n] = now, now \in Int,
           now + Mine(t, n) = strong[n] + Mine(t, n)'
    PROVE  Finite(n)' /\ strong'[n] = Owners(n)'
<1> DEFINE f == <<t, 0>>
           Rest == Occurrences(n, NodeBox[n]) + Occurrences(n, FrameBox[f]) + Occurrences(n, QueueBox[f])
<1>1. f \in Builder \X Nat
  OBVIOUS
<1>2. NodeBox' = NodeBox /\ QueueBox' = QueueBox
  BY DEF NodeBox, QueueBox
<1>3. /\ Occurrences(n, NodeBox[n]) \in Nat /\ Occurrences(n, FrameBox[f]) \in Nat /\ Occurrences(n, QueueBox[f]) \in Nat
      /\ Occurrences(n, OpBox[t]) \in Nat /\ Occurrences(n, OpBox'[t]) \in Nat
  BY <1>1, BoxTypes, BoxTypesAfter, OccurrencesType DEF Boxed
<1>4. /\ Bit(n \in handles[t]) \in Nat /\ Bit(n \in handles'[t]) \in Nat
      /\ Bit(Reads(t, n)) \in Nat /\ Bit(Reads(t, n)') \in Nat
      /\ Bit(n \in making[t].node) \in Nat /\ Bit(n \in making'[t].node) \in Nat
  BY DEF Bit
<1>5. Rest \in Nat /\ Mine(t, n) \in Nat
  BY <1>3, <1>4 DEF Mine
<1>6. Mine(t, n)' = Bit(n \in handles'[t]) + Bit(Reads(t, n)') + Bit(n \in making'[t].node) + Occurrences(n, OpBox'[t])
  BY DEF Mine, Bit, Occurrences
<1>7. Mine(t, n)' \in Nat
  BY <1>3, <1>4, <1>6
<1>8. Share(t, n, f, f, n) = Mine(t, n) + Rest
  BY <1>3, <1>4 DEF Share, Mine
<1>9. Share(t, n, f, f, n)' = Mine(t, n)' + Rest
  <2>1. Share(t, n, f, f, n)' =
        Bit(n \in handles'[t]) + Bit(Reads(t, n)') + Bit(n \in making'[t].node)
        + Occurrences(n, OpBox'[t]) + Occurrences(n, NodeBox[n])
        + Occurrences(n, FrameBox[f]) + Occurrences(n, QueueBox[f])
    BY <1>2 DEF Share, Bit, Occurrences
  <2> QED BY <1>3, <1>4, <1>6, <2>1
<1>10. strong[n] \in Nat
  <2>1. Owners(n) \in Nat
    BY <1>1, <1>2, Recount
  <2> QED BY <2>1 DEF Counted
<1>11. now + Share(t, n, f, f, n) = strong[n] + Share(t, n, f, f, n)'
  <2> HIDE DEF Rest, Mine, Share
  <2> QED BY <1>5, <1>7, <1>8, <1>9, <1>10
<1> QED BY <1>1, <1>2, <1>11, KeepsCount

\* A box names n at least as often as each of its sequences does.
LEMMA BoxBound ==
    ASSUME NEW box, NEW b \in DOMAIN box, NEW n, IsFiniteSet(Spots(box, n)), box[b] \in Seq(UNode)
    PROVE  Cardinality(Spots(box, n)) \in Nat /\ Occurrences(n, box[b]) <= Cardinality(Spots(box, n))
<1> DEFINE edited == [a \in DOMAIN box |-> IF a = b THEN <<>> ELSE box[a]]
<1>1. /\ DOMAIN edited = DOMAIN box /\ \A a \in DOMAIN box : a # b => edited[a] = box[a]
      /\ edited[b] = <<>> /\ edited[b] \in Seq(UNode)
  BY EmptySeq
<1> HIDE DEF edited
<1>2. /\ Cardinality(Spots(edited, n)) \in Nat /\ Cardinality(Spots(box, n)) \in Nat
      /\ Cardinality(Spots(edited, n)) + Occurrences(n, box[b])
                = Cardinality(Spots(box, n)) + Occurrences(n, edited[b])
  BY <1>1, OneBox
<1>3. Occurrences(n, edited[b]) = 0 /\ Occurrences(n, box[b]) \in Nat
  BY <1>1, OccurrencesNone, OccurrencesType
<1> QED BY <1>2, <1>3

\* A finite set has a member at most as often as it has members.
LEMMA SetBound ==
    ASSUME NEW S, NEW t, IsFiniteSet(S)
    PROVE  Cardinality(S) \in Nat /\ Bit(t \in S) <= Cardinality(S)
<1> DEFINE T == S \ {t}
<1>1. \A u : u # t => (u \in T <=> u \in S)
  OBVIOUS
<1>2. t \notin T
  OBVIOUS
<1> HIDE DEF T
<1>3. /\ Cardinality(T) \in Nat /\ Cardinality(S) \in Nat
      /\ Cardinality(T) + Bit(t \in S) = Cardinality(S) + Bit(t \in T)
  BY <1>1, OneMember
<1> QED BY <1>2, <1>3 DEF Bit

\* The share of a thread, of a node and of two boxes is a part of all.
LEMMA ShareBound ==
    ASSUME InternShape, Counted, NEW t \in Builder, NEW p \in UNode,
           NEW f \in Builder \X Nat, NEW q \in Builder \X Nat, NEW n \in UNode
    PROVE  strong[n] \in Nat /\ Share(t, p, f, q, n) \in Nat /\ Share(t, p, f, q, n) <= strong[n]
<1>1. Finite(n) /\ strong[n] = Owners(n)
  BY DEF Counted
<1>2. /\ DOMAIN OpBox = Builder /\ DOMAIN NodeBox = UNode
      /\ DOMAIN FrameBox = Builder \X Nat /\ DOMAIN QueueBox = Builder \X Nat
  BY DEF OpBox, NodeBox, FrameBox, QueueBox
<1>3. Boxed
  BY BoxTypes
<1>4. Cardinality(Spots(OpBox, n)) \in Nat /\ Occurrences(n, OpBox[t]) <= Cardinality(Spots(OpBox, n))
  BY <1>1, <1>2, <1>3, BoxBound DEF Finite, Boxed
<1>5. Cardinality(Spots(NodeBox, n)) \in Nat /\ Occurrences(n, NodeBox[p]) <= Cardinality(Spots(NodeBox, n))
  BY <1>1, <1>2, <1>3, BoxBound DEF Finite, Boxed
<1>6. Cardinality(Spots(FrameBox, n)) \in Nat /\ Occurrences(n, FrameBox[f]) <= Cardinality(Spots(FrameBox, n))
  BY <1>1, <1>2, <1>3, BoxBound DEF Finite, Boxed
<1>7. Cardinality(Spots(QueueBox, n)) \in Nat /\ Occurrences(n, QueueBox[q]) <= Cardinality(Spots(QueueBox, n))
  BY <1>1, <1>2, <1>3, BoxBound DEF Finite, Boxed
<1>8. /\ Occurrences(n, OpBox[t]) \in Nat /\ Occurrences(n, NodeBox[p]) \in Nat
      /\ Occurrences(n, FrameBox[f]) \in Nat /\ Occurrences(n, QueueBox[q]) \in Nat
  BY <1>3, OccurrencesType DEF Boxed
<1>9. /\ Cardinality(Keepers(n)) \in Nat /\ Bit(t \in Keepers(n)) <= Cardinality(Keepers(n))
      /\ Cardinality(Readers(n)) \in Nat /\ Bit(t \in Readers(n)) <= Cardinality(Readers(n))
      /\ Cardinality(Makers(n)) \in Nat /\ Bit(t \in Makers(n)) <= Cardinality(Makers(n))
  BY <1>1, SetBound DEF Finite
<1>10. /\ t \in Keepers(n) <=> n \in handles[t]
       /\ t \in Readers(n) <=> Reads(t, n)
       /\ t \in Makers(n) <=> n \in making[t].node
  BY DEF Keepers, Readers, Makers
<1>11. /\ Bit(n \in handles[t]) <= Cardinality(Keepers(n)) /\ Bit(Reads(t, n)) <= Cardinality(Readers(n))
       /\ Bit(n \in making[t].node) <= Cardinality(Makers(n))
  BY <1>9, <1>10 DEF Bit
<1>12. Bit(n \in handles[t]) \in Nat /\ Bit(Reads(t, n)) \in Nat /\ Bit(n \in making[t].node) \in Nat
  BY DEF Bit
<1> HIDE DEF Keepers, Readers, Makers, Reads, Bit
<1> QED BY <1>1, <1>4, <1>5, <1>6, <1>7, <1>8, <1>9, <1>11, <1>12 DEF Owners, Share

\* Two threads have not allocated one node with a single Arc.
LEMMA OneMaker ==
    ASSUME InternShape, Counted, NEW t \in Builder, NEW u \in Builder, NEW n \in UNode,
           strong[n] = 1, n \in making[t].node, n \in making[u].node
    PROVE  u = t
<1> SUFFICES ASSUME u # t PROVE FALSE
  OBVIOUS
<1>1. Finite(n) /\ strong[n] = Owners(n)
  BY DEF Counted
<1>2. IsFiniteSet(Makers(n)) /\ IsFiniteSet(Makers(n) \ {t})
  BY <1>1, FS_RemoveElement DEF Finite
<1>3. Cardinality(Makers(n)) = Cardinality(Makers(n) \ {t}) + 1 /\ Cardinality(Makers(n) \ {t}) \in Nat
  <2>1. t \in Makers(n)
    BY DEF Makers
  <2> QED BY <1>2, <2>1, FS_RemoveElement, FS_CardinalityType
<1>4. Cardinality(Makers(n) \ {t}) # 0
  <2>1. u \in Makers(n) \ {t}
    BY DEF Makers
  <2> QED BY <1>2, <2>1, FS_EmptySet
<1>5. /\ Cardinality(Keepers(n)) \in Nat /\ Cardinality(Readers(n)) \in Nat
      /\ Cardinality(Spots(OpBox, n)) \in Nat /\ Cardinality(Spots(NodeBox, n)) \in Nat
      /\ Cardinality(Spots(FrameBox, n)) \in Nat /\ Cardinality(Spots(QueueBox, n)) \in Nat
  BY <1>1, FS_CardinalityType DEF Finite
<1> HIDE DEF Keepers, Readers, Makers
<1> QED BY <1>1, <1>3, <1>4, <1>5 DEF Owners

---------------------------------------------------------------------------------
(* Steps on the activations of drop                                            *)

\* A new activation has nothing to release.
LEMMA RestPushed ==
    ASSUME NEW s \in Seq(Frame), NEW fr \in Frame, fr.rest = <<>>
    PROVE  \A i : RestOf(Append(s, fr), i) = RestOf(s, i)
<1>1. /\ Append(s, fr) \in Seq(Frame) /\ Len(Append(s, fr)) = Len(s) + 1 /\ Len(s) \in Nat
      /\ Append(s, fr)[Len(s) + 1] = fr /\ \A i \in 1..Len(s) : Append(s, fr)[i] = s[i]
      /\ DOMAIN s = 1..Len(s) /\ DOMAIN Append(s, fr) = 1..(Len(s) + 1)
  BY AppendProperties, LenProperties
<1> QED BY <1>1 DEF RestOf

\* The innermost activation, exchanged or ended.
LEMMA RestOfTop ==
    ASSUME NEW s \in Seq(Frame), s # <<>>, NEW fr \in Frame
    PROVE  /\ RestOf(s, Len(s)) = Last(s).rest
           /\ RestOf(Append(Front(s), fr), Len(s)) = fr.rest
           /\ RestOf(Front(s), Len(s)) = <<>>
           /\ \A i : i # Len(s) => /\ RestOf(Append(Front(s), fr), i) = RestOf(s, i)
                                   /\ RestOf(Front(s), i) = RestOf(s, i)
<1>1. /\ Len(s) \in Nat \ {0} /\ Last(s) = s[Len(s)] /\ Last(s) \in Frame
      /\ Front(s) \in Seq(Frame) /\ Len(Front(s)) = Len(s) - 1
      /\ \A i \in 1..(Len(s) - 1) : Front(s)[i] = s[i]
      /\ Append(Front(s), fr) \in Seq(Frame) /\ Len(Append(Front(s), fr)) = Len(s)
      /\ Append(Front(s), fr)[Len(s)] = fr
      /\ \A i \in 1..(Len(s) - 1) : Append(Front(s), fr)[i] = s[i]
  BY LastExchanged
<1>2. DOMAIN s = 1..Len(s) /\ DOMAIN Front(s) = 1..(Len(s) - 1) /\ DOMAIN Append(Front(s), fr) = 1..Len(s)
  BY <1>1, LenProperties
<1> QED BY <1>1, <1>2 DEF RestOf

\* The queue of payloads: one more, and the last one taken.
LEMMA PartPushed ==
    ASSUME NEW s \in Seq(Seq(UNode)), NEW k \in Seq(UNode)
    PROVE  /\ PartOf(s, Len(s) + 1) = <<>> /\ PartOf(Append(s, k), Len(s) + 1) = k
           /\ \A i : i # Len(s) + 1 => PartOf(Append(s, k), i) = PartOf(s, i)
<1>1. /\ Append(s, k) \in Seq(Seq(UNode)) /\ Len(Append(s, k)) = Len(s) + 1 /\ Len(s) \in Nat
      /\ Append(s, k)[Len(s) + 1] = k /\ \A i \in 1..Len(s) : Append(s, k)[i] = s[i]
      /\ DOMAIN s = 1..Len(s) /\ DOMAIN Append(s, k) = 1..(Len(s) + 1)
  BY AppendProperties, LenProperties
<1> QED BY <1>1 DEF PartOf

\* Taking the last payload off a queue empties its place and leaves the others.
LEMMA PartTaken ==
    ASSUME NEW s \in Seq(Seq(UNode)), s # <<>>
    PROVE  /\ PartOf(s, Len(s)) = Last(s) /\ PartOf(Front(s), Len(s)) = <<>>
           /\ \A i : i # Len(s) => PartOf(Front(s), i) = PartOf(s, i)
<1>0. <<>> \in Seq(UNode)
  BY EmptySeq
<1>1. /\ Len(s) \in Nat \ {0} /\ Last(s) = s[Len(s)]
      /\ Front(s) \in Seq(Seq(UNode)) /\ Len(Front(s)) = Len(s) - 1
      /\ \A i \in 1..(Len(s) - 1) : Front(s)[i] = s[i]
  BY <1>0, LastExchanged
<1>2. DOMAIN s = 1..Len(s) /\ DOMAIN Front(s) = 1..(Len(s) - 1)
  BY <1>1, LenProperties
<1> QED BY <1>1, <1>2 DEF PartOf

\* The activation that a thread is in.
LEMMA TopType ==
    ASSUME InternShape, NEW t \in Builder, ~Calm(t)
    PROVE  /\ frames[t] \in Seq(Frame) /\ Len(frames[t]) \in Nat \ {0}
           /\ Top(t) \in Frame /\ Top(t) = frames[t][Len(frames[t])]
           /\ Front(frames[t]) \in Seq(Frame) /\ <<t, Len(frames[t])>> \in Builder \X Nat
<1>1. frames[t] \in Seq(Frame) /\ frames[t] # <<>>
  BY DEF InternShape, Calm
<1>2. Len(frames[t]) \in Nat \ {0}
  BY <1>1, EmptySeq, LenProperties
<1>3. frames[t][Len(frames[t])] \in Frame
  BY <1>1, <1>2, ElementOfSeq
<1>4. Last(frames[t]) = frames[t][Len(frames[t])] /\ Front(frames[t]) \in Seq(Frame)
  <2>1. PICK stack \in Seq(Frame), frame \in Frame : stack = frames[t] /\ stack # <<>>
    BY <1>1, <1>3
  <2>2. Last(stack) = stack[Len(stack)] /\ Front(stack) \in Seq(Frame)
    BY <2>1, LastExchanged
  <2> QED BY <2>1, <2>2
<1>5. Top(t) = frames[t][Len(frames[t])]
  BY <1>4 DEF Top
<1>6. <<t, Len(frames[t])>> \in Builder \X Nat
  BY <1>2
<1> QED BY <1>1, <1>2, <1>3, <1>4, <1>5, <1>6

Started(n) == [node |-> n, at |-> "retire", rest |-> <<>>]

\* Dropping an Arc at most starts an activation.
LEMMA ReleaseFrames ==
    ASSUME InternShape, NEW t \in Builder, NEW n \in UNode, Release(t, n)
    PROVE  /\ strong' \in [UNode -> Int] /\ frames' \in [Builder -> Seq(Frame)]
           /\ strong'[n] = strong[n] - 1 /\ \A m \in UNode : m # n => strong'[m] = strong[m]
           /\ \A u \in Builder : u # t => frames'[u] = frames[u]
           /\ strong[n] = 1 => frames'[t] = Append(frames[t], Started(n))
           /\ strong[n] # 1 => frames' = frames
           /\ FrameBox' = FrameBox
<1>1. /\ strong' \in [UNode -> Int] /\ strong'[n] = strong[n] - 1
      /\ \A m \in UNode : m # n => strong'[m] = strong[m]
  BY DEF InternShape, Release
<1>2. Started(n) \in Frame /\ Started(n).rest = <<>>
  BY EmptySeq DEF Started, Frame
<1>3. CASE strong[n] = 1
  <2>1. frames' = [frames EXCEPT ![t] = Append(@, Started(n))]
    BY <1>3 DEF Release, Started
  <2>2. \A u \in Builder : frames[u] \in Seq(Frame)
    BY DEF InternShape
  <2>3. Append(frames[t], Started(n)) \in Seq(Frame)
    BY <1>2, <2>2, AppendProperties
  <2>4. frames'[t] = Append(frames[t], Started(n)) /\ \A u \in Builder : u # t => frames'[u] = frames[u]
    BY <2>1 DEF InternShape
  <2>5. frames' \in [Builder -> Seq(Frame)]
    BY <2>1, <2>3 DEF InternShape
  <2>6. \A i : RestOf(frames'[t], i) = RestOf(frames[t], i)
    BY <1>2, <2>2, <2>4, RestPushed
  <2>7. \A x \in Builder \X Nat : RestOf(frames'[x[1]], x[2]) = RestOf(frames[x[1]], x[2])
    BY <2>4, <2>6
  <2>8. FrameBox' = FrameBox
    <3> HIDE DEF RestOf
    <3>1. FrameBox' = [x \in Builder \X Nat |-> RestOf(frames'[x[1]], x[2])]
      BY DEF FrameBox, RestOf
    <3> QED BY <2>7, <3>1 DEF FrameBox
  <2> QED BY <1>1, <1>3, <2>4, <2>5, <2>8
<1>4. CASE strong[n] # 1
  <2>1. frames' = frames
    BY <1>4 DEF Release
  <2> QED BY <1>1, <1>4, <2>1 DEF InternShape, FrameBox, RestOf
<1> QED BY <1>3, <1>4

---------------------------------------------------------------------------------
(* The inductive invariant                                                     *)

HasFound == {"probed", "upgrade", "compared", "decide"}
HasNode == {"compute", "compared", "decide", "lost"}

\* Where UOp::new is and what it has at hand: the entry it found, in the table
\* and equal as long as it lives, and the node it allocated, still its own.
Staged ==
    \A t \in Builder :
        /\ making[t].at \in HasFound => \E e \in UNode : making[t].found = {e}
        /\ making[t].at \notin HasFound => making[t].found = {}
        /\ making[t].at \in HasNode => \E n \in UNode : making[t].node = {n}
        /\ making[t].at \notin HasNode => making[t].node = {}
        /\ \A e \in making[t].found : Live(e) => e \in uops /\ structure[e] = making[t].op
        /\ \A n \in making[t].node : structure[n] = making[t].op /\ strong[n] = 1 /\ n \notin uops

\* The innermost activation of some thread is at one of the steps at, for n.
Dying(n, at) == \E t \in Builder : ~Calm(t) /\ Top(t).node = n /\ Top(t).at \in at

\* A node without an Arc is in the table, or has its payload, only while its drop
\* has not got there; a node with one is in the table unless it is being made.
Deaths ==
    /\ \A n \in UNode : ~Live(n) /\ n \in uops => Dying(n, {"retire"})
    /\ \A n \in UNode : ~Live(n) /\ structure[n] # NoContent => Dying(n, {"retire", "inspect"})
    /\ \A t \in Builder : \A j \in DOMAIN frames[t] : ~Live(frames[t][j].node)
    /\ \A n \in UNode : Live(n) => n \in uops \/ \E t \in Builder : n \in making[t].node
    /\ \A t \in Builder : handles[t] \subseteq uops

\* Payloads wait only where an activation will drain them.
Queued ==
    \A t \in Builder :
        /\ deferred[t] # <<>> => draining[t]
        /\ draining[t] => \E j \in DOMAIN frames[t] : frames[t][j].at = "drain"

InternInv == InternShape /\ Counted /\ Staged /\ Deaths /\ Queued

---------------------------------------------------------------------------------
(* The steps of UOp::new keep the types and the count                          *)

\* What a step makes of a thread's call of UOp::new.
Edited(t, at, op, found, node) ==
    /\ making' \in [Builder -> Making]
    /\ making'[t].at = at /\ making'[t].op = op /\ making'[t].found = found /\ making'[t].node = node
    /\ \A u \in Builder : u # t => making'[u] = making[u]

\* The initial values have their types.
LEMMA IdleType == Idle \in Making /\ NoContent \in Content
<1>1. NoContent \in Content
  BY EmptySeq DEF NoContent, Content
<1> QED BY <1>1 DEF Idle, Making

\* An operation is passed: its children's Arcs are counted in it.
LEMMA CountNew ==
    ASSUME InternInv, NEW t \in Builder, NEW g \in DOMAIN Arity,
           NEW kids \in [1..Arity[g] -> handles[t]], New(t, g, kids)
    PROVE  InternShape' /\ Counted'
<1> USE DEF InternInv
<1>1. kids \in Seq(UNode) /\ DOMAIN kids = 1..Arity[g]
  <2>1. Arity[g] \in Nat /\ handles[t] \subseteq UNode
    BY InternAssumption DEF InternShape
  <2> QED BY <2>1
<1>2. making[t].at = "idle"
  BY DEF New, MakingAt
<1>3. Payload(g, kids) \in Content
  BY <1>1 DEF Payload, Content
<1>4. Edited(t, "probe", Payload(g, kids), {}, {})
  <2> DEFINE r == [Idle EXCEPT !.at = "probe", !.op = Payload(g, kids)]
  <2>1. r \in Making
    BY <1>3, IdleType DEF Making, Owning
  <2>2. r.at = "probe" /\ r.op = Payload(g, kids) /\ r.found = {} /\ r.node = {}
    BY DEF Idle
  <2>3. making' = [making EXCEPT ![t] = r]
    BY DEF New
  <2> HIDE DEF r
  <2> QED BY <2>1, <2>2, <2>3 DEF InternShape, Edited
<1>5. \A n \in UNode : Occurrences(n, kids) \in Nat
  BY <1>1, OccurrencesType
<1>6. strong' \in [UNode -> Int] /\ \A n \in UNode : strong'[n] = strong[n] + Occurrences(n, kids)
  BY <1>5 DEF InternShape, New
<1>7. InternShape'
  BY <1>4, <1>6 DEF InternShape, New, Edited
<1>8. ASSUME NEW n \in UNode PROVE Finite(n)' /\ strong'[n] = Owners(n)'
  <2>1. Mine(t, n) = Bit(n \in handles[t]) + 0 + 0 + 0
    <3>1. ~Reads(t, n) /\ n \notin making[t].node /\ OpBox[t] = <<>>
      BY <1>2 DEF Reads, OpBox, Owning, Staged, HasNode
    <3> QED BY <3>1, OccurrencesNone DEF Mine, Bit
  <2>2. Mine(t, n)' = Bit(n \in handles[t]) + 0 + 0 + Occurrences(n, kids)
    <3>1. ~Reads(t, n)' /\ n \notin making'[t].node /\ OpBox'[t] = kids /\ handles' = handles
      BY <1>4 DEF Reads, OpBox, Owning, Payload, New, Edited
    <3> QED BY <3>1 DEF Mine, Bit, Occurrences
  <2>3. /\ \A u \in Builder : u # t => handles'[u] = handles[u] /\ making'[u] = making[u]
        /\ structure' = structure /\ deferred' = deferred /\ frames' = frames
    BY <1>4 DEF New, Edited
  <2>4. FrameBox' = FrameBox
    BY <2>3 DEF FrameBox, RestOf
  <2>5. Bit(n \in handles[t]) \in Nat /\ strong[n] \in Int
    BY DEF Bit, InternShape
  <2>6. strong'[n] \in Int /\ strong'[n] + Mine(t, n) = strong[n] + Mine(t, n)'
    <3> HIDE DEF Mine, Bit
    <3> QED BY <1>5, <1>6, <2>1, <2>2, <2>5
  <2> QED BY <1>7, <2>3, <2>4, <2>6, KeepsCountOfMine
<1> QED BY <1>7, <1>8 DEF Counted

\* The count of every node, after a step outside of the teardowns.
LEMMA CountOfMine ==
    ASSUME InternShape, InternShape', Counted, NEW t \in Builder,
           \A u \in Builder : u # t => handles'[u] = handles[u] /\ making'[u] = making[u],
           structure' = structure, FrameBox' = FrameBox, deferred' = deferred,
           \A n \in UNode : strong'[n] + Mine(t, n) = strong[n] + Mine(t, n)'
    PROVE  Counted'
<1> SUFFICES ASSUME NEW n \in UNode PROVE Finite(n)' /\ strong'[n] = Owners(n)'
  BY DEF Counted
<1>1. strong'[n] \in Int
  BY DEF InternShape
<1> QED BY <1>1, KeepsCountOfMine

\* What a thread has of a node, written out.
LEMMA MineIs ==
    ASSUME InternShape, NEW t \in Builder, NEW n \in UNode
    PROVE  /\ Mine(t, n) = Bit(n \in handles[t]) + Bit(Reads(t, n)) + Bit(n \in making[t].node)
                + (IF making[t].at \in Owning THEN Occurrences(n, making[t].op.kids) ELSE 0)
           /\ Occurrences(n, making[t].op.kids) \in Nat
<1>1. making[t].op.kids \in Seq(UNode)
  BY DEF InternShape, Making, Content
<1>2. Occurrences(n, making[t].op.kids) \in Nat
  BY <1>1, OccurrencesType
<1>3. CASE making[t].at \in Owning
  BY <1>2, <1>3 DEF Mine, OpBox
<1>4. CASE making[t].at \notin Owning
  BY <1>2, <1>4, OccurrencesNone DEF Mine, OpBox
<1> QED BY <1>2, <1>3, <1>4

Having(n, at, op, found, node, kept) ==
    kept + Bit(at \in {"probed", "compared"} /\ n \in found) + Bit(n \in node)
        + (IF at \in Owning THEN Occurrences(n, op.kids) ELSE 0)

\* The same after a step.
LEMMA MineEdited ==
    ASSUME NEW t \in Builder, NEW n \in UNode, NEW at, NEW op \in Content, NEW found, NEW node,
           Edited(t, at, op, found, node)
    PROVE  Mine(t, n)' = Having(n, at, op, found, node, Bit(n \in handles'[t]))
<1>0. making'[t].at = at /\ making'[t].op = op /\ making'[t].found = found /\ making'[t].node = node
  BY DEF Edited
<1>1. Mine(t, n)' = Bit(n \in handles'[t]) + Bit(Reads(t, n)') + Bit(n \in making'[t].node) + Occurrences(n, OpBox'[t])
  BY DEF Mine, Bit, Occurrences
<1>2. Reads(t, n)' <=> at \in {"probed", "compared"} /\ n \in found
  BY <1>0 DEF Reads
<1>3. Bit(Reads(t, n)') = Bit(at \in {"probed", "compared"} /\ n \in found)
  BY <1>2 DEF Bit
<1>4. Occurrences(n, op.kids) \in Nat
  BY OccurrencesType DEF Content
<1>5. CASE at \in Owning
  <2>1. OpBox'[t] = op.kids
    BY <1>0, <1>5 DEF OpBox
  <2> QED BY <1>0, <1>1, <1>3, <1>5, <2>1 DEF Having
<1>6. CASE at \notin Owning
  <2>1. OpBox'[t] = <<>>
    BY <1>0, <1>6 DEF OpBox
  <2> QED BY <1>0, <1>1, <1>3, <1>6, <2>1, OccurrencesNone DEF Having
<1> QED BY <1>5, <1>6

\* And before it.
LEMMA MineHad ==
    ASSUME InternShape, NEW t \in Builder, NEW n \in UNode
    PROVE  Mine(t, n) = Having(n, making[t].at, making[t].op, making[t].found, making[t].node, Bit(n \in handles[t]))
  BY MineIs DEF Having, Reads

\* Probe: the entry found has one Arc more, the reader's.
LEMMA CountProbe ==
    ASSUME InternInv, NEW t \in Builder, Probe(t)
    PROVE  InternShape' /\ Counted'
<1> USE DEF InternInv
<1>1. /\ structure' = structure /\ uops' = uops /\ handles' = handles /\ frames' = frames
      /\ draining' = draining /\ deferred' = deferred /\ making[t].at = "probe"
  BY DEF Probe, MakingAt
<1>2. FrameBox' = FrameBox
  BY <1>1 DEF FrameBox, RestOf
<1>3. making[t] \in Making /\ making[t].found = {} /\ making[t].node = {} /\ making[t].op \in Content
  BY <1>1 DEF InternShape, Staged, HasFound, HasNode, Making
<1>4. ASSUME NEW e \in uops, strong' = [strong EXCEPT ![e] = @ + 1],
             making' = [making EXCEPT ![t].at = "probed", ![t].found = {e}]
      PROVE  InternShape' /\ Counted'
  <2>1. e \in UNode
    BY DEF InternShape
  <2>2. Edited(t, "probed", making[t].op, {e}, {})
    BY <1>3, <1>4, <2>1 DEF InternShape, Edited, Making, Owning
  <2>3. strong' \in [UNode -> Int] /\ \A n \in UNode : strong'[n] = strong[n] + Bit(n \in {e})
    BY <1>4, <2>1 DEF InternShape, Bit
  <2>4. InternShape'
    BY <1>1, <2>2, <2>3 DEF InternShape, Edited
  <2>5. ASSUME NEW n \in UNode PROVE strong'[n] + Mine(t, n) = strong[n] + Mine(t, n)'
    <3>1. Mine(t, n)' = Having(n, "probed", making[t].op, {e}, {}, Bit(n \in handles[t]))
      BY <1>1, <1>3, <2>2, MineEdited
    <3>2. Mine(t, n) = Having(n, "probe", making[t].op, {}, {}, Bit(n \in handles[t]))
      BY <1>1, <1>3, MineHad
    <3>3. Occurrences(n, making[t].op.kids) \in Nat /\ strong[n] \in Int
      BY MineIs DEF InternShape
    <3> QED BY <2>3, <3>1, <3>2, <3>3 DEF Having, Bit, Owning
  <2> QED BY <1>1, <1>2, <2>2, <2>4, <2>5, CountOfMine DEF Edited
<1>5. CASE MakingTo(t, "alloc") /\ strong' = strong
  <2>2. Edited(t, "alloc", making[t].op, {}, {})
    BY <1>3, <1>5 DEF InternShape, Edited, Making, Owning, MakingTo
  <2>4. InternShape'
    BY <1>1, <1>5, <2>2 DEF InternShape, Edited
  <2>5. ASSUME NEW n \in UNode PROVE strong'[n] + Mine(t, n) = strong[n] + Mine(t, n)'
    <3>1. Mine(t, n)' = Having(n, "alloc", making[t].op, {}, {}, Bit(n \in handles[t]))
      BY <1>1, <1>3, <2>2, MineEdited
    <3>2. Mine(t, n) = Having(n, "probe", making[t].op, {}, {}, Bit(n \in handles[t]))
      BY <1>1, <1>3, MineHad
    <3>3. Occurrences(n, making[t].op.kids) \in Nat /\ strong[n] \in Int
      BY MineIs DEF InternShape
    <3> QED BY <1>5, <3>1, <3>2, <3>3 DEF Having, Bit, Owning
  <2> QED BY <1>1, <1>2, <2>2, <2>4, <2>5, CountOfMine DEF Edited
<1> QED BY <1>4, <1>5 DEF Probe

\* The reader's Arc is dropped.
LEMMA CountProbed ==
    ASSUME InternInv, NEW t \in Builder, NEW from, NEW to,
           <<from, to>> \in {<<"probed", "upgrade">>, <<"compared", "decide">>},
           MakingAt(t, from), \E e \in making[t].found : Release(t, e), MakingTo(t, to),
           UNCHANGED <<structure, uops, handles, draining, deferred, asked>>
    PROVE  InternShape' /\ Counted'
<1> USE DEF InternInv
<1>1. /\ structure' = structure /\ uops' = uops /\ handles' = handles
      /\ draining' = draining /\ deferred' = deferred /\ making[t].at = from
  BY DEF MakingAt
<1>2. PICK e \in UNode : making[t].found = {e} /\ Release(t, e)
  <2>1. PICK d \in UNode : making[t].found = {d}
    BY <1>1 DEF Staged, HasFound
  <2> QED BY <2>1
<1>3. making[t] \in Making /\ making[t].op \in Content
  BY DEF InternShape, Making
<1>4. /\ strong' \in [UNode -> Int] /\ frames' \in [Builder -> Seq(Frame)] /\ FrameBox' = FrameBox
      /\ strong'[e] = strong[e] - 1 /\ \A m \in UNode : m # e => strong'[m] = strong[m]
  BY <1>2, ReleaseFrames
<1>5. Edited(t, to, making[t].op, {e}, making[t].node)
  BY <1>2, <1>3 DEF InternShape, Edited, Making, Owning, MakingTo
<1>6. InternShape'
  BY <1>1, <1>4, <1>5 DEF InternShape, Edited
<1>7. ASSUME NEW n \in UNode PROVE strong'[n] + Mine(t, n) = strong[n] + Mine(t, n)'
  <2>1. Mine(t, n)' = Having(n, to, making[t].op, {e}, making[t].node, Bit(n \in handles[t]))
    BY <1>1, <1>3, <1>5, MineEdited
  <2>2. Mine(t, n) = Having(n, from, making[t].op, {e}, making[t].node, Bit(n \in handles[t]))
    BY <1>1, <1>2, MineHad
  <2>3. Occurrences(n, making[t].op.kids) \in Nat /\ strong[n] \in Int
    BY MineIs DEF InternShape
  <2>4. strong'[n] = strong[n] - Bit(n \in {e})
    BY <1>4, <2>3 DEF Bit
  <2>5. (from = "probed" /\ to = "upgrade") \/ (from = "compared" /\ to = "decide")
    OBVIOUS
  <2>6. CASE from = "probed" /\ to = "upgrade"
    BY <2>1, <2>2, <2>3, <2>4, <2>6 DEF Having, Bit, Owning
  <2>7. CASE from = "compared" /\ to = "decide"
    BY <2>1, <2>2, <2>3, <2>4, <2>7 DEF Having, Bit, Owning
  <2> QED BY <2>5, <2>6, <2>7
<1> QED BY <1>1, <1>4, <1>5, <1>6, <1>7, CountOfMine DEF Edited

\* A node is returned: the Arc goes to the thread's handle, or is the second one.
LEMMA CountReturns ==
    ASSUME InternShape, NEW t \in Builder, NEW m \in UNode, NEW arcs \in [UNode -> Int], Returns(t, m, arcs)
    PROVE  /\ handles' \in [Builder -> SUBSET UNode] /\ strong' \in [UNode -> Int]
           /\ \A u \in Builder : u # t => handles'[u] = handles[u]
           /\ handles'[t] = handles[t] \cup {m}
           /\ \A n \in UNode : strong'[n] + Bit(n \in {m}) + Bit(n \in handles[t]) = arcs[n] + Bit(n \in handles'[t])
<1>1. /\ handles' \in [Builder -> SUBSET UNode] /\ \A u \in Builder : u # t => handles'[u] = handles[u]
      /\ handles'[t] = handles[t] \cup {m}
  BY DEF InternShape, Returns
<1>2. strong' \in [UNode -> Int] /\ \A n \in UNode : strong'[n] = IF n = m /\ m \in handles[t] THEN arcs[n] - 1 ELSE arcs[n]
  BY DEF Returns
<1>3. ASSUME NEW n \in UNode
      PROVE  strong'[n] + Bit(n \in {m}) + Bit(n \in handles[t]) = arcs[n] + Bit(n \in handles'[t])
  <2>1. arcs[n] \in Int
    OBVIOUS
  <2> QED BY <1>1, <1>2, <2>1 DEF Bit
<1> QED BY <1>1, <1>2, <1>3

\* The fast path, or its entry is gone.
LEMMA CountUpgrade ==
    ASSUME InternInv, NEW t \in Builder, Upgrade(t)
    PROVE  InternShape' /\ Counted'
<1> USE DEF InternInv
<1>1. /\ structure' = structure /\ uops' = uops /\ frames' = frames
      /\ draining' = draining /\ deferred' = deferred /\ making[t].at = "upgrade"
  BY DEF Upgrade, MakingAt
<1>2. FrameBox' = FrameBox
  BY <1>1 DEF FrameBox, RestOf
<1>3. making[t] \in Making /\ making[t].node = {} /\ making[t].op \in Content /\ making[t].found \in SUBSET UNode
  BY <1>1 DEF InternShape, Staged, HasNode, Making
<1>4. \A n \in UNode : Occurrences(n, making[t].op.kids) \in Nat /\ strong[n] \in Int
  BY MineIs DEF InternShape
<1>5. ASSUME NEW e \in making[t].found,
             Returns(t, e, [n \in UNode |->
                strong[n] + (IF n = e THEN 1 ELSE 0) - Occurrences(n, making[t].op.kids)]),
             making' = [making EXCEPT ![t] = Idle]
      PROVE  InternShape' /\ Counted'
  <2> DEFINE arcs == [n \in UNode |-> strong[n] + (IF n = e THEN 1 ELSE 0) - Occurrences(n, making[t].op.kids)]
  <2>1. e \in UNode /\ arcs \in [UNode -> Int]
    BY <1>3, <1>4
  <2>2. Edited(t, "idle", NoContent, {}, {})
    BY <1>5, IdleType DEF InternShape, Edited, Idle
  <2>3. /\ handles' \in [Builder -> SUBSET UNode] /\ strong' \in [UNode -> Int]
        /\ \A u \in Builder : u # t => handles'[u] = handles[u]
        /\ \A n \in UNode : strong'[n] + Bit(n \in {e}) + Bit(n \in handles[t]) = arcs[n] + Bit(n \in handles'[t])
    BY <1>5, <2>1, CountReturns
  <2>4. InternShape'
    BY <1>1, <2>2, <2>3 DEF InternShape, Edited
  <2>5. ASSUME NEW n \in UNode PROVE strong'[n] + Mine(t, n) = strong[n] + Mine(t, n)'
    <3>1. Mine(t, n)' = Having(n, "idle", NoContent, {}, {}, Bit(n \in handles'[t]))
      BY <2>2, IdleType, MineEdited
    <3>2. Mine(t, n) = Having(n, "upgrade", making[t].op, making[t].found, {}, Bit(n \in handles[t]))
      BY <1>1, <1>3, MineHad
    <3>3. Mine(t, n)' = Bit(n \in handles'[t])
      BY <3>1 DEF Having, Bit, Owning
    <3>4. Mine(t, n) = Bit(n \in handles[t]) + Occurrences(n, making[t].op.kids)
      BY <1>4, <3>2 DEF Having, Bit, Owning
    <3>5. arcs[n] = strong[n] + Bit(n \in {e}) - Occurrences(n, making[t].op.kids)
      BY <1>4 DEF Bit
    <3>6. strong'[n] \in Int /\ Bit(n \in handles'[t]) \in Int /\ Bit(n \in handles[t]) \in Int /\ Bit(n \in {e}) \in Int
      BY <2>3 DEF Bit
    <3>7. strong'[n] + Bit(n \in {e}) + Bit(n \in handles[t]) = arcs[n] + Bit(n \in handles'[t])
      BY <2>3
    <3>8. Occurrences(n, making[t].op.kids) \in Nat /\ strong[n] \in Int
      BY <1>4
    <3> HIDE DEF arcs
    <3> QED BY <3>3, <3>4, <3>5, <3>6, <3>7, <3>8
  <2> QED BY <1>1, <1>2, <2>2, <2>3, <2>4, <2>5, CountOfMine DEF Edited
<1>6. CASE making' = [making EXCEPT ![t].at = "alloc", ![t].found = {}] /\ handles' = handles /\ strong' = strong
  <2>2. Edited(t, "alloc", making[t].op, {}, {})
    BY <1>3, <1>6 DEF InternShape, Edited, Making, Owning
  <2>4. InternShape'
    BY <1>1, <1>6, <2>2 DEF InternShape, Edited
  <2>5. ASSUME NEW n \in UNode PROVE strong'[n] + Mine(t, n) = strong[n] + Mine(t, n)'
    <3>1. Mine(t, n)' = Having(n, "alloc", making[t].op, {}, {}, Bit(n \in handles[t]))
      BY <1>6, <1>3, <2>2, MineEdited
    <3>2. Mine(t, n) = Having(n, "upgrade", making[t].op, making[t].found, {}, Bit(n \in handles[t]))
      BY <1>1, <1>3, MineHad
    <3> QED BY <1>4, <1>6, <3>1, <3>2 DEF Having, Bit, Owning
  <2> QED BY <1>1, <1>2, <1>6, <2>2, <2>4, <2>5, CountOfMine DEF Edited
<1> QED BY <1>5, <1>6 DEF Upgrade

\* A share has four parts.
Parts ==
    \A t \in Builder : \A p, n \in UNode : \A f, q \in Builder \X Nat :
        /\ Mine(t, n) \in Nat /\ Occurrences(n, structure[p].kids) \in Nat
        /\ Occurrences(n, RestOf(frames[f[1]], f[2])) \in Nat
        /\ Occurrences(n, PartOf(deferred[q[1]], q[2])) \in Nat
        /\ Share(t, p, f, q, n) = Mine(t, n) + Occurrences(n, structure[p].kids)
            + Occurrences(n, RestOf(frames[f[1]], f[2])) + Occurrences(n, PartOf(deferred[q[1]], q[2]))

\* What a thread, a node, an activation and a queue place own of n, spelled out.
LEMMA ShareAt ==
    ASSUME InternShape, NEW t \in Builder, NEW p \in UNode, NEW n \in UNode,
           NEW f \in Builder \X Nat, NEW q \in Builder \X Nat
    PROVE  /\ Mine(t, n) \in Nat /\ Occurrences(n, structure[p].kids) \in Nat
           /\ Occurrences(n, RestOf(frames[f[1]], f[2])) \in Nat
           /\ Occurrences(n, PartOf(deferred[q[1]], q[2])) \in Nat
           /\ Share(t, p, f, q, n) = Mine(t, n) + Occurrences(n, structure[p].kids)
                + Occurrences(n, RestOf(frames[f[1]], f[2])) + Occurrences(n, PartOf(deferred[q[1]], q[2]))
<1>1. /\ NodeBox[p] = structure[p].kids /\ FrameBox[f] = RestOf(frames[f[1]], f[2])
      /\ QueueBox[q] = PartOf(deferred[q[1]], q[2])
  BY DEF NodeBox, FrameBox, QueueBox
<1>2. /\ Occurrences(n, OpBox[t]) \in Nat /\ Occurrences(n, NodeBox[p]) \in Nat
      /\ Occurrences(n, FrameBox[f]) \in Nat /\ Occurrences(n, QueueBox[q]) \in Nat
  BY BoxTypes, OccurrencesType DEF Boxed
<1>3. Bit(n \in handles[t]) \in Nat /\ Bit(Reads(t, n)) \in Nat /\ Bit(n \in making[t].node) \in Nat
  BY DEF Bit
<1>4. Mine(t, n) \in Nat
  BY <1>2, <1>3 DEF Mine
<1>5. Share(t, p, f, q, n) = Mine(t, n) + Occurrences(n, NodeBox[p]) + Occurrences(n, FrameBox[f]) + Occurrences(n, QueueBox[q])
  BY <1>2, <1>3 DEF Mine, Share
<1> QED BY <1>1, <1>2, <1>4, <1>5

\* The same for all of them.
LEMMA ShareIs == InternShape => Parts
  BY ShareAt DEF Parts

\* The same of the state after a step.
LEMMA ShareIsAfter ==
    ASSUME InternShape', NEW t \in Builder, NEW p \in UNode, NEW n \in UNode,
           NEW f \in Builder \X Nat, NEW q \in Builder \X Nat
    PROVE  /\ Mine(t, n)' \in Nat /\ Occurrences(n, structure'[p].kids) \in Nat
           /\ Occurrences(n, RestOf(frames'[f[1]], f[2])) \in Nat
           /\ Occurrences(n, PartOf(deferred'[q[1]], q[2])) \in Nat
           /\ Share(t, p, f, q, n)' = Mine(t, n)' + Occurrences(n, structure'[p].kids)
                + Occurrences(n, RestOf(frames'[f[1]], f[2])) + Occurrences(n, PartOf(deferred'[q[1]], q[2]))
<1>1. /\ NodeBox'[p] = structure'[p].kids /\ FrameBox'[f] = RestOf(frames'[f[1]], f[2])
      /\ QueueBox'[q] = PartOf(deferred'[q[1]], q[2])
  BY DEF NodeBox, FrameBox, QueueBox, RestOf, PartOf
<1>2. /\ Occurrences(n, OpBox'[t]) \in Nat /\ Occurrences(n, NodeBox'[p]) \in Nat
      /\ Occurrences(n, FrameBox'[f]) \in Nat /\ Occurrences(n, QueueBox'[q]) \in Nat
  BY BoxTypesAfter, OccurrencesType DEF Boxed
<1>3. Bit(n \in handles'[t]) \in Nat /\ Bit(Reads(t, n)') \in Nat /\ Bit(n \in making'[t].node) \in Nat
  BY DEF Bit
<1>4. Mine(t, n)' = Bit(n \in handles'[t]) + Bit(Reads(t, n)') + Bit(n \in making'[t].node) + Occurrences(n, OpBox'[t])
  BY DEF Mine, Bit, Occurrences
<1>5. Share(t, p, f, q, n)' =
        Bit(n \in handles'[t]) + Bit(Reads(t, n)') + Bit(n \in making'[t].node)
        + Occurrences(n, OpBox'[t]) + Occurrences(n, NodeBox'[p])
        + Occurrences(n, FrameBox'[f]) + Occurrences(n, QueueBox'[q])
  BY DEF Share, Occurrences, Bit
<1>6. Mine(t, n)' \in Nat
  BY <1>2, <1>3, <1>4
<1>7. Share(t, p, f, q, n)' = Mine(t, n)' + Occurrences(n, NodeBox'[p]) + Occurrences(n, FrameBox'[f]) + Occurrences(n, QueueBox'[q])
  BY <1>2, <1>3, <1>4, <1>5
<1> QED BY <1>1, <1>2, <1>6, <1>7

\* An allocation nobody refers to has no Arc and no payload.
LEMMA UnusedIsEmpty ==
    ASSUME InternInv, NEW t \in Builder, NEW n \in UNode, Unused(n)
    PROVE  strong[n] = 0 /\ structure[n] = NoContent
<1> USE DEF InternInv
<1>1. strong[n] \in Nat
  <2>1. <<t, 0>> \in Builder \X Nat
    OBVIOUS
  <2> QED BY <2>1, ShareBound
<1>2. ~Dying(n, {"retire", "inspect"})
  <2> SUFFICES ASSUME NEW u \in Builder, ~Calm(u), Top(u).node = n PROVE FALSE
    BY DEF Dying
  <2>1. /\ Top(u) = frames[u][Len(frames[u])] /\ Len(frames[u]) \in Nat \ {0}
        /\ frames[u] \in Seq(Frame)
    BY TopType
  <2>2. Len(frames[u]) \in DOMAIN frames[u]
    BY <2>1, LenProperties
  <2> QED BY <2>1, <2>2 DEF Unused
<1> QED BY <1>1, <1>2 DEF Unused, Live, Deaths

\* The children of the operation become those of the new node.
LEMMA CountAlloc ==
    ASSUME InternInv, NEW t \in Builder, AllocNode(t)
    PROVE  InternShape' /\ Counted'
<1> USE DEF InternInv
<1>1. PICK p \in UNode :
        /\ Unused(p) /\ structure' = [structure EXCEPT ![p] = making[t].op]
        /\ strong' = [strong EXCEPT ![p] = 1]
        /\ making' = [making EXCEPT ![t].at = "compute", ![t].node = {p}]
  BY DEF AllocNode
<1>2. /\ uops' = uops /\ handles' = handles /\ frames' = frames
      /\ draining' = draining /\ deferred' = deferred /\ making[t].at = "alloc"
  BY DEF AllocNode, MakingAt
<1>3. making[t] \in Making /\ making[t].node = {} /\ making[t].op \in Content /\ making[t].found = {}
  BY <1>2 DEF InternShape, Staged, HasNode, HasFound, Making
<1>4. Edited(t, "compute", making[t].op, {}, {p})
  BY <1>1, <1>3 DEF InternShape, Edited, Making, Owning
<1>5. structure[p] = NoContent /\ strong[p] = 0
  BY <1>1, UnusedIsEmpty
<1>6. /\ structure' \in [UNode -> Content] /\ structure'[p] = making[t].op
      /\ \A m \in UNode : m # p => structure'[m] = structure[m]
  BY <1>1, <1>3 DEF InternShape
<1>7. strong' \in [UNode -> Int] /\ \A n \in UNode : strong'[n] = strong[n] + Bit(n \in {p})
  BY <1>1, <1>5 DEF InternShape, Bit
<1>8. InternShape'
  BY <1>2, <1>4, <1>6, <1>7 DEF InternShape, Edited
<1>9. ASSUME NEW n \in UNode PROVE Finite(n)' /\ strong'[n] = Owners(n)'
  <2> DEFINE f == <<t, 0>>
             o == Occurrences(n, RestOf(frames[f[1]], f[2])) + Occurrences(n, PartOf(deferred[f[1]], f[2]))
  <2>0. f \in Builder \X Nat
    OBVIOUS
  <2>1. Mine(t, n)' = Having(n, "compute", making[t].op, {}, {p}, Bit(n \in handles[t]))
    BY <1>2, <1>3, <1>4, MineEdited
  <2>2. Mine(t, n) = Having(n, "alloc", making[t].op, {}, {}, Bit(n \in handles[t]))
    BY <1>2, <1>3, MineHad
  <2>3. Occurrences(n, making[t].op.kids) \in Nat /\ strong[n] \in Int
    BY MineIs DEF InternShape
  <2>4. /\ Mine(t, n)' = Bit(n \in handles[t]) + Bit(n \in {p})
        /\ Mine(t, n) = Bit(n \in handles[t]) + Occurrences(n, making[t].op.kids)
    BY <2>1, <2>2, <2>3 DEF Having, Bit, Owning
  <2>5. Share(t, p, f, f, n) = Mine(t, n) + o /\ o \in Nat
    <3>1. Occurrences(n, structure[p].kids) = 0
      BY <1>5, OccurrencesNone DEF NoContent
    <3> QED BY <2>0, <3>1, ShareIs DEF Parts
  <2>6. Share(t, p, f, f, n)' = Mine(t, n)' + Occurrences(n, making[t].op.kids) + o
    <3>1. /\ Mine(t, n)' \in Nat /\ Occurrences(n, structure'[p].kids) \in Nat
          /\ Occurrences(n, RestOf(frames'[f[1]], f[2])) \in Nat
          /\ Occurrences(n, PartOf(deferred'[f[1]], f[2])) \in Nat
          /\ Share(t, p, f, f, n)' = Mine(t, n)' + Occurrences(n, structure'[p].kids)
                + Occurrences(n, RestOf(frames'[f[1]], f[2])) + Occurrences(n, PartOf(deferred'[f[1]], f[2]))
      BY <1>8, <2>0, ShareIsAfter
    <3> QED BY <1>2, <1>6, <3>1
  <2>7. strong'[n] \in Int /\ strong'[n] + Share(t, p, f, f, n) = strong[n] + Share(t, p, f, f, n)'
    <3>1. Bit(n \in {p}) \in Int /\ Bit(n \in handles[t]) \in Int
      BY DEF Bit
    <3> HIDE DEF o
    <3> QED BY <1>7, <2>3, <2>4, <2>5, <2>6, <3>1
  <2>8. FrameBox' = FrameBox /\ QueueBox' = QueueBox
    BY <1>2 DEF FrameBox, QueueBox, RestOf, PartOf
  <2>9. \A u \in Builder : u # t => handles'[u] = handles[u] /\ making'[u] = making[u]
    BY <1>2, <1>4 DEF Edited
  <2> QED BY <1>6, <1>8, <2>0, <2>7, <2>8, <2>9, KeepsCount
<1> QED BY <1>8, <1>9 DEF Counted

\* The node a thread made goes into the table and is returned.
LEMMA CountInsert ==
    ASSUME InternInv, NEW t \in Builder, NEW m \in UNode, making[t].node = {m},
           making[t].at \in {"compute", "decide"}, Returns(t, m, strong),
           making' = [making EXCEPT ![t] = Idle], uops' \in SUBSET UNode,
           UNCHANGED <<structure, frames, draining, deferred, asked>>
    PROVE  InternShape' /\ Counted'
<1> USE DEF InternInv
<1>1. structure' = structure /\ frames' = frames /\ draining' = draining /\ deferred' = deferred
  OBVIOUS
<1>2. FrameBox' = FrameBox
  BY <1>1 DEF FrameBox, RestOf
<1>3. strong \in [UNode -> Int]
  BY DEF InternShape
<1>4. Edited(t, "idle", NoContent, {}, {})
  BY IdleType DEF InternShape, Edited, Idle
<1>5. /\ handles' \in [Builder -> SUBSET UNode] /\ strong' \in [UNode -> Int]
      /\ \A u \in Builder : u # t => handles'[u] = handles[u]
      /\ \A n \in UNode : strong'[n] + Bit(n \in {m}) + Bit(n \in handles[t]) = strong[n] + Bit(n \in handles'[t])
  BY <1>3, CountReturns
<1>6. InternShape'
  BY <1>1, <1>4, <1>5 DEF InternShape, Edited
<1>7. ASSUME NEW n \in UNode PROVE strong'[n] + Mine(t, n) = strong[n] + Mine(t, n)'
  <2>1. Mine(t, n)' = Having(n, "idle", NoContent, {}, {}, Bit(n \in handles'[t]))
    BY <1>4, IdleType, MineEdited
  <2>2. Mine(t, n) = Having(n, making[t].at, making[t].op, making[t].found, {m}, Bit(n \in handles[t]))
    BY MineHad
  <2>3. Mine(t, n)' = Bit(n \in handles'[t])
    BY <2>1 DEF Having, Bit, Owning
  <2>4. Mine(t, n) = Bit(n \in handles[t]) + Bit(n \in {m})
    BY <2>2 DEF Having, Bit, Owning
  <2>5. strong'[n] + Bit(n \in {m}) + Bit(n \in handles[t]) = strong[n] + Bit(n \in handles'[t])
    BY <1>5
  <2>6. /\ strong'[n] \in Int /\ strong[n] \in Int /\ Bit(n \in handles'[t]) \in Int
        /\ Bit(n \in handles[t]) \in Int /\ Bit(n \in {m}) \in Int
    BY <1>3, <1>5 DEF Bit
  <2> QED BY <2>3, <2>4, <2>5, <2>6
<1> QED BY <1>1, <1>2, <1>4, <1>5, <1>6, <1>7, CountOfMine DEF Edited

\* Compute finds an entry or inserts its node.
LEMMA CountCompute ==
    ASSUME InternInv, NEW t \in Builder, Compute(t)
    PROVE  InternShape' /\ Counted'
<1> USE DEF InternInv
<1>1. /\ structure' = structure /\ frames' = frames
      /\ draining' = draining /\ deferred' = deferred /\ making[t].at = "compute"
  BY DEF Compute, MakingAt
<1>2. FrameBox' = FrameBox
  BY <1>1 DEF FrameBox, RestOf
<1>3. making[t] \in Making /\ making[t].found = {} /\ making[t].op \in Content
  BY <1>1 DEF InternShape, Staged, HasFound, Making
<1>4. PICK m \in UNode : making[t].node = {m}
  BY <1>1 DEF Staged, HasNode
<1>5. ASSUME NEW e \in uops, strong' = [strong EXCEPT ![e] = @ + 1], uops' = uops, handles' = handles,
             making' = [making EXCEPT ![t].at = "compared", ![t].found = {e}]
      PROVE  InternShape' /\ Counted'
  <2>1. e \in UNode
    BY DEF InternShape
  <2>2. Edited(t, "compared", making[t].op, {e}, {m})
    BY <1>3, <1>4, <1>5, <2>1 DEF InternShape, Edited, Making, Owning
  <2>3. strong' \in [UNode -> Int] /\ \A n \in UNode : strong'[n] = strong[n] + Bit(n \in {e})
    BY <1>5, <2>1 DEF InternShape, Bit
  <2>4. InternShape'
    BY <1>1, <1>5, <2>2, <2>3 DEF InternShape, Edited
  <2>5. ASSUME NEW n \in UNode PROVE strong'[n] + Mine(t, n) = strong[n] + Mine(t, n)'
    <3>1. Mine(t, n)' = Having(n, "compared", making[t].op, {e}, {m}, Bit(n \in handles[t]))
      BY <1>3, <1>5, <2>2, MineEdited
    <3>2. Mine(t, n) = Having(n, "compute", making[t].op, {}, {m}, Bit(n \in handles[t]))
      BY <1>1, <1>3, <1>4, MineHad
    <3>3. strong[n] \in Int
      BY DEF InternShape
    <3> QED BY <2>3, <3>1, <3>2, <3>3 DEF Having, Bit, Owning
  <2> QED BY <1>1, <1>2, <1>5, <2>2, <2>4, <2>5, CountOfMine DEF Edited
<1>6. CASE uops' = uops \cup {m} /\ Returns(t, m, strong) /\ making' = [making EXCEPT ![t] = Idle]
  <2>1. uops' \in SUBSET UNode
    BY <1>6 DEF InternShape
  <2>2. UNCHANGED <<structure, frames, draining, deferred, asked>>
    BY DEF Compute
  <2> QED BY <1>1, <1>4, <1>6, <2>1, <2>2, CountInsert
<1> QED BY <1>4, <1>5, <1>6 DEF Compute

\* The closure returns the entry's node, or the thread's own, or starts over.
LEMMA CountDecide ==
    ASSUME InternInv, NEW t \in Builder, Decide(t)
    PROVE  InternShape' /\ Counted'
<1> USE DEF InternInv
<1>1. /\ structure' = structure /\ frames' = frames
      /\ draining' = draining /\ deferred' = deferred /\ making[t].at = "decide"
  BY DEF Decide, MakingAt
<1>2. FrameBox' = FrameBox
  BY <1>1 DEF FrameBox, RestOf
<1>3. making[t] \in Making /\ making[t].op \in Content
  BY DEF InternShape, Making
<1>4. PICK m \in UNode : making[t].node = {m}
  BY <1>1 DEF Staged, HasNode
<1>5. PICK e \in UNode : making[t].found = {e}
  BY <1>1 DEF Staged, HasFound
<1>6. CASE /\ Returns(t, e, [strong EXCEPT ![e] = @ + 1]) /\ uops' = uops
           /\ making' = [making EXCEPT ![t].at = "lost", ![t].found = {}]
  <2> DEFINE arcs == [strong EXCEPT ![e] = @ + 1]
  <2>1. arcs \in [UNode -> Int] /\ \A n \in UNode : arcs[n] = strong[n] + Bit(n \in {e})
    BY DEF InternShape, Bit
  <2>2. Edited(t, "lost", making[t].op, {}, {m})
    BY <1>3, <1>4, <1>6 DEF InternShape, Edited, Making, Owning
  <2>3. /\ handles' \in [Builder -> SUBSET UNode] /\ strong' \in [UNode -> Int]
        /\ \A u \in Builder : u # t => handles'[u] = handles[u]
        /\ \A n \in UNode : strong'[n] + Bit(n \in {e}) + Bit(n \in handles[t]) = arcs[n] + Bit(n \in handles'[t])
    <3>1. Returns(t, e, arcs)
      BY <1>6
    <3> HIDE DEF arcs
    <3> QED BY <2>1, <3>1, CountReturns
  <2>4. InternShape'
    BY <1>1, <1>6, <2>2, <2>3 DEF InternShape, Edited
  <2>5. ASSUME NEW n \in UNode PROVE strong'[n] + Mine(t, n) = strong[n] + Mine(t, n)'
    <3>1. Mine(t, n)' = Having(n, "lost", making[t].op, {}, {m}, Bit(n \in handles'[t]))
      BY <1>3, <2>2, MineEdited
    <3>2. Mine(t, n) = Having(n, "decide", making[t].op, {e}, {m}, Bit(n \in handles[t]))
      BY <1>1, <1>4, <1>5, MineHad
    <3>3. Mine(t, n)' = Bit(n \in handles'[t]) + Bit(n \in {m})
      BY <3>1 DEF Having, Bit, Owning
    <3>4. Mine(t, n) = Bit(n \in handles[t]) + Bit(n \in {m})
      BY <3>2 DEF Having, Bit, Owning
    <3>5. /\ strong'[n] + Bit(n \in {e}) + Bit(n \in handles[t]) = arcs[n] + Bit(n \in handles'[t])
          /\ arcs[n] = strong[n] + Bit(n \in {e})
      BY <2>1, <2>3
    <3>6. /\ strong'[n] \in Int /\ strong[n] \in Int /\ Bit(n \in handles'[t]) \in Int
          /\ Bit(n \in handles[t]) \in Int /\ Bit(n \in {m}) \in Int /\ Bit(n \in {e}) \in Int
      BY <2>3 DEF Bit, InternShape
    <3> HIDE DEF arcs
    <3> QED BY <3>3, <3>4, <3>5, <3>6
  <2> QED BY <1>1, <1>2, <2>2, <2>3, <2>4, <2>5, CountOfMine DEF Edited
<1>7. CASE uops' = (uops \ {e}) \cup {m} /\ Returns(t, m, strong) /\ making' = [making EXCEPT ![t] = Idle]
  <2>1. uops' \in SUBSET UNode
    BY <1>7 DEF InternShape
  <2>2. UNCHANGED <<structure, frames, draining, deferred, asked>>
    BY DEF Decide
  <2> QED BY <1>1, <1>4, <1>7, <2>1, <2>2, CountInsert
<1>8. CASE making' = [making EXCEPT ![t].at = "compute", ![t].found = {}] /\ uops' = uops /\ handles' = handles /\ strong' = strong
  <2>2. Edited(t, "compute", making[t].op, {}, {m})
    BY <1>3, <1>4, <1>8 DEF InternShape, Edited, Making, Owning
  <2>4. InternShape'
    BY <1>1, <1>8, <2>2 DEF InternShape, Edited
  <2>5. ASSUME NEW n \in UNode PROVE strong'[n] + Mine(t, n) = strong[n] + Mine(t, n)'
    <3>1. Mine(t, n)' = Having(n, "compute", making[t].op, {}, {m}, Bit(n \in handles[t]))
      BY <1>3, <1>8, <2>2, MineEdited
    <3>2. Mine(t, n) = Having(n, "decide", making[t].op, {e}, {m}, Bit(n \in handles[t]))
      BY <1>1, <1>4, <1>5, MineHad
    <3> QED BY <1>8, <3>1, <3>2 DEF Having, Bit, Owning
  <2> QED BY <1>1, <1>2, <1>8, <2>2, <2>4, <2>5, CountOfMine DEF Edited
<1> QED BY <1>4, <1>5, <1>6, <1>7, <1>8 DEF Decide

\* The loser of the race drops its node, ...
LEMMA CountLost ==
    ASSUME InternInv, NEW t \in Builder, Lost(t)
    PROVE  InternShape' /\ Counted'
<1> USE DEF InternInv
<1>1. /\ structure' = structure /\ uops' = uops /\ handles' = handles
      /\ draining' = draining /\ deferred' = deferred /\ making[t].at = "lost"
  BY DEF Lost, MakingAt
<1>2. PICK m \in UNode : making[t].node = {m} /\ Release(t, m)
  <2>1. PICK d \in UNode : making[t].node = {d}
    BY <1>1 DEF Staged, HasNode
  <2> QED BY <2>1 DEF Lost
<1>3. making' = [making EXCEPT ![t] = Idle]
  BY DEF Lost
<1>4. /\ strong' \in [UNode -> Int] /\ frames' \in [Builder -> Seq(Frame)] /\ FrameBox' = FrameBox
      /\ strong'[m] = strong[m] - 1 /\ \A n \in UNode : n # m => strong'[n] = strong[n]
  BY <1>2, ReleaseFrames
<1>5. Edited(t, "idle", NoContent, {}, {})
  BY <1>3, IdleType DEF InternShape, Edited, Idle
<1>6. InternShape'
  BY <1>1, <1>4, <1>5 DEF InternShape, Edited
<1>7. ASSUME NEW n \in UNode PROVE strong'[n] + Mine(t, n) = strong[n] + Mine(t, n)'
  <2>1. Mine(t, n)' = Having(n, "idle", NoContent, {}, {}, Bit(n \in handles[t]))
    BY <1>1, <1>5, IdleType, MineEdited
  <2>2. Mine(t, n) = Having(n, "lost", making[t].op, making[t].found, {m}, Bit(n \in handles[t]))
    BY <1>1, <1>2, MineHad
  <2>3. strong[n] \in Int
    BY DEF InternShape
  <2> QED BY <1>4, <2>1, <2>2, <2>3 DEF Having, Bit, Owning
<1> QED BY <1>1, <1>4, <1>5, <1>6, <1>7, CountOfMine DEF Edited

\* ... and a caller the graph it is done with.
LEMMA CountDrop ==
    ASSUME InternInv, NEW t \in Builder, NEW m \in handles[t], DropHandle(t, m)
    PROVE  InternShape' /\ Counted'
<1> USE DEF InternInv
<1>1. /\ structure' = structure /\ uops' = uops /\ making' = making
      /\ draining' = draining /\ deferred' = deferred
  BY DEF DropHandle
<1>2. m \in UNode /\ Release(t, m) /\ handles' = [handles EXCEPT ![t] = @ \ {m}]
  BY DEF DropHandle, InternShape
<1>3. /\ strong' \in [UNode -> Int] /\ frames' \in [Builder -> Seq(Frame)] /\ FrameBox' = FrameBox
      /\ strong'[m] = strong[m] - 1 /\ \A n \in UNode : n # m => strong'[n] = strong[n]
  BY <1>2, ReleaseFrames
<1>4. /\ handles' \in [Builder -> SUBSET UNode] /\ \A u \in Builder : u # t => handles'[u] = handles[u]
      /\ handles'[t] = handles[t] \ {m}
  BY <1>2 DEF InternShape
<1>5. making[t] \in Making /\ making[t].op \in Content
  BY DEF InternShape, Making
<1>6. InternShape'
  BY <1>1, <1>3, <1>4 DEF InternShape
<1>7. ASSUME NEW n \in UNode PROVE strong'[n] + Mine(t, n) = strong[n] + Mine(t, n)'
  <2>1. Edited(t, making[t].at, making[t].op, making[t].found, making[t].node)
    BY <1>1 DEF Edited, InternShape
  <2>2. Mine(t, n)' = Having(n, making[t].at, making[t].op, making[t].found, making[t].node, Bit(n \in handles'[t]))
    BY <1>5, <2>1, MineEdited
  <2>3. Mine(t, n) = Having(n, making[t].at, making[t].op, making[t].found, making[t].node, Bit(n \in handles[t]))
    BY MineHad
  <2>4. Occurrences(n, making[t].op.kids) \in Nat /\ strong[n] \in Int
    BY MineIs DEF InternShape
  <2>5. strong'[n] + Bit(n \in handles[t]) = strong[n] + Bit(n \in handles'[t])
    BY <1>3, <1>4, <2>4 DEF Bit
  <2>6. PICK h \in Nat : \A kept \in Int : Having(n, making[t].at, making[t].op, making[t].found, making[t].node, kept) = kept + h
    <3> DEFINE h == Bit(making[t].at \in {"probed", "compared"} /\ n \in making[t].found) + Bit(n \in making[t].node)
                       + (IF making[t].at \in Owning THEN Occurrences(n, making[t].op.kids) ELSE 0)
    <3>1. h \in Nat
      BY <2>4 DEF Bit
    <3>2. \A kept \in Int : Having(n, making[t].at, making[t].op, making[t].found, making[t].node, kept) = kept + h
      BY <2>4 DEF Having, Bit
    <3> QED BY <3>1, <3>2
  <2>7. Bit(n \in handles[t]) \in Int /\ Bit(n \in handles'[t]) \in Int /\ strong'[n] \in Int
    BY <1>3 DEF Bit
  <2>8. /\ Mine(t, n)' = Bit(n \in handles'[t]) + h
        /\ Mine(t, n) = Bit(n \in handles[t]) + h
    BY <2>2, <2>3, <2>6, <2>7
  <2> QED BY <2>4, <2>5, <2>6, <2>7, <2>8
<1> QED BY <1>1, <1>3, <1>4, <1>6, <1>7, CountOfMine

---------------------------------------------------------------------------------
(* The steps of a teardown keep the types and the count                        *)

\* The innermost activation goes on ...
LEMMA SetTopFrames ==
    ASSUME InternShape, NEW t \in Builder, ~Calm(t), NEW fr \in Frame, NEW g, g = SetTop(t, fr)
    PROVE  /\ g \in [Builder -> Seq(Frame)] /\ \A u \in Builder : u # t => g[u] = frames[u]
           /\ g[t] = Append(Front(frames[t]), fr)
           /\ Len(g[t]) = Len(frames[t]) /\ g[t][Len(frames[t])] = fr
           /\ \A i \in 1..(Len(frames[t]) - 1) : g[t][i] = frames[t][i]
           /\ RestOf(frames[t], Len(frames[t])) = Top(t).rest /\ RestOf(g[t], Len(frames[t])) = fr.rest
           /\ \A i : i # Len(frames[t]) => RestOf(g[t], i) = RestOf(frames[t], i)
<1>1. frames[t] \in Seq(Frame) /\ frames[t] # <<>>
  BY DEF InternShape, Calm
<1>2. /\ Append(Front(frames[t]), fr) \in Seq(Frame) /\ Len(Append(Front(frames[t]), fr)) = Len(frames[t])
      /\ Append(Front(frames[t]), fr)[Len(frames[t])] = fr
      /\ \A i \in 1..(Len(frames[t]) - 1) : Append(Front(frames[t]), fr)[i] = frames[t][i]
  BY <1>1, LastExchanged
<1>3. /\ g \in [Builder -> Seq(Frame)] /\ \A u \in Builder : u # t => g[u] = frames[u]
      /\ g[t] = Append(Front(frames[t]), fr)
  BY <1>2 DEF InternShape, SetTop
<1>4. /\ RestOf(frames[t], Len(frames[t])) = Last(frames[t]).rest
      /\ RestOf(Append(Front(frames[t]), fr), Len(frames[t])) = fr.rest
      /\ \A i : i # Len(frames[t]) => RestOf(Append(Front(frames[t]), fr), i) = RestOf(frames[t], i)
  BY <1>1, RestOfTop
<1> QED BY <1>2, <1>3, <1>4 DEF Top

\* ... or returns.
LEMMA PopFrames ==
    ASSUME InternShape, NEW t \in Builder, ~Calm(t), frames' = [frames EXCEPT ![t] = Front(@)]
    PROVE  /\ frames' \in [Builder -> Seq(Frame)] /\ \A u \in Builder : u # t => frames'[u] = frames[u]
           /\ Len(frames'[t]) = Len(frames[t]) - 1
           /\ \A i \in 1..(Len(frames[t]) - 1) : frames'[t][i] = frames[t][i]
           /\ RestOf(frames[t], Len(frames[t])) = Top(t).rest /\ RestOf(frames'[t], Len(frames[t])) = <<>>
           /\ \A i : i # Len(frames[t]) => RestOf(frames'[t], i) = RestOf(frames[t], i)
<1>1. frames[t] \in Seq(Frame) /\ frames[t] # <<>> /\ Top(t) \in Frame
  BY TopType DEF InternShape, Calm
<1>2. /\ Front(frames[t]) \in Seq(Frame) /\ Len(Front(frames[t])) = Len(frames[t]) - 1
      /\ \A i \in 1..(Len(frames[t]) - 1) : Front(frames[t])[i] = frames[t][i]
  BY <1>1, LastExchanged
<1>3. /\ frames' \in [Builder -> Seq(Frame)] /\ \A u \in Builder : u # t => frames'[u] = frames[u]
      /\ frames'[t] = Front(frames[t])
  BY <1>2 DEF InternShape
<1>4. /\ RestOf(frames[t], Len(frames[t])) = Last(frames[t]).rest
      /\ RestOf(Front(frames[t]), Len(frames[t])) = <<>>
      /\ \A i : i # Len(frames[t]) => RestOf(Front(frames[t]), i) = RestOf(frames[t], i)
  BY <1>1, RestOfTop
<1> QED BY <1>2, <1>3, <1>4 DEF Top

\* The count after a step of a teardown of thread t: what node p, activation k
\* and place j of the queue name.
LEMMA CountTeardown ==
    ASSUME InternShape, InternShape', Counted, NEW t \in Builder, NEW p \in UNode, NEW k \in Nat, NEW j \in Nat,
           handles' = handles, making' = making, \A m \in UNode : m # p => structure'[m] = structure[m],
           \A u \in Builder : u # t => frames'[u] = frames[u] /\ deferred'[u] = deferred[u],
           \A i : i # k => RestOf(frames'[t], i) = RestOf(frames[t], i),
           \A i : i # j => PartOf(deferred'[t], i) = PartOf(deferred[t], i),
           \A n \in UNode :
              strong'[n] + Occurrences(n, structure[p].kids)
                + Occurrences(n, RestOf(frames[t], k)) + Occurrences(n, PartOf(deferred[t], j))
              = strong[n] + Occurrences(n, structure'[p].kids)
                + Occurrences(n, RestOf(frames'[t], k)) + Occurrences(n, PartOf(deferred'[t], j))
    PROVE  Counted'
<1> SUFFICES ASSUME NEW n \in UNode PROVE Finite(n)' /\ strong'[n] = Owners(n)'
  BY DEF Counted
<1> DEFINE f == <<t, k>>
           q == <<t, j>>
<1>1. f \in Builder \X Nat /\ q \in Builder \X Nat /\ f[1] = t /\ f[2] = k /\ q[1] = t /\ q[2] = j
  OBVIOUS
<1>2. ASSUME NEW x \in Builder \X Nat, x # f PROVE FrameBox'[x] = FrameBox[x]
  <2>1. RestOf(frames'[x[1]], x[2]) = RestOf(frames[x[1]], x[2])
    BY <1>2
  <2>2. FrameBox'[x] = RestOf(frames'[x[1]], x[2]) /\ FrameBox[x] = RestOf(frames[x[1]], x[2])
    BY DEF FrameBox, RestOf
  <2> QED BY <2>1, <2>2
<1>3. ASSUME NEW x \in Builder \X Nat, x # q PROVE QueueBox'[x] = QueueBox[x]
  <2>1. PartOf(deferred'[x[1]], x[2]) = PartOf(deferred[x[1]], x[2])
    BY <1>3
  <2>2. QueueBox'[x] = PartOf(deferred'[x[1]], x[2]) /\ QueueBox[x] = PartOf(deferred[x[1]], x[2])
    BY DEF QueueBox, PartOf
  <2> QED BY <2>1, <2>2
<1>4. Mine(t, n)' = Mine(t, n)
  BY DEF Mine, Reads, OpBox
<1>5. /\ Mine(t, n) \in Nat /\ Occurrences(n, structure[p].kids) \in Nat
      /\ Occurrences(n, RestOf(frames[t], k)) \in Nat /\ Occurrences(n, PartOf(deferred[t], j)) \in Nat
      /\ Share(t, p, f, q, n) = Mine(t, n) + Occurrences(n, structure[p].kids)
            + Occurrences(n, RestOf(frames[t], k)) + Occurrences(n, PartOf(deferred[t], j))
  <2>1. Parts
    BY ShareIs
  <2> HIDE DEF f, q
  <2> QED BY <1>1, <2>1 DEF Parts
<1>6. /\ Occurrences(n, structure'[p].kids) \in Nat
      /\ Occurrences(n, RestOf(frames'[t], k)) \in Nat /\ Occurrences(n, PartOf(deferred'[t], j)) \in Nat
      /\ Share(t, p, f, q, n)' = Mine(t, n) + Occurrences(n, structure'[p].kids)
            + Occurrences(n, RestOf(frames'[t], k)) + Occurrences(n, PartOf(deferred'[t], j))
  <2>1. /\ Occurrences(n, structure'[p].kids) \in Nat
        /\ Occurrences(n, RestOf(frames'[f[1]], f[2])) \in Nat
        /\ Occurrences(n, PartOf(deferred'[q[1]], q[2])) \in Nat
        /\ Share(t, p, f, q, n)' = Mine(t, n)' + Occurrences(n, structure'[p].kids)
                + Occurrences(n, RestOf(frames'[f[1]], f[2])) + Occurrences(n, PartOf(deferred'[q[1]], q[2]))
    BY <1>1, ShareIsAfter
  <2> HIDE DEF f, q
  <2> QED BY <1>1, <1>4, <2>1
<1>7. strong'[n] \in Int /\ strong[n] \in Int
  BY DEF InternShape
<1>8. strong'[n] + Occurrences(n, structure[p].kids)
        + Occurrences(n, RestOf(frames[t], k)) + Occurrences(n, PartOf(deferred[t], j))
      = strong[n] + Occurrences(n, structure'[p].kids)
        + Occurrences(n, RestOf(frames'[t], k)) + Occurrences(n, PartOf(deferred'[t], j))
  OBVIOUS
<1>9. strong'[n] + Share(t, p, f, q, n) = strong[n] + Share(t, p, f, q, n)'
  <2> DEFINE a == Occurrences(n, structure[p].kids)
             b == Occurrences(n, RestOf(frames[t], k))
             c == Occurrences(n, PartOf(deferred[t], j))
             x == Occurrences(n, structure'[p].kids)
             y == Occurrences(n, RestOf(frames'[t], k))
             z == Occurrences(n, PartOf(deferred'[t], j))
  <2>1. a \in Nat /\ b \in Nat /\ c \in Nat /\ x \in Nat /\ y \in Nat /\ z \in Nat /\ Mine(t, n) \in Nat
    BY <1>5, <1>6
  <2>2. strong'[n] + a + b + c = strong[n] + x + y + z
    BY <1>8
  <2>3. Share(t, p, f, q, n) = Mine(t, n) + a + b + c /\ Share(t, p, f, q, n)' = Mine(t, n) + x + y + z
    BY <1>5, <1>6
  <2> HIDE DEF f, q, a, b, c, x, y, z
  <2>4. strong'[n] + (Mine(t, n) + a + b + c) = strong[n] + (Mine(t, n) + x + y + z)
    <3>1. \A h, i \in Int : \A m, d, e, g, u, v, w \in Nat :
              h + d + e + g = i + u + v + w => h + (m + d + e + g) = i + (m + u + v + w)
      OBVIOUS
    <3> QED BY <1>7, <2>1, <2>2, <3>1
  <2> QED BY <2>3, <2>4
<1> QED BY <1>1, <1>2, <1>3, <1>7, <1>9, KeepsCount

\* An entry is taken out of the table.
LEMMA CountRetire ==
    ASSUME InternInv, NEW t \in Builder, Retire(t)
    PROVE  InternShape' /\ Counted'
<1> USE DEF InternInv
<1> DEFINE k == Len(frames[t])
           fr == [Top(t) EXCEPT !.at = "inspect"]
<1>1. /\ ~Calm(t) /\ Top(t).at = "retire" /\ frames' = SetTop(t, fr)
      /\ structure' = structure /\ strong' = strong /\ handles' = handles /\ making' = making
      /\ draining' = draining /\ deferred' = deferred /\ uops' \subseteq uops
  BY DEF Retire, Inner
<1>2. Top(t) \in Frame /\ k \in Nat
  BY <1>1, TopType
<1>3. fr \in Frame /\ fr.rest = Top(t).rest
  BY <1>1, <1>2 DEF Frame
<1> HIDE DEF fr, k
<1>4. /\ frames' \in [Builder -> Seq(Frame)] /\ \A u \in Builder : u # t => frames'[u] = frames[u]
      /\ RestOf(frames[t], k) = Top(t).rest /\ RestOf(frames'[t], k) = fr.rest
      /\ \A i : i # k => RestOf(frames'[t], i) = RestOf(frames[t], i)
  BY <1>1, <1>3, SetTopFrames DEF k
<1>5. InternShape'
  BY <1>1, <1>4 DEF InternShape
<1>6. Top(t).node \in UNode
  BY <1>2 DEF Frame
<1> QED BY <1>1, <1>2, <1>3, <1>4, <1>5, <1>6, CountTeardown

\* A payload leaves its node: to the glue, to the queue or to a new drain.
LEMMA CountInspect ==
    ASSUME InternInv, NEW t \in Builder, Inspect(t)
    PROVE  InternShape' /\ Counted'
<1> USE DEF InternInv
<1> DEFINE k == Len(frames[t])
           p == Top(t).node
           kids == structure[p].kids
           glue == [Top(t) EXCEPT !.at = "glue", !.rest = kids]
           drain == [Top(t) EXCEPT !.at = "drain", !.rest = kids]
<1>1. /\ ~Calm(t) /\ Top(t).at = "inspect" /\ structure' = [structure EXCEPT ![p] = NoContent]
      /\ strong' = strong /\ handles' = handles /\ making' = making /\ uops' = uops
  BY DEF Inspect, Inner
<1>2. Top(t) \in Frame /\ k \in Nat
  BY <1>1, TopType
<1>3. p \in UNode /\ Top(t).rest = <<>>
  BY <1>1, <1>2 DEF Frame
<1>4. kids \in Seq(UNode)
  BY <1>3 DEF InternShape, Content
<1>5. glue \in Frame /\ glue.rest = kids /\ drain \in Frame /\ drain.rest = kids
  BY <1>2, <1>4 DEF Frame
<1>6. /\ structure' \in [UNode -> Content] /\ structure'[p].kids = <<>>
      /\ \A m \in UNode : m # p => structure'[m] = structure[m]
  BY <1>1, <1>3, IdleType DEF InternShape, NoContent
<1>7. \A n \in UNode : strong[n] \in Int /\ Occurrences(n, kids) \in Nat
  BY <1>4, OccurrencesType DEF InternShape
<1> HIDE DEF glue, drain, k, p
<1>8. ASSUME NEW fr \in Frame, fr.rest = kids, frames' = SetTop(t, fr), deferred' = deferred, draining' \in [Builder -> BOOLEAN]
      PROVE  InternShape' /\ Counted'
  <2>1. /\ frames' \in [Builder -> Seq(Frame)] /\ \A u \in Builder : u # t => frames'[u] = frames[u]
        /\ RestOf(frames[t], k) = Top(t).rest /\ RestOf(frames'[t], k) = fr.rest
        /\ \A i : i # k => RestOf(frames'[t], i) = RestOf(frames[t], i)
    BY <1>1, <1>8, SetTopFrames DEF k
  <2>2. InternShape'
    BY <1>1, <1>6, <1>8, <2>1 DEF InternShape
  <2>3. ASSUME NEW n \in UNode
        PROVE  strong'[n] + Occurrences(n, structure[p].kids)
                + Occurrences(n, RestOf(frames[t], k)) + Occurrences(n, PartOf(deferred[t], 0))
              = strong[n] + Occurrences(n, structure'[p].kids)
                + Occurrences(n, RestOf(frames'[t], k)) + Occurrences(n, PartOf(deferred'[t], 0))
    <3>1. Occurrences(n, RestOf(frames[t], k)) = 0 /\ Occurrences(n, structure'[p].kids) = 0
      BY <1>3, <1>6, <2>1, OccurrencesNone
    <3>2. Occurrences(n, RestOf(frames'[t], k)) = Occurrences(n, kids)
      BY <1>8, <2>1
    <3>3. PartOf(deferred'[t], 0) = PartOf(deferred[t], 0) /\ Occurrences(n, PartOf(deferred[t], 0)) \in Nat
      <4>1. deferred[t] \in Seq(Seq(UNode))
        BY DEF InternShape
      <4>2. 0 \notin DOMAIN deferred[t]
        BY <4>1
      <4>3. PartOf(deferred[t], 0) = <<>>
        BY <4>2 DEF PartOf
      <4>4. Occurrences(n, <<>>) \in Nat
        BY OccurrencesNone
      <4> QED BY <1>8, <4>3, <4>4
    <3> QED BY <1>1, <1>7, <3>1, <3>2, <3>3
  <2> QED BY <1>1, <1>2, <1>3, <1>6, <1>8, <2>1, <2>2, <2>3, CountTeardown
<1>9. CASE draining' = draining /\ deferred' = [deferred EXCEPT ![t] = Append(@, kids)] /\ frames' = [frames EXCEPT ![t] = Front(@)]
  <2> DEFINE j == Len(deferred[t]) + 1
  <2>1. /\ frames' \in [Builder -> Seq(Frame)] /\ \A u \in Builder : u # t => frames'[u] = frames[u]
        /\ RestOf(frames[t], k) = Top(t).rest /\ RestOf(frames'[t], k) = <<>>
        /\ \A i : i # k => RestOf(frames'[t], i) = RestOf(frames[t], i)
    BY <1>1, <1>9, PopFrames DEF k
  <2>2. deferred[t] \in Seq(Seq(UNode)) /\ j \in Nat
    BY LenProperties DEF InternShape
  <2>3. /\ PartOf(deferred[t], j) = <<>> /\ PartOf(Append(deferred[t], kids), j) = kids
        /\ \A i : i # j => PartOf(Append(deferred[t], kids), i) = PartOf(deferred[t], i)
    BY <1>4, <2>2, PartPushed
  <2>4. Append(deferred[t], kids) \in Seq(Seq(UNode))
    BY <1>4, <2>2, AppendProperties
  <2>5. /\ deferred' \in [Builder -> Seq(Seq(UNode))] /\ deferred'[t] = Append(deferred[t], kids)
        /\ \A u \in Builder : u # t => deferred'[u] = deferred[u]
    BY <1>9, <2>4 DEF InternShape
  <2>6. InternShape'
    BY <1>1, <1>6, <1>9, <2>1, <2>5 DEF InternShape
  <2> HIDE DEF j
  <2>7. ASSUME NEW n \in UNode
        PROVE  strong'[n] + Occurrences(n, structure[p].kids)
                + Occurrences(n, RestOf(frames[t], k)) + Occurrences(n, PartOf(deferred[t], j))
              = strong[n] + Occurrences(n, structure'[p].kids)
                + Occurrences(n, RestOf(frames'[t], k)) + Occurrences(n, PartOf(deferred'[t], j))
    <3>1. /\ Occurrences(n, RestOf(frames[t], k)) = 0 /\ Occurrences(n, structure'[p].kids) = 0
          /\ Occurrences(n, RestOf(frames'[t], k)) = 0 /\ Occurrences(n, PartOf(deferred[t], j)) = 0
      BY <1>3, <1>6, <2>1, <2>3, OccurrencesNone
    <3>2. Occurrences(n, PartOf(deferred'[t], j)) = Occurrences(n, kids)
      BY <2>3, <2>5
    <3> QED BY <1>1, <1>7, <3>1, <3>2
  <2>8. \A i : i # j => PartOf(deferred'[t], i) = PartOf(deferred[t], i)
    BY <2>3, <2>5
  <2>9. \A u \in Builder : u # t => frames'[u] = frames[u] /\ deferred'[u] = deferred[u]
    BY <2>1, <2>5
  <2>10. handles' = handles /\ making' = making /\ Counted /\ InternShape
    BY <1>1
  <2> HIDE DEF InternInv, kids
  <2> QED BY <1>2, <1>3, <1>6, <2>1, <2>2, <2>6, <2>7, <2>8, <2>9, <2>10, CountTeardown
<1>10. CASE ~HasDying(p)
  <2>1. frames' = SetTop(t, glue) /\ draining' = draining /\ deferred' = deferred
    BY <1>10 DEF Inspect, glue, p
  <2> QED BY <1>5, <1>8, <2>1 DEF InternShape
<1>11. CASE HasDying(p) /\ draining[t]
  BY <1>9, <1>11 DEF Inspect, p
<1>12. CASE HasDying(p) /\ ~draining[t]
  <2>1. frames' = SetTop(t, drain) /\ draining' = [draining EXCEPT ![t] = TRUE] /\ deferred' = deferred
    BY <1>12 DEF Inspect, drain, p
  <2>2. draining' \in [Builder -> BOOLEAN]
    BY <2>1 DEF InternShape
  <2> QED BY <1>5, <1>8, <2>1, <2>2
<1> QED BY <1>10, <1>11, <1>12

\* One child of a payload is released; its own activation starts with nothing.
LEMMA KidFrames ==
    ASSUME InternShape, NEW t \in Builder, ReleaseKid(t)
    PROVE  /\ ~Calm(t) /\ Top(t) \in Frame /\ Top(t).at \in {"glue", "drain"} /\ Top(t).rest \in Seq(UNode) /\ Top(t).rest # <<>>
           /\ Head(Top(t).rest) \in UNode
           /\ \E fr \in Frame : \E g \in [Builder -> Seq(Frame)] :
                /\ fr.node = Top(t).node /\ fr.at = Top(t).at /\ fr.rest = Tail(Top(t).rest) /\ g = SetTop(t, fr)
                /\ strong[Head(Top(t).rest)] = 1 => frames' = [g EXCEPT ![t] = Append(@, Started(Head(Top(t).rest)))]
                /\ strong[Head(Top(t).rest)] # 1 => frames' = g
<1>1. ~Calm(t) /\ Top(t).at \in {"glue", "drain"} /\ Top(t).rest # <<>>
  BY DEF ReleaseKid, Inner
<1>2. Top(t) \in Frame
  BY <1>1, TopType
<1>3. Top(t).rest \in Seq(UNode)
  BY <1>2 DEF Frame
<1>4. Head(Top(t).rest) \in UNode /\ Tail(Top(t).rest) \in Seq(UNode)
  BY <1>1, <1>3, HeadTailProperties
<1> DEFINE fr == [Top(t) EXCEPT !.rest = Tail(@)]
<1>5. fr \in Frame /\ fr.node = Top(t).node /\ fr.at = Top(t).at /\ fr.rest = Tail(Top(t).rest)
  BY <1>1, <1>2, <1>4 DEF Frame
<1>6. /\ strong[Head(Top(t).rest)] = 1 => frames' = [SetTop(t, fr) EXCEPT ![t] = Append(@, Started(Head(Top(t).rest)))]
      /\ strong[Head(Top(t).rest)] # 1 => frames' = SetTop(t, fr)
  BY DEF ReleaseKid, Started
<1> HIDE DEF fr
<1>7. SetTop(t, fr) \in [Builder -> Seq(Frame)]
  BY <1>1, <1>5, SetTopFrames
<1> QED BY <1>1, <1>2, <1>3, <1>4, <1>5, <1>6, <1>7

\* Releasing a child of a payload (the drop glue, the drain) keeps the count.
LEMMA CountKid ==
    ASSUME InternInv, NEW t \in Builder, ReleaseKid(t)
    PROVE  InternShape' /\ Counted'
<1> USE DEF InternInv
<1> DEFINE k == Len(frames[t])
           rest == Top(t).rest
           kid == Head(rest)
<1>1. ~Calm(t) /\ Top(t) \in Frame /\ rest \in Seq(UNode) /\ rest # <<>> /\ kid \in UNode
  BY KidFrames
<1>2. PICK fr \in Frame : \E h \in [Builder -> Seq(Frame)] :
        /\ fr.rest = Tail(rest) /\ h = SetTop(t, fr)
        /\ strong[kid] = 1 => frames' = [h EXCEPT ![t] = Append(@, Started(kid))]
        /\ strong[kid] # 1 => frames' = h
  BY KidFrames
<1>3. PICK h \in [Builder -> Seq(Frame)] :
        /\ h = SetTop(t, fr)
        /\ strong[kid] = 1 => frames' = [h EXCEPT ![t] = Append(@, Started(kid))]
        /\ strong[kid] # 1 => frames' = h
  BY <1>2
<1>4. /\ structure' = structure /\ uops' = uops /\ handles' = handles /\ making' = making
      /\ draining' = draining /\ deferred' = deferred /\ strong' = [strong EXCEPT ![kid] = @ - 1]
  BY DEF ReleaseKid
<1>5. k \in Nat /\ Top(t).node \in UNode
  BY <1>1, TopType DEF Frame
<1>6. /\ \A u \in Builder : u # t => h[u] = frames[u]
      /\ RestOf(frames[t], k) = rest /\ RestOf(h[t], k) = Tail(rest)
      /\ \A i : i # k => RestOf(h[t], i) = RestOf(frames[t], i)
  BY <1>1, <1>2, <1>3, SetTopFrames
<1> HIDE DEF k, rest, kid
<1>7. /\ frames' \in [Builder -> Seq(Frame)] /\ \A u \in Builder : u # t => frames'[u] = h[u]
      /\ \A i : RestOf(frames'[t], i) = RestOf(h[t], i)
  <2>1. Started(kid) \in Frame /\ Started(kid).rest = <<>>
    BY <1>1, EmptySeq DEF Started, Frame
  <2>2. CASE strong[kid] = 1
    <3>1. Append(h[t], Started(kid)) \in Seq(Frame)
      BY <2>1, AppendProperties
    <3>2. frames' \in [Builder -> Seq(Frame)] /\ frames'[t] = Append(h[t], Started(kid)) /\ \A u \in Builder : u # t => frames'[u] = h[u]
      BY <1>3, <2>2, <3>1
    <3> QED BY <2>1, <3>2, RestPushed
  <2>3. CASE strong[kid] # 1
    BY <1>3, <2>3
  <2> QED BY <2>2, <2>3
<1>8. strong' \in [UNode -> Int] /\ \A n \in UNode : strong'[n] = strong[n] - Bit(kid = n) /\ strong[n] \in Int
  BY <1>1, <1>4 DEF InternShape, Bit
<1>9. InternShape'
  BY <1>4, <1>7, <1>8 DEF InternShape
<1>10. ASSUME NEW n \in UNode
       PROVE  strong'[n] + Occurrences(n, structure[Top(t).node].kids)
                + Occurrences(n, RestOf(frames[t], k)) + Occurrences(n, PartOf(deferred[t], 0))
              = strong[n] + Occurrences(n, structure'[Top(t).node].kids)
                + Occurrences(n, RestOf(frames'[t], k)) + Occurrences(n, PartOf(deferred'[t], 0))
  <2>1. RestOf(frames[t], k) = rest /\ RestOf(frames'[t], k) = Tail(rest)
    BY <1>6, <1>7
  <2>2. Tail(rest) \in Seq(UNode) /\ Occurrences(n, Tail(rest)) + Bit(kid = n) = Occurrences(n, rest)
    BY <1>1, OccurrencesTail DEF kid
  <2>3. Occurrences(n, rest) \in Nat /\ Occurrences(n, Tail(rest)) \in Nat /\ Bit(kid = n) \in Nat
    BY <1>1, <2>2, OccurrencesType DEF Bit
  <2>4. Occurrences(n, PartOf(deferred[t], 0)) \in Nat /\ Occurrences(n, structure[Top(t).node].kids) \in Nat
    <3>1. deferred[t] \in Seq(Seq(UNode)) /\ structure[Top(t).node].kids \in Seq(UNode)
      BY <1>5 DEF InternShape, Content
    <3>2. 0 \notin DOMAIN deferred[t]
      BY <3>1
    <3>3. PartOf(deferred[t], 0) = <<>>
      BY <3>2 DEF PartOf
    <3>4. Occurrences(n, <<>>) \in Nat
      BY OccurrencesNone
    <3>5. Occurrences(n, structure[Top(t).node].kids) \in Nat
      BY <3>1, OccurrencesType
    <3> QED BY <3>3, <3>4, <3>5
  <2>5. structure' = structure /\ deferred' = deferred
    BY <1>4
  <2>6. strong'[n] = strong[n] - Bit(kid = n) /\ strong[n] \in Int
    BY <1>8
  <2> QED BY <2>1, <2>2, <2>3, <2>4, <2>5, <2>6
<1>11. \A i : i # k => RestOf(frames'[t], i) = RestOf(frames[t], i)
  BY <1>6, <1>7
<1>12. \A u \in Builder : u # t => frames'[u] = frames[u] /\ deferred'[u] = deferred[u]
  BY <1>4, <1>6, <1>7
<1>13. Counted /\ InternShape /\ handles' = handles /\ making' = making /\ structure' = structure /\ deferred' = deferred
  BY <1>4
<1> HIDE DEF InternInv
<1> QED BY <1>5, <1>9, <1>10, <1>11, <1>12, <1>13, CountTeardown

\* An activation with nothing left returns, ...
LEMMA CountPop ==
    ASSUME InternInv, NEW t \in Builder, ~Calm(t), Top(t).rest = <<>>, frames' = [frames EXCEPT ![t] = Front(@)],
           draining' \in [Builder -> BOOLEAN], UNCHANGED <<structure, strong, uops, handles, making, deferred>>
    PROVE  InternShape' /\ Counted'
<1> USE DEF InternInv
<1> DEFINE k == Len(frames[t])
<1>1. Top(t) \in Frame /\ k \in Nat
  BY TopType
<1>2. /\ frames' \in [Builder -> Seq(Frame)] /\ \A u \in Builder : u # t => frames'[u] = frames[u]
      /\ RestOf(frames[t], k) = Top(t).rest /\ RestOf(frames'[t], k) = <<>>
      /\ \A i : i # k => RestOf(frames'[t], i) = RestOf(frames[t], i)
  BY PopFrames
<1> HIDE DEF k
<1>3. InternShape'
  BY <1>2 DEF InternShape
<1>4. Top(t).node \in UNode
  BY <1>1 DEF Frame
<1> QED BY <1>1, <1>2, <1>3, <1>4, CountTeardown

\* ... and a drain takes the next payload from the queue.
LEMMA CountDrain ==
    ASSUME InternInv, NEW t \in Builder, Drain(t)
    PROVE  InternShape' /\ Counted'
<1> USE DEF InternInv
<1> DEFINE k == Len(frames[t])
           j == Len(deferred[t])
           fr == [Top(t) EXCEPT !.rest = Last(deferred[t])]
<1>1. /\ ~Calm(t) /\ Top(t).at = "drain" /\ Top(t).rest = <<>>
      /\ UNCHANGED <<structure, strong, uops, handles, making>>
  BY DEF Drain, Inner
<1>2. Top(t) \in Frame /\ k \in Nat
  BY <1>1, TopType
<1>3. CASE deferred[t] # <<>>
  <2>1. /\ frames' = SetTop(t, fr) /\ deferred' = [deferred EXCEPT ![t] = Front(@)] /\ draining' = draining
    BY <1>3 DEF Drain
  <2>2. deferred[t] \in Seq(Seq(UNode))
    BY DEF InternShape
  <2>3. j \in Nat /\ Last(deferred[t]) \in Seq(UNode) /\ Front(deferred[t]) \in Seq(Seq(UNode))
    <3>1. <<>> \in Seq(UNode)
      BY EmptySeq
    <3> QED BY <1>3, <2>2, <3>1, LastExchanged
  <2>4. fr \in Frame /\ fr.rest = Last(deferred[t])
    BY <1>1, <1>2, <2>3 DEF Frame
  <2> HIDE DEF fr
  <2>5. /\ frames' \in [Builder -> Seq(Frame)] /\ \A u \in Builder : u # t => frames'[u] = frames[u]
        /\ RestOf(frames[t], k) = Top(t).rest /\ RestOf(frames'[t], k) = fr.rest
        /\ \A i : i # k => RestOf(frames'[t], i) = RestOf(frames[t], i)
    BY <1>1, <2>1, <2>4, SetTopFrames
  <2>6. /\ deferred' \in [Builder -> Seq(Seq(UNode))] /\ deferred'[t] = Front(deferred[t])
        /\ \A u \in Builder : u # t => deferred'[u] = deferred[u]
    BY <2>1, <2>3 DEF InternShape
  <2>7. /\ PartOf(deferred[t], j) = Last(deferred[t]) /\ PartOf(deferred'[t], j) = <<>>
        /\ \A i : i # j => PartOf(deferred'[t], i) = PartOf(deferred[t], i)
    BY <1>3, <2>2, <2>6, PartTaken
  <2>8. InternShape'
    BY <1>1, <2>1, <2>5, <2>6 DEF InternShape
  <2> HIDE DEF k, j
  <2>9. Top(t).node \in UNode
    BY <1>2 DEF Frame
  <2>10. ASSUME NEW n \in UNode
         PROVE  strong'[n] + Occurrences(n, structure[Top(t).node].kids)
                  + Occurrences(n, RestOf(frames[t], k)) + Occurrences(n, PartOf(deferred[t], j))
                = strong[n] + Occurrences(n, structure'[Top(t).node].kids)
                  + Occurrences(n, RestOf(frames'[t], k)) + Occurrences(n, PartOf(deferred'[t], j))
    <3>1. Occurrences(n, RestOf(frames[t], k)) = 0 /\ Occurrences(n, PartOf(deferred'[t], j)) = 0
      BY <1>1, <2>5, <2>7, OccurrencesNone
    <3>2. /\ Occurrences(n, RestOf(frames'[t], k)) = Occurrences(n, Last(deferred[t]))
          /\ Occurrences(n, PartOf(deferred[t], j)) = Occurrences(n, Last(deferred[t]))
      BY <2>4, <2>5, <2>7
    <3>3. Occurrences(n, Last(deferred[t])) \in Nat
      BY <2>3, OccurrencesType
    <3>4. Occurrences(n, structure[Top(t).node].kids) \in Nat /\ strong[n] \in Int
      BY <2>9, OccurrencesType DEF InternShape, Content
    <3>5. structure' = structure /\ strong' = strong
      BY <1>1
    <3> QED BY <3>1, <3>2, <3>3, <3>4, <3>5
  <2>11. \A u \in Builder : u # t => frames'[u] = frames[u] /\ deferred'[u] = deferred[u]
    BY <2>5, <2>6
  <2>12. Counted /\ InternShape /\ handles' = handles /\ making' = making /\ structure' = structure
    BY <1>1
  <2>13. /\ \A i : i # k => RestOf(frames'[t], i) = RestOf(frames[t], i)
         /\ \A i : i # j => PartOf(deferred'[t], i) = PartOf(deferred[t], i)
         /\ k \in Nat /\ j \in Nat
    BY <1>2, <2>3, <2>5, <2>7
  <2> HIDE DEF InternInv
  <2> QED BY <2>8, <2>9, <2>10, <2>11, <2>12, <2>13, CountTeardown
<1>4. CASE deferred[t] = <<>>
  <2>1. frames' = [frames EXCEPT ![t] = Front(@)] /\ draining' = [draining EXCEPT ![t] = FALSE] /\ deferred' = deferred
    BY <1>4 DEF Drain, DrainOver
  <2>2. draining' \in [Builder -> BOOLEAN]
    BY <2>1 DEF InternShape
  <2> QED BY <1>1, <2>1, <2>2, CountPop
<1> QED BY <1>3, <1>4

---------------------------------------------------------------------------------
(* The other parts of the invariant: what a step of t does to the others ...    *)

StagedOf(t) ==
    /\ making[t].at \in HasFound => \E e \in UNode : making[t].found = {e}
    /\ making[t].at \notin HasFound => making[t].found = {}
    /\ making[t].at \in HasNode => \E n \in UNode : making[t].node = {n}
    /\ making[t].at \notin HasNode => making[t].node = {}
    /\ \A e \in making[t].found : Live(e) => e \in uops /\ structure[e] = making[t].op
    /\ \A n \in making[t].node : structure[n] = making[t].op /\ strong[n] = 1 /\ n \notin uops

QueuedOf(t) ==
    /\ deferred[t] # <<>> => draining[t]
    /\ draining[t] => \E j \in DOMAIN frames[t] : frames[t][j].at = "drain"

DyingBy(t, n, at) == ~Calm(t) /\ Top(t).node = n /\ Top(t).at \in at

\* Live nodes keep their entry and their payload, only a free allocation comes to
\* life, and the nodes that others are making are left alone.
Benign(t) ==
    /\ \A n \in UNode : Live(n) => structure'[n] = structure[n] /\ (n \in uops => n \in uops')
    /\ \A n \in UNode : ~Live(n) => ~Live(n)' \/ Unused(n)
    /\ \A u \in Builder : u # t =>
        /\ making'[u] = making[u] /\ handles'[u] = handles[u] /\ frames'[u] = frames[u]
        /\ draining'[u] = draining[u] /\ deferred'[u] = deferred[u]
        /\ \A n \in making[u].node : strong'[n] = strong[n] /\ n \notin uops'

\* ... and what it has to show of its own: of the nodes that die in it, ...
DeathsOf(t) ==
    /\ \A n \in UNode : ~Live(n)' /\ n \in uops' /\ (Live(n) \/ n \notin uops \/ DyingBy(t, n, {"retire"}))
                            => DyingBy(t, n, {"retire"})'
    /\ \A n \in UNode : ~Live(n)' /\ structure'[n] # NoContent
                              /\ (Live(n) \/ structure[n] = NoContent \/ DyingBy(t, n, {"retire", "inspect"}))
                            => DyingBy(t, n, {"retire", "inspect"})'
    /\ \A j \in DOMAIN frames'[t] : ~(strong'[frames'[t][j].node] > 0)

\* ... and of the thread's own call.
Own(t) ==
    /\ StagedOf(t)' /\ QueuedOf(t)' /\ DeathsOf(t) /\ handles'[t] \subseteq uops'
    /\ \A n \in making[t].node : Live(n)' => n \in uops' \/ n \in making'[t].node
    /\ \A n \in UNode : Unused(n) /\ Live(n)' => n \in making'[t].node

\* A node that a thread, a node, an activation or the queue names has an Arc.
LEMMA NamedLives ==
    ASSUME InternShape, Counted, NEW t \in Builder, NEW n \in UNode
    PROVE  /\ strong[n] \in Nat
           /\ n \in handles[t] => Live(n)
           /\ n \in making[t].node => Live(n)
           /\ Reads(t, n) => Live(n)
<1>1. <<t, 0>> \in Builder \X Nat
  OBVIOUS
<1> DEFINE o == Occurrences(n, structure[n].kids) + Occurrences(n, RestOf(frames[t], 0)) + Occurrences(n, PartOf(deferred[t], 0))
<1>2. strong[n] \in Nat /\ Share(t, n, <<t, 0>>, <<t, 0>>, n) <= strong[n]
  BY <1>1, ShareBound
<1>3. o \in Nat /\ Share(t, n, <<t, 0>>, <<t, 0>>, n) = Mine(t, n) + o /\ Mine(t, n) \in Nat
  BY <1>1, ShareIs DEF Parts
<1>4. Occurrences(n, OpBox[t]) \in Nat
  BY BoxTypes, OccurrencesType DEF Boxed
<1> HIDE DEF o
<1>5. Mine(t, n) <= strong[n]
  BY <1>2, <1>3
<1> QED BY <1>2, <1>4, <1>5 DEF Mine, Bit, Live

\* Together they keep the invariant.
LEMMA InvStep ==
    ASSUME InternInv, InternShape', Counted', NEW t \in Builder, Benign(t), Own(t)
    PROVE  InternInv' /\ Benign(t)
<1> USE DEF InternInv
<1>1. ASSUME NEW u \in Builder, u # t PROVE StagedOf(u)' /\ QueuedOf(u)'
  <2>1. /\ making'[u] = making[u] /\ frames'[u] = frames[u] /\ draining'[u] = draining[u] /\ deferred'[u] = deferred[u]
    BY <1>1 DEF Benign
  <2>2. QueuedOf(u)'
    BY <2>1 DEF Queued, QueuedOf
  <2>3. ASSUME NEW e \in making[u].found, Live(e)' PROVE e \in uops' /\ structure'[e] = making[u].op
    <3>1. e \in UNode
      BY DEF InternShape, Making
    <3>2. ~Unused(e)
      BY DEF Unused
    <3>3. Live(e)
      BY <2>3, <3>1, <3>2 DEF Benign
    <3>4. e \in uops /\ structure[e] = making[u].op
      BY <3>3 DEF Staged
    <3> QED BY <3>1, <3>3, <3>4 DEF Benign
  <2>4. ASSUME NEW n \in making[u].node PROVE structure'[n] = making[u].op /\ strong'[n] = 1 /\ n \notin uops'
    <3>1. n \in UNode /\ strong[n] = 1 /\ structure[n] = making[u].op
      BY DEF InternShape, Making, Staged
    <3>2. structure'[n] = structure[n]
      BY <3>1 DEF Benign, Live
    <3> QED BY <1>1, <3>1, <3>2 DEF Benign
  <2>5. StagedOf(u)'
    BY <2>1, <2>3, <2>4 DEF StagedOf, Staged
  <2> QED BY <2>2, <2>5
<1>2. Staged'
  BY <1>1 DEF Own, Staged, StagedOf
<1>3. Queued'
  BY <1>1 DEF Own, Queued, QueuedOf
<1>4. ASSUME NEW n \in UNode, NEW at, NEW u \in Builder, u # t, DyingBy(u, n, at) PROVE Dying(n, at)'
  <2>1. frames'[u] = frames[u]
    BY <1>4 DEF Benign
  <2> QED BY <1>4, <2>1 DEF Dying, DyingBy, Calm, Top
<1>5. ASSUME NEW n \in UNode, ~Live(n)', n \in uops' PROVE Dying(n, {"retire"})'
  <2>1. CASE Live(n) \/ n \notin uops \/ DyingBy(t, n, {"retire"})
    BY <1>5, <2>1 DEF Own, DeathsOf, Dying, DyingBy
  <2>2. CASE ~Live(n) /\ n \in uops /\ ~DyingBy(t, n, {"retire"})
    <3>1. PICK u \in Builder : DyingBy(u, n, {"retire"})
      BY <2>2 DEF Deaths, Dying, DyingBy
    <3> QED BY <1>4, <2>2, <3>1
  <2> QED BY <2>1, <2>2
<1>6. ASSUME NEW n \in UNode, ~Live(n)', structure'[n] # NoContent PROVE Dying(n, {"retire", "inspect"})'
  <2>1. CASE Live(n) \/ structure[n] = NoContent \/ DyingBy(t, n, {"retire", "inspect"})
    BY <1>6, <2>1 DEF Own, DeathsOf, Dying, DyingBy
  <2>2. CASE ~Live(n) /\ structure[n] # NoContent /\ ~DyingBy(t, n, {"retire", "inspect"})
    <3>1. PICK u \in Builder : DyingBy(u, n, {"retire", "inspect"})
      BY <2>2 DEF Deaths, Dying, DyingBy
    <3> QED BY <1>4, <2>2, <3>1
  <2> QED BY <2>1, <2>2
<1>7. ASSUME NEW u \in Builder, NEW j \in DOMAIN frames'[u] PROVE ~(strong'[frames'[u][j].node] > 0)
  <2>1. CASE u = t
    BY <2>1 DEF Own, DeathsOf
  <2>2. CASE u # t
    <3>1. frames'[u] = frames[u] /\ ~Live(frames[u][j].node)
      BY <2>2 DEF Benign, Deaths
    <3>2. frames[u][j].node \in UNode
      <4>1. frames[u] \in Seq(Frame) /\ j \in DOMAIN frames[u]
        BY <3>1 DEF InternShape
      <4>2. frames[u][j] \in Frame
        BY <4>1, LenProperties, ElementOfSeq
      <4> QED BY <4>2 DEF Frame
    <3>3. ~Unused(frames[u][j].node)
      BY <3>1 DEF Unused
    <3> QED BY <3>1, <3>2, <3>3 DEF Benign, Live
  <2> QED BY <2>1, <2>2
<1>8. ASSUME NEW n \in UNode, Live(n)' PROVE n \in uops' \/ \E u \in Builder : n \in making'[u].node
  <2>1. CASE ~Live(n)
    BY <1>8, <2>1 DEF Benign, Own
  <2>2. CASE Live(n) /\ n \in uops
    BY <2>2 DEF Benign
  <2>3. CASE Live(n) /\ n \notin uops
    <3>1. PICK u \in Builder : n \in making[u].node
      BY <2>3 DEF Deaths
    <3> QED BY <1>8, <3>1 DEF Benign, Own
  <2> QED BY <2>1, <2>2, <2>3
<1>9. ASSUME NEW u \in Builder PROVE handles'[u] \subseteq uops'
  <2>1. CASE u = t
    BY <2>1 DEF Own
  <2>2. CASE u # t
    <3> SUFFICES ASSUME NEW n \in handles[u] PROVE n \in uops'
      BY <2>2 DEF Benign
    <3>1. n \in UNode /\ n \in uops
      BY DEF InternShape, Deaths
    <3>2. Live(n)
      BY <3>1, NamedLives
    <3> QED BY <3>1, <3>2 DEF Benign
  <2> QED BY <2>1, <2>2
<1>10. Deaths'
  <2>1. \A u \in Builder : \A j \in DOMAIN frames'[u] : ~(strong'[frames'[u][j].node] > 0)
    BY <1>7
  <2> QED BY <1>5, <1>6, <1>8, <1>9, <2>1 DEF Deaths, Live
<1> QED BY <1>2, <1>3, <1>10

\* A step between two activations that ends no node's life.
LEMMA CalmStays ==
    ASSUME InternInv, NEW t \in Builder, Calm(t), frames' = frames, draining' = draining, deferred' = deferred,
           \A n \in UNode : Live(n) \/ structure'[n] # structure[n] \/ (n \in uops' /\ n \notin uops) => Live(n)'
    PROVE  QueuedOf(t)' /\ DeathsOf(t)
<1> USE DEF InternInv
<1>1. QueuedOf(t)'
  BY DEF Queued, QueuedOf
<1>2. frames'[t] = <<>>
  BY DEF Calm
<1>3. \A n, at : ~DyingBy(t, n, at)
  BY DEF DyingBy
<1> QED BY <1>1, <1>2, <1>3 DEF DeathsOf

\* A step between two activations that drops an Arc: the last one starts the
\* node's own.
LEMMA CalmRelease ==
    ASSUME InternInv, NEW t \in Builder, Calm(t), NEW m \in UNode, Live(m), Release(t, m),
           structure' = structure, uops' = uops, draining' = draining, deferred' = deferred
    PROVE  /\ QueuedOf(t)' /\ DeathsOf(t)
           /\ \A n \in UNode : ~Live(n) => ~Live(n)'
           /\ \A u \in Builder : u # t => frames'[u] = frames[u]
           /\ strong'[m] = strong[m] - 1 /\ \A n \in UNode : n # m => strong'[n] = strong[n]
           /\ strong[m] = 1 => DyingBy(t, m, {"retire"})'
<1> USE DEF InternInv
<1>1. /\ strong'[m] = strong[m] - 1 /\ \A n \in UNode : n # m => strong'[n] = strong[n]
      /\ \A u \in Builder : u # t => frames'[u] = frames[u]
      /\ strong[m] = 1 => frames'[t] = Append(frames[t], Started(m))
      /\ strong[m] # 1 => frames' = frames
  BY ReleaseFrames
<1>2. ~draining[t] /\ deferred[t] = <<>> /\ frames[t] = <<>> /\ \A n, at : ~DyingBy(t, n, at)
  BY DEF Queued, Calm, DyingBy
<1>3. QueuedOf(t)'
  BY <1>2 DEF QueuedOf
<1>4. strong[m] \in Nat \ {0}
  BY NamedLives DEF Live
<1>5. \A n \in UNode : ~Live(n) => ~Live(n)'
  BY <1>1, <1>4 DEF Live
<1>6. CASE strong[m] = 1
  <2>1. frames'[t] = <<Started(m)>>
    BY <1>1, <1>2, <1>6
  <2>2. Len(frames'[t]) = 1 /\ frames'[t][1] = Started(m) /\ DOMAIN frames'[t] = {1}
    BY <2>1
  <2>3. DyingBy(t, m, {"retire"})' /\ DyingBy(t, m, {"retire", "inspect"})'
    BY <2>1, <2>2 DEF DyingBy, Calm, Top, Last, Started
  <2>4. \A n \in UNode : Live(n) /\ ~Live(n)' => n = m
    BY <1>1 DEF Live
  <2>5. DeathsOf(t)
    <3>1. \A j \in DOMAIN frames'[t] : ~(strong'[frames'[t][j].node] > 0)
      BY <1>1, <1>6, <2>2 DEF Started
    <3> QED BY <1>2, <2>3, <2>4, <3>1 DEF DeathsOf
  <2> QED BY <1>1, <1>3, <1>5, <2>3, <2>5
<1>7. CASE strong[m] # 1
  <2>1. \A n \in UNode : Live(n) => Live(n)'
    BY <1>1, <1>4, <1>7 DEF Live
  <2>2. frames'[t] = <<>>
    BY <1>1, <1>2, <1>7
  <2>3. DeathsOf(t)
    BY <1>2, <2>1, <2>2 DEF DeathsOf
  <2> QED BY <1>1, <1>3, <1>5, <1>7, <2>3
<1> QED BY <1>6, <1>7

---------------------------------------------------------------------------------
(* Every step keeps the invariant                                              *)

\* UOp::new is called: the operation owns an Arc of each child.
LEMMA InvNew ==
    ASSUME InternInv, NEW t \in Builder, NEW g \in DOMAIN Arity,
           NEW kids \in [1..Arity[g] -> handles[t]], New(t, g, kids)
    PROVE  InternInv' /\ Benign(t)
<1> USE DEF InternInv
<1>1. InternShape' /\ Counted'
  BY CountNew
<1>2. /\ structure' = structure /\ uops' = uops /\ handles' = handles /\ frames' = frames
      /\ draining' = draining /\ deferred' = deferred /\ Calm(t) /\ making[t].at = "idle"
      /\ strong' = [n \in UNode |-> strong[n] + Occurrences(n, kids)]
      /\ making' = [making EXCEPT ![t] = [Idle EXCEPT !.at = "probe", !.op = Payload(g, kids)]]
  BY DEF New, MakingAt
<1>3. kids \in Seq(UNode) /\ \A i \in DOMAIN kids : kids[i] \in handles[t]
  <2>1. Arity[g] \in Nat /\ handles[t] \subseteq UNode
    BY InternAssumption DEF InternShape
  <2> QED BY <2>1
<1>4. \A n \in UNode : strong'[n] = strong[n] + Occurrences(n, kids) /\ Occurrences(n, kids) \in Nat /\ strong[n] \in Nat
  BY <1>2, <1>3, OccurrencesType, NamedLives
<1>5. ASSUME NEW n \in UNode, n \notin handles[t] PROVE strong'[n] = strong[n]
  <2>1. Occurrences(n, kids) = 0
    BY <1>3, <1>5, OccurrencesZero
  <2> QED BY <1>4, <2>1
<1>6. \A n \in UNode : Live(n) <=> Live(n)'
  <2> TAKE n \in UNode
  <2>1. n \in handles[t] => Live(n)
    BY NamedLives
  <2>2. n \notin handles[t] => strong'[n] = strong[n]
    BY <1>5
  <2>3. strong'[n] = strong[n] + Occurrences(n, kids) /\ Occurrences(n, kids) \in Nat /\ strong[n] \in Nat
    BY <1>4
  <2> HIDE DEF InternInv
  <2> QED BY <2>1, <2>2, <2>3 DEF Live
<1>7. \A u \in Builder : \A n \in making[u].node : n \in UNode /\ strong'[n] = strong[n] /\ n \notin uops
  <2> TAKE u \in Builder
  <2> TAKE n \in making[u].node
  <2>1. n \in UNode /\ n \notin uops
    BY DEF Staged, InternShape, Making
  <2>2. n \notin handles[t]
    BY <2>1 DEF Deaths
  <2> QED BY <1>5, <2>1, <2>2
<1>8. \A u \in Builder : u # t => making'[u] = making[u]
  BY <1>2 DEF InternShape
<1>9. Benign(t)
  BY <1>2, <1>6, <1>7, <1>8 DEF Benign
<1>10. making'[t].at = "probe" /\ making'[t].found = {} /\ making'[t].node = {}
  <2>1. making'[t] = [Idle EXCEPT !.at = "probe", !.op = Payload(g, kids)]
    BY <1>2 DEF InternShape
  <2> QED BY <2>1 DEF Idle
<1>11. StagedOf(t)'
  BY <1>10 DEF StagedOf, HasFound, HasNode
<1>12. QueuedOf(t)' /\ DeathsOf(t)
  BY <1>2, <1>6, CalmStays
<1>13. making[t].node = {}
  BY <1>2 DEF Staged, HasNode
<1>14. Own(t)
  BY <1>2, <1>6, <1>11, <1>12, <1>13 DEF Own, Deaths, Unused
<1> QED BY <1>1, <1>9, <1>14, InvStep

\* The fast path's lookup upgrades the entry it compares with.
LEMMA InvProbe ==
    ASSUME InternInv, NEW t \in Builder, Probe(t)
    PROVE  InternInv' /\ Benign(t)
<1> USE DEF InternInv
<1>1. InternShape' /\ Counted'
  BY CountProbe
<1>2. /\ structure' = structure /\ uops' = uops /\ handles' = handles /\ frames' = frames
      /\ draining' = draining /\ deferred' = deferred /\ Calm(t) /\ making[t].at = "probe"
  BY DEF Probe, MakingAt
<1>3. making[t] \in Making /\ making[t].node = {} /\ making[t].found = {}
  BY <1>2 DEF Staged, HasNode, HasFound, InternShape
<1>4. /\ \A n \in UNode : Live(n) <=> Live(n)'
      /\ \A u \in Builder : \A n \in making[u].node : strong'[n] = strong[n] /\ n \notin uops
      /\ StagedOf(t)' /\ making'[t].node = {}
      /\ \A u \in Builder : u # t => making'[u] = making[u]
  <2>1. ASSUME NEW e \in uops, Matches(e, making[t].op), strong' = [strong EXCEPT ![e] = @ + 1],
             making' = [making EXCEPT ![t].at = "probed", ![t].found = {e}]
        PROVE  /\ \A n \in UNode : Live(n) <=> Live(n)'
               /\ \A u \in Builder : \A n \in making[u].node : strong'[n] = strong[n] /\ n \notin uops
               /\ StagedOf(t)' /\ making'[t].node = {}
               /\ \A u \in Builder : u # t => making'[u] = making[u]
    <3>1. e \in UNode /\ Live(e) /\ structure[e] = making[t].op
      BY <2>1 DEF InternShape, Matches
    <3>2. strong[e] \in Nat /\ strong'[e] = strong[e] + 1 /\ \A n \in UNode : n # e => strong'[n] = strong[n]
      BY <2>1, <3>1, NamedLives DEF InternShape
    <3>3. \A n \in UNode : Live(n) <=> Live(n)'
      BY <3>1, <3>2 DEF Live
    <3>4. \A u \in Builder : \A n \in making[u].node : strong'[n] = strong[n] /\ n \notin uops
      BY <3>2 DEF Staged, InternShape, Making
    <3>5. /\ making'[t].at = "probed" /\ making'[t].found = {e} /\ making'[t].node = {} /\ making'[t].op = making[t].op
          /\ \A u \in Builder : u # t => making'[u] = making[u]
      BY <1>3, <2>1 DEF InternShape, Making
    <3>6. StagedOf(t)'
      BY <1>2, <3>1, <3>5 DEF StagedOf, HasFound, HasNode
    <3> QED BY <3>3, <3>4, <3>5, <3>6
  <2>2. CASE MakingTo(t, "alloc") /\ strong' = strong
    <3>1. /\ making'[t].at = "alloc" /\ making'[t].found = {} /\ making'[t].node = {}
          /\ \A u \in Builder : u # t => making'[u] = making[u]
      BY <1>3, <2>2 DEF InternShape, Making, MakingTo
    <3>2. StagedOf(t)'
      BY <3>1 DEF StagedOf, HasFound, HasNode
    <3> QED BY <2>2, <3>1, <3>2 DEF Live, Staged
  <2> QED BY <2>1, <2>2 DEF Probe
<1>5. Benign(t)
  BY <1>2, <1>4 DEF Benign
<1>6. QueuedOf(t)' /\ DeathsOf(t)
  BY <1>2, <1>4, CalmStays
<1>7. Own(t)
  BY <1>2, <1>3, <1>4, <1>6 DEF Own, Deaths, Unused
<1> QED BY <1>1, <1>5, <1>7, InvStep

\* The reader's Arc is dropped.
LEMMA InvProbed ==
    ASSUME InternInv, NEW t \in Builder, NEW from, NEW to,
           <<from, to>> \in {<<"probed", "upgrade">>, <<"compared", "decide">>},
           MakingAt(t, from), \E e \in making[t].found : Release(t, e), MakingTo(t, to),
           UNCHANGED <<structure, uops, handles, draining, deferred, asked>>
    PROVE  InternInv' /\ Benign(t)
<1> USE DEF InternInv
<1>1. InternShape' /\ Counted'
  BY CountProbed
<1>2. /\ structure' = structure /\ uops' = uops /\ handles' = handles
      /\ draining' = draining /\ deferred' = deferred /\ Calm(t) /\ making[t].at = from
  BY DEF MakingAt
<1>3. (from = "probed" /\ to = "upgrade") \/ (from = "compared" /\ to = "decide")
  OBVIOUS
<1>4. PICK e \in UNode : making[t].found = {e} /\ Release(t, e)
  <2>1. PICK d \in UNode : making[t].found = {d}
    BY <1>2, <1>3 DEF Staged, HasFound
  <2> QED BY <2>1
<1>5. Live(e)
  <2>1. Reads(t, e)
    BY <1>2, <1>3, <1>4 DEF Reads
  <2> QED BY <2>1, NamedLives
<1>6. e \in uops /\ structure[e] = making[t].op
  BY <1>4, <1>5 DEF Staged
<1>7. /\ QueuedOf(t)' /\ DeathsOf(t) /\ \A n \in UNode : ~Live(n) => ~Live(n)'
      /\ \A u \in Builder : u # t => frames'[u] = frames[u]
      /\ strong'[e] = strong[e] - 1 /\ \A n \in UNode : n # e => strong'[n] = strong[n]
  BY <1>2, <1>4, <1>5, CalmRelease
<1>8. \A u \in Builder : \A n \in making[u].node : strong'[n] = strong[n] /\ n \notin uops'
  BY <1>2, <1>6, <1>7 DEF Staged, InternShape, Making
<1>9. /\ making'[t].at = to /\ making'[t].found = {e} /\ making'[t].node = making[t].node /\ making'[t].op = making[t].op
      /\ \A u \in Builder : u # t => making'[u] = making[u]
  BY <1>4 DEF InternShape, Making, MakingTo
<1>10. Benign(t)
  BY <1>2, <1>7, <1>8, <1>9 DEF Benign
<1>11. StagedOf(t)'
  <2>1. /\ making[t].at \in HasNode => \E n \in UNode : making[t].node = {n}
        /\ making[t].at \notin HasNode => making[t].node = {}
        /\ \A n \in making[t].node : structure[n] = making[t].op /\ strong[n] = 1 /\ n \notin uops
    BY DEF Staged
  <2>2. making[t].at \in HasNode <=> making'[t].at \in HasNode
    BY <1>2, <1>3, <1>9 DEF HasNode
  <2>3. making'[t].at \in HasFound
    BY <1>3, <1>9 DEF HasFound
  <2> QED BY <1>2, <1>6, <1>8, <1>9, <2>1, <2>2, <2>3 DEF StagedOf
<1>12. Own(t)
  BY <1>2, <1>7, <1>9, <1>11 DEF Own, Deaths, Unused
<1> QED BY <1>1, <1>10, <1>12, InvStep

\* The fast path returns the node found or goes on to allocate.
LEMMA InvUpgrade ==
    ASSUME InternInv, NEW t \in Builder, Upgrade(t)
    PROVE  InternInv' /\ Benign(t)
<1> USE DEF InternInv
<1>1. InternShape' /\ Counted'
  BY CountUpgrade
<1>2. /\ structure' = structure /\ uops' = uops /\ frames' = frames
      /\ draining' = draining /\ deferred' = deferred /\ Calm(t) /\ making[t].at = "upgrade"
  BY DEF Upgrade, MakingAt
<1>3. making[t] \in Making /\ making[t].node = {} /\ making[t].op \in Content
  BY <1>2 DEF Staged, HasNode, InternShape, Making
<1>4. /\ \A n \in UNode : Live(n) <=> Live(n)'
      /\ \A u \in Builder : \A n \in making[u].node : strong'[n] = strong[n] /\ n \notin uops
      /\ StagedOf(t)' /\ making'[t].node = {} /\ handles'[t] \subseteq uops
      /\ \A u \in Builder : u # t => making'[u] = making[u] /\ handles'[u] = handles[u]
  <2>1. ASSUME NEW e \in making[t].found, Live(e),
               Returns(t, e, [n \in UNode |->
                  strong[n] + (IF n = e THEN 1 ELSE 0) - Occurrences(n, making[t].op.kids)]),
               making' = [making EXCEPT ![t] = Idle]
        PROVE  /\ \A n \in UNode : Live(n) <=> Live(n)'
               /\ \A u \in Builder : \A n \in making[u].node : strong'[n] = strong[n] /\ n \notin uops
               /\ StagedOf(t)' /\ making'[t].node = {} /\ handles'[t] \subseteq uops
               /\ \A u \in Builder : u # t => making'[u] = making[u] /\ handles'[u] = handles[u]
    <3> DEFINE arcs == [n \in UNode |-> strong[n] + (IF n = e THEN 1 ELSE 0) - Occurrences(n, making[t].op.kids)]
    <3>1. e \in UNode /\ e \in uops /\ structure[e] = making[t].op
      BY <1>3, <2>1 DEF Staged, Making
    <3>2. \A n \in UNode : Occurrences(n, making[t].op.kids) \in Nat /\ strong[n] \in Nat
      BY MineIs, NamedLives
    <3>3. arcs \in [UNode -> Int]
      BY <3>2
    <3>4. Returns(t, e, arcs)
      BY <2>1
    <3>5. \A n \in UNode : arcs[n] = strong[n] + Bit(n \in {e}) - Occurrences(n, making[t].op.kids)
      BY <3>2 DEF Bit
    <3> HIDE DEF arcs
    <3>6. /\ \A u \in Builder : u # t => handles'[u] = handles[u] /\ strong' \in [UNode -> Int]
          /\ handles'[t] = handles[t] \cup {e} /\ strong' \in [UNode -> Int]
          /\ \A n \in UNode : strong'[n] + Bit(n \in {e}) + Bit(n \in handles[t]) = arcs[n] + Bit(n \in handles'[t])
      BY <3>1, <3>3, <3>4, CountReturns
    <3>7. ASSUME NEW n \in UNode
          PROVE  Bit(n \in handles[t]) + Occurrences(n, making[t].op.kids) + Occurrences(n, making[t].op.kids) <= strong[n]
      <4>1. <<t, 0>> \in Builder \X Nat
        OBVIOUS
      <4> DEFINE o == Occurrences(n, RestOf(frames[t], 0)) + Occurrences(n, PartOf(deferred[t], 0))
      <4>2. Share(t, e, <<t, 0>>, <<t, 0>>, n) <= strong[n]
        BY <3>1, <4>1, ShareBound
      <4>3. Share(t, e, <<t, 0>>, <<t, 0>>, n) = Mine(t, n) + Occurrences(n, making[t].op.kids) + o /\ o \in Nat
        BY <3>1, <4>1, ShareIs DEF Parts
      <4>4. Mine(t, n) = Having(n, "upgrade", making[t].op, making[t].found, {}, Bit(n \in handles[t]))
        BY <1>2, <1>3, MineHad
      <4>5. Mine(t, n) = Bit(n \in handles[t]) + Occurrences(n, making[t].op.kids)
        BY <3>2, <4>4 DEF Having, Bit, Owning
      <4>6. Bit(n \in handles[t]) \in Nat
        BY DEF Bit
      <4> HIDE DEF o
      <4> QED BY <3>2, <4>2, <4>3, <4>5, <4>6
    <3>8. ASSUME NEW n \in UNode
          PROVE  /\ Live(n) <=> Live(n)'
                 /\ strong[n] = 1 /\ n # e => strong'[n] = strong[n]
      <4>1. /\ Bit(n \in handles[t]) + Occurrences(n, making[t].op.kids) + Occurrences(n, making[t].op.kids) <= strong[n]
            /\ strong'[n] + Bit(n \in {e}) + Bit(n \in handles[t])
                = strong[n] + Bit(n \in {e}) - Occurrences(n, making[t].op.kids) + Bit(n \in handles'[t])
            /\ Occurrences(n, making[t].op.kids) \in Nat /\ strong[n] \in Nat /\ strong'[n] \in Int
        BY <3>2, <3>5, <3>6, <3>7
      <4>2. n \in handles'[t] <=> n \in handles[t] \/ n = e
        BY <3>6
      <4>3. n = e => strong[n] > 0
        BY <2>1 DEF Live
      <4> QED BY <4>1, <4>2, <4>3 DEF Live, Bit
    <3>9. \A u \in Builder : \A n \in making[u].node : strong'[n] = strong[n] /\ n \notin uops
      <4> TAKE u \in Builder
      <4> TAKE n \in making[u].node
      <4>1. n \in UNode /\ n \notin uops /\ strong[n] = 1
        BY DEF Staged, InternShape, Making
      <4> QED BY <3>1, <3>8, <4>1
    <3>10. making'[t] = Idle /\ \A u \in Builder : u # t => making'[u] = making[u]
      BY <2>1 DEF InternShape
    <3>11. StagedOf(t)' /\ making'[t].node = {}
      BY <3>10 DEF StagedOf, HasFound, HasNode, Idle
    <3> QED BY <3>1, <3>6, <3>8, <3>9, <3>10, <3>11 DEF Deaths
  <2>2. CASE making' = [making EXCEPT ![t].at = "alloc", ![t].found = {}] /\ handles' = handles /\ strong' = strong
    <3>1. /\ making'[t].at = "alloc" /\ making'[t].found = {} /\ making'[t].node = {}
          /\ \A u \in Builder : u # t => making'[u] = making[u]
      BY <1>3, <2>2 DEF InternShape, Making
    <3>2. StagedOf(t)'
      BY <3>1 DEF StagedOf, HasFound, HasNode
    <3> QED BY <2>2, <3>1, <3>2 DEF Live, Staged, Deaths
  <2> QED BY <2>1, <2>2 DEF Upgrade
<1>5. Benign(t)
  BY <1>2, <1>4 DEF Benign
<1>6. QueuedOf(t)' /\ DeathsOf(t)
  BY <1>2, <1>4, CalmStays
<1>7. Own(t)
  BY <1>2, <1>3, <1>4, <1>6 DEF Own, Unused
<1> QED BY <1>1, <1>5, <1>7, InvStep

\* A new node takes the operation over.
LEMMA InvAlloc ==
    ASSUME InternInv, NEW t \in Builder, AllocNode(t)
    PROVE  InternInv' /\ Benign(t)
<1> USE DEF InternInv
<1>1. InternShape' /\ Counted'
  BY CountAlloc
<1>2. PICK p \in UNode :
        /\ Unused(p) /\ structure' = [structure EXCEPT ![p] = making[t].op]
        /\ strong' = [strong EXCEPT ![p] = 1]
        /\ making' = [making EXCEPT ![t].at = "compute", ![t].node = {p}]
  BY DEF AllocNode
<1>3. /\ uops' = uops /\ handles' = handles /\ frames' = frames
      /\ draining' = draining /\ deferred' = deferred /\ Calm(t) /\ making[t].at = "alloc"
  BY DEF AllocNode, MakingAt
<1>4. making[t] \in Making /\ making[t].node = {} /\ making[t].found = {}
  BY <1>3 DEF InternShape, Staged, HasNode, HasFound
<1>5. /\ making'[t].at = "compute" /\ making'[t].found = {} /\ making'[t].node = {p} /\ making'[t].op = making[t].op
      /\ \A u \in Builder : u # t => making'[u] = making[u]
  BY <1>2, <1>4 DEF InternShape, Making
<1>6. /\ strong'[p] = 1 /\ structure'[p] = making[t].op
      /\ \A n \in UNode : n # p => strong'[n] = strong[n] /\ structure'[n] = structure[n]
  BY <1>2 DEF InternShape
<1>7. ~Live(p) /\ p \notin uops /\ \A u \in Builder : p \notin making[u].node
  BY <1>2 DEF Unused
<1>8. Benign(t)
  <2>1. \A u \in Builder : \A n \in making[u].node : strong'[n] = strong[n] /\ n \notin uops'
    BY <1>3, <1>6, <1>7 DEF Staged, InternShape, Making
  <2>2. \A n \in UNode : ~Live(n) => ~Live(n)' \/ Unused(n)
    BY <1>2, <1>6 DEF Live
  <2>3. \A n \in UNode : Live(n) => structure'[n] = structure[n]
    BY <1>6, <1>7
  <2> QED BY <1>3, <1>5, <2>1, <2>2, <2>3 DEF Benign
<1>9. StagedOf(t)'
  BY <1>3, <1>5, <1>6, <1>7 DEF StagedOf, HasFound, HasNode
<1>10. QueuedOf(t)' /\ DeathsOf(t)
  <2>1. \A n \in UNode : Live(n) \/ structure'[n] # structure[n] => Live(n)'
    BY <1>6 DEF Live
  <2> QED BY <1>3, <2>1, CalmStays
<1>11. Own(t)
  <2>1. \A n \in UNode : Unused(n) /\ Live(n)' => n \in making'[t].node
    BY <1>5, <1>6 DEF Live, Unused
  <2> QED BY <1>3, <1>4, <1>9, <1>10, <2>1 DEF Own, Deaths
<1> QED BY <1>1, <1>8, <1>11, InvStep

\* The node a thread made goes into the table, at most in the place of a dead one.
LEMMA InvInsert ==
    ASSUME InternInv, NEW t \in Builder, NEW m \in UNode, making[t].node = {m}, Calm(t),
           making[t].at \in {"compute", "decide"}, Returns(t, m, strong),
           making' = [making EXCEPT ![t] = Idle],
           NEW gone \in SUBSET uops, \A e \in gone : ~Live(e), uops' = (uops \ gone) \cup {m},
           UNCHANGED <<structure, frames, draining, deferred, asked>>
    PROVE  InternInv' /\ Benign(t)
<1> USE DEF InternInv
<1>1. structure' = structure /\ frames' = frames /\ draining' = draining /\ deferred' = deferred
  OBVIOUS
<1>2. strong[m] = 1 /\ m \notin uops
  BY DEF Staged
<1>3. m \notin handles[t]
  BY <1>2 DEF Deaths
<1>4. strong' = strong /\ handles'[t] = handles[t] \cup {m} /\ \A u \in Builder : u # t => handles'[u] = handles[u]
  <2>1. strong' = [strong EXCEPT ![m] = @]
    BY <1>3 DEF Returns
  <2> QED BY <2>1 DEF Returns, InternShape
<1>5. making'[t] = Idle /\ \A u \in Builder : u # t => making'[u] = making[u]
  BY DEF InternShape
<1>6. InternShape' /\ Counted'
  <2>1. uops' \in SUBSET UNode
    BY DEF InternShape
  <2> QED BY <2>1, CountInsert
<1>7. \A u \in Builder : u # t => \A n \in making[u].node : n \notin uops'
  <2> SUFFICES ASSUME NEW u \in Builder, u # t, NEW n \in making[u].node, n \in uops' PROVE FALSE
    OBVIOUS
  <2>1. n = m
    BY DEF Staged
  <2> QED BY <1>2, <2>1, OneMaker
<1>8. Benign(t)
  BY <1>1, <1>4, <1>5, <1>7 DEF Benign, Live
<1>9. StagedOf(t)' /\ making'[t].node = {}
  BY <1>5 DEF StagedOf, HasFound, HasNode, Idle
<1>10. QueuedOf(t)' /\ DeathsOf(t)
  BY <1>1, <1>2, <1>4, CalmStays DEF Live
<1>11. handles'[t] \subseteq uops'
  <2> SUFFICES ASSUME NEW n \in handles[t] PROVE n \in uops'
    BY <1>4
  <2>1. n \in UNode /\ n \in uops
    BY DEF InternShape, Deaths
  <2>2. Live(n)
    BY <2>1, NamedLives
  <2> QED BY <2>1, <2>2
<1>12. Own(t)
  BY <1>1, <1>4, <1>9, <1>10, <1>11 DEF Own, Unused, Live
<1> QED BY <1>6, <1>8, <1>12, InvStep

\* compute finds an equal live entry or inserts the new one.
LEMMA InvCompute ==
    ASSUME InternInv, NEW t \in Builder, Compute(t)
    PROVE  InternInv' /\ Benign(t)
<1> USE DEF InternInv
<1>1. InternShape' /\ Counted'
  BY CountCompute
<1>2. /\ structure' = structure /\ frames' = frames
      /\ draining' = draining /\ deferred' = deferred /\ Calm(t) /\ making[t].at = "compute"
  BY DEF Compute, MakingAt
<1>3. PICK m \in UNode : making[t].node = {m} /\ structure[m] = making[t].op
  BY <1>2 DEF Staged, HasNode
<1>4. making[t] \in Making
  BY DEF InternShape
<1>5. ASSUME NEW e \in uops, Matches(e, structure[m]), strong' = [strong EXCEPT ![e] = @ + 1], uops' = uops, handles' = handles,
             making' = [making EXCEPT ![t].at = "compared", ![t].found = {e}]
      PROVE  InternInv' /\ Benign(t)
  <2>1. e \in UNode /\ Live(e) /\ structure[e] = making[t].op
    BY <1>3, <1>5 DEF InternShape, Matches
  <2>2. strong[e] \in Nat /\ strong'[e] = strong[e] + 1 /\ \A n \in UNode : n # e => strong'[n] = strong[n]
    BY <1>5, <2>1, NamedLives DEF InternShape
  <2>3. \A n \in UNode : Live(n) <=> Live(n)'
    BY <2>1, <2>2 DEF Live
  <2>4. \A u \in Builder : \A n \in making[u].node : strong'[n] = strong[n] /\ n \notin uops
    BY <2>2 DEF Staged, InternShape, Making
  <2>5. /\ making'[t].at = "compared" /\ making'[t].found = {e} /\ making'[t].node = {m} /\ making'[t].op = making[t].op
        /\ \A u \in Builder : u # t => making'[u] = making[u]
    BY <1>3, <1>4, <1>5 DEF InternShape, Making
  <2>6. StagedOf(t)'
    <3>1. strong'[m] = 1 /\ m \notin uops
      BY <1>3, <2>4 DEF Staged
    <3> QED BY <1>2, <1>3, <1>5, <2>1, <2>5, <3>1 DEF StagedOf, HasFound, HasNode
  <2>7. Benign(t)
    BY <1>2, <1>5, <2>3, <2>4, <2>5 DEF Benign
  <2>8. QueuedOf(t)' /\ DeathsOf(t)
    BY <1>2, <1>5, <2>3, CalmStays
  <2>9. Own(t)
    BY <1>3, <1>5, <2>3, <2>5, <2>6, <2>8 DEF Own, Deaths, Unused
  <2> QED BY <1>1, <2>7, <2>9, InvStep
<1>6. CASE uops' = uops \cup {m} /\ Returns(t, m, strong) /\ making' = [making EXCEPT ![t] = Idle]
  <2>1. uops' = (uops \ {}) \cup {m} /\ {} \in SUBSET uops /\ \A e \in {} : ~Live(e)
    BY <1>6
  <2>2. UNCHANGED <<structure, frames, draining, deferred, asked>>
    BY DEF Compute
  <2> HIDE DEF InternInv
  <2> QED BY <1>2, <1>3, <1>6, <2>1, <2>2, InvInsert
<1> QED BY <1>3, <1>5, <1>6 DEF Compute

\* The closure of compute aborts, replaces a dead entry or starts over.
LEMMA InvDecide ==
    ASSUME InternInv, NEW t \in Builder, Decide(t)
    PROVE  InternInv' /\ Benign(t)
<1> USE DEF InternInv
<1>1. InternShape' /\ Counted'
  BY CountDecide
<1>2. /\ structure' = structure /\ frames' = frames
      /\ draining' = draining /\ deferred' = deferred /\ Calm(t) /\ making[t].at = "decide"
  BY DEF Decide, MakingAt
<1>3. PICK m \in UNode : making[t].node = {m}
  BY <1>2 DEF Staged, HasNode
<1>4. PICK e \in UNode : making[t].found = {e}
  BY <1>2 DEF Staged, HasFound
<1>5. making[t] \in Making /\ structure[m] = making[t].op /\ strong[m] = 1 /\ m \notin uops
  BY <1>3 DEF InternShape, Staged
<1>6. CASE /\ Live(e) /\ Returns(t, e, [strong EXCEPT ![e] = @ + 1]) /\ uops' = uops
           /\ making' = [making EXCEPT ![t].at = "lost", ![t].found = {}]
  <2> DEFINE arcs == [strong EXCEPT ![e] = @ + 1]
  <2>1. arcs \in [UNode -> Int] /\ \A n \in UNode : arcs[n] = strong[n] + Bit(n \in {e})
    BY DEF InternShape, Bit
  <2>2. Returns(t, e, arcs)
    BY <1>6
  <2> HIDE DEF arcs
  <2>3. /\ \A u \in Builder : u # t => handles'[u] = handles[u] /\ strong' \in [UNode -> Int]
        /\ handles'[t] = handles[t] \cup {e} /\ strong' \in [UNode -> Int]
        /\ \A n \in UNode : strong'[n] + Bit(n \in {e}) + Bit(n \in handles[t]) = arcs[n] + Bit(n \in handles'[t])
    BY <2>1, <2>2, CountReturns
  <2>4. ASSUME NEW n \in UNode
        PROVE  (Live(n) <=> Live(n)') /\ (n # e => strong'[n] = strong[n])
    <3>1. /\ strong'[n] + Bit(n \in {e}) + Bit(n \in handles[t]) = strong[n] + Bit(n \in {e}) + Bit(n \in handles'[t])
          /\ strong[n] \in Nat /\ strong'[n] \in Int
      BY <2>1, <2>3, NamedLives
    <3>2. n \in handles'[t] <=> n \in handles[t] \/ n = e
      BY <2>3
    <3>3. n = e => strong[n] > 0
      BY <1>6 DEF Live
    <3> QED BY <3>1, <3>2, <3>3 DEF Live, Bit
  <2>5. e \in uops /\ e # m
    BY <1>4, <1>5, <1>6 DEF Staged
  <2>6. \A u \in Builder : \A n \in making[u].node : strong'[n] = strong[n] /\ n \notin uops
    <3> TAKE u \in Builder
    <3> TAKE n \in making[u].node
    <3>1. n \in UNode /\ n \notin uops
      BY DEF Staged, InternShape, Making
    <3> QED BY <2>4, <2>5, <3>1
  <2>7. /\ making'[t].at = "lost" /\ making'[t].found = {} /\ making'[t].node = {m} /\ making'[t].op = making[t].op
        /\ \A u \in Builder : u # t => making'[u] = making[u]
    BY <1>3, <1>5, <1>6 DEF InternShape, Making
  <2>8. StagedOf(t)'
    <3>1. strong'[m] = 1
      BY <1>5, <2>4, <2>5
    <3> QED BY <1>2, <1>5, <1>6, <2>7, <3>1 DEF StagedOf, HasFound, HasNode
  <2>9. \A n \in UNode : Live(n) <=> Live(n)'
    BY <2>4
  <2>10. Benign(t)
    BY <1>2, <1>6, <2>3, <2>6, <2>7, <2>9 DEF Benign
  <2>11. QueuedOf(t)' /\ DeathsOf(t)
    BY <1>2, <1>6, <2>9, CalmStays
  <2>12. Own(t)
    BY <1>3, <1>6, <2>3, <2>5, <2>7, <2>8, <2>9, <2>11 DEF Own, Deaths, Unused
  <2> QED BY <1>1, <2>10, <2>12, InvStep
<1>7. CASE ~Live(e) /\ e \in uops /\ uops' = (uops \ {e}) \cup {m} /\ Returns(t, m, strong) /\ making' = [making EXCEPT ![t] = Idle]
  <2>1. {e} \in SUBSET uops /\ \A x \in {e} : ~Live(x)
    BY <1>7
  <2>2. UNCHANGED <<structure, frames, draining, deferred, asked>>
    BY DEF Decide
  <2> HIDE DEF InternInv
  <2> QED BY <1>2, <1>3, <1>7, <2>1, <2>2, InvInsert
<1>8. CASE making' = [making EXCEPT ![t].at = "compute", ![t].found = {}] /\ uops' = uops /\ handles' = handles /\ strong' = strong
  <2>1. /\ making'[t].at = "compute" /\ making'[t].found = {} /\ making'[t].node = {m} /\ making'[t].op = making[t].op
        /\ \A u \in Builder : u # t => making'[u] = making[u]
    BY <1>3, <1>5, <1>8 DEF InternShape, Making
  <2>2. StagedOf(t)'
    BY <1>2, <1>5, <1>8, <2>1 DEF StagedOf, HasFound, HasNode
  <2>3. Benign(t)
    BY <1>2, <1>8, <2>1 DEF Benign, Live, Staged
  <2>4. QueuedOf(t)' /\ DeathsOf(t)
    BY <1>2, <1>8, CalmStays DEF Live
  <2>5. Own(t)
    BY <1>3, <1>8, <2>1, <2>2, <2>4 DEF Own, Deaths, Unused, Live
  <2> QED BY <1>1, <2>3, <2>5, InvStep
<1> QED BY <1>3, <1>4, <1>6, <1>7, <1>8 DEF Decide

\* The loser of an insertion race drops its node.
LEMMA InvLost ==
    ASSUME InternInv, NEW t \in Builder, Lost(t)
    PROVE  InternInv' /\ Benign(t)
<1> USE DEF InternInv
<1>1. InternShape' /\ Counted'
  BY CountLost
<1>2. /\ structure' = structure /\ uops' = uops /\ handles' = handles
      /\ draining' = draining /\ deferred' = deferred /\ Calm(t) /\ making[t].at = "lost"
      /\ making' = [making EXCEPT ![t] = Idle]
  BY DEF Lost, MakingAt
<1>3. PICK m \in UNode : making[t].node = {m} /\ Release(t, m)
  <2>1. PICK d \in UNode : making[t].node = {d}
    BY <1>2 DEF Staged, HasNode
  <2> QED BY <2>1 DEF Lost
<1>4. strong[m] = 1 /\ m \notin uops /\ Live(m)
  BY <1>3 DEF Staged, Live
<1>5. /\ QueuedOf(t)' /\ DeathsOf(t) /\ \A n \in UNode : ~Live(n) => ~Live(n)'
      /\ \A u \in Builder : u # t => frames'[u] = frames[u]
      /\ strong'[m] = strong[m] - 1 /\ \A n \in UNode : n # m => strong'[n] = strong[n]
  BY <1>2, <1>3, <1>4, CalmRelease
<1>6. making'[t] = Idle /\ \A u \in Builder : u # t => making'[u] = making[u]
  BY <1>2 DEF InternShape
<1>7. \A u \in Builder : u # t => \A n \in making[u].node : strong'[n] = strong[n] /\ n \notin uops'
  <2> SUFFICES ASSUME NEW u \in Builder, u # t, NEW n \in making[u].node PROVE strong'[n] = strong[n] /\ n \notin uops'
    OBVIOUS
  <2>1. n \in UNode /\ n \notin uops
    BY DEF Staged, InternShape, Making
  <2>2. n # m
    BY <1>3, <1>4, OneMaker
  <2> QED BY <1>2, <1>5, <2>1, <2>2
<1>8. Benign(t)
  BY <1>2, <1>5, <1>6, <1>7 DEF Benign
<1>9. StagedOf(t)' /\ making'[t].node = {}
  BY <1>6 DEF StagedOf, HasFound, HasNode, Idle
<1>10. Own(t)
  BY <1>2, <1>3, <1>4, <1>5, <1>9 DEF Own, Deaths, Unused, Live
<1> QED BY <1>1, <1>8, <1>10, InvStep

\* What a thread found and made stays as it was.
LEMMA KeepsStaged ==
    ASSUME InternInv, NEW u \in Builder, making'[u] = making[u],
           \A n \in UNode : Live(n) => structure'[n] = structure[n] /\ (n \in uops => n \in uops'),
           \A n \in UNode : ~Live(n) => ~Live(n)',
           \A n \in making[u].node : strong'[n] = strong[n] /\ n \notin uops'
    PROVE  StagedOf(u)'
<1> USE DEF InternInv
<1>1. ASSUME NEW e \in making[u].found, Live(e)' PROVE e \in uops' /\ structure'[e] = making[u].op
  <2>1. e \in UNode
    BY DEF InternShape, Making
  <2>2. Live(e)
    BY <1>1, <2>1
  <2>3. e \in uops /\ structure[e] = making[u].op
    BY <2>2 DEF Staged
  <2> QED BY <2>1, <2>2, <2>3
<1>2. ASSUME NEW n \in making[u].node PROVE structure'[n] = making[u].op /\ strong'[n] = 1 /\ n \notin uops'
  <2>1. n \in UNode /\ strong[n] = 1 /\ structure[n] = making[u].op
    BY DEF InternShape, Making, Staged
  <2> QED BY <2>1 DEF Live
<1> QED BY <1>1, <1>2 DEF StagedOf, Staged

\* A handle goes out of scope.
LEMMA InvDrop ==
    ASSUME InternInv, NEW t \in Builder, NEW m \in handles[t], DropHandle(t, m)
    PROVE  InternInv' /\ Benign(t)
<1> USE DEF InternInv
<1>1. InternShape' /\ Counted'
  BY CountDrop
<1>2. /\ structure' = structure /\ uops' = uops /\ making' = making
      /\ draining' = draining /\ deferred' = deferred /\ Calm(t)
      /\ handles' = [handles EXCEPT ![t] = @ \ {m}] /\ Release(t, m)
  BY DEF DropHandle, MakingAt
<1>3. m \in UNode /\ m \in uops
  BY DEF InternShape, Deaths
<1>4. Live(m)
  BY <1>3, NamedLives
<1>5. /\ QueuedOf(t)' /\ DeathsOf(t) /\ \A n \in UNode : ~Live(n) => ~Live(n)'
      /\ \A u \in Builder : u # t => frames'[u] = frames[u]
      /\ strong'[m] = strong[m] - 1 /\ \A n \in UNode : n # m => strong'[n] = strong[n]
  BY <1>2, <1>3, <1>4, CalmRelease
<1>6. \A u \in Builder : \A n \in making[u].node : strong'[n] = strong[n] /\ n \notin uops'
  BY <1>2, <1>3, <1>5 DEF Staged, InternShape, Making
<1>7. handles'[t] = handles[t] \ {m} /\ \A u \in Builder : u # t => handles'[u] = handles[u]
  BY <1>2 DEF InternShape
<1>8. Benign(t)
  BY <1>2, <1>5, <1>6, <1>7 DEF Benign
<1>9. StagedOf(t)'
  BY <1>2, <1>5, <1>6, KeepsStaged
<1>10. Own(t)
  BY <1>2, <1>5, <1>7, <1>9 DEF Own, Deaths, Unused
<1> QED BY <1>1, <1>8, <1>10, InvStep

\* The activations after the innermost one went on ...
LEMMA GoesOn ==
    ASSUME InternShape, NEW t \in Builder, ~Calm(t), NEW fr \in Frame, fr.node = Top(t).node, NEW g, g = SetTop(t, fr)
    PROVE  /\ g[t] \in Seq(Frame) /\ \A u \in Builder : u # t => g[u] = frames[u]
           /\ g[t] # <<>> /\ Last(g[t]) = fr /\ DOMAIN g[t] = DOMAIN frames[t]
           /\ \A j \in DOMAIN g[t] : g[t][j].node = frames[t][j].node
           /\ fr.at = "drain" => \E j \in DOMAIN g[t] : g[t][j].at = "drain"
           /\ Top(t).at # "drain" /\ (\E j \in DOMAIN frames[t] : frames[t][j].at = "drain")
                => \E j \in DOMAIN g[t] : g[t][j].at = "drain"
<1> DEFINE k == Len(frames[t])
<1>1. /\ g \in [Builder -> Seq(Frame)] /\ \A u \in Builder : u # t => g[u] = frames[u]
      /\ Len(g[t]) = k /\ g[t][k] = fr
      /\ \A i \in 1..(k - 1) : g[t][i] = frames[t][i]
  BY SetTopFrames
<1>2. k \in Nat \ {0} /\ Top(t) = frames[t][k] /\ frames[t] \in Seq(Frame)
  BY TopType
<1>3. DOMAIN frames[t] = 1..k /\ DOMAIN g[t] = 1..k
  BY <1>1, <1>2, LenProperties
<1>4. Last(g[t]) = fr /\ g[t] # <<>>
  BY <1>1, <1>2, <1>3, EmptySeq DEF Last
<1>5. k \in DOMAIN g[t]
  BY <1>2, <1>3
<1> HIDE DEF k
<1>6. \A j \in DOMAIN g[t] : g[t][j].node = frames[t][j].node
  BY <1>1, <1>2, <1>3
<1>7. Top(t).at # "drain" /\ (\E j \in DOMAIN frames[t] : frames[t][j].at = "drain")
                => \E j \in DOMAIN g[t] : g[t][j].at = "drain"
  BY <1>1, <1>2, <1>3
<1> QED BY <1>1, <1>3, <1>4, <1>5, <1>6, <1>7

\* ... or returned.
LEMMA Returned ==
    ASSUME InternShape, NEW t \in Builder, ~Calm(t), frames' = [frames EXCEPT ![t] = Front(@)]
    PROVE  /\ \A u \in Builder : u # t => frames'[u] = frames[u]
           /\ \A j \in DOMAIN frames'[t] : j \in DOMAIN frames[t] /\ frames'[t][j] = frames[t][j]
           /\ Top(t).at # "drain" /\ (\E j \in DOMAIN frames[t] : frames[t][j].at = "drain")
                => \E j \in DOMAIN frames'[t] : frames'[t][j].at = "drain"
<1> DEFINE k == Len(frames[t])
<1>1. /\ frames' \in [Builder -> Seq(Frame)] /\ \A u \in Builder : u # t => frames'[u] = frames[u]
      /\ Len(frames'[t]) = k - 1 /\ \A i \in 1..(k - 1) : frames'[t][i] = frames[t][i]
  BY PopFrames
<1>2. k \in Nat \ {0} /\ Top(t) = frames[t][k] /\ frames[t] \in Seq(Frame)
  BY TopType
<1>3. DOMAIN frames[t] = 1..k /\ DOMAIN frames'[t] = 1..(k - 1)
  BY <1>1, <1>2, LenProperties
<1> HIDE DEF k
<1>4. \A j \in DOMAIN frames'[t] : j \in DOMAIN frames[t] /\ frames'[t][j] = frames[t][j]
  BY <1>1, <1>2, <1>3
<1>5. Top(t).at # "drain" /\ (\E j \in DOMAIN frames[t] : frames[t][j].at = "drain")
                => \E j \in DOMAIN frames'[t] : frames'[t][j].at = "drain"
  BY <1>1, <1>2, <1>3
<1> QED BY <1>1, <1>4, <1>5

\* A dying node takes its own entry out of the table.
LEMMA InvRetire ==
    ASSUME InternInv, NEW t \in Builder, Retire(t)
    PROVE  InternInv' /\ Benign(t)
<1> USE DEF InternInv
<1>1. InternShape' /\ Counted'
  BY CountRetire
<1> DEFINE p == Top(t).node
           fr == [Top(t) EXCEPT !.at = "inspect"]
<1>2. /\ ~Calm(t) /\ Top(t).at = "retire" /\ frames' = SetTop(t, fr)
      /\ structure' = structure /\ strong' = strong /\ handles' = handles /\ making' = making
      /\ draining' = draining /\ deferred' = deferred /\ uops' = uops \ {p}
  BY DEF Retire, Inner, OwnEntry
<1>3. /\ Top(t) \in Frame /\ Top(t) = frames[t][Len(frames[t])] /\ Len(frames[t]) \in Nat \ {0}
      /\ frames[t] \in Seq(Frame)
  BY <1>2, TopType
<1>4. Len(frames[t]) \in DOMAIN frames[t]
  BY <1>3, LenProperties
<1>5. p \in UNode /\ ~Live(p)
  BY <1>3, <1>4 DEF Frame, Deaths
<1>6. fr \in Frame /\ fr.node = p /\ fr.at = "inspect"
  BY <1>2, <1>3 DEF Frame
<1> HIDE DEF fr
<1>7. /\ \A u \in Builder : u # t => frames'[u] = frames[u]
      /\ frames'[t] # <<>> /\ Last(frames'[t]) = fr /\ DOMAIN frames'[t] = DOMAIN frames[t]
      /\ \A j \in DOMAIN frames'[t] : frames'[t][j].node = frames[t][j].node
      /\ Top(t).at # "drain" /\ (\E j \in DOMAIN frames[t] : frames[t][j].at = "drain")
                => \E j \in DOMAIN frames'[t] : frames'[t][j].at = "drain"
  BY <1>2, <1>6, GoesOn
<1>8. Benign(t)
  BY <1>2, <1>5, <1>7 DEF Benign, Live, Staged
<1>9. StagedOf(t)'
  BY <1>2, <1>5, KeepsStaged DEF Live, Staged
<1>10. QueuedOf(t)'
  BY <1>2, <1>7 DEF Queued, QueuedOf
<1>11. DeathsOf(t)
  <2>0. PICK d \in UNode : d = p
    BY <1>5
  <2>1. fr.node = d
    BY <1>6, <2>0
  <2>2. \A n, at : DyingBy(t, n, at) => n = d
    BY <2>0 DEF DyingBy
  <2>3. \A j \in DOMAIN frames'[t] : ~(strong'[frames'[t][j].node] > 0)
    BY <1>2, <1>7 DEF Deaths, Live
  <2>4. DyingBy(t, d, {"retire", "inspect"})'
    BY <1>6, <1>7, <2>1 DEF DyingBy, Calm, Top
  <2>5. \A n \in UNode : Live(n)' <=> Live(n)
    BY <1>2 DEF Live
  <2>6. uops' = uops \ {d}
    BY <1>2, <2>0
  <2> QED BY <1>2, <2>2, <2>3, <2>4, <2>5, <2>6 DEF DeathsOf
<1>12. handles'[t] \subseteq uops'
  <2> SUFFICES ASSUME NEW n \in handles[t] PROVE n \in uops'
    BY <1>2
  <2>1. n \in UNode /\ n \in uops
    BY DEF InternShape, Deaths
  <2>2. Live(n)
    BY <2>1, NamedLives
  <2> QED BY <1>2, <1>5, <2>1, <2>2
<1>13. Own(t)
  BY <1>2, <1>9, <1>10, <1>11, <1>12 DEF Own, Unused, Live
<1> QED BY <1>1, <1>8, <1>13, InvStep

\* A dying node's payload goes to the glue, the queue or a drain.
LEMMA InvInspect ==
    ASSUME InternInv, NEW t \in Builder, Inspect(t)
    PROVE  InternInv' /\ Benign(t)
<1> USE DEF InternInv
<1>1. InternShape' /\ Counted'
  BY CountInspect
<1> DEFINE p == Top(t).node
           kids == structure[p].kids
           glue == [Top(t) EXCEPT !.at = "glue", !.rest = kids]
           drain == [Top(t) EXCEPT !.at = "drain", !.rest = kids]
<1>2. /\ ~Calm(t) /\ Top(t).at = "inspect" /\ structure' = [structure EXCEPT ![p] = NoContent]
      /\ strong' = strong /\ handles' = handles /\ making' = making /\ uops' = uops
  BY DEF Inspect, Inner
<1>3. /\ Top(t) \in Frame /\ Top(t) = frames[t][Len(frames[t])] /\ Len(frames[t]) \in Nat \ {0}
      /\ frames[t] \in Seq(Frame)
  BY <1>2, TopType
<1>4. Len(frames[t]) \in DOMAIN frames[t]
  BY <1>3, LenProperties
<1>5. p \in UNode /\ ~Live(p)
  BY <1>3, <1>4 DEF Frame, Deaths
<1>6. kids \in Seq(UNode)
  BY <1>5 DEF InternShape, Content
<1>7. /\ glue \in Frame /\ glue.node = p /\ glue.at = "glue"
      /\ drain \in Frame /\ drain.node = p /\ drain.at = "drain"
  BY <1>3, <1>6 DEF Frame
<1> HIDE DEF glue, drain
<1>8. /\ structure'[p] = NoContent /\ \A n \in UNode : n # p => structure'[n] = structure[n]
  BY <1>2, <1>5 DEF InternShape
<1>9. /\ \A u \in Builder : u # t => frames'[u] = frames[u] /\ draining'[u] = draining[u] /\ deferred'[u] = deferred[u]
      /\ \A j \in DOMAIN frames'[t] : j \in DOMAIN frames[t] /\ frames'[t][j].node = frames[t][j].node
      /\ QueuedOf(t)'
  <2>1. CASE ~HasDying(p)
    <3>1. frames' = SetTop(t, glue) /\ draining' = draining /\ deferred' = deferred
      BY <2>1 DEF Inspect, glue
    <3>2. /\ \A u \in Builder : u # t => frames'[u] = frames[u]
          /\ DOMAIN frames'[t] = DOMAIN frames[t]
          /\ \A j \in DOMAIN frames'[t] : frames'[t][j].node = frames[t][j].node
          /\ Top(t).at # "drain" /\ (\E j \in DOMAIN frames[t] : frames[t][j].at = "drain")
                => \E j \in DOMAIN frames'[t] : frames'[t][j].at = "drain"
      BY <1>2, <1>7, <3>1, GoesOn
    <3> QED BY <1>2, <3>1, <3>2 DEF Queued, QueuedOf
  <2>2. CASE HasDying(p) /\ draining[t]
    <3>1. frames' = [frames EXCEPT ![t] = Front(@)] /\ draining' = draining /\ deferred' = [deferred EXCEPT ![t] = Append(@, kids)]
      BY <2>2 DEF Inspect
    <3>2. /\ \A u \in Builder : u # t => frames'[u] = frames[u]
          /\ \A j \in DOMAIN frames'[t] : j \in DOMAIN frames[t] /\ frames'[t][j] = frames[t][j]
          /\ Top(t).at # "drain" /\ (\E j \in DOMAIN frames[t] : frames[t][j].at = "drain")
                => \E j \in DOMAIN frames'[t] : frames'[t][j].at = "drain"
      BY <1>2, <3>1, Returned
    <3>3. \A u \in Builder : u # t => deferred'[u] = deferred[u]
      BY <3>1 DEF InternShape
    <3> QED BY <1>2, <2>2, <3>1, <3>2, <3>3 DEF Queued, QueuedOf
  <2>3. CASE HasDying(p) /\ ~draining[t]
    <3>1. frames' = SetTop(t, drain) /\ draining' = [draining EXCEPT ![t] = TRUE] /\ deferred' = deferred
      BY <2>3 DEF Inspect, drain
    <3>2. /\ \A u \in Builder : u # t => frames'[u] = frames[u]
          /\ DOMAIN frames'[t] = DOMAIN frames[t]
          /\ \A j \in DOMAIN frames'[t] : frames'[t][j].node = frames[t][j].node
          /\ \E j \in DOMAIN frames'[t] : frames'[t][j].at = "drain"
      BY <1>2, <1>7, <3>1, GoesOn
    <3>3. draining'[t] = TRUE /\ \A u \in Builder : u # t => draining'[u] = draining[u]
      BY <3>1 DEF InternShape
    <3> QED BY <3>1, <3>2, <3>3 DEF QueuedOf
  <2> QED BY <2>1, <2>2, <2>3
<1>10. Benign(t)
  BY <1>2, <1>5, <1>8, <1>9 DEF Benign, Live, Staged
<1>11. StagedOf(t)'
  BY <1>2, <1>5, <1>8, KeepsStaged DEF Live, Staged
<1>12. DeathsOf(t)
  <2>1. /\ \A n : ~DyingBy(t, n, {"retire"})
        /\ \A n : DyingBy(t, n, {"retire", "inspect"}) => n = p
    BY <1>2 DEF DyingBy
  <2>2. \A j \in DOMAIN frames'[t] : ~(strong'[frames'[t][j].node] > 0)
    BY <1>2, <1>9 DEF Deaths, Live
  <2> QED BY <1>2, <1>8, <2>1, <2>2 DEF DeathsOf, Live
<1>13. Own(t)
  BY <1>2, <1>9, <1>11, <1>12 DEF Own, Unused, Live, Deaths
<1> QED BY <1>1, <1>10, <1>13, InvStep

\* What a thread and an activation have of a node.
LEMMA RestBound ==
    ASSUME InternShape, Counted, NEW u \in Builder, NEW n \in UNode, NEW f \in Builder \X Nat
    PROVE  /\ strong[n] \in Nat /\ Mine(u, n) \in Nat
           /\ Mine(u, n) + Occurrences(n, RestOf(frames[f[1]], f[2])) <= strong[n]
<1> DEFINE a == Occurrences(n, structure[n].kids)
           b == Occurrences(n, PartOf(deferred[f[1]], f[2]))
           c == Occurrences(n, RestOf(frames[f[1]], f[2]))
<1>1. strong[n] \in Nat /\ Share(u, n, f, f, n) <= strong[n]
  BY ShareBound
<1>2. Share(u, n, f, f, n) = Mine(u, n) + a + c + b /\ Mine(u, n) \in Nat /\ a \in Nat /\ b \in Nat /\ c \in Nat
  BY ShareAt
<1> HIDE DEF a, b, c
<1>3. Mine(u, n) + c <= strong[n]
  BY <1>1, <1>2
<1> QED BY <1>1, <1>2, <1>3 DEF c

\* A payload that is being released names live nodes, none of them in the making.
LEMMA KidLives ==
    ASSUME InternInv, NEW t \in Builder, ~Calm(t), Top(t).rest \in Seq(UNode), Top(t).rest # <<>>, Head(Top(t).rest) \in UNode
    PROVE  /\ strong[Head(Top(t).rest)] \in Nat \ {0}
           /\ \A u \in Builder : Head(Top(t).rest) \notin making[u].node
<1> USE DEF InternInv
<1>0. PICK kid \in UNode : kid = Head(Top(t).rest)
  OBVIOUS
<1>1. /\ Top(t) = frames[t][Len(frames[t])] /\ Len(frames[t]) \in Nat \ {0} /\ frames[t] \in Seq(Frame)
  BY TopType
<1>2. PICK k \in Nat : k = Len(frames[t])
  BY <1>1
<1> DEFINE f == <<t, k>>
<1>3. RestOf(frames[t], k) = Top(t).rest
  BY <1>1, <1>2, LenProperties DEF RestOf
<1>4. Occurrences(kid, Top(t).rest) >= 1 /\ Occurrences(kid, Top(t).rest) \in Nat
  <2>1. 1 \in DOMAIN Top(t).rest /\ Top(t).rest[1] = kid
    BY <1>0, HeadTailProperties, LenProperties, EmptySeq
  <2> QED BY <2>1, OccurrencesSome, OccurrencesType
<1>5. ASSUME NEW u \in Builder PROVE strong[kid] \in Nat /\ Mine(u, kid) \in Nat /\ Mine(u, kid) + 1 <= strong[kid]
  <2>1. f \in Builder \X Nat /\ f[1] = t /\ f[2] = k
    OBVIOUS
  <2>2. /\ strong[kid] \in Nat /\ Mine(u, kid) \in Nat
        /\ Mine(u, kid) + Occurrences(kid, RestOf(frames[f[1]], f[2])) <= strong[kid]
    BY <2>1, RestBound
  <2>3. RestOf(frames[f[1]], f[2]) = Top(t).rest
    BY <1>3, <2>1
  <2> HIDE DEF f
  <2> QED BY <1>4, <2>2, <2>3
<1>6. ASSUME NEW u \in Builder, kid \in making[u].node PROVE FALSE
  <2>1. strong[kid] = 1
    BY <1>6 DEF Staged
  <2>2. Mine(u, kid) >= 1
    <3>1. Occurrences(kid, OpBox[u]) \in Nat
      BY BoxTypes, OccurrencesType DEF Boxed
    <3> QED BY <1>6, <3>1 DEF Mine, Bit
  <2> QED BY <1>5, <2>1, <2>2
<1>7. strong[kid] \in Nat \ {0}
  BY <1>5
<1> QED BY <1>0, <1>6, <1>7

\* A payload's first child is released.
LEMMA InvKid ==
    ASSUME InternInv, NEW t \in Builder, ReleaseKid(t)
    PROVE  InternInv' /\ Benign(t)
<1> USE DEF InternInv
<1>1. InternShape' /\ Counted'
  BY CountKid
<1>2. /\ ~Calm(t) /\ Top(t) \in Frame /\ Top(t).at \in {"glue", "drain"} /\ Top(t).rest \in Seq(UNode) /\ Top(t).rest # <<>>
      /\ Head(Top(t).rest) \in UNode
  BY KidFrames
<1>3. PICK kid \in UNode : kid = Head(Top(t).rest)
  BY <1>2
<1>4. PICK fr \in Frame : \E h \in [Builder -> Seq(Frame)] :
        /\ fr.node = Top(t).node /\ fr.at = Top(t).at /\ h = SetTop(t, fr)
        /\ strong[kid] = 1 => frames' = [h EXCEPT ![t] = Append(@, Started(kid))]
        /\ strong[kid] # 1 => frames' = h
  BY <1>3, KidFrames
<1>5. PICK h \in [Builder -> Seq(Frame)] :
        /\ h = SetTop(t, fr)
        /\ strong[kid] = 1 => frames' = [h EXCEPT ![t] = Append(@, Started(kid))]
        /\ strong[kid] # 1 => frames' = h
  BY <1>4
<1>6. /\ structure' = structure /\ uops' = uops /\ handles' = handles /\ making' = making
      /\ draining' = draining /\ deferred' = deferred
  BY DEF ReleaseKid
<1>7. strong[kid] \in Nat \ {0} /\ \A u \in Builder : kid \notin making[u].node
  BY <1>2, <1>3, KidLives
<1>8. strong'[kid] = strong[kid] - 1 /\ \A n \in UNode : n # kid => strong'[n] = strong[n]
  BY <1>3 DEF ReleaseKid, InternShape
<1>9. \A n \in UNode : ~Live(n) => ~Live(n)'
  BY <1>7, <1>8 DEF Live
<1>10. \A u \in Builder : \A n \in making[u].node : strong'[n] = strong[n] /\ n \notin uops'
  BY <1>6, <1>7, <1>8 DEF Staged, InternShape, Making
<1>11. /\ h[t] \in Seq(Frame) /\ \A u \in Builder : u # t => h[u] = frames[u]
       /\ h[t] # <<>> /\ Last(h[t]) = fr /\ DOMAIN h[t] = DOMAIN frames[t]
       /\ \A j \in DOMAIN h[t] : h[t][j].node = frames[t][j].node
       /\ fr.at = "drain" => \E j \in DOMAIN h[t] : h[t][j].at = "drain"
       /\ Top(t).at # "drain" /\ (\E j \in DOMAIN frames[t] : frames[t][j].at = "drain")
            => \E j \in DOMAIN h[t] : h[t][j].at = "drain"
  BY <1>2, <1>4, <1>5, GoesOn
<1>12. (\E j \in DOMAIN frames[t] : frames[t][j].at = "drain") => \E j \in DOMAIN h[t] : h[t][j].at = "drain"
  BY <1>4, <1>11
<1>13. \A j \in DOMAIN h[t] : h[t][j].node \in UNode /\ ~Live(h[t][j].node)
  <2> TAKE j \in DOMAIN h[t]
  <2>1. h[t][j] \in Frame
    BY <1>11, LenProperties, ElementOfSeq
  <2> QED BY <1>11, <2>1 DEF Deaths, Frame
<1>14. \A j \in DOMAIN h[t] : ~(strong'[h[t][j].node] > 0)
  BY <1>9, <1>13 DEF Live
<1>15. \A n : ~DyingBy(t, n, {"retire"}) /\ ~DyingBy(t, n, {"retire", "inspect"})
  BY <1>2 DEF DyingBy
<1>16. CASE strong[kid] = 1
  <2>1. frames'[t] = Append(h[t], Started(kid)) /\ \A u \in Builder : u # t => frames'[u] = h[u]
    BY <1>5, <1>16
  <2>2. Started(kid) \in Frame
    BY EmptySeq DEF Started, Frame
  <2>3. /\ frames'[t] \in Seq(Frame) /\ Len(frames'[t]) = Len(h[t]) + 1 /\ Len(h[t]) \in Nat
        /\ DOMAIN h[t] = 1..Len(h[t]) /\ DOMAIN frames'[t] = 1..(Len(h[t]) + 1)
        /\ frames'[t][Len(h[t]) + 1] = Started(kid) /\ \A i \in 1..Len(h[t]) : frames'[t][i] = h[t][i]
    BY <1>11, <2>1, <2>2, AppendProperties, LenProperties
  <2>4. Last(frames'[t]) = Started(kid) /\ frames'[t] # <<>>
    BY <2>3, EmptySeq DEF Last
  <2>5. DyingBy(t, kid, {"retire"})' /\ DyingBy(t, kid, {"retire", "inspect"})'
    BY <2>4 DEF DyingBy, Calm, Top, Started
  <2>6. \A j \in DOMAIN frames'[t] : ~(strong'[frames'[t][j].node] > 0)
    <3>1. Started(kid).node = kid /\ ~(strong'[kid] > 0)
      BY <1>8, <1>16 DEF Started
    <3> QED BY <1>14, <2>3, <3>1
  <2>7. \A n \in UNode : Live(n) /\ ~Live(n)' => n = kid
    BY <1>8 DEF Live
  <2>8. DeathsOf(t)
    BY <1>6, <1>15, <2>5, <2>6, <2>7 DEF DeathsOf
  <2>9. QueuedOf(t)'
    <3>1. (\E j \in DOMAIN h[t] : h[t][j].at = "drain") => \E j \in DOMAIN frames'[t] : frames'[t][j].at = "drain"
      BY <2>3
    <3> QED BY <1>6, <1>12, <3>1 DEF Queued, QueuedOf
  <2>10. Benign(t)
    BY <1>6, <1>9, <1>10, <1>11, <2>1 DEF Benign
  <2>11. StagedOf(t)'
    BY <1>6, <1>9, <1>10, KeepsStaged
  <2>12. Own(t)
    BY <1>6, <1>9, <2>8, <2>9, <2>11 DEF Own, Unused, Deaths
  <2> QED BY <1>1, <2>10, <2>12, InvStep
<1>17. CASE strong[kid] # 1
  <2>1. frames' = h
    BY <1>5, <1>17
  <2>2. \A n \in UNode : Live(n) => Live(n)'
    BY <1>7, <1>8, <1>17 DEF Live
  <2>3. DeathsOf(t)
    BY <1>6, <1>14, <1>15, <2>1, <2>2 DEF DeathsOf
  <2>4. QueuedOf(t)'
    BY <1>6, <1>12, <2>1 DEF Queued, QueuedOf
  <2>5. Benign(t)
    BY <1>6, <1>9, <1>10, <1>11, <2>1 DEF Benign
  <2>6. StagedOf(t)'
    BY <1>6, <1>9, <1>10, KeepsStaged
  <2>7. Own(t)
    BY <1>6, <1>9, <2>3, <2>4, <2>6 DEF Own, Unused, Deaths
  <2> QED BY <1>1, <2>5, <2>7, InvStep
<1> QED BY <1>16, <1>17

\* A step of a teardown that changes no node.
LEMMA InvQuietStep ==
    ASSUME InternInv, InternShape', Counted', NEW t \in Builder, ~Calm(t), Top(t).at \in {"glue", "drain"},
           UNCHANGED <<structure, strong, uops, handles, making>>, QueuedOf(t)',
           \A u \in Builder : u # t => frames'[u] = frames[u] /\ draining'[u] = draining[u] /\ deferred'[u] = deferred[u],
           \A j \in DOMAIN frames'[t] : j \in DOMAIN frames[t] /\ frames'[t][j].node = frames[t][j].node
    PROVE  InternInv' /\ Benign(t)
<1> USE DEF InternInv
<1>1. structure' = structure /\ strong' = strong /\ uops' = uops /\ handles' = handles /\ making' = making
  OBVIOUS
<1>2. Benign(t)
  BY <1>1 DEF Benign, Live, Staged
<1>3. StagedOf(t)'
  BY <1>1, KeepsStaged DEF Live, Staged
<1>4. DeathsOf(t)
  <2>1. \A n : ~DyingBy(t, n, {"retire"}) /\ ~DyingBy(t, n, {"retire", "inspect"})
    BY DEF DyingBy
  <2>2. \A j \in DOMAIN frames'[t] : ~(strong'[frames'[t][j].node] > 0)
    BY <1>1 DEF Deaths, Live
  <2> QED BY <1>1, <2>1, <2>2 DEF DeathsOf, Live
<1>5. Own(t)
  BY <1>1, <1>3, <1>4 DEF Own, Unused, Live, Deaths
<1> QED BY <1>2, <1>5, InvStep

\* The drop glue has released every child.
LEMMA InvGlueDone ==
    ASSUME InternInv, NEW t \in Builder, GlueDone(t)
    PROVE  InternInv' /\ Benign(t)
<1> USE DEF InternInv
<1>1. /\ ~Calm(t) /\ Top(t).at = "glue" /\ Top(t).rest = <<>> /\ frames' = [frames EXCEPT ![t] = Front(@)]
      /\ UNCHANGED <<structure, strong, uops, handles, making, draining, deferred>>
  BY DEF GlueDone, Inner
<1>2. InternShape' /\ Counted'
  <2>1. draining' \in [Builder -> BOOLEAN]
    BY <1>1 DEF InternShape
  <2> QED BY <1>1, <2>1, CountPop
<1>3. /\ \A u \in Builder : u # t => frames'[u] = frames[u]
      /\ \A j \in DOMAIN frames'[t] : j \in DOMAIN frames[t] /\ frames'[t][j] = frames[t][j]
      /\ Top(t).at # "drain" /\ (\E j \in DOMAIN frames[t] : frames[t][j].at = "drain")
                => \E j \in DOMAIN frames'[t] : frames'[t][j].at = "drain"
  BY <1>1, Returned
<1>4. QueuedOf(t)'
  BY <1>1, <1>3 DEF Queued, QueuedOf
<1> QED BY <1>1, <1>2, <1>3, <1>4, InvQuietStep

\* The drain takes the last payload of the queue, or is over.
LEMMA InvDrain ==
    ASSUME InternInv, NEW t \in Builder, Drain(t)
    PROVE  InternInv' /\ Benign(t)
<1> USE DEF InternInv
<1> DEFINE fr == [Top(t) EXCEPT !.rest = Last(deferred[t])]
<1>1. /\ ~Calm(t) /\ Top(t).at = "drain" /\ Top(t).rest = <<>>
      /\ UNCHANGED <<structure, strong, uops, handles, making>>
  BY DEF Drain, Inner
<1>2. InternShape' /\ Counted'
  BY CountDrain
<1>3. Top(t) \in Frame
  BY <1>1, TopType
<1>4. CASE deferred[t] # <<>>
  <2>1. /\ frames' = SetTop(t, fr) /\ deferred' = [deferred EXCEPT ![t] = Front(@)] /\ draining' = draining
    BY <1>4 DEF Drain
  <2>2. fr \in Frame /\ fr.node = Top(t).node /\ fr.at = "drain"
    <3>1. Last(deferred[t]) \in Seq(UNode)
      <4>1. <<>> \in Seq(UNode) /\ deferred[t] \in Seq(Seq(UNode))
        BY EmptySeq DEF InternShape
      <4> QED BY <1>4, <4>1, LastExchanged
    <3> QED BY <1>1, <1>3, <3>1 DEF Frame
  <2> HIDE DEF fr
  <2>3. /\ \A u \in Builder : u # t => frames'[u] = frames[u]
        /\ DOMAIN frames'[t] = DOMAIN frames[t]
        /\ \A j \in DOMAIN frames'[t] : frames'[t][j].node = frames[t][j].node
        /\ \E j \in DOMAIN frames'[t] : frames'[t][j].at = "drain"
    BY <1>1, <2>1, <2>2, GoesOn
  <2>4. \A u \in Builder : u # t => deferred'[u] = deferred[u] /\ draining'[u] = draining[u]
    BY <2>1 DEF InternShape
  <2>5. QueuedOf(t)'
    BY <1>4, <2>1, <2>3 DEF Queued, QueuedOf
  <2> QED BY <1>1, <1>2, <2>3, <2>4, <2>5, InvQuietStep
<1>5. CASE deferred[t] = <<>>
  <2>1. frames' = [frames EXCEPT ![t] = Front(@)] /\ draining' = [draining EXCEPT ![t] = FALSE] /\ deferred' = deferred
    BY <1>5 DEF Drain, DrainOver
  <2>2. /\ \A u \in Builder : u # t => frames'[u] = frames[u]
        /\ \A j \in DOMAIN frames'[t] : j \in DOMAIN frames[t] /\ frames'[t][j] = frames[t][j]
    BY <1>1, <2>1, Returned
  <2>3. draining'[t] = FALSE /\ \A u \in Builder : u # t => draining'[u] = draining[u]
    BY <2>1 DEF InternShape
  <2>4. QueuedOf(t)'
    BY <1>5, <2>1, <2>3 DEF QueuedOf
  <2> QED BY <1>1, <1>2, <2>1, <2>2, <2>3, <2>4, InvQuietStep
<1> QED BY <1>4, <1>5

---------------------------------------------------------------------------------
(* The theorem on leaks                                                        *)

\* At the start nobody has an Arc of anything.
LEMMA InvStart ==
    ASSUME InternInit
    PROVE  InternInv
<1>1. InternShape
  BY IdleType, EmptySeq DEF InternInit, InternShape
<1>2. ASSUME NEW n \in UNode PROVE Finite(n) /\ strong[n] = Owners(n)
  <2>1. Keepers(n) = {} /\ Readers(n) = {} /\ Makers(n) = {}
    BY DEF InternInit, Keepers, Readers, Reads, Makers, Idle
  <2>2. \A t \in Builder : OpBox[t] = <<>>
    BY DEF InternInit, OpBox, Owning, Idle
  <2>3. \A p \in UNode : NodeBox[p] = <<>>
    BY DEF InternInit, NodeBox, NoContent
  <2>4. \A x \in Builder \X Nat : FrameBox[x] = <<>> /\ QueueBox[x] = <<>>
    BY DEF InternInit, FrameBox, QueueBox, RestOf, PartOf
  <2>5. /\ DOMAIN OpBox = Builder /\ DOMAIN NodeBox = UNode
        /\ DOMAIN FrameBox = Builder \X Nat /\ DOMAIN QueueBox = Builder \X Nat
    BY DEF OpBox, NodeBox, FrameBox, QueueBox
  <2>6. ASSUME NEW box, \A b \in DOMAIN box : box[b] = <<>> PROVE Spots(box, n) = {}
    BY <2>6 DEF Spots
  <2>7. Spots(OpBox, n) = {} /\ Spots(NodeBox, n) = {} /\ Spots(FrameBox, n) = {} /\ Spots(QueueBox, n) = {}
    BY <2>2, <2>3, <2>4, <2>5, <2>6
  <2>8. IsFiniteSet({}) /\ Cardinality({}) = 0
    BY FS_EmptySet
  <2>9. Finite(n) /\ Owners(n) = 0
    BY <2>1, <2>7, <2>8 DEF Finite, Owners
  <2> QED BY <2>9 DEF InternInit
<1>3. Counted
  BY <1>2 DEF Counted
<1>4. Staged
  BY DEF InternInit, Staged, HasFound, HasNode, Idle
<1>5. Deaths
  BY DEF InternInit, Deaths, Live
<1>6. Queued
  BY DEF InternInit, Queued
<1> QED BY <1>1, <1>3, <1>4, <1>5, <1>6 DEF InternInv

\* A step of one thread.
InternStep(t) ==
    \/ \E g \in DOMAIN Arity : \E kids \in [1..Arity[g] -> handles[t]] : New(t, g, kids)
    \/ Probe(t) \/ Probed(t) \/ Upgrade(t) \/ AllocNode(t) \/ Compute(t) \/ Compared(t)
    \/ Decide(t) \/ Lost(t)
    \/ \E n \in handles[t] : DropHandle(t, n)
    \/ Retire(t) \/ Inspect(t) \/ ReleaseKid(t) \/ GlueDone(t) \/ Drain(t)

\* Every step of a thread preserves the invariant and leaves what others have alone.
LEMMA InvThread ==
    ASSUME InternInv, NEW t \in Builder, InternStep(t)
    PROVE  InternInv' /\ Benign(t)
<1>1. ASSUME Probed(t) PROVE InternInv' /\ Benign(t)
  <2>1. /\ MakingAt(t, "probed") /\ \E e \in making[t].found : Release(t, e)
        /\ MakingTo(t, "upgrade") /\ UNCHANGED <<structure, uops, handles, draining, deferred, asked>>
    BY <1>1 DEF Probed
  <2>2. <<"probed", "upgrade">> \in {<<"probed", "upgrade">>, <<"compared", "decide">>}
    OBVIOUS
  <2> QED BY <2>1, <2>2, InvProbed
<1>2. ASSUME Compared(t) PROVE InternInv' /\ Benign(t)
  <2>1. /\ MakingAt(t, "compared") /\ \E e \in making[t].found : Release(t, e)
        /\ MakingTo(t, "decide") /\ UNCHANGED <<structure, uops, handles, draining, deferred, asked>>
    BY <1>2 DEF Compared
  <2>2. <<"compared", "decide">> \in {<<"probed", "upgrade">>, <<"compared", "decide">>}
    OBVIOUS
  <2> QED BY <2>1, <2>2, InvProbed
<1> QED BY <1>1, <1>2, InvNew, InvProbe, InvUpgrade, InvAlloc, InvCompute, InvDecide, InvLost, InvDrop,
           InvRetire, InvInspect, InvKid, InvGlueDone, InvDrain DEF InternStep

\* A step of the specification keeps the invariant.
LEMMA InvNext ==
    ASSUME InternInv, [InternNext]_internVars
    PROVE  InternInv'
<1>1. CASE UNCHANGED internVars
  <2>1. /\ structure' = structure /\ strong' = strong /\ uops' = uops /\ handles' = handles /\ making' = making
        /\ frames' = frames /\ draining' = draining /\ deferred' = deferred
    BY <1>1 DEF internVars
  <2>2. InternShape' /\ Staged' /\ Deaths' /\ Queued'
    BY <2>1 DEF InternInv, InternShape, Staged, Deaths, Queued, Live, Dying, Calm, Top
  <2>3. Counted'
    <3>1. OpBox' = OpBox /\ NodeBox' = NodeBox /\ FrameBox' = FrameBox /\ QueueBox' = QueueBox
      BY <2>1 DEF OpBox, NodeBox, FrameBox, QueueBox, RestOf, PartOf
    <3>2. \A n : Keepers(n)' = Keepers(n) /\ Readers(n)' = Readers(n) /\ Makers(n)' = Makers(n)
      BY <2>1 DEF Keepers, Readers, Reads, Makers
    <3>3. \A n : /\ Spots(OpBox, n)' = Spots(OpBox, n) /\ Spots(NodeBox, n)' = Spots(NodeBox, n)
                 /\ Spots(FrameBox, n)' = Spots(FrameBox, n) /\ Spots(QueueBox, n)' = Spots(QueueBox, n)
      BY <3>1 DEF Spots
    <3>4. \A n : (Finite(n)' <=> Finite(n)) /\ Owners(n)' = Owners(n)
      BY <3>2, <3>3 DEF Finite, Owners
    <3> QED BY <2>1, <3>4 DEF InternInv, Counted
  <2> QED BY <2>2, <2>3 DEF InternInv
<1>2. CASE InternNext
  <2>1. PICK t \in Builder : InternStep(t)
    BY <1>2 DEF InternNext, InternStep
  <2> QED BY <2>1, InvThread
<1> QED BY <1>1, <1>2

\* When no thread builds or drops, every box but the nodes' own is empty.
LEMMA QuietIsTidy ==
    ASSUME InternInv
    PROVE  NothingLeaks
<1> USE DEF InternInv
<1> SUFFICES ASSUME Quiet PROVE uops = {n \in UNode : Live(n)} /\ \A n \in UNode : strong[n] = Arcs(n)
  BY DEF NothingLeaks
<1>1. \A t \in Builder : frames[t] = <<>> /\ making[t].at = "idle" /\ making[t].node = {} /\ deferred[t] = <<>>
  BY DEF Quiet, Calm, Staged, HasNode, Queued
<1>2. \A n, at : ~Dying(n, at)
  BY <1>1 DEF Dying, Calm
<1>3. uops = {n \in UNode : Live(n)}
  BY <1>1, <1>2 DEF Deaths, InternShape
<1>4. ASSUME NEW n \in UNode PROVE strong[n] = Arcs(n)
  <2>1. Readers(n) = {} /\ Makers(n) = {}
    BY <1>1 DEF Readers, Reads, Makers
  <2>2. Spots(OpBox, n) = {} /\ Spots(FrameBox, n) = {} /\ Spots(QueueBox, n) = {}
    <3>1. \A t \in Builder : OpBox[t] = <<>>
      BY <1>1 DEF OpBox, Owning
    <3>2. \A x \in Builder \X Nat : FrameBox[x] = <<>> /\ QueueBox[x] = <<>>
      BY <1>1 DEF FrameBox, QueueBox, RestOf, PartOf
    <3>3. DOMAIN OpBox = Builder /\ DOMAIN FrameBox = Builder \X Nat /\ DOMAIN QueueBox = Builder \X Nat
      BY DEF OpBox, FrameBox, QueueBox
    <3>4. ASSUME NEW box, \A b \in DOMAIN box : box[b] = <<>> PROVE Spots(box, n) = {}
      BY <3>4 DEF Spots
    <3> QED BY <3>1, <3>2, <3>3, <3>4
  <2>3. Spots(NodeBox, n) = ArcsOfParents(n)
    <3>1. \A p \in UNode : NodeBox[p] = structure[p].kids /\ structure[p].kids \in Seq(UNode)
      BY DEF NodeBox, InternShape, Content
    <3>2. DOMAIN NodeBox = UNode
      BY DEF NodeBox
    <3>3. \A p \in UNode : ~Live(p) => structure[p].kids = <<>>
      BY <1>2 DEF Deaths, NoContent
    <3>4. \A p \in UNode : DOMAIN structure[p].kids \subseteq Nat
      BY <3>1, LenProperties
    <3>5. ASSUME NEW x \in Spots(NodeBox, n) PROVE x \in ArcsOfParents(n)
      <4>1. PICK p \in UNode, i \in Nat : x = <<p, i>>
        BY <3>2 DEF Spots
      <4>2. i \in DOMAIN structure[p].kids /\ structure[p].kids[i] = n
        BY <3>1, <4>1 DEF Spots
      <4>3. Live(p)
        BY <3>3, <4>2
      <4> QED BY <4>1, <4>2, <4>3 DEF ArcsOfParents
    <3>6. ASSUME NEW x \in ArcsOfParents(n) PROVE x \in Spots(NodeBox, n)
      <4>1. PICK p \in UNode : Live(p) /\ x \in {<<p, i>> : i \in {i \in DOMAIN structure[p].kids : structure[p].kids[i] = n}}
        BY DEF ArcsOfParents
      <4>2. PICK i \in DOMAIN structure[p].kids : structure[p].kids[i] = n /\ x = <<p, i>>
        BY <4>1
      <4>3. i \in Nat
        BY <3>4, <4>2
      <4> QED BY <3>1, <3>2, <4>2, <4>3 DEF Spots
    <3> QED BY <3>5, <3>6
  <2>4. strong[n] = Owners(n) /\ Finite(n)
    BY DEF Counted
  <2>5. Cardinality(Keepers(n)) \in Nat /\ Cardinality(Spots(NodeBox, n)) \in Nat
    BY <2>4, FS_CardinalityType DEF Finite
  <2>6. Owners(n) = Cardinality(Keepers(n)) + Cardinality(Spots(NodeBox, n))
    <3>1. Cardinality({}) = 0
      BY FS_EmptySet
    <3> HIDE DEF Keepers, Spots, NodeBox
    <3> QED BY <2>1, <2>2, <2>5, <3>1 DEF Owners
  <2>7. Arcs(n) = Cardinality(Keepers(n)) + Cardinality(Spots(NodeBox, n))
    BY <2>3 DEF Arcs, Keepers
  <2> QED BY <2>4, <2>6, <2>7
<1> QED BY <1>3, <1>4

\* Whatever threads build, race for and drop, and however deep what they drop is:
\* once no call is running, the table holds exactly the live nodes and each Arc
\* of a node belongs to a handle or to a live parent.
THEOREM InternNothingLeaks == InternSpec => []NothingLeaks
<1>1. InternInit => InternInv
  BY InvStart
<1>2. InternInv /\ [InternNext]_internVars => InternInv'
  BY InvNext
<1>3. InternInv => NothingLeaks
  BY QuietIsTidy
<1> QED BY <1>1, <1>2, <1>3, PTL DEF InternSpec
---------------------------------------------------------------------------------
(* One node per structure, for two threads                                     *)

\* The table has at most one live entry of a structure.
Unique == \A m, n \in uops : Live(m) /\ Live(n) /\ structure[m] = structure[n] => m = n

\* While a call of new is between the comparison with entry e and the closure of
\* compute, no other live entry is equal to what it asks for, unless the entry
\* died in the comparison; then the thread retires it first.
ApartOf(t) ==
    making[t].at \in {"compared", "decide"} =>
        \A e \in making[t].found \cap uops :
            /\ Live(e) \/ Calm(t) => \A m \in uops : Live(m) /\ structure[m] = making[t].op => m = e
            /\ ~Calm(t) => Top(t).node = e /\ Top(t).at = "retire"
Apart == \A t \in Builder : ApartOf(t)

UniqueInv == InternInv /\ Unique /\ Apart

\* An entry that a step adds is the node its thread is making, and no live entry
\* is equal to it.
Enters(t) ==
    \A m \in uops' : m \notin uops =>
        m \in making[t].node /\ Calm(t) /\ \A e \in uops : ~Matches(e, structure[m])

\* What is in the table after a step and lives was there, or entered.
LEMMA Stayed ==
    ASSUME InternInv, NEW t \in Builder, Benign(t), NEW m \in uops, Live(m)'
    PROVE  m \in UNode /\ Live(m) /\ structure'[m] = structure[m]
<1>1. m \in UNode /\ ~Unused(m)
  BY DEF InternInv, InternShape, Unused
<1> QED BY <1>1 DEF Benign

\* The node a thread is making lives, outside of the table, and keeps its payload.
LEMMA Entered ==
    ASSUME InternInv, NEW t \in Builder, Benign(t), NEW m \in making[t].node
    PROVE  /\ m \in UNode /\ Live(m) /\ m \notin uops /\ structure[m] = making[t].op
           /\ structure'[m] = structure[m] /\ making[t].node = {m}
<1>1. m \in UNode
  BY DEF InternInv, InternShape, Making
<1>2. structure[m] = making[t].op /\ strong[m] = 1 /\ m \notin uops /\ making[t].node = {m}
  BY DEF InternInv, Staged
<1>3. Live(m)
  BY <1>2 DEF Live
<1> QED BY <1>1, <1>2, <1>3 DEF Benign

\* A step that adds nothing but such an entry keeps the entries apart.
LEMMA UniqueStep ==
    ASSUME InternInv, Unique, NEW t \in Builder, Benign(t), Enters(t)
    PROVE  Unique'
<1> SUFFICES ASSUME NEW m \in uops', NEW n \in uops', Live(m)', Live(n)', structure'[m] = structure'[n]
             PROVE  m = n
  BY DEF Unique
<1>1. CASE m \in uops /\ n \in uops
  BY <1>1, Stayed DEF Unique
<1>2. CASE m \in uops /\ n \notin uops
  BY <1>2, Stayed, Entered DEF Enters, Matches
<1>3. CASE m \notin uops /\ n \in uops
  BY <1>3, Stayed, Entered DEF Enters, Matches
<1>4. CASE m \notin uops /\ n \notin uops
  BY <1>4, Entered DEF Enters
<1> QED BY <1>1, <1>2, <1>3, <1>4

\* ... and, with two threads, keeps what the other thread relies on: an entry that
\* died is retired by the thread that would have to be adding one.
LEMMA ApartStep ==
    ASSUME InternInv, Apart, NEW t \in Builder, Benign(t), Enters(t), ApartOf(t)',
           \A x, y, z \in Builder : x = y \/ y = z \/ x = z
    PROVE  Apart'
<1> SUFFICES ASSUME NEW u \in Builder, u # t PROVE ApartOf(u)'
  BY DEF Apart
<1>1. making'[u] = making[u] /\ frames'[u] = frames[u]
  BY DEF Benign
<1>2. (Calm(u)' <=> Calm(u)) /\ Top(u)' = Top(u)
  BY <1>1 DEF Calm, Top
<1> SUFFICES ASSUME making[u].at \in {"compared", "decide"}, NEW e \in making[u].found, e \in uops'
             PROVE  /\ Live(e)' \/ Calm(u) => \A m \in uops' : Live(m)' /\ structure'[m] = making[u].op => m = e
                    /\ ~Calm(u) => Top(u).node = e /\ Top(u).at = "retire"
  BY <1>1, <1>2 DEF ApartOf
<1>3. Live(e) => e \in uops /\ structure[e] = making[u].op
  BY DEF InternInv, Staged
<1>4. e \in uops
  <2> SUFFICES ASSUME e \notin uops PROVE FALSE
    OBVIOUS
  <2>1. e \in making[t].node
    BY DEF Enters
  <2> QED BY <2>1, <1>3, Entered
<1>5. /\ Live(e) \/ Calm(u) => \A m \in uops : Live(m) /\ structure[m] = making[u].op => m = e
      /\ ~Calm(u) => Top(u).node = e /\ Top(u).at = "retire"
  BY <1>4 DEF Apart, ApartOf
<1>6. ASSUME Live(e)' \/ Calm(u), NEW m \in uops', Live(m)', structure'[m] = making[u].op PROVE m = e
  <2>1. Live(e) \/ Calm(u)
    BY <1>4, <1>6, Stayed
  <2>2. CASE m \in uops
    BY <1>5, <1>6, <2>1, <2>2, Stayed
  <2>3. CASE m \notin uops
    <3>1. m \in making[t].node /\ Calm(t) /\ \A d \in uops : ~Matches(d, structure[m])
      BY <2>3 DEF Enters
    <3>2. structure[m] = making[u].op
      BY <1>6, <3>1, Entered
    <3>3. ~Live(e)
      BY <1>3, <1>4, <3>1, <3>2 DEF Matches
    <3>4. e \in UNode
      BY <1>4 DEF InternInv, InternShape
    <3>5. PICK v \in Builder : ~Calm(v)
      BY <1>4, <3>3, <3>4 DEF InternInv, Deaths, Dying
    <3>6. v # u /\ v # t
      BY <2>1, <3>1, <3>3, <3>5
    <3> QED BY <3>6
  <2> QED BY <2>2, <2>3
<1> QED BY <1>5, <1>6

\* compute inserts only what no live entry is equal to, and goes on with an entry
\* that is the only one of its structure.
LEMMA ComputeApart ==
    ASSUME InternInv, Unique, NEW t \in Builder, Benign(t), Compute(t)
    PROVE  Enters(t) /\ ApartOf(t)'
<1>1. making \in [Builder -> Making]
  BY DEF InternInv, InternShape
<1>2. PICK n \in making[t].node :
        \/ \E e \in uops :
            /\ Matches(e, structure[n])
            /\ making' = [making EXCEPT ![t].at = "compared", ![t].found = {e}]
            /\ uops' = uops
        \/ /\ \A e \in uops : ~Matches(e, structure[n])
           /\ uops' = uops \cup {n}
           /\ making' = [making EXCEPT ![t] = Idle]
  BY DEF Compute
<1>3. Calm(t) /\ frames' = frames
  BY DEF Compute, MakingAt
<1>5. ASSUME NEW e \in uops, Matches(e, structure[n]), uops' = uops,
             making' = [making EXCEPT ![t].at = "compared", ![t].found = {e}]
      PROVE  Enters(t) /\ ApartOf(t)'
  <2>1. making'[t].found = {e} /\ making'[t].op = making[t].op
    BY <1>1, <1>5 DEF Making
  <2>2. structure[e] = making[t].op /\ Live(e)
    BY <1>2, <1>5, Entered DEF Matches
  <2>3. Calm(t)'
    BY <1>3 DEF Calm
  <2>4. ASSUME NEW m \in uops, Live(m)', structure'[m] = making[t].op PROVE m = e
    BY <2>2, <2>4, <1>5, Stayed DEF Unique
  <2> QED BY <1>5, <2>1, <2>3, <2>4 DEF Enters, ApartOf
<1>6. CASE /\ \A e \in uops : ~Matches(e, structure[n])
           /\ uops' = uops \cup {n}
           /\ making' = [making EXCEPT ![t] = Idle]
  <2>1. making'[t].at = "idle"
    BY <1>1, <1>6 DEF Idle, Making
  <2> QED BY <1>2, <1>3, <1>6, <2>1 DEF Enters, ApartOf
<1> QED BY <1>2, <1>5, <1>6

\* The Arc of the comparison is dropped: the entry lives on, or its last Arc was
\* that one and the thread is about to retire it.
LEMMA ComparedApart ==
    ASSUME InternInv, Apart, NEW t \in Builder, Benign(t), Compared(t)
    PROVE  Enters(t) /\ ApartOf(t)'
<1>1. making \in [Builder -> Making] /\ frames \in [Builder -> Seq(Frame)] /\ strong \in [UNode -> Int]
  BY DEF InternInv, InternShape
<1>2. /\ making[t].at = "compared" /\ Calm(t) /\ uops' = uops /\ structure' = structure
      /\ making' = [making EXCEPT ![t].at = "decide"]
  BY DEF Compared, MakingAt, MakingTo
<1>3. PICK e \in making[t].found : Release(t, e)
  BY DEF Compared
<1>4. making[t].found = {e} /\ e \in UNode
  BY <1>1, <1>2, <1>3 DEF InternInv, Staged, HasFound, Making
<1>5. making'[t].found = {e} /\ making'[t].op = making[t].op
  BY <1>1, <1>2, <1>4 DEF Making
<1>6. e \in uops => \A m \in uops : Live(m) /\ structure[m] = making[t].op => m = e
  BY <1>2, <1>3 DEF Apart, ApartOf
<1>7. e \in uops => \A m \in uops : Live(m)' /\ structure'[m] = making[t].op => m = e
  BY <1>2, <1>6, Stayed
<1>8. CASE strong[e] = 1
  <2>1. ~(Live(e)')
    BY <1>1, <1>3, <1>4, <1>8 DEF Release, Live
  <2> DEFINE fr == [node |-> e, at |-> "retire", rest |-> <<>>]
  <2>2. frames'[t] = <<fr>>
    BY <1>1, <1>2, <1>3, <1>8 DEF Release, Calm
  <2>3. frames'[t] # <<>> /\ Last(frames'[t]) = fr
    BY <2>2 DEF Last
  <2>4. ~(Calm(t)') /\ Top(t)' = fr
    BY <2>3 DEF Calm, Top
  <2> QED BY <1>2, <1>5, <2>1, <2>4 DEF Enters, ApartOf
<1>9. CASE strong[e] # 1
  <2>1. Calm(t)'
    BY <1>2, <1>3, <1>9 DEF Release, Calm
  <2> QED BY <1>2, <1>5, <1>7, <2>1 DEF Enters, ApartOf
<1> QED BY <1>8, <1>9

\* The closure of compute replaces a dead entry only while no live one is equal to
\* the new node.
LEMMA DecideApart ==
    ASSUME InternInv, Apart, NEW t \in Builder, Benign(t), Decide(t)
    PROVE  Enters(t) /\ ApartOf(t)'
<1>1. making \in [Builder -> Making]
  BY DEF InternInv, InternShape
<1>2. Calm(t) /\ making[t].at = "decide"
  BY DEF Decide, MakingAt
<1>3. PICK e \in making[t].found, n \in making[t].node :
        \/ making' = [making EXCEPT ![t].at = "lost", ![t].found = {}] /\ uops' = uops
        \/ /\ ~Live(e) /\ e \in uops
           /\ uops' = (uops \ {e}) \cup {n}
           /\ making' = [making EXCEPT ![t] = Idle]
        \/ making' = [making EXCEPT ![t].at = "compute", ![t].found = {}] /\ uops' = uops
  BY DEF Decide
<1>4. making'[t].at \in {"lost", "idle", "compute"}
  BY <1>1, <1>3 DEF Idle, Making
<1>5. ApartOf(t)'
  BY <1>4 DEF ApartOf
<1>6. CASE uops' = uops
  BY <1>5, <1>6 DEF Enters
<1>7. CASE ~Live(e) /\ e \in uops /\ uops' = (uops \ {e}) \cup {n}
  <2>1. \A m \in uops : Live(m) /\ structure[m] = making[t].op => m = e
    BY <1>2, <1>3, <1>7 DEF Apart, ApartOf
  <2>2. structure[n] = making[t].op
    BY <1>3, Entered
  <2> QED BY <1>2, <1>3, <1>5, <1>7, <2>1, <2>2 DEF Enters, Matches
<1> QED BY <1>3, <1>6, <1>7

\* A step of a drop: the entry the thread's call compared with goes first.
LEMMA DropApart ==
    ASSUME InternInv, Apart, NEW t \in Builder, Retire(t) \/ Inspect(t) \/ ReleaseKid(t) \/ GlueDone(t) \/ Drain(t)
    PROVE  Enters(t) /\ ApartOf(t)'
<1>1. making' = making /\ uops' \subseteq uops /\ ~Calm(t)
  BY DEF Retire, Inspect, ReleaseKid, GlueDone, Drain, Inner
<1>2. Top(t).at = "retire" => Retire(t)
  BY DEF Retire, Inspect, ReleaseKid, GlueDone, Drain, Inner
<1>3. ASSUME making[t].at \in {"compared", "decide"}, NEW e \in making[t].found, e \in uops' PROVE FALSE
  <2>1. Top(t).node = e /\ Top(t).at = "retire"
    BY <1>1, <1>3 DEF Apart, ApartOf
  <2> QED BY <1>1, <1>2, <1>3, <2>1 DEF Retire, OwnEntry
<1> QED BY <1>1, <1>3 DEF Enters, ApartOf

\* Every step of one of two threads keeps one live entry per structure.
LEMMA UniqueThread ==
    ASSUME UniqueInv, NEW t \in Builder, InternStep(t), \A x, y, z \in Builder : x = y \/ y = z \/ x = z
    PROVE  UniqueInv'
<1>1. InternInv /\ Unique /\ Apart
  BY DEF UniqueInv
<1>2. InternInv' /\ Benign(t)
  BY <1>1, InvThread
<1>3. making \in [Builder -> Making]
  BY <1>1 DEF InternInv, InternShape
<1>4. ASSUME \/ \E g \in DOMAIN Arity : \E kids \in [1..Arity[g] -> handles[t]] : New(t, g, kids)
             \/ Probe(t) \/ Probed(t) \/ Upgrade(t) \/ AllocNode(t) \/ Lost(t)
             \/ \E n \in handles[t] : DropHandle(t, n)
      PROVE  Enters(t) /\ ApartOf(t)'
  <2>1. uops' = uops
    BY <1>4 DEF New, Probe, Probed, Upgrade, AllocNode, Lost, DropHandle
  <2>2. making'[t].at \notin {"compared", "decide"}
    <3>1. ASSUME NEW g \in DOMAIN Arity, NEW kids \in [1..Arity[g] -> handles[t]], New(t, g, kids)
          PROVE  making'[t].at = "probe"
      BY <1>3, <3>1 DEF New, Idle
    <3>2. ASSUME Probe(t) PROVE making'[t].at \in {"probed", "alloc"}
      BY <1>3, <3>2 DEF Probe, MakingTo, Making
    <3>3. ASSUME Probed(t) PROVE making'[t].at = "upgrade"
      BY <1>3, <3>3 DEF Probed, MakingTo, Making
    <3>4. ASSUME Upgrade(t) PROVE making'[t].at \in {"idle", "alloc"}
      BY <1>3, <3>4 DEF Upgrade, Idle, Making
    <3>5. ASSUME AllocNode(t) PROVE making'[t].at = "compute"
      BY <1>3, <3>5 DEF AllocNode, Making
    <3>6. ASSUME Lost(t) PROVE making'[t].at = "idle"
      BY <1>3, <3>6 DEF Lost, Idle
    <3>7. ASSUME NEW n \in handles[t], DropHandle(t, n) PROVE making'[t].at = "idle"
      BY <3>7 DEF DropHandle, MakingAt
    <3> QED BY <1>4, <3>1, <3>2, <3>3, <3>4, <3>5, <3>6, <3>7
  <2> QED BY <2>1, <2>2 DEF Enters, ApartOf
<1>5. Enters(t) /\ ApartOf(t)'
  BY <1>1, <1>2, <1>4, ComputeApart, ComparedApart, DecideApart, DropApart DEF InternStep
<1>6. Unique' /\ Apart'
  BY <1>1, <1>2, <1>5, UniqueStep, ApartStep
<1> QED BY <1>2, <1>6 DEF UniqueInv

\* Pointer equality works across two threads (the promise of UOp::new), whatever
\* they build and drop: what they hold of one structure is one node.  With a third
\* thread it fails.
THEOREM InternUniqueForTwo ==
    ASSUME \A x, y, z \in Builder : x = y \/ y = z \/ x = z
    PROVE  InternSpec => []OneNodePerStructure
<1>1. InternInit => UniqueInv
  BY InvStart DEF InternInit, UniqueInv, Unique, Apart, ApartOf, Idle
<1>2. UniqueInv /\ [InternNext]_internVars => UniqueInv'
  <2> SUFFICES ASSUME UniqueInv, [InternNext]_internVars PROVE UniqueInv'
    OBVIOUS
  <2>1. CASE InternNext
    <3>1. PICK t \in Builder : InternStep(t)
      BY <2>1 DEF InternNext, InternStep
    <3> QED BY <3>1, UniqueThread
  <2>2. CASE UNCHANGED internVars
    <3>1. InternInv'
      BY InvNext DEF UniqueInv
    <3>2. structure' = structure /\ strong' = strong /\ uops' = uops /\ making' = making /\ frames' = frames
      BY <2>2 DEF internVars
    <3>3. Unique' /\ Apart'
      BY <3>2 DEF UniqueInv, Unique, Apart, ApartOf, Live, Calm, Top
    <3> QED BY <3>1, <3>3 DEF UniqueInv
  <2> QED BY <2>1, <2>2
<1>3. UniqueInv => OneNodePerStructure
  <2> SUFFICES ASSUME UniqueInv, NEW t \in Builder, NEW u \in Builder, NEW m \in handles[t], NEW n \in handles[u],
                      structure[m] = structure[n]
               PROVE  m = n
    BY DEF OneNodePerStructure
  <2>1. m \in uops /\ n \in uops /\ m \in UNode /\ n \in UNode
    BY DEF UniqueInv, InternInv, Deaths, InternShape
  <2>2. Live(m) /\ Live(n)
    BY <2>1, NamedLives DEF UniqueInv, InternInv
  <2> QED BY <2>1, <2>2 DEF UniqueInv, Unique
<1> QED BY <1>1, <1>2, <1>3, PTL DEF InternSpec

---------------------------------------------------------------------------------
(* The compiled-program cache                                                  *)

AboutToPublish ==
    \A t \in Thread : pc[t] = "publish" =>
        t \notin ephemeral /\ made[mine[t]] = [key |-> want[t], ephemeral |-> FALSE]

KernelInv == TypeOK /\ AboutToPublish /\ PublishedAgree /\ PublishedBelong

\* The empty cache satisfies the inductive invariant.
LEMMA KernelInitInv == Init => KernelInv
  BY KernelAssumption DEF Init, KernelInv, TypeOK, AboutToPublish, PublishedAgree,
                          PublishedBelong, Kernel, NoKernel

\* A compilation that succeeds adds a kernel and leaves the others alone.
LEMMA MadeGrows ==
    ASSUME TypeOK, NEW e \in [key : Key, ephemeral : BOOLEAN], made' = Append(made, e)
    PROVE  /\ made' \in Seq([key : Key, ephemeral : BOOLEAN])
           /\ Len(made) \in Nat
           /\ Len(made') = Len(made) + 1
           /\ made'[Len(made')] = e
           /\ \A k \in Kernel : k \in Kernel' /\ made'[k] = made[k]
  BY DEF TypeOK, Kernel

\* Every step of the cache preserves the inductive invariant.
LEMMA KernelStepInv == KernelInv /\ [Next]_vars => KernelInv'
<1> SUFFICES ASSUME KernelInv, [Next]_vars PROVE KernelInv'
  OBVIOUS
<1> USE KernelAssumption
<1>1. ASSUME NEW t \in Thread, NEW k \in Key, NEW eph \in Modes, Call(t, k, eph)
      PROVE  KernelInv'
  BY <1>1 DEF Call, KernelInv, TypeOK, AboutToPublish, PublishedAgree, PublishedBelong, Kernel, NoKernel
<1>2. ASSUME NEW t \in Thread, Get(t) PROVE KernelInv'
  <2>1. CASE map[want[t]] # NoKernel
    <3>1. Return(t, map[want[t]])
      BY <1>2, <2>1 DEF Get
    <3>2. TypeOK'
      BY <1>2, <2>1, <3>1 DEF Get, Return, KernelInv, TypeOK, Kernel, NoKernel
    <3>3. AboutToPublish' /\ PublishedAgree' /\ PublishedBelong'
      BY <1>2, <2>1, <3>1 DEF Get, Return, KernelInv, TypeOK, AboutToPublish, PublishedAgree, PublishedBelong
    <3> QED BY <3>2, <3>3 DEF KernelInv
  <2>2. CASE map[want[t]] = NoKernel
    BY <1>2, <2>2 DEF Get, KernelInv, TypeOK, AboutToPublish, PublishedAgree, PublishedBelong, Kernel, NoKernel
  <2> QED BY <2>1, <2>2
<1>3. ASSUME NEW t \in Thread, Compile(t) PROVE KernelInv'
  <2>1. CASE Return(t, NoKernel) /\ UNCHANGED made
    BY <1>3, <2>1 DEF Compile, Return, KernelInv, TypeOK, AboutToPublish, PublishedAgree,
                      PublishedBelong, Kernel, NoKernel
  <2>2. CASE made' = Append(made, [key |-> want[t], ephemeral |-> t \in ephemeral])
    <3> DEFINE e == [key |-> want[t], ephemeral |-> t \in ephemeral]
    <3>1. e \in [key : Key, ephemeral : BOOLEAN]
      BY DEF KernelInv, TypeOK
    <3>2. /\ made' \in Seq([key : Key, ephemeral : BOOLEAN])
          /\ Len(made) \in Nat
          /\ Len(made') = Len(made) + 1
          /\ made'[Len(made')] = e
          /\ \A k \in Kernel : k \in Kernel' /\ made'[k] = made[k]
      BY <2>2, <3>1, MadeGrows DEF KernelInv
    <3>3. Len(made') \in Kernel' /\ Len(made') # NoKernel
      BY <3>2 DEF Kernel, NoKernel
    <3>4. map' = map /\ want' = want /\ ephemeral' = ephemeral /\ calls' = calls /\ pc[t] = "compile"
      BY <1>3 DEF Compile
    <3>5. PublishedBelong'
      BY <3>2, <3>4 DEF KernelInv, TypeOK, PublishedBelong
    <3>6. CASE Keeps(t)
      <4>1. Return(t, Len(made')) /\ t \in ephemeral
        BY <1>3, <3>3, <2>2, <3>6, <3>2 DEF Compile, Keeps, Return
      <4>2. TypeOK'
        BY <3>2, <3>3, <3>4, <4>1 DEF Return, KernelInv, TypeOK, NoKernel
      <4>3. AboutToPublish'
        BY <3>2, <3>4, <4>1 DEF Return, KernelInv, TypeOK, AboutToPublish
      <4>4. PublishedAgree'
        BY <3>4, <4>1 DEF Return, KernelInv, TypeOK, PublishedAgree
      <4> QED BY <4>2, <4>3, <4>4, <3>5 DEF KernelInv
    <3>7. CASE ~Keeps(t)
      <4>1. /\ t \notin ephemeral /\ got' = got
            /\ mine' = [mine EXCEPT ![t] = Len(made')]
            /\ pc' = [pc EXCEPT ![t] = "publish"]
        BY <1>3, <2>2, <3>2, <3>7 DEF Compile, Keeps, Return
      <4>2. TypeOK'
        BY <3>2, <3>3, <3>4, <4>1 DEF KernelInv, TypeOK, NoKernel
      <4>3. e = [key |-> want[t], ephemeral |-> FALSE]
        <5>1. (t \in ephemeral) = FALSE
          BY <4>1
        <5> QED BY <5>1, Zenon
      <4>4. ASSUME NEW u \in Thread, pc'[u] = "publish"
            PROVE  u \notin ephemeral' /\ made'[mine'[u]] = [key |-> want'[u], ephemeral |-> FALSE]
        <5>1. CASE u = t
          BY <3>2, <3>4, <4>1, <4>3, <5>1 DEF KernelInv, TypeOK
        <5>2. CASE u # t
          <6>1. mine[u] \in Kernel /\ pc[u] = "publish" /\ mine'[u] = mine[u]
            BY <4>1, <4>4, <5>2 DEF KernelInv, TypeOK
          <6> QED BY <3>2, <3>4, <6>1 DEF KernelInv, AboutToPublish
        <5> QED BY <5>1, <5>2
      <4>5. AboutToPublish'
        BY <4>4 DEF AboutToPublish
      <4>6. PublishedAgree'
        BY <3>4, <4>1 DEF KernelInv, TypeOK, PublishedAgree
      <4> QED BY <4>2, <4>5, <4>6, <3>5 DEF KernelInv
    <3> QED BY <3>6, <3>7
  <2> QED BY <1>3, <2>1, <2>2 DEF Compile
<1>4. ASSUME NEW t \in Thread, Publish(t) PROVE KernelInv'
  BY <1>4 DEF Publish, Return, Winner, KernelInv, TypeOK, AboutToPublish, PublishedAgree,
              PublishedBelong, Kernel, NoKernel
<1>5. CASE Finished \/ UNCHANGED vars
  BY <1>5 DEF Finished, vars, KernelInv, TypeOK, AboutToPublish, PublishedAgree, PublishedBelong,
              Kernel, NoKernel
<1> QED BY <1>1, <1>2, <1>3, <1>4, <1>5 DEF Next

\* The invariant holds in every behaviour of the cache.
LEMMA KernelInvariance == Spec => []KernelInv
  BY KernelInitInv, KernelStepInv, PTL DEF Spec

\* However many threads compile one program, every publishing call returns the
\* kernel that stays in the cache (get_or_compile_kernel).
THEOREM KernelCallsAgree == Spec => []PublishedAgree
<1>1. KernelInv => PublishedAgree
  BY DEF KernelInv
<1> QED BY KernelInvariance, <1>1, PTL

\* A published kernel was compiled for its key, by a prepare that is not
\* ephemeral (KernelSite::compile).
THEOREM KernelBelongs == Spec => []PublishedBelong
<1>1. KernelInv => PublishedBelong
  BY DEF KernelInv
<1> QED BY KernelInvariance, <1>1, PTL
---------------------------------------------------------------------------------
(* TensorRegistry: the invariant                                               *)

Store == {FirstGraph[x].store : x \in Tensor}
GraphType == [base : Identity \cup {Const}, store : Store \cup {NoStore}, height : Nat]
HeldType == [root : {0, Const} \cup Inputs \cup Store, height : Nat]
LocalType ==
    [old : GraphType, graph : GraphType, new : GraphType,
     input : Storage \cup {NoStorage}, output : Storage \cup {NoStorage},
     todo : SUBSET Tensor, affected : SUBSET Tensor,
     sources : UNION {[some -> GraphType] : some \in SUBSET Tensor}]

Early == {"start", "ensure", "attach", "const", "wrap", "old", "plan", "adopt", "bind", "allocate", "collect",
          "execute"}
Planned == {"bind", "allocate", "collect", "execute", "register"}
Scanning == {"scan", "snapshot", "apply"}
Renaming == {"reread"} \cup Scanning
Named == {"setuop", "setbuffer"} \cup Renaming

\* The constants are a registry as the program can have one: what is an input is
\* bound, and graphs are over identities or a constant.
WellFormed ==
    /\ Inputs \subseteq Identity \cap Storage /\ Const \notin Identity /\ NoStorage \notin Storage
    /\ FirstGraph \in [Tensor -> GraphType]

\* F is who realizes what: every thread a tensor of its own, and an identity that is
\* stored into belongs to one of these tensors.  Only a store makes a placeholder
\* readable.
OnesOwn(F) ==
    /\ F \in [Realizer -> Tensor]
    /\ \A t, u \in Realizer : t # u => F[t] # F[u]
    /\ \A t \in Realizer :
        LET g == FirstGraph[F[t]]
        IN IF g.store = NoStore THEN g.base \in Inputs \cup {Const}
           ELSE g.base # Const /\ \A u \in Realizer \ {t} : FirstGraph[F[u]].base # g.base

\* What a graph computes from the storages as they are.
Value(g) == Computes(g, contents[buffers[g.base]])

\* The thread has yet to store into the identity of its tensor.
Pending(F, t) == FirstGraph[F[t]].store # NoStore /\ realizing[t] \in Early

\* A bound identity whose storage nobody writes any more.
Settled(F, b) ==
    /\ b \in Identity /\ buffers[b] \in Storage
    /\ \A t \in Realizer : Pending(F, t) => b # FirstGraph[F[t]].base

\* g stands for what the thread's tensor is to be.
Stands(F, t, g) ==
    /\ ~IsConst(g) /\ Value(g) = Meaning(FirstGraph[F[t]])
    /\ g.store = NoStore /\ OnDevice(g) => Settled(F, g.base)
    /\ g.store # NoStore => g = FirstGraph[F[t]]

\* The graph of a tensor that is realized.
Entry(F, t, g) ==
    /\ IF IsConst(g) THEN g = FirstGraph[F[t]] /\ realizing[t] \in {"start", "const", "wrap"}
       ELSE Stands(F, t, g) /\ realizing[t] # "wrap"
    /\ g.store = NoStore => FirstGraph[F[t]].store = NoStore \/ realizing[t] \in {"setbuffer", "done"} \cup Renaming
    /\ realizing[t] \in {"ensure", "attach", "done", "setbuffer"} \cup Renaming => HasIdentity(g)
    /\ realizing[t] = "done" => attached[F[t]] = buffers[g.base]
    /\ HasIdentity(FirstGraph[F[t]]) =>
         /\ g = FirstGraph[F[t]] /\ attached[F[t]] = g.base
         /\ realizing[t] \in {"start", "ensure", "attach", "done"}
    /\ attached[F[t]] # NoStorage => HasIdentity(FirstGraph[F[t]]) \/ realizing[t] \in Named \cup {"done"}

\* The plan of a call.
Planning(F, t, old, graph) ==
    /\ realizing[t] \in {"plan", "entry"} \cup Planned \cup Named =>
         /\ Stands(F, t, old)
         /\ old.store = NoStore => FirstGraph[F[t]].store = NoStore
    /\ realizing[t] \in {"entry"} \cup Planned \cup Named => ~HasIdentity(old)
    /\ realizing[t] = "plan" /\ HasIdentity(old) => HasIdentity(uop[F[t]])
    /\ realizing[t] \in Planned =>
         /\ Stands(F, t, graph)
         /\ graph.store = NoStore => FirstGraph[F[t]].store = NoStore
    /\ realizing[t] = "allocate" => graph.store # NoStore /\ graph.base \notin Inputs
    /\ realizing[t] \in {"collect", "execute"} /\ OnDevice(graph) => buffers[graph.base] \in Storage
    /\ realizing[t] = "execute" /\ OnDevice(graph) => local[t].input = buffers[graph.base]
    /\ realizing[t] \in {"execute", "register"} /\ IsAssign(graph) => local[t].output = local[t].input
    /\ realizing[t] = "register" /\ IsAssign(old) => Settled(F, old.base) /\ local[t].output = buffers[old.base]
    /\ realizing[t] = "register" => contents[local[t].output] = Meaning(FirstGraph[F[t]])

\* The identity that takes the place of the graph.
Replacing(F, t, old, new) ==
    /\ realizing[t] = "wrap" => new = Contiguous(uop[F[t]])
    /\ realizing[t] = "attach" => new = uop[F[t]]
    /\ realizing[t] \in {"entry"} \cup Named =>
         HasIdentity(new) /\ Settled(F, new.base) /\ Value(new) = Meaning(FirstGraph[F[t]])
    /\ realizing[t] \in {"entry", "setuop", "setbuffer"} => local[t].output = buffers[new.base]
    /\ realizing[t] \in Named => attached[F[t]] = buffers[new.base]
    /\ realizing[t] \in {"setbuffer"} \cup Renaming => uop[F[t]] = new
    /\ realizing[t] \in Renaming /\ local[t].affected # {} => OnDevice(old)
    /\ realizing[t] \in {"snapshot", "apply"} => local[t].todo \subseteq local[t].affected

\* The output of a plan that is not an assign is known to its thread alone.
Private(t) ==
    realizing[t] \in {"execute", "register"} /\ ~IsAssign(local[t].graph) =>
      /\ local[t].output \in Storage
      /\ \A b \in Identity : buffers[b] # local[t].output
      /\ \A u \in Realizer \ {t} : local[t].output # local[u].input /\ local[t].output # local[u].output

RegistryTypeOK(F) ==
    /\ task = F
    /\ uop \in [Tensor -> GraphType]
    /\ attached = [x \in Tensor |-> attached[x]]
    /\ buffers \in [Identity -> Storage \cup {NoStorage}]
    /\ contents \in [Storage -> HeldType]
    /\ realizing \in [Realizer -> Early \cup {"register", "entry", "done", "failed"} \cup Named]
    /\ local \in [Realizer -> LocalType]
    /\ \A t \in Realizer : realizing[t] \notin Scanning => local[t].affected = {}

\* Every identity has a storage of its own, an input the one it was made of.
Bindings ==
    /\ \A b, c \in Identity : b # c /\ buffers[b] # NoStorage => buffers[b] # buffers[c]
    /\ \A b \in Inputs : buffers[b] = b

RegistryInv(F) ==
    /\ RegistryTypeOK(F)
    /\ Bindings
    /\ \A t \in Realizer : Private(t)
    /\ \A t \in Realizer : \A g \in GraphType : g = uop[F[t]] => Entry(F, t, g)
    /\ \A t \in Realizer : \A old, graph \in GraphType :
         old = local[t].old /\ graph = local[t].graph => Planning(F, t, old, graph)
    /\ \A t \in Realizer : \A old, new \in GraphType :
         old = local[t].old /\ new = local[t].new => Replacing(F, t, old, new)

\* The numbers of storages and identities do not run out; that they do is an error
\* of the plan (RealizeFails).
Supply ==
    /\ (\E t \in Realizer : realizing[t] \in {"allocate", "collect"}) => \E s \in Storage : s \notin StoragesInUse
    /\ (\E t \in Realizer : realizing[t] = "register") =>
         \E b \in Identity : buffers[b] = NoStorage /\ ~Referenced(b)

---------------------------------------------------------------------------------
(* TensorRegistry: what steps leave as it is                                   *)

\* Settled identities keep their storage and what it holds.
Undisturbed(F) ==
    \A b \in Identity : Settled(F, b) =>
        Settled(F, b)' /\ buffers'[b] = buffers[b] /\ contents'[buffers[b]] = contents[buffers[b]]

\* The step of t ends no thread's planning but its own, and begins none.
Moves(F, t) ==
    /\ \A u \in Realizer \ {t} : realizing'[u] = realizing[u] /\ local'[u] = local[u]
    /\ realizing'[t] \in Early => realizing[t] \in Early

\* Only a graph over an unstored identity depends on what the storages hold.
LEMMA ValueKept ==
    ASSUME WellFormed, NEW g \in GraphType,
           g.store = NoStore /\ OnDevice(g) =>
               buffers'[g.base] = buffers[g.base] /\ contents'[buffers[g.base]] = contents[buffers[g.base]]
    PROVE  Value(g)' = Value(g)
  BY DEF Value, Computes, OnDevice, GraphType

\* A graph that stands for a tensor goes on to do so.
LEMMA StandsKept ==
    ASSUME NEW F, WellFormed, Undisturbed(F), NEW t \in Realizer, NEW g \in GraphType, Stands(F, t, g)
    PROVE  Stands(F, t, g)'
<1>1. g.store = NoStore /\ OnDevice(g) =>
         Settled(F, g.base)' /\ buffers'[g.base] = buffers[g.base] /\ contents'[buffers[g.base]] = contents[buffers[g.base]]
  BY DEF Stands, Undisturbed, Settled
<1>2. Value(g)' = Value(g)
  BY <1>1, ValueKept
<1> QED BY <1>1, <1>2 DEF Stands

\* A step that neither binds nor computes disturbs no storage.
LEMMA QuietUndisturbed ==
    ASSUME NEW F, RegistryInv(F), NEW t \in Realizer, UNCHANGED <<buffers, contents, task>>, Moves(F, t)
    PROVE  Undisturbed(F)
<1>1. \A u \in Realizer : Pending(F, u)' => Pending(F, u)
  BY DEF Moves, Pending
<1> QED BY <1>1 DEF Undisturbed, Settled

\* The graph of another thread's tensor, as a broadcast may replace it.
Replaced(F, u, g, h) ==
    \/ h = g
    \/ /\ ~IsConst(g) /\ ~HasIdentity(g) /\ g.store = NoStore
       /\ ~IsConst(h) /\ h.store = NoStore /\ OnDevice(h) /\ Settled(F, h.base)'
       /\ Value(h)' = Meaning(FirstGraph[F[u]])

\* What a step of t leaves a thread u as it is.
Untouched(F, u) ==
    /\ realizing'[u] = realizing[u] /\ local'[u] = local[u]
    /\ attached'[F[u]] = attached[F[u]]
    /\ Pending(F, u) => buffers'[FirstGraph[F[u]].base] = buffers[FirstGraph[F[u]].base]
    /\ realizing[u] = "register" => contents'[local[u].output] = contents[local[u].output]

\* The tensor another thread realizes.
LEMMA EntryKept ==
    ASSUME NEW F, WellFormed, OnesOwn(F), RegistryInv(F), Undisturbed(F), NEW u \in Realizer, Untouched(F, u),
           NEW g \in GraphType, NEW h \in GraphType, g = uop[F[u]], h = uop'[F[u]], Replaced(F, u, g, h)
    PROVE  Entry(F, u, h)'
<1>1. Entry(F, u, g)
  BY DEF RegistryInv
<1>2. CASE h = g
  <2>1. ~IsConst(g) => Stands(F, u, g)'
    BY <1>1, StandsKept DEF Entry
  <2>2. realizing[u] = "done" => buffers'[g.base] = buffers[g.base]
    BY <1>1 DEF Entry, Stands, Undisturbed, HasIdentity, OnDevice, IsConst, Settled
  <2> QED BY <1>1, <1>2, <2>1, <2>2 DEF Entry, Untouched
<1>3. CASE h # g
  <2>1. Stands(F, u, h)'
    BY <1>3 DEF Replaced, Stands
  <2> QED BY <1>1, <1>3, <2>1 DEF Entry, Untouched, Replaced
<1> QED BY <1>2, <1>3

\* Another thread's plan.
LEMMA PlanningKept ==
    ASSUME NEW F, WellFormed, OnesOwn(F), RegistryInv(F), Undisturbed(F), NEW u \in Realizer, Untouched(F, u),
           NEW g \in GraphType, NEW h \in GraphType, g = uop[F[u]], h = uop'[F[u]], Replaced(F, u, g, h),
           NEW old \in GraphType, NEW graph \in GraphType, old = local[u].old, graph = local[u].graph
    PROVE  Planning(F, u, old, graph)'
<1>1. Planning(F, u, old, graph)
  BY DEF RegistryInv
<1>2. realizing'[u] = realizing[u] /\ local'[u] = local[u]
  BY DEF Untouched
<1>3. realizing[u] \in {"plan", "entry"} \cup Planned \cup Named => Stands(F, u, old)'
  BY <1>1, StandsKept DEF Planning
<1>4. realizing[u] \in Planned => Stands(F, u, graph)'
  BY <1>1, StandsKept DEF Planning
<1>5. realizing[u] = "plan" /\ HasIdentity(old) => HasIdentity(h)
  BY <1>1 DEF Planning, Replaced
<1>6. realizing[u] \in {"collect", "execute"} /\ OnDevice(graph) =>
        buffers'[graph.base] = buffers[graph.base] /\ buffers[graph.base] \in Storage
  <2> SUFFICES ASSUME realizing[u] \in {"collect", "execute"}, OnDevice(graph)
               PROVE  buffers'[graph.base] = buffers[graph.base] /\ buffers[graph.base] \in Storage
    OBVIOUS
  <2>1. buffers[graph.base] \in Storage /\ Stands(F, u, graph)
    BY <1>1 DEF Planning, Planned
  <2>2. CASE graph.store = NoStore
    BY <2>1, <2>2 DEF Stands, Undisturbed, Settled
  <2>3. CASE graph.store # NoStore
    BY <2>1, <2>3 DEF Stands, Untouched, Pending, Early
  <2> QED BY <2>1, <2>2, <2>3
<1>7. realizing[u] = "register" /\ IsAssign(old) => Settled(F, old.base)' /\ local[u].output = buffers'[old.base]
  BY <1>1 DEF Planning, Undisturbed, Settled
<1>8. realizing[u] = "register" => contents'[local[u].output] = Meaning(FirstGraph[F[u]])
  BY <1>1 DEF Planning, Untouched
<1> QED BY <1>1, <1>2, <1>3, <1>4, <1>5, <1>6, <1>7, <1>8 DEF Planning

\* The identity another thread has registered.
LEMMA ReplacingKept ==
    ASSUME NEW F, WellFormed, OnesOwn(F), RegistryInv(F), Undisturbed(F), NEW u \in Realizer, Untouched(F, u),
           NEW g \in GraphType, NEW h \in GraphType, g = uop[F[u]], h = uop'[F[u]], Replaced(F, u, g, h),
           NEW old \in GraphType, NEW new \in GraphType, old = local[u].old, new = local[u].new
    PROVE  Replacing(F, u, old, new)'
<1>1. Replacing(F, u, old, new) /\ Entry(F, u, g)
  BY DEF RegistryInv
<1>2. realizing'[u] = realizing[u] /\ local'[u] = local[u] /\ attached'[F[u]] = attached[F[u]]
  BY DEF Untouched
<1>3. realizing[u] \in {"wrap", "attach", "setbuffer"} \cup Renaming => h = g
  BY <1>1 DEF Entry, Replaced
<1>4. realizing[u] \in {"entry"} \cup Named =>
        Settled(F, new.base)' /\ Value(new)' = Meaning(FirstGraph[F[u]]) /\ buffers'[new.base] = buffers[new.base]
  <2> SUFFICES ASSUME realizing[u] \in {"entry"} \cup Named
               PROVE  Settled(F, new.base)' /\ Value(new)' = Meaning(FirstGraph[F[u]]) /\ buffers'[new.base] = buffers[new.base]
    OBVIOUS
  <2>1. Settled(F, new.base) /\ Value(new) = Meaning(FirstGraph[F[u]])
    BY <1>1 DEF Replacing
  <2>2. Settled(F, new.base)' /\ buffers'[new.base] = buffers[new.base] /\ contents'[buffers[new.base]] = contents[buffers[new.base]]
    BY <2>1 DEF Undisturbed, Settled
  <2> QED BY <2>1, <2>2, ValueKept
<1> QED BY <1>1, <1>2, <1>3, <1>4 DEF Replacing, Named

\* The parts of the invariant that are about one thread.
OfThread(F, u) ==
    /\ \A g \in GraphType : g = uop[F[u]] => Entry(F, u, g)
    /\ \A old, graph \in GraphType : old = local[u].old /\ graph = local[u].graph => Planning(F, u, old, graph)
    /\ \A old, new \in GraphType : old = local[u].old /\ new = local[u].new => Replacing(F, u, old, new)

\* What a thread other than t has, a step of t leaves right.
LEMMA OthersKept ==
    ASSUME NEW F, WellFormed, OnesOwn(F), RegistryInv(F), RegistryTypeOK(F)', Undisturbed(F),
           NEW u \in Realizer, Untouched(F, u), \A g, h \in GraphType : g = uop[F[u]] /\ h = uop'[F[u]] => Replaced(F, u, g, h)
    PROVE  OfThread(F, u)'
<1>1. PICK g \in GraphType : g = uop[F[u]]
  BY DEF RegistryInv, RegistryTypeOK, OnesOwn
<1>2. PICK h \in GraphType : h = uop'[F[u]]
  BY DEF RegistryTypeOK, OnesOwn
<1>3. Replaced(F, u, g, h) /\ local'[u] = local[u]
  BY <1>1, <1>2 DEF Untouched
<1>4. Entry(F, u, h)'
  BY <1>1, <1>2, <1>3, EntryKept
<1>5. \A old, graph \in GraphType : old = local[u].old /\ graph = local[u].graph => Planning(F, u, old, graph)'
  BY <1>1, <1>2, <1>3, PlanningKept
<1>6. \A old, new \in GraphType : old = local[u].old /\ new = local[u].new => Replacing(F, u, old, new)'
  BY <1>1, <1>2, <1>3, ReplacingKept
<1> QED BY <1>2, <1>3, <1>4, <1>5, <1>6 DEF OfThread

---------------------------------------------------------------------------------
(* TensorRegistry: steps that neither bind nor compute                         *)

\* The invariant from what a step does to its own thread, if it leaves the tensors
\* of others what they are to be.
LEMMA SharedStep ==
    ASSUME NEW F, WellFormed, OnesOwn(F), RegistryInv(F), NEW t \in Realizer, Moves(F, t),
           UNCHANGED <<buffers, contents, task>>, RegistryTypeOK(F)',
           \A u \in Realizer \ {t} :
              /\ attached'[F[u]] = attached[F[u]]
              /\ \A g, h \in GraphType : g = uop[F[u]] /\ h = uop'[F[u]] => Replaced(F, u, g, h),
           local'[t].input \in {local[t].input, NoStorage}, local'[t].output \in {local[t].output, NoStorage},
           realizing'[t] \notin {"execute", "register"}, OfThread(F, t)'
    PROVE  RegistryInv(F)'
<1>1. Undisturbed(F)
  BY QuietUndisturbed
<1>2. ASSUME NEW u \in Realizer, u # t PROVE OfThread(F, u)'
  <2>2. Untouched(F, u)
    BY <1>2 DEF Untouched, Moves
  <2>3. \A g, h \in GraphType : g = uop[F[u]] /\ h = uop'[F[u]] => Replaced(F, u, g, h)
    BY <1>2
  <2> QED BY <1>1, <2>2, <2>3, OthersKept
<1>3. \A u \in Realizer : OfThread(F, u)'
  BY <1>2
<1>4. ASSUME NEW u \in Realizer PROVE Private(u)'
  <2>1. CASE u = t
    BY <2>1 DEF Private
  <2>2. CASE u # t
    <3>1. Private(u) /\ realizing'[u] = realizing[u] /\ local'[u] = local[u] /\ NoStorage \notin Storage
      BY <2>2 DEF RegistryInv, Moves, WellFormed
    <3>2. SUFFICES ASSUME realizing[u] \in {"execute", "register"}, ~IsAssign(local[u].graph)
                   PROVE  /\ local[u].output \in Storage
                          /\ \A b \in Identity : buffers'[b] # local[u].output
                          /\ \A v \in Realizer \ {u} : local[u].output # local'[v].input /\ local[u].output # local'[v].output
      BY <3>1 DEF Private
    <3>3. /\ local[u].output \in Storage
          /\ \A b \in Identity : buffers[b] # local[u].output
          /\ \A v \in Realizer \ {u} : local[u].output # local[v].input /\ local[u].output # local[v].output
      BY <3>1, <3>2 DEF Private
    <3>4. ASSUME NEW v \in Realizer \ {u} PROVE local[u].output # local'[v].input /\ local[u].output # local'[v].output
      <4>1. CASE v = t
        BY <3>1, <3>3, <4>1
      <4>2. CASE v # t
        BY <3>3, <4>2 DEF Moves
      <4> QED BY <4>1, <4>2
    <3> QED BY <3>3, <3>4
  <2> QED BY <2>1, <2>2
<1>5. Bindings'
  BY DEF RegistryInv, Bindings
<1> QED BY <1>3, <1>4, <1>5 DEF RegistryInv, OfThread

\* The invariant from what a step does to its own thread, if it is quiet elsewhere.
LEMMA QuietStep ==
    ASSUME NEW F, WellFormed, OnesOwn(F), RegistryInv(F), NEW t \in Realizer, Moves(F, t),
           UNCHANGED <<buffers, contents, task>>, RegistryTypeOK(F)',
           \A x \in Tensor \ {F[t]} : uop'[x] = uop[x] /\ attached'[x] = attached[x],
           local'[t].input \in {local[t].input, NoStorage}, local'[t].output \in {local[t].output, NoStorage},
           realizing'[t] \notin {"execute", "register"}, OfThread(F, t)'
    PROVE  RegistryInv(F)'
<1>1. ASSUME NEW u \in Realizer \ {t}
      PROVE  /\ attached'[F[u]] = attached[F[u]]
             /\ \A g, h \in GraphType : g = uop[F[u]] /\ h = uop'[F[u]] => Replaced(F, u, g, h)
  <2>1. F[u] \in Tensor \ {F[t]}
    BY <1>1 DEF OnesOwn
  <2> QED BY <2>1 DEF Replaced
<1> QED BY <1>1, SharedStep

\* What a thread has between two steps.
LEMMA ThreadState ==
    ASSUME NEW F, OnesOwn(F), RegistryInv(F), NEW t \in Realizer
    PROVE  /\ F[t] \in Tensor /\ task[t] = F[t] /\ uop[F[t]] \in GraphType /\ local[t] \in LocalType
           /\ local[t].old \in GraphType /\ local[t].graph \in GraphType /\ local[t].new \in GraphType
           /\ local[t].input \in Storage \cup {NoStorage} /\ local[t].output \in Storage \cup {NoStorage}
           /\ local[t].todo \in SUBSET Tensor /\ local[t].affected \in SUBSET Tensor
           /\ realizing[t] \notin Scanning => local[t].affected = {}
           /\ Entry(F, t, uop[F[t]])
           /\ Planning(F, t, local[t].old, local[t].graph)
           /\ Replacing(F, t, local[t].old, local[t].new)
<1>1. /\ F[t] \in Tensor /\ task[t] = F[t] /\ uop[F[t]] \in GraphType /\ local[t] \in LocalType
  BY DEF RegistryInv, RegistryTypeOK, OnesOwn
<1>2. /\ local[t].old \in GraphType /\ local[t].graph \in GraphType /\ local[t].new \in GraphType
      /\ local[t].input \in Storage \cup {NoStorage} /\ local[t].output \in Storage \cup {NoStorage}
      /\ local[t].todo \in SUBSET Tensor /\ local[t].affected \in SUBSET Tensor
  BY <1>1 DEF LocalType
<1>3. Entry(F, t, uop[F[t]])
  BY <1>1 DEF RegistryInv
<1>4. Planning(F, t, local[t].old, local[t].graph)
  BY <1>2 DEF RegistryInv
<1>5. Replacing(F, t, local[t].old, local[t].new)
  BY <1>2 DEF RegistryInv
<1> QED BY <1>1, <1>2, <1>3, <1>4, <1>5 DEF RegistryInv, RegistryTypeOK

\* The tensor of a call.
LEMMA AtTarget ==
    ASSUME NEW F, OnesOwn(F), RegistryInv(F), NEW t \in Realizer
    PROVE  Target(t) = F[t] /\ F[t] \in Tensor
  BY ThreadState DEF Target

\* The local variables of a call that has not begun or is over.
LEMMA LocalsType ==
    ASSUME WellFormed
    PROVE  Locals \in LocalType /\ Locals.input = NoStorage /\ Locals.output = NoStorage /\ Locals.affected = {} /\ Fresh \in GraphType
<1>1. Fresh \in GraphType
  BY DEF Fresh, Graph, GraphType
<1>2. <<>> \in [{} -> GraphType] /\ {} \in SUBSET Tensor
  OBVIOUS
<1>3. <<>> \in UNION {[some -> GraphType] : some \in SUBSET Tensor}
  BY <1>2
<1> QED BY <1>1, <1>3 DEF Locals, LocalType

\* A thread that only goes on to another step.
LEMMA OnlyMoves ==
    ASSUME NEW F, WellFormed, OnesOwn(F), RegistryInv(F), NEW t \in Realizer, Moves(F, t),
           UNCHANGED <<uop, attached, buffers, contents, task, local>>, NEW to, RealizeTo(t, to),
           to \in Early \cup {"failed"}, to # "execute", realizing[t] \in Early,
           \A g, old, graph, new \in GraphType :
              g = uop[F[t]] /\ old = local[t].old /\ graph = local[t].graph /\ new = local[t].new
              => Entry(F, t, g)' /\ Planning(F, t, old, graph)' /\ Replacing(F, t, old, new)'
    PROVE  RegistryInv(F)'
<1>1. realizing'[t] = to /\ RegistryTypeOK(F)'
  BY DEF RealizeTo, RegistryInv, RegistryTypeOK, Early, Named, Renaming, Scanning
<1>2. OfThread(F, t)'
  BY ThreadState DEF OfThread
<1>3. realizing'[t] \notin {"execute", "register"}
  BY <1>1 DEF Early
<1> QED BY <1>1, <1>2, <1>3, QuietStep

\* The call looks at its tensor.
LEMMA EnterKeeps ==
    ASSUME NEW F, WellFormed, OnesOwn(F), RegistryInv(F), NEW t \in Realizer, Enter(t)
    PROVE  RegistryInv(F)'
<1>1. PICK to : to = IF HasIdentity(uop[F[t]]) THEN "ensure" ELSE "const"
  OBVIOUS
<1>2. RealizeTo(t, to) /\ realizing[t] = "start" /\ UNCHANGED <<uop, attached, buffers, contents, task, local>>
  BY <1>1, ThreadState DEF Enter, RealizeAt, Target
<1>3. realizing'[t] = to /\ \A u \in Realizer \ {t} : realizing'[u] = realizing[u]
  BY <1>2 DEF RealizeTo, RegistryInv, RegistryTypeOK
<1>4. Moves(F, t)
  BY <1>2, <1>3 DEF Moves, Early
<1>5. Undisturbed(F)
  BY <1>2, <1>4, QuietUndisturbed
<1>6. ASSUME NEW g \in GraphType, NEW old \in GraphType, NEW graph \in GraphType, NEW new \in GraphType,
             g = uop[F[t]], old = local[t].old, graph = local[t].graph, new = local[t].new
      PROVE  Entry(F, t, g)' /\ Planning(F, t, old, graph)' /\ Replacing(F, t, old, new)'
  <2>1. Entry(F, t, g)
    BY <1>6, ThreadState
  <2>2. ~IsConst(g) => Stands(F, t, g)'
    BY <1>5, <2>1, StandsKept DEF Entry
  <2>3. Entry(F, t, g)'
    BY <1>1, <1>2, <1>3, <1>6, <2>1, <2>2 DEF Entry, Named, Renaming, Scanning, HasIdentity, IsConst
  <2>4. Planning(F, t, old, graph)' /\ Replacing(F, t, old, new)'
    BY <1>1, <1>2, <1>3 DEF Planning, Replacing, Planned, Named, Renaming, Scanning
  <2> QED BY <2>3, <2>4
<1> QED BY <1>1, <1>2, <1>4, <1>6, OnlyMoves DEF Early

\* A step that changes a thread's own tensor, its buffer and local variables.
Writes(F, t, to, r, h, a) ==
    /\ RealizeTo(t, to)
    /\ to \in Early \cup {"entry", "done", "failed"} \cup Named /\ to # "execute"
    /\ to \in Early => realizing[t] \in Early
    /\ r \in LocalType /\ local' = [local EXCEPT ![t] = r]
    /\ to \in Scanning \/ r.affected = {}
    /\ r.input \in {local[t].input, NoStorage} /\ r.output \in {local[t].output, NoStorage}
    /\ h \in GraphType /\ uop' = [uop EXCEPT ![F[t]] = h]
    /\ attached' = [attached EXCEPT ![F[t]] = a]
    /\ UNCHANGED <<buffers, contents, task>>

\* What such a step leaves.
LEMMA Written ==
    ASSUME NEW F, WellFormed, OnesOwn(F), RegistryInv(F), NEW t \in Realizer, NEW to, NEW r, NEW h, NEW a,
           Writes(F, t, to, r, h, a)
    PROVE  /\ realizing'[t] = to /\ local'[t] = r /\ uop'[F[t]] = h /\ attached'[F[t]] = a
           /\ Moves(F, t) /\ Undisturbed(F) /\ RegistryTypeOK(F)'
           /\ \A x \in Tensor \ {F[t]} : uop'[x] = uop[x] /\ attached'[x] = attached[x]
           /\ UNCHANGED <<buffers, contents>>
<1>1. /\ realizing'[t] = to /\ local'[t] = r /\ uop'[F[t]] = h /\ attached'[F[t]] = a
      /\ \A u \in Realizer \ {t} : realizing'[u] = realizing[u] /\ local'[u] = local[u]
      /\ \A x \in Tensor \ {F[t]} : uop'[x] = uop[x] /\ attached'[x] = attached[x]
  BY ThreadState DEF Writes, RealizeTo, RegistryInv, RegistryTypeOK
<1>2. Moves(F, t)
  BY <1>1 DEF Writes, Moves
<1>3. Undisturbed(F)
  BY <1>2, QuietUndisturbed DEF Writes
<1>4. RegistryTypeOK(F)'
  <2>1. \A u \in Realizer : realizing'[u] \notin Scanning => local'[u].affected = {}
    BY <1>1 DEF Writes, RegistryInv, RegistryTypeOK
  <2> QED BY <2>1 DEF Writes, RegistryInv, RegistryTypeOK, RealizeTo
<1> QED BY <1>1, <1>2, <1>3, <1>4 DEF Writes

\* It keeps the invariant when what it leaves is right.
LEMMA OwnStep ==
    ASSUME NEW F, WellFormed, OnesOwn(F), RegistryInv(F), NEW t \in Realizer, NEW to, NEW r, NEW h, NEW a,
           Writes(F, t, to, r, h, a), NEW old, NEW graph, NEW new, old = r.old, graph = r.graph, new = r.new,
           Entry(F, t, h)', Planning(F, t, old, graph)', Replacing(F, t, old, new)'
    PROVE  RegistryInv(F)'
<1>1. /\ local'[t] = r /\ uop'[F[t]] = h /\ realizing'[t] = to
      /\ Moves(F, t) /\ RegistryTypeOK(F)'
      /\ \A x \in Tensor \ {F[t]} : uop'[x] = uop[x] /\ attached'[x] = attached[x]
  BY Written
<1>2. OfThread(F, t)'
  BY <1>1 DEF OfThread
<1>3. /\ to \notin {"execute", "register"} /\ UNCHANGED <<buffers, contents, task>>
      /\ to \in Scanning \/ r.affected = {}
    /\ r.input \in {local[t].input, NoStorage} /\ r.output \in {local[t].output, NoStorage}
  BY DEF Early, Named, Renaming, Scanning, Writes
<1> QED BY <1>1, <1>2, <1>3, QuietStep

\* Writing back what is there changes nothing.
LEMMA WrittenBack ==
    ASSUME NEW F, OnesOwn(F), RegistryInv(F), NEW t \in Realizer
    PROVE  /\ local = [local EXCEPT ![t] = local[t]]
           /\ uop = [uop EXCEPT ![F[t]] = uop[F[t]]]
           /\ attached = [attached EXCEPT ![F[t]] = attached[F[t]]]
  BY ThreadState DEF RegistryInv, RegistryTypeOK

\* The entry of a tensor whose graph a step of its thread leaves alone.
LEMMA GraphKept ==
    ASSUME NEW F, WellFormed, OnesOwn(F), RegistryInv(F), NEW t \in Realizer, Undisturbed(F)
    PROVE  /\ ~IsConst(uop[F[t]]) => \A g \in GraphType : g = uop[F[t]] => Stands(F, t, g)'
           /\ \A g \in GraphType : g = uop[F[t]] /\ g.store = NoStore /\ OnDevice(g) =>
                buffers'[g.base] = buffers[g.base] /\ Settled(F, g.base)
<1>1. PICK g \in GraphType : g = uop[F[t]]
  BY ThreadState
<1>2. Entry(F, t, g)
  BY <1>1, ThreadState
<1>3. ~IsConst(g) => Stands(F, t, g) /\ Stands(F, t, g)'
  BY <1>2, StandsKept DEF Entry
<1>4. ASSUME g.store = NoStore, OnDevice(g) PROVE buffers'[g.base] = buffers[g.base] /\ Settled(F, g.base)
  <2>1. Settled(F, g.base)
    BY <1>3, <1>4 DEF Stands, OnDevice, IsConst
  <2> QED BY <2>1 DEF Settled, Undisturbed
<1> QED BY <1>1, <1>3, <1>4


\* ensure_buffer reads the identity.
LEMMA EnsureKeeps ==
    ASSUME NEW F, WellFormed, OnesOwn(F), RegistryInv(F), NEW t \in Realizer, EnsureBuffer(t)
    PROVE  RegistryInv(F)'
<1>1. PICK g \in GraphType : g = uop[F[t]]
  BY ThreadState
<1>2. PICK r : r = [Locals EXCEPT !.new = g]
  OBVIOUS
<1>3. /\ r \in LocalType /\ r.new = g /\ r.input = NoStorage /\ r.output = NoStorage /\ r.affected = {}
      /\ r.old = Fresh /\ r.graph = Fresh /\ Fresh \in GraphType
  BY <1>1, <1>2, LocalsType DEF LocalType, Locals
<1>4. PICK a : a = attached[F[t]]
  OBVIOUS
<1>5. realizing[t] = "ensure" /\ Writes(F, t, "attach", r, g, a)
  <2>1. /\ realizing[t] = "ensure" /\ RealizeTo(t, "attach") /\ local' = [local EXCEPT ![t] = r]
        /\ UNCHANGED <<uop, attached, buffers, contents, task>>
    BY <1>1, <1>2, AtTarget DEF EnsureBuffer, RealizeAt
  <2>2. uop' = [uop EXCEPT ![F[t]] = g] /\ attached' = [attached EXCEPT ![F[t]] = a]
    BY <1>1, <1>4, <2>1, WrittenBack
  <2> QED BY <1>1, <1>3, <2>1, <2>2 DEF Writes, Early
<1>6. /\ Undisturbed(F) /\ realizing'[t] = "attach" /\ local'[t] = r /\ uop'[F[t]] = g /\ attached'[F[t]] = a
  BY <1>5, Written
<1>7. Entry(F, t, g)'
  <2>1. Entry(F, t, g) /\ (~IsConst(g) => Stands(F, t, g)')
    BY <1>1, <1>6, ThreadState, GraphKept
  <2> QED BY <1>4, <1>5, <1>6, <2>1 DEF Entry, Named, Renaming, Scanning, HasIdentity, IsConst
<1>8. Planning(F, t, Fresh, Fresh)'
  BY <1>6 DEF Planning, Planned, Named, Renaming, Scanning
<1>9. Replacing(F, t, Fresh, g)'
  BY <1>6 DEF Replacing, Named, Renaming, Scanning
<1> QED BY <1>3, <1>5, <1>7, <1>8, <1>9, OwnStep

\* ensure_buffer attaches the storage of the identity.
LEMMA AttachKeeps ==
    ASSUME NEW F, WellFormed, OnesOwn(F), RegistryInv(F), NEW t \in Realizer, Attach(t)
    PROVE  RegistryInv(F)'
<1>1. PICK g \in GraphType : g = uop[F[t]]
  BY ThreadState
<1>2. realizing[t] = "attach" /\ Entry(F, t, g) /\ local[t].new = g /\ F[t] \in Tensor /\ task[t] = F[t]
  BY <1>1, ThreadState DEF Attach, RealizeAt, Replacing
<1>3. HasIdentity(g) /\ Settled(F, g.base) /\ buffers[g.base] \in Storage /\ buffers[g.base] # NoStorage
  BY <1>2 DEF Entry, Stands, HasIdentity, OnDevice, IsConst, Settled, WellFormed
<1>4. GetBuffer(g.base) = buffers[g.base]
  <2>1. Referenced(g.base)
    BY <1>1, <1>2 DEF Referenced
  <2> QED BY <1>3, <2>1 DEF GetBuffer, HasIdentity
<1>5. PICK a : a = buffers[g.base]
  OBVIOUS
<1>6. attached' = [attached EXCEPT ![F[t]] = a]
  <2>1. attached' = SetOnce(F[t], a)
    BY <1>2, <1>3, <1>4, <1>5 DEF Attach, Target
  <2>2. CASE attached[F[t]] = NoStorage
    BY <2>1, <2>2 DEF SetOnce
  <2>3. CASE attached[F[t]] # NoStorage
    <3>1. HasIdentity(FirstGraph[F[t]])
      BY <1>2, <2>3 DEF Entry, Named, Renaming, Scanning
    <3>2. g = FirstGraph[F[t]] /\ attached[F[t]] = g.base
      BY <1>2, <3>1 DEF Entry
    <3>3. g.base \in Inputs
      BY <3>1, <3>2 DEF OnesOwn, HasIdentity
    <3>4. attached[F[t]] = a
      BY <1>5, <3>2, <3>3 DEF RegistryInv, Bindings
    <3> QED BY <2>1, <2>3, <3>4, WrittenBack DEF SetOnce
  <2> QED BY <2>2, <2>3
<1>7. PICK r : r = Locals
  OBVIOUS
<1>8. r \in LocalType /\ r.input = NoStorage /\ r.output = NoStorage /\ r.affected = {} /\ r.old = Fresh /\ r.graph = Fresh /\ r.new = Fresh
  BY <1>7, LocalsType DEF Locals
<1>9. Writes(F, t, "done", r, g, a)
  <2>1. RealizeTo(t, "done") /\ local' = [local EXCEPT ![t] = r] /\ UNCHANGED <<uop, buffers, contents, task>>
    BY <1>7 DEF Attach
  <2>2. uop' = [uop EXCEPT ![F[t]] = g]
    BY <1>1, <2>1, WrittenBack
  <2> QED BY <1>1, <1>6, <1>8, <2>1, <2>2 DEF Writes, Early
<1>10. /\ Undisturbed(F) /\ realizing'[t] = "done" /\ local'[t] = r /\ uop'[F[t]] = g /\ attached'[F[t]] = a
       /\ buffers' = buffers
  BY <1>9, Written
<1>11. Entry(F, t, g)'
  <2>1. Stands(F, t, g)' /\ ~IsConst(g)
    BY <1>1, <1>3, <1>10, GraphKept DEF HasIdentity, IsConst
  <2>2. HasIdentity(FirstGraph[F[t]]) => g = FirstGraph[F[t]] /\ a = g.base
    <3>1. ASSUME HasIdentity(FirstGraph[F[t]]) PROVE g = FirstGraph[F[t]] /\ g.base \in Inputs
      BY <1>2, <3>1 DEF Entry, OnesOwn, HasIdentity
    <3> QED BY <1>5, <3>1 DEF RegistryInv, Bindings
  <2> QED BY <1>2, <1>3, <1>5, <1>10, <2>1, <2>2 DEF Entry, Named, Renaming, Scanning
<1>12. Planning(F, t, Fresh, Fresh)'
  BY <1>10 DEF Planning, Planned, Named, Renaming, Scanning
<1>13. Replacing(F, t, Fresh, Fresh)'
  BY <1>10 DEF Replacing, Named, Renaming, Scanning
<1> QED BY <1>8, <1>9, <1>11, <1>12, <1>13, OwnStep

\* Local variables alone.
LEMMA WritesLocals ==
    ASSUME NEW F, OnesOwn(F), RegistryInv(F), NEW t \in Realizer, NEW to, RealizeTo(t, to),
           to \in Early \cup {"entry", "done", "failed"} \cup Named, to # "execute",
           to \in Early => realizing[t] \in Early,
           NEW r \in LocalType, to \in Scanning \/ r.affected = {}, local' = [local EXCEPT ![t] = r],
           r.input \in {local[t].input, NoStorage}, r.output \in {local[t].output, NoStorage},
           NEW g, g = uop[F[t]], NEW a, a = attached[F[t]], UNCHANGED <<uop, attached, buffers, contents, task>>
    PROVE  Writes(F, t, to, r, g, a)
<1>1. uop' = [uop EXCEPT ![F[t]] = g] /\ attached' = [attached EXCEPT ![F[t]] = a]
  BY WrittenBack
<1> QED BY <1>1, ThreadState DEF Writes

\* A constant is wrapped, anything else is left.
LEMMA WrapKeeps ==
    ASSUME NEW F, WellFormed, OnesOwn(F), RegistryInv(F), NEW t \in Realizer, WrapConst(t)
    PROVE  RegistryInv(F)'
<1>1. PICK g \in GraphType : g = uop[F[t]]
  BY ThreadState
<1>2. PICK a : a = attached[F[t]]
  OBVIOUS
<1>3. /\ realizing[t] = "const" /\ Entry(F, t, g) /\ task[t] = F[t] /\ F[t] \in Tensor /\ local[t] \in LocalType
      /\ local[t].affected = {}
      /\ UNCHANGED <<uop, attached, buffers, contents, task>>
  BY <1>1, ThreadState DEF WrapConst, RealizeAt, Scanning
<1>4. PICK to, r : /\ RealizeTo(t, to) /\ local' = [local EXCEPT ![t] = r]
                   /\ \/ IsConst(g) /\ to = "wrap" /\ r = [local[t] EXCEPT !.new = Contiguous(g)]
                      \/ ~IsConst(g) /\ to = "old" /\ r = local[t]
  BY <1>1, <1>3, WrittenBack DEF WrapConst, Target
<1>5. /\ r \in LocalType /\ r.input = local[t].input /\ r.output = local[t].output /\ r.affected = {}
      /\ r.old = local[t].old /\ r.graph = local[t].graph
      /\ to = "wrap" => r.new = Contiguous(g)
  <2>1. Contiguous(g) \in GraphType
    BY <1>1 DEF Contiguous, GraphType
  <2> QED BY <1>3, <1>4, <2>1 DEF LocalType
<1>6. Writes(F, t, to, r, g, a)
  BY <1>1, <1>2, <1>3, <1>4, <1>5, WritesLocals DEF Early
<1>7. /\ Undisturbed(F) /\ realizing'[t] = to /\ local'[t] = r /\ uop'[F[t]] = g /\ attached'[F[t]] = a
  BY <1>6, Written
<1>8. Entry(F, t, g)'
  <2>1. ~IsConst(g) => Stands(F, t, g)'
    BY <1>1, <1>7, GraphKept
  <2> QED BY <1>2, <1>3, <1>4, <1>7, <2>1 DEF Entry, Named, Renaming, Scanning, HasIdentity, IsConst
<1>9. PICK old, graph, new : old = r.old /\ graph = r.graph /\ new = r.new
  OBVIOUS
<1>10. Planning(F, t, old, graph)'
  BY <1>4, <1>7 DEF Planning, Planned, Named, Renaming, Scanning
<1>11. Replacing(F, t, old, new)'
  BY <1>4, <1>5, <1>7, <1>9 DEF Replacing, Named, Renaming, Scanning
<1> QED BY <1>6, <1>8, <1>9, <1>10, <1>11, OwnStep

\* set_uop puts the wrapped constant into the entry.
LEMMA StoreWrappedKeeps ==
    ASSUME NEW F, WellFormed, OnesOwn(F), RegistryInv(F), NEW t \in Realizer, StoreWrapped(t)
    PROVE  RegistryInv(F)'
<1>1. PICK g \in GraphType : g = uop[F[t]]
  BY ThreadState
<1>2. PICK a, r : a = attached[F[t]] /\ r = local[t]
  OBVIOUS
<1>3. PICK h : h = Contiguous(g)
  OBVIOUS
<1>4. /\ realizing[t] = "wrap" /\ Entry(F, t, g) /\ Replacing(F, t, r.old, r.new) /\ task[t] = F[t] /\ F[t] \in Tensor
      /\ RealizeTo(t, "old") /\ local[t].affected = {}
      /\ UNCHANGED <<attached, buffers, contents, task, local>> /\ uop' = [uop EXCEPT ![F[t]] = r.new]
  BY <1>1, <1>2, ThreadState DEF StoreWrapped, RealizeAt, Target, Scanning
<1>5. /\ IsConst(g) /\ g = FirstGraph[F[t]] /\ r.new = h /\ h \in GraphType
      /\ h.base = Const /\ h.store = g.store /\ h.height = 1 /\ h # g
  BY <1>1, <1>3, <1>4 DEF Entry, Replacing, Contiguous, IsConst, GraphType
<1>6. g.store = NoStore
  BY <1>4, <1>5 DEF OnesOwn, IsConst, WellFormed
<1>7. Writes(F, t, "old", r, h, a)
  <2>1. local' = [local EXCEPT ![t] = r] /\ attached' = [attached EXCEPT ![F[t]] = a] /\ r \in LocalType
    BY <1>2, <1>4, WrittenBack, ThreadState
  <2> QED BY <1>2, <1>4, <1>5, <2>1 DEF Writes, Early
<1>8. /\ Undisturbed(F) /\ realizing'[t] = "old" /\ local'[t] = r /\ uop'[F[t]] = h /\ attached'[F[t]] = a
  BY <1>7, Written
<1>9. Entry(F, t, h)'
  <2>1. Value(h)' = Meaning(FirstGraph[F[t]]) /\ ~IsConst(h) /\ ~OnDevice(h) /\ ~HasIdentity(h) /\ h.store = NoStore
    BY <1>3, <1>5, <1>6 DEF Value, Meaning, Computes, IsConst, OnDevice, HasIdentity
  <2>2. ~HasIdentity(g)
    BY <1>5 DEF HasIdentity, IsConst
  <2> QED BY <1>2, <1>4, <1>5, <1>6, <1>8, <2>1, <2>2 DEF Entry, Stands, Named, Renaming, Scanning
<1>10. PICK old, graph, new : old = r.old /\ graph = r.graph /\ new = r.new
  OBVIOUS
<1>11. Planning(F, t, old, graph)' /\ Replacing(F, t, old, new)'
  BY <1>8 DEF Planning, Planned, Replacing, Named, Renaming, Scanning
<1> QED BY <1>7, <1>9, <1>10, <1>11, OwnStep

---------------------------------------------------------------------------------
(* TensorRegistry: the plan                                                    *)

\* realize reads the graph it will replace.
LEMMA ReadOldKeeps ==
    ASSUME NEW F, WellFormed, OnesOwn(F), RegistryInv(F), NEW t \in Realizer, ReadOld(t)
    PROVE  RegistryInv(F)'
<1>1. PICK g \in GraphType : g = uop[F[t]]
  BY ThreadState
<1>2. PICK a, r : a = attached[F[t]] /\ r = [local[t] EXCEPT !.old = g]
  OBVIOUS
<1>3. /\ realizing[t] = "old" /\ Entry(F, t, g) /\ local[t] \in LocalType /\ local[t].affected = {} /\ RealizeTo(t, "plan")
      /\ local' = [local EXCEPT ![t] = r] /\ UNCHANGED <<uop, attached, buffers, contents, task>>
  <2>1. /\ realizing[t] = "old" /\ RealizeTo(t, "plan") /\ local' = [local EXCEPT ![t] = r]
        /\ UNCHANGED <<uop, attached, buffers, contents, task>>
    BY <1>1, <1>2, AtTarget DEF ReadOld, RealizeAt
  <2> QED BY <1>1, <2>1, ThreadState DEF Scanning
<1>4. /\ r \in LocalType /\ r.input = local[t].input /\ r.output = local[t].output /\ r.old = g /\ r.affected = {}
  BY <1>1, <1>2, <1>3 DEF LocalType
<1>5. Writes(F, t, "plan", r, g, a)
  BY <1>1, <1>2, <1>3, <1>4, WritesLocals DEF Early
<1>6. /\ Undisturbed(F) /\ realizing'[t] = "plan" /\ local'[t] = r /\ uop'[F[t]] = g /\ attached'[F[t]] = a
  BY <1>5, Written
<1>7. ~IsConst(g) /\ Stands(F, t, g)'
  BY <1>1, <1>3, <1>6, GraphKept DEF Entry
<1>8. Entry(F, t, g)'
  BY <1>2, <1>3, <1>6, <1>7 DEF Entry, Named, Renaming, Scanning
<1>9. PICK graph, new : graph = r.graph /\ new = r.new
  OBVIOUS
<1>10. Planning(F, t, g, graph)'
  BY <1>3, <1>6, <1>7 DEF Planning, Planned, Named, Renaming, Scanning, Entry
<1>11. Replacing(F, t, g, new)'
  BY <1>6 DEF Replacing, Named, Renaming, Scanning
<1> QED BY <1>4, <1>5, <1>8, <1>9, <1>10, <1>11, OwnStep

\* prepare_plan_with reads it again.
LEMMA PrepareKeeps ==
    ASSUME NEW F, WellFormed, OnesOwn(F), RegistryInv(F), NEW t \in Realizer, PreparePlan(t)
    PROVE  RegistryInv(F)'
<1>1. PICK g \in GraphType : g = uop[F[t]]
  BY ThreadState
<1>2. PICK a, r, to : /\ a = attached[F[t]] /\ r = [local[t] EXCEPT !.graph = g]
                      /\ to = IF HasIdentity(g) THEN "adopt" ELSE "bind"
  OBVIOUS
<1>3. /\ realizing[t] = "plan" /\ Entry(F, t, g) /\ local[t] \in LocalType /\ local[t].affected = {} /\ RealizeTo(t, to)
      /\ Planning(F, t, local[t].old, local[t].graph)
      /\ local' = [local EXCEPT ![t] = r] /\ UNCHANGED <<uop, attached, buffers, contents, task>>
  <2>1. /\ realizing[t] = "plan" /\ RealizeTo(t, to) /\ local' = [local EXCEPT ![t] = r]
        /\ UNCHANGED <<uop, attached, buffers, contents, task>>
    BY <1>1, <1>2, AtTarget DEF PreparePlan, RealizeAt
  <2> QED BY <1>1, <2>1, ThreadState DEF Scanning
<1>4. PICK old \in GraphType : old = local[t].old
  BY ThreadState
<1>5. /\ r \in LocalType /\ r.input = local[t].input /\ r.output = local[t].output /\ r.graph = g /\ r.old = old /\ r.affected = {}
  BY <1>1, <1>2, <1>3, <1>4 DEF LocalType
<1>6. Writes(F, t, to, r, g, a)
  BY <1>1, <1>2, <1>3, <1>5, WritesLocals DEF Early
<1>7. /\ Undisturbed(F) /\ realizing'[t] = to /\ local'[t] = r /\ uop'[F[t]] = g /\ attached'[F[t]] = a
  BY <1>6, Written
<1>8. ~IsConst(g) /\ Stands(F, t, g)'
  BY <1>1, <1>3, <1>7, GraphKept DEF Entry
<1>9. Entry(F, t, g)'
  BY <1>2, <1>3, <1>7, <1>8 DEF Entry, Named, Renaming, Scanning
<1>10. Stands(F, t, old)' /\ (HasIdentity(old) => HasIdentity(g)) /\ (old.store = NoStore => FirstGraph[F[t]].store = NoStore)
  BY <1>1, <1>3, <1>4, <1>7, StandsKept DEF Planning
<1>11. Planning(F, t, old, g)'
  BY <1>2, <1>3, <1>7, <1>8, <1>10 DEF Planning, Planned, Named, Renaming, Scanning, Entry
<1>12. PICK new : new = r.new
  OBVIOUS
<1>13. Replacing(F, t, old, new)'
  BY <1>2, <1>7 DEF Replacing, Named, Renaming, Scanning
<1> QED BY <1>5, <1>6, <1>9, <1>11, <1>12, <1>13, OwnStep

\* A step that changes no variable but where the thread is.
LEMMA CallGoesOn ==
    ASSUME NEW F, WellFormed, OnesOwn(F), RegistryInv(F), NEW t \in Realizer, NEW to, RealizeTo(t, to),
           to \in Early \cup {"failed"}, to # "execute", realizing[t] \in Early,
           UNCHANGED <<uop, attached, buffers, contents, task, local>>
    PROVE  /\ Moves(F, t) /\ Undisturbed(F) /\ realizing'[t] = to
           /\ \A g \in GraphType : g = uop[F[t]] => Entry(F, t, g) /\ (~IsConst(g) => Stands(F, t, g)')
<1>1. Moves(F, t) /\ realizing'[t] = to
  BY DEF RealizeTo, RegistryInv, RegistryTypeOK, Moves
<1>2. Undisturbed(F)
  BY <1>1, QuietUndisturbed
<1> QED BY <1>1, <1>2, GraphKept, ThreadState

\* adopt_concurrently_realized.
LEMMA AdoptKeeps ==
    ASSUME NEW F, WellFormed, OnesOwn(F), RegistryInv(F), NEW t \in Realizer, Adopt(t)
    PROVE  RegistryInv(F)'
<1>1. PICK to : to = IF HasIdentity(uop[F[t]]) THEN "ensure" ELSE "failed"
  OBVIOUS
<1>2. RealizeTo(t, to) /\ realizing[t] = "adopt" /\ UNCHANGED <<uop, attached, buffers, contents, task, local>>
  BY <1>1, ThreadState DEF Adopt, RealizeAt, Target
<1>3. /\ Moves(F, t) /\ Undisturbed(F) /\ realizing'[t] = to
      /\ \A g \in GraphType : g = uop[F[t]] => Entry(F, t, g) /\ (~IsConst(g) => Stands(F, t, g)')
  BY <1>1, <1>2, CallGoesOn DEF Early
<1>4. ASSUME NEW g \in GraphType, NEW old \in GraphType, NEW graph \in GraphType, NEW new \in GraphType,
             g = uop[F[t]], old = local[t].old, graph = local[t].graph, new = local[t].new
      PROVE  Entry(F, t, g)' /\ Planning(F, t, old, graph)' /\ Replacing(F, t, old, new)'
  <2>1. Entry(F, t, g) /\ (~IsConst(g) => Stands(F, t, g)')
    BY <1>3, <1>4
  <2>2. Entry(F, t, g)'
    BY <1>1, <1>2, <1>3, <1>4, <2>1 DEF Entry, Named, Renaming, Scanning, HasIdentity, IsConst
  <2>3. Planning(F, t, old, graph)' /\ Replacing(F, t, old, new)'
    BY <1>1, <1>2, <1>3 DEF Planning, Replacing, Planned, Named, Renaming, Scanning
  <2> QED BY <2>2, <2>3
<1> QED BY <1>1, <1>2, <1>3, <1>4, OnlyMoves DEF Early

\* bind_graph_buffers: a placeholder without storage is one that is stored into.
LEMMA BindCheckKeeps ==
    ASSUME NEW F, WellFormed, OnesOwn(F), RegistryInv(F), NEW t \in Realizer, BindCheck(t)
    PROVE  RegistryInv(F)'
<1>1. PICK to : to = IF OnDevice(local[t].graph) /\ GetBuffer(local[t].graph.base) = NoStorage THEN "allocate" ELSE "collect"
  OBVIOUS
<1>2. RealizeTo(t, to) /\ realizing[t] = "bind" /\ UNCHANGED <<uop, attached, buffers, contents, task, local>>
  BY <1>1 DEF BindCheck, RealizeAt
<1>3. /\ Moves(F, t) /\ Undisturbed(F) /\ realizing'[t] = to
      /\ \A g \in GraphType : g = uop[F[t]] => Entry(F, t, g) /\ (~IsConst(g) => Stands(F, t, g)')
  BY <1>1, <1>2, CallGoesOn DEF Early
<1>4. ASSUME NEW g \in GraphType, NEW old \in GraphType, NEW graph \in GraphType, NEW new \in GraphType,
             g = uop[F[t]], old = local[t].old, graph = local[t].graph, new = local[t].new
      PROVE  Entry(F, t, g)' /\ Planning(F, t, old, graph)' /\ Replacing(F, t, old, new)'
  <2>1. Entry(F, t, g) /\ (~IsConst(g) => Stands(F, t, g)')
    BY <1>3, <1>4
  <2>2. Entry(F, t, g)'
    BY <1>1, <1>2, <1>3, <1>4, <2>1 DEF Entry, Named, Renaming, Scanning, HasIdentity, IsConst
  <2>3. Planning(F, t, old, graph)
    BY <1>4, ThreadState
  <2>4. Stands(F, t, old)' /\ Stands(F, t, graph)'
    BY <1>2, <1>3, <2>3, StandsKept DEF Planning, Planned
  <2>5. OnDevice(graph) => GetBuffer(graph.base) = buffers[graph.base] /\ graph.base \in Identity
    <3>1. Referenced(graph.base)
      BY <1>4 DEF Referenced
    <3> QED BY <3>1 DEF GetBuffer, OnDevice, GraphType
  <2>6. to = "allocate" => graph.store # NoStore /\ graph.base \notin Inputs
    <3>1. SUFFICES ASSUME to = "allocate" PROVE graph.store # NoStore /\ graph.base \notin Inputs
      OBVIOUS
    <3>2. OnDevice(graph) /\ buffers[graph.base] = NoStorage
      BY <1>1, <1>4, <2>5, <3>1
    <3>3. graph.store # NoStore
      BY <1>2, <2>3, <3>2 DEF Planning, Planned, Stands, Settled, WellFormed
    <3>4. graph.base \notin Inputs
      BY <3>2 DEF RegistryInv, Bindings, WellFormed
    <3> QED BY <3>3, <3>4
  <2>7. to = "collect" /\ OnDevice(graph) => buffers[graph.base] \in Storage
    BY <1>1, <1>4, <2>5 DEF RegistryInv, RegistryTypeOK
  <2>8. Planning(F, t, old, graph)'
    BY <1>1, <1>2, <1>3, <2>3, <2>4, <2>6, <2>7 DEF Planning, Planned, Named, Renaming, Scanning
  <2>9. Replacing(F, t, old, new)'
    BY <1>1, <1>3 DEF Replacing, Named, Renaming, Scanning
  <2> QED BY <2>2, <2>8, <2>9
<1> QED BY <1>1, <1>2, <1>3, <1>4, OnlyMoves DEF Early

\* A plan that fails leaves the tensor as it is.
LEMMA FailsKeeps ==
    ASSUME NEW F, WellFormed, OnesOwn(F), RegistryInv(F), NEW t \in Realizer, RealizeFails(t)
    PROVE  RegistryInv(F)'
<1>1. PICK g \in GraphType : g = uop[F[t]]
  BY ThreadState
<1>2. PICK a, r : a = attached[F[t]] /\ r = Locals
  OBVIOUS
<1>3. /\ realizing[t] \in {"collect", "execute"} /\ Entry(F, t, g) /\ RealizeTo(t, "failed")
      /\ local' = [local EXCEPT ![t] = r] /\ UNCHANGED <<uop, attached, buffers, contents, task>>
  BY <1>1, <1>2, ThreadState DEF RealizeFails, RealizeAt
<1>4. r \in LocalType /\ r.input = NoStorage /\ r.output = NoStorage /\ r.affected = {}
  BY <1>2, LocalsType
<1>5. Writes(F, t, "failed", r, g, a)
  BY <1>1, <1>2, <1>3, <1>4, WritesLocals DEF Early
<1>6. /\ Undisturbed(F) /\ realizing'[t] = "failed" /\ local'[t] = r /\ uop'[F[t]] = g /\ attached'[F[t]] = a
  BY <1>5, Written
<1>7. Entry(F, t, g)'
  <2>1. ~IsConst(g) => Stands(F, t, g)'
    BY <1>1, <1>6, GraphKept
  <2> QED BY <1>2, <1>3, <1>6, <2>1 DEF Entry, Named, Renaming, Scanning
<1>8. PICK old, graph, new : old = r.old /\ graph = r.graph /\ new = r.new
  OBVIOUS
<1>9. Planning(F, t, old, graph)' /\ Replacing(F, t, old, new)'
  BY <1>6 DEF Planning, Planned, Replacing, Named, Renaming, Scanning
<1> QED BY <1>5, <1>7, <1>8, <1>9, OwnStep

---------------------------------------------------------------------------------
(* TensorRegistry: finalize_realize and the scan of the broadcast              *)

\* Where a thread is, and what is known of its graphs there.
LEMMA Finalizing ==
    ASSUME NEW F, WellFormed, OnesOwn(F), RegistryInv(F), NEW t \in Realizer,
           realizing[t] \in {"register", "entry"} \cup Named
    PROVE  /\ Stands(F, t, local[t].old) /\ ~HasIdentity(local[t].old)
           /\ local[t].old.store = NoStore => FirstGraph[F[t]].store = NoStore
           /\ ~HasIdentity(FirstGraph[F[t]])
           /\ realizing[t] \in {"register", "entry"} => attached[F[t]] = NoStorage
           /\ realizing[t] \in {"entry"} \cup Named =>
                /\ HasIdentity(local[t].new) /\ Settled(F, local[t].new.base)
                /\ Value(local[t].new) = Meaning(FirstGraph[F[t]])
<1>1. /\ Entry(F, t, uop[F[t]]) /\ Planning(F, t, local[t].old, local[t].graph)
      /\ Replacing(F, t, local[t].old, local[t].new)
  BY ThreadState
<1>2. ~HasIdentity(FirstGraph[F[t]])
  BY <1>1 DEF Entry, Named, Renaming, Scanning
<1>3. realizing[t] \in {"register", "entry"} => attached[F[t]] = NoStorage
  BY <1>1, <1>2 DEF Entry, Named, Renaming, Scanning
<1>4. /\ Stands(F, t, local[t].old) /\ ~HasIdentity(local[t].old)
      /\ local[t].old.store = NoStore => FirstGraph[F[t]].store = NoStore
  BY <1>1 DEF Planning, Planned
<1> QED BY <1>1, <1>2, <1>3, <1>4 DEF Replacing

\* It stays known.
LEMMA StaysFinal ==
    ASSUME NEW F, WellFormed, OnesOwn(F), RegistryInv(F), NEW t \in Realizer,
           realizing[t] \in {"register", "entry"} \cup Named, Undisturbed(F),
           realizing'[t] \in {"entry"} \cup Named,
           NEW old \in GraphType, NEW graph, old = local[t].old
    PROVE  Planning(F, t, old, graph)'
<1>1. /\ Stands(F, t, old) /\ ~HasIdentity(old) /\ (old.store = NoStore => FirstGraph[F[t]].store = NoStore)
  BY Finalizing
<1>2. Stands(F, t, old)'
  BY <1>1, StandsKept
<1> QED BY <1>1, <1>2 DEF Planning, Planned, Named, Renaming, Scanning

\* So does the identity, once it is registered.
LEMMA StaysSettled ==
    ASSUME NEW F, WellFormed, OnesOwn(F), RegistryInv(F), NEW t \in Realizer,
           realizing[t] \in {"entry"} \cup Named, Undisturbed(F), NEW new \in GraphType, new = local[t].new
    PROVE  /\ HasIdentity(new) /\ Settled(F, new.base)' /\ Value(new)' = Meaning(FirstGraph[F[t]])
           /\ buffers'[new.base] = buffers[new.base] /\ buffers[new.base] \in Storage
           /\ ~IsConst(new) /\ new.store = NoStore /\ OnDevice(new) /\ Stands(F, t, new)'
<1>1. HasIdentity(new) /\ Settled(F, new.base) /\ Value(new) = Meaning(FirstGraph[F[t]])
  BY Finalizing
<1>2. /\ Settled(F, new.base)' /\ buffers'[new.base] = buffers[new.base] /\ buffers[new.base] \in Storage
      /\ contents'[buffers[new.base]] = contents[buffers[new.base]]
  BY <1>1 DEF Undisturbed, Settled
<1>3. Value(new)' = Value(new)
  BY <1>2, ValueKept
<1>4. ~IsConst(new) /\ new.store = NoStore /\ OnDevice(new)
  BY <1>1 DEF HasIdentity, IsConst, OnDevice
<1> QED BY <1>1, <1>2, <1>3, <1>4 DEF Stands

\* register_buffer sets the entry's buffer, which has none yet.
LEMMA RegisterEntryKeeps ==
    ASSUME NEW F, WellFormed, OnesOwn(F), RegistryInv(F), NEW t \in Realizer, RegisterEntry(t)
    PROVE  RegistryInv(F)'
<1>1. PICK g \in GraphType, old \in GraphType, new \in GraphType : g = uop[F[t]] /\ old = local[t].old /\ new = local[t].new
  BY ThreadState
<1>2. PICK a, r, graph : a = local[t].output /\ r = local[t] /\ graph = r.graph
  OBVIOUS
<1>3. /\ realizing[t] = "entry" /\ RealizeTo(t, "setuop") /\ attached' = SetOnce(F[t], a)
      /\ UNCHANGED <<uop, buffers, contents, task, local>>
  BY <1>2, AtTarget DEF RegisterEntry, RealizeAt
<1>4. /\ Entry(F, t, g) /\ Replacing(F, t, old, new) /\ r \in LocalType /\ r.affected = {}
  BY <1>1, <1>2, <1>3, ThreadState DEF Scanning
<1>5. attached' = [attached EXCEPT ![F[t]] = a]
  BY <1>3, Finalizing DEF SetOnce
<1>6. Writes(F, t, "setuop", r, g, a)
  <2>1. local' = [local EXCEPT ![t] = r] /\ uop' = [uop EXCEPT ![F[t]] = g]
    BY <1>1, <1>2, <1>3, WrittenBack
  <2> QED BY <1>1, <1>2, <1>3, <1>4, <1>5, <2>1 DEF Writes, Early, Named
<1>7. /\ Undisturbed(F) /\ realizing'[t] = "setuop" /\ local'[t] = r /\ uop'[F[t]] = g /\ attached'[F[t]] = a
  BY <1>6, Written
<1>8. Planning(F, t, old, graph)'
  BY <1>1, <1>3, <1>7, StaysFinal DEF Named
<1>9. /\ HasIdentity(new) /\ Settled(F, new.base)' /\ Value(new)' = Meaning(FirstGraph[F[t]])
      /\ buffers'[new.base] = buffers[new.base]
  BY <1>1, <1>3, <1>7, StaysSettled
<1>10. Replacing(F, t, old, new)'
  BY <1>2, <1>3, <1>4, <1>7, <1>9 DEF Replacing, Named, Renaming, Scanning
<1>11. Entry(F, t, g)'
  <2>1. ~IsConst(g) => Stands(F, t, g)'
    BY <1>1, <1>7, GraphKept
  <2> QED BY <1>3, <1>4, <1>7, <2>1 DEF Entry, Named, Renaming, Scanning
<1> QED BY <1>1, <1>2, <1>6, <1>8, <1>10, <1>11, OwnStep

\* set_uop makes the identity the tensor's graph.
LEMMA SetUopKeeps ==
    ASSUME NEW F, WellFormed, OnesOwn(F), RegistryInv(F), NEW t \in Realizer, SetUop(t)
    PROVE  RegistryInv(F)'
<1>1. PICK old \in GraphType, new \in GraphType : old = local[t].old /\ new = local[t].new
  BY ThreadState
<1>2. PICK a, r, graph : a = attached[F[t]] /\ r = local[t] /\ graph = r.graph
  OBVIOUS
<1>3. /\ realizing[t] = "setuop" /\ RealizeTo(t, "setbuffer") /\ uop' = [uop EXCEPT ![F[t]] = new]
      /\ UNCHANGED <<attached, buffers, contents, task, local>>
  BY <1>1, AtTarget DEF SetUop, RealizeAt
<1>4. /\ Entry(F, t, uop[F[t]]) /\ Replacing(F, t, old, new) /\ r \in LocalType /\ r.affected = {}
  BY <1>1, <1>2, <1>3, ThreadState DEF Scanning
<1>5. Writes(F, t, "setbuffer", r, new, a)
  <2>1. local' = [local EXCEPT ![t] = r] /\ attached' = [attached EXCEPT ![F[t]] = a]
    BY <1>1, <1>2, <1>3, WrittenBack
  <2> QED BY <1>1, <1>2, <1>3, <1>4, <2>1 DEF Writes, Early, Named
<1>6. /\ Undisturbed(F) /\ realizing'[t] = "setbuffer" /\ local'[t] = r /\ uop'[F[t]] = new /\ attached'[F[t]] = a
  BY <1>5, Written
<1>7. Planning(F, t, old, graph)'
  BY <1>1, <1>3, <1>6, StaysFinal DEF Named
<1>8. /\ HasIdentity(new) /\ Settled(F, new.base)' /\ Value(new)' = Meaning(FirstGraph[F[t]])
      /\ buffers'[new.base] = buffers[new.base]
      /\ ~IsConst(new) /\ new.store = NoStore /\ Stands(F, t, new)'
  BY <1>1, <1>3, <1>6, StaysSettled DEF Named
<1>9. Replacing(F, t, old, new)'
  BY <1>2, <1>3, <1>4, <1>6, <1>8 DEF Replacing, Named, Renaming, Scanning
<1>10. Entry(F, t, new)'
  <2>1. ~HasIdentity(FirstGraph[F[t]])
    BY <1>3, Finalizing DEF Named
  <2> QED BY <1>6, <1>8, <2>1 DEF Entry, Named, Renaming, Scanning
<1> QED BY <1>1, <1>2, <1>5, <1>7, <1>9, <1>10, OwnStep

\* What the tensor of a call in its broadcast has.
LEMMA Renamed ==
    ASSUME NEW F, WellFormed, OnesOwn(F), RegistryInv(F), NEW t \in Realizer,
           realizing[t] \in {"setbuffer"} \cup Renaming
    PROVE  /\ uop[F[t]] = local[t].new /\ attached[F[t]] = buffers[local[t].new.base]
           /\ attached[F[t]] \in Storage /\ uop[F[t]] # local[t].old
<1>1. Replacing(F, t, local[t].old, local[t].new)
  BY ThreadState
<1>2. ~HasIdentity(local[t].old) /\ HasIdentity(local[t].new) /\ Settled(F, local[t].new.base)
  BY Finalizing DEF Named
<1> QED BY <1>1, <1>2 DEF Replacing, Named, Settled

\* A step of the broadcast that changes local variables alone.
LEMMA RenamingStep ==
    ASSUME NEW F, WellFormed, OnesOwn(F), RegistryInv(F), NEW t \in Realizer,
           realizing[t] \in {"setbuffer"} \cup Renaming, NEW to, to \in Renaming, RealizeTo(t, to),
           NEW r \in LocalType, local' = [local EXCEPT ![t] = r], to \in Scanning \/ r.affected = {},
           r.input \in {local[t].input, NoStorage}, r.output \in {local[t].output, NoStorage},
           r.old = local[t].old, r.new = local[t].new,
           r.affected # {} => OnDevice(r.old), to \in {"snapshot", "apply"} => r.todo \subseteq r.affected,
           UNCHANGED <<uop, attached, buffers, contents, task>>
    PROVE  RegistryInv(F)'
<1>1. PICK g \in GraphType, old \in GraphType, new \in GraphType : g = uop[F[t]] /\ old = local[t].old /\ new = local[t].new
  BY ThreadState
<1>2. PICK a, graph : a = attached[F[t]] /\ graph = r.graph
  OBVIOUS
<1>3. g = new /\ a = buffers[new.base] /\ Entry(F, t, g)
  BY <1>1, <1>2, Renamed, ThreadState
<1>4. Writes(F, t, to, r, g, a)
  BY <1>1, <1>2, WritesLocals DEF Named, Renaming, Scanning, Early
<1>5. /\ Undisturbed(F) /\ realizing'[t] = to /\ local'[t] = r /\ uop'[F[t]] = g /\ attached'[F[t]] = a
  BY <1>4, Written
<1>6. Planning(F, t, old, graph)'
  BY <1>1, <1>5, StaysFinal DEF Named
<1>7. /\ HasIdentity(new) /\ Settled(F, new.base)' /\ Value(new)' = Meaning(FirstGraph[F[t]])
      /\ buffers'[new.base] = buffers[new.base]
      /\ ~IsConst(new) /\ new.store = NoStore /\ Stands(F, t, new)'
  BY <1>1, <1>5, StaysSettled DEF Named
<1>8. Replacing(F, t, old, new)'
  BY <1>1, <1>3, <1>5, <1>7 DEF Replacing, Named, Renaming, Scanning
<1>9. Entry(F, t, g)'
  <2>1. ~HasIdentity(FirstGraph[F[t]])
    BY Finalizing DEF Named
  <2> QED BY <1>3, <1>5, <1>7, <2>1 DEF Entry, Named, Renaming, Scanning
<1> QED BY <1>1, <1>2, <1>4, <1>6, <1>8, <1>9, OwnStep

\* set_buffer finds the buffer set.
LEMMA SetBufferKeeps ==
    ASSUME NEW F, WellFormed, OnesOwn(F), RegistryInv(F), NEW t \in Realizer, SetBuffer(t)
    PROVE  RegistryInv(F)'
<1>1. PICK r : r = local[t]
  OBVIOUS
<1>2. /\ realizing[t] = "setbuffer" /\ RealizeTo(t, "reread") /\ attached' = SetOnce(F[t], local[t].output)
      /\ UNCHANGED <<uop, buffers, contents, task, local>>
  BY AtTarget DEF SetBuffer, RealizeAt
<1>3. attached' = attached
  BY <1>2, Renamed DEF SetOnce, WellFormed
<1>4. r \in LocalType /\ r.affected = {}
  BY <1>1, <1>2, ThreadState DEF Scanning
<1>5. local' = [local EXCEPT ![t] = r]
  BY <1>1, <1>2, WrittenBack
<1>6. "reread" \in Renaming /\ "reread" \notin {"snapshot", "apply"} /\ realizing[t] \in {"setbuffer"} \cup Renaming
  BY <1>2 DEF Renaming
<1> QED BY <1>1, <1>2, <1>3, <1>4, <1>5, <1>6, RenamingStep

\* The broadcast begins: the graph is no longer the one realize started from.
LEMMA RereadKeeps ==
    ASSUME NEW F, WellFormed, OnesOwn(F), RegistryInv(F), NEW t \in Realizer, Reread(t)
    PROVE  RegistryInv(F)'
<1>1. realizing[t] = "reread"
  BY DEF Reread, RealizeAt
<1>2. uop[F[t]] = local[t].new /\ uop[F[t]] # local[t].old /\ local[t] \in LocalType /\ local[t].affected = {}
  BY <1>1, Renamed, ThreadState DEF Renaming, Scanning
<1>3. PICK r : r = [local[t] EXCEPT !.new = uop[F[t]], !.todo = Tensor]
  OBVIOUS
<1>4. /\ RealizeTo(t, "scan") /\ local' = [local EXCEPT ![t] = r] /\ UNCHANGED <<uop, attached, buffers, contents, task>>
  BY <1>2, <1>3, AtTarget DEF Reread
<1>5. /\ r \in LocalType /\ r.affected = {} /\ r.old = local[t].old /\ r.new = local[t].new
      /\ r.input = local[t].input /\ r.output = local[t].output
  BY <1>2, <1>3 DEF LocalType
<1>6. "scan" \in Renaming /\ "scan" \notin {"snapshot", "apply"} /\ realizing[t] \in {"setbuffer"} \cup Renaming
  BY <1>1 DEF Renaming, Scanning
<1> QED BY <1>1, <1>4, <1>5, <1>6, RenamingStep

\* Phase 1: only tensors of the device are affected.
LEMMA ScanKeeps ==
    ASSUME NEW F, WellFormed, OnesOwn(F), RegistryInv(F), NEW t \in Realizer, Scan(t)
    PROVE  RegistryInv(F)'
<1>1. realizing[t] = "scan" /\ UNCHANGED <<uop, attached, buffers, contents, task>>
  BY DEF Scan, RealizeAt
<1>2. /\ local[t] \in LocalType /\ local[t].affected \in SUBSET Tensor /\ local[t].todo \in SUBSET Tensor
      /\ local[t].affected # {} => OnDevice(local[t].old)
  BY <1>1, ThreadState DEF Replacing, Renaming, Scanning
<1>3. CASE /\ local[t].todo = {} /\ local' = [local EXCEPT ![t].todo = local[t].affected]
           /\ RealizeTo(t, "snapshot")
  <2>1. PICK r : r = [local[t] EXCEPT !.todo = local[t].affected]
    OBVIOUS
  <2>2. local' = [local EXCEPT ![t] = r]
    BY <1>3, <2>1
  <2>3. /\ r \in LocalType /\ r.affected = local[t].affected /\ r.todo = local[t].affected /\ r.old = local[t].old
        /\ r.new = local[t].new /\ r.input = local[t].input /\ r.output = local[t].output
    BY <1>2, <2>1 DEF LocalType
  <2>4. "snapshot" \in Renaming /\ "snapshot" \in Scanning /\ realizing[t] \in {"setbuffer"} \cup Renaming
    BY <1>1 DEF Renaming, Scanning
  <2>5. /\ r.input \in {local[t].input, NoStorage} /\ r.output \in {local[t].output, NoStorage}
        /\ (r.affected # {} => OnDevice(r.old)) /\ r.todo \subseteq r.affected
    BY <1>2, <2>3
  <2> QED BY <1>1, <1>3, <2>2, <2>3, <2>4, <2>5, RenamingStep
<1>4. ASSUME NEW x \in local[t].todo, UNCHANGED realizing,
             local' = [local EXCEPT ![t].todo = @ \ {x},
                ![t].affected = @ \cup IF OnDevice(uop[x]) /\ HasSubgraph(uop[x], local[t].old) THEN {x} ELSE {}]
      PROVE  RegistryInv(F)'
  <2>1. PICK more : more = IF OnDevice(uop[x]) /\ HasSubgraph(uop[x], local[t].old) THEN {x} ELSE {}
    OBVIOUS
  <2>2. PICK r : r = [local[t] EXCEPT !.todo = local[t].todo \ {x}, !.affected = local[t].affected \cup more]
    OBVIOUS
  <2>3. local' = [local EXCEPT ![t] = r]
    BY <1>4, <2>1, <2>2
  <2>4. /\ r.affected = local[t].affected \cup more /\ r.old = local[t].old
        /\ r.new = local[t].new /\ r.input = local[t].input /\ r.output = local[t].output
    BY <1>2, <2>2 DEF LocalType
  <2>5. r \in LocalType
    <3>1. local[t].affected \cup more \in SUBSET Tensor /\ local[t].todo \ {x} \in SUBSET Tensor
      BY <1>2, <1>4, <2>1
    <3> QED BY <1>2, <2>2, <3>1 DEF LocalType
  <2>6. r.affected # {} => OnDevice(r.old)
    BY <1>2, <2>1, <2>4 DEF OnDevice, HasSubgraph
  <2>7. RealizeTo(t, "scan")
    BY <1>1, <1>4 DEF RealizeTo, RegistryInv, RegistryTypeOK
  <2>8. "scan" \in Renaming /\ "scan" \in Scanning /\ realizing[t] \in Renaming
    BY <1>1 DEF Renaming, Scanning
  <2>9. r.input \in {local[t].input, NoStorage} /\ r.output \in {local[t].output, NoStorage}
    BY <2>4
  <2> QED BY <1>1, <2>3, <2>4, <2>5, <2>6, <2>7, <2>8, <2>9, RenamingStep
<1> QED BY <1>3, <1>4 DEF Scan

\* Phase 2: the snapshot.
LEMMA SnapshotKeeps ==
    ASSUME NEW F, WellFormed, OnesOwn(F), RegistryInv(F), NEW t \in Realizer, Snapshot(t)
    PROVE  RegistryInv(F)'
<1>1. PICK s : s = [x \in local[t].affected |-> uop[x]]
  OBVIOUS
<1>2. PICK r : r = [local[t] EXCEPT !.sources = s]
  OBVIOUS
<1>3. /\ realizing[t] = "snapshot" /\ RealizeTo(t, "apply") /\ local' = [local EXCEPT ![t] = r]
      /\ UNCHANGED <<uop, attached, buffers, contents, task>>
  BY <1>1, <1>2 DEF Snapshot, RealizeAt
<1>4. /\ local[t] \in LocalType /\ local[t].affected \in SUBSET Tensor /\ local[t].todo \subseteq local[t].affected
      /\ local[t].affected # {} => OnDevice(local[t].old)
  BY <1>3, ThreadState DEF Replacing, Renaming, Scanning
<1>5. s \in UNION {[some -> GraphType] : some \in SUBSET Tensor}
  <2>1. s \in [local[t].affected -> GraphType]
    BY <1>1, <1>4 DEF RegistryInv, RegistryTypeOK
  <2> QED BY <1>4, <2>1
<1>6. /\ r \in LocalType /\ r.affected = local[t].affected /\ r.todo = local[t].todo /\ r.old = local[t].old
      /\ r.new = local[t].new /\ r.input = local[t].input /\ r.output = local[t].output
  BY <1>2, <1>4, <1>5 DEF LocalType
<1> QED BY <1>3, <1>4, <1>6, RenamingStep DEF Renaming, Scanning

\* What a broadcast puts in the place of a graph over the old one.
LEMMA SubstituteType ==
    ASSUME NEW old \in GraphType, NEW new \in GraphType, NEW g \in GraphType
    PROVE  Substitute(g, old, new) \in GraphType
<1>1. CASE HasSubgraph(g, old)
  <2>1. new.height + g.height - old.height \in Nat
    BY <1>1 DEF HasSubgraph, GraphType
  <2> QED BY <1>1, <2>1 DEF Substitute, Graph, GraphType
<1>2. CASE ~HasSubgraph(g, old)
  BY <1>2 DEF Substitute
<1> QED BY <1>1, <1>2

\* It computes the same when the old graph and the new identity do.
LEMMA SubstituteValue ==
    ASSUME NEW F, WellFormed, RegistryInv(F), NEW old \in GraphType, NEW new \in GraphType, NEW g \in GraphType,
           HasSubgraph(g, old), OnDevice(old), HasIdentity(new), g.store = NoStore,
           Settled(F, new.base), Settled(F, old.base), Value(old) = Value(new), NEW h, h = Substitute(g, old, new)
    PROVE  /\ h \in GraphType /\ h.base = new.base /\ h.store = NoStore /\ OnDevice(h) /\ ~IsConst(h)
           /\ Value(h) = Value(g)
<1>1. PICK p \in HeldType, q \in HeldType : p = contents[buffers[old.base]] /\ q = contents[buffers[new.base]]
  BY DEF Settled, RegistryInv, RegistryTypeOK
<1>2. /\ h = Graph(new.base, new.store, new.height + g.height - old.height)
      /\ h \in GraphType /\ g.base = old.base /\ old.store = NoStore /\ g.height >= old.height
  BY SubstituteType DEF Substitute, HasSubgraph
<1>3. /\ h.base = new.base /\ h.store = NoStore /\ h.height = g.height - old.height /\ new.height = 0 /\ new.store = NoStore
      /\ new.base # Const /\ old.base # Const
      /\ g.height \in Nat /\ old.height \in Nat /\ p.height \in Nat /\ q.height \in Nat
  BY <1>1, <1>2 DEF HasIdentity, OnDevice, Graph, GraphType, HeldType
<1>4. /\ Value(old) = [p EXCEPT !.height = @ + old.height] /\ Value(g) = [p EXCEPT !.height = @ + g.height]
      /\ Value(new) = [q EXCEPT !.height = @ + new.height] /\ Value(h) = [q EXCEPT !.height = @ + h.height]
  BY <1>1, <1>2, <1>3 DEF Value, Computes
<1>5. /\ Value(old).root = p.root /\ Value(old).height = p.height + old.height
      /\ Value(new).root = q.root /\ Value(new).height = q.height
  <2>1. \A held \in HeldType, more \in Nat : [held EXCEPT !.height = @ + more].root = held.root /\ [held EXCEPT !.height = @ + more].height = held.height + more
    BY DEF HeldType
  <2>2. PICK more \in Nat : more = new.height
    BY <1>3
  <2>3. Value(new).root = q.root /\ Value(new).height = q.height + more
    <3>1. Value(new) = [q EXCEPT !.height = @ + more]
      BY <1>4, <2>2
    <3>2. [q EXCEPT !.height = @ + more].root = q.root /\ [q EXCEPT !.height = @ + more].height = q.height + more
      BY <1>1, <2>1, <2>2
    <3> QED BY <3>1, <3>2
  <2>4. Value(old).root = p.root /\ Value(old).height = p.height + old.height
    BY <1>1, <1>3, <1>4, <2>1
  <2>5. more = 0
    BY <1>3, <2>2
  <2> QED BY <1>3, <2>3, <2>4, <2>5
<1>6. p.root = q.root /\ p.height + old.height = q.height
  BY <1>5
<1>7. q.height + h.height = p.height + g.height
  BY <1>3, <1>6
<1>8. Value(g) = [root |-> p.root, height |-> p.height + g.height] /\ Value(h) = [root |-> q.root, height |-> q.height + h.height]
  <2>1. \A held \in HeldType, more \in Nat : [held EXCEPT !.height = @ + more] = [root |-> held.root, height |-> held.height + more]
    BY DEF HeldType
  <2>2. g.height \in Nat /\ h.height \in Nat
    BY <1>2, <1>3 DEF GraphType
  <2> QED BY <1>1, <1>4, <2>1, <2>2
<1> QED BY <1>2, <1>3, <1>6, <1>7, <1>8 DEF OnDevice, IsConst

\* Phases 3 and 4: the tensors of other threads become what they were, over the
\* new identity; the thread's own is the identity already.
LEMMA ApplyKeeps ==
    ASSUME NEW F, WellFormed, OnesOwn(F), RegistryInv(F), NEW t \in Realizer, Apply(t)
    PROVE  RegistryInv(F)'
<1>1. realizing[t] = "apply" /\ UNCHANGED <<attached, buffers, contents, task>>
  BY DEF Apply, RealizeAt
<1>2. PICK old \in GraphType, new \in GraphType, g \in GraphType : old = local[t].old /\ new = local[t].new /\ g = uop[F[t]]
  BY ThreadState
<1>3. "apply" \in Renaming /\ "apply" \in Scanning /\ "apply" \in Named
  BY DEF Named, Renaming, Scanning
<1>4. /\ local[t] \in LocalType /\ local[t].affected \in SUBSET Tensor /\ local[t].todo \subseteq local[t].affected
      /\ local[t].affected # {} => OnDevice(old)
  BY <1>1, <1>2, <1>3, ThreadState DEF Replacing
<1>5. g = new /\ attached[F[t]] = buffers[new.base] /\ Entry(F, t, g)
  BY <1>1, <1>2, <1>3, Renamed, ThreadState
<1>6. /\ Stands(F, t, old) /\ ~HasIdentity(old) /\ ~HasIdentity(FirstGraph[F[t]])
      /\ HasIdentity(new) /\ Settled(F, new.base) /\ Value(new) = Meaning(FirstGraph[F[t]])
  BY <1>1, <1>2, <1>3, Finalizing
<1>7. CASE local[t].todo = {} /\ local' = [local EXCEPT ![t] = Locals] /\ RealizeTo(t, "done") /\ UNCHANGED uop
  <2>1. PICK a, r : a = attached[F[t]] /\ r = Locals
    OBVIOUS
  <2>2. r \in LocalType /\ r.input = NoStorage /\ r.output = NoStorage /\ r.affected = {}
    BY <2>1, LocalsType
  <2>3. Writes(F, t, "done", r, g, a)
    BY <1>1, <1>2, <1>7, <2>1, <2>2, WritesLocals DEF Early
  <2>4. /\ Undisturbed(F) /\ realizing'[t] = "done" /\ local'[t] = r /\ uop'[F[t]] = g /\ attached'[F[t]] = a
    BY <2>3, Written
  <2>5. Entry(F, t, g)'
    <3>1. Stands(F, t, g)' /\ ~IsConst(g) /\ buffers' = buffers
      BY <1>1, <1>2, <1>5, <1>6, <2>4, GraphKept DEF HasIdentity, IsConst
    <3> QED BY <1>5, <1>6, <2>1, <2>4, <3>1 DEF Entry, Named, Renaming, Scanning
  <2>6. PICK o, graph, n : o = r.old /\ graph = r.graph /\ n = r.new
    OBVIOUS
  <2>7. Planning(F, t, o, graph)' /\ Replacing(F, t, o, n)'
    BY <2>4 DEF Planning, Planned, Replacing, Named, Renaming, Scanning
  <2> QED BY <2>3, <2>5, <2>6, <2>7, OwnStep
<1>8. ASSUME NEW x \in local[t].todo, UNCHANGED realizing, local' = [local EXCEPT ![t].todo = @ \ {x}],
             uop' = IF HasSubgraph(local[t].sources[x], old)
                    THEN [uop EXCEPT ![x] = Updated(x, local[t].sources[x], old, new)] ELSE uop
      PROVE  RegistryInv(F)'
  <2>1. PICK r : r = [local[t] EXCEPT !.todo = local[t].todo \ {x}]
    OBVIOUS
  <2>2. local' = [local EXCEPT ![t] = r]
    BY <1>8, <2>1
  <2>3. /\ r.affected = local[t].affected /\ r.todo = local[t].todo \ {x} /\ r.old = old
        /\ r.new = new /\ r.input = local[t].input /\ r.output = local[t].output /\ r.graph = local[t].graph
    BY <1>2, <1>4, <2>1 DEF LocalType
  <2>4. r \in LocalType
    <3>1. local[t].todo \ {x} \in SUBSET Tensor
      BY <1>4
    <3> QED BY <1>4, <2>1, <3>1 DEF LocalType
  <2>5. CASE uop' = uop
    <3>1. RealizeTo(t, "apply")
      BY <1>1, <1>8 DEF RealizeTo, RegistryInv, RegistryTypeOK
    <3>2. /\ r.input \in {local[t].input, NoStorage} /\ r.output \in {local[t].output, NoStorage}
          /\ realizing[t] \in {"setbuffer"} \cup Renaming /\ r.old = local[t].old /\ r.new = local[t].new
          /\ r.affected # {} => OnDevice(r.old)
          /\ r.todo \subseteq r.affected
      BY <1>1, <1>2, <1>3, <1>4, <2>3
    <3> QED BY <1>1, <1>3, <2>2, <2>4, <2>5, <3>1, <3>2, RenamingStep
  <2>6. CASE uop' # uop
    <3>1. x \in Tensor /\ OnDevice(old)
      BY <1>4, <1>8
    <3>2. PICK k, h : k \in GraphType /\ k = uop[x] /\ h = Substitute(k, old, new)
      BY <3>1 DEF RegistryInv, RegistryTypeOK
    <3>3. uop' = [uop EXCEPT ![x] = h]
      BY <1>8, <2>6, <3>2 DEF Updated
    <3>4. h # k /\ HasSubgraph(k, old) /\ h \in GraphType
      BY <1>2, <2>6, <3>1, <3>2, <3>3, SubstituteType DEF Substitute, RegistryInv, RegistryTypeOK
    <3>5. x # F[t]
      <4>1. ASSUME x = F[t] PROVE FALSE
        <5>1. k = new /\ new.height = 0 /\ new.store = NoStore
          BY <1>2, <1>5, <1>6, <3>2, <4>1 DEF HasIdentity
        <5>2. old.height \in Nat /\ old.height <= 0 /\ old.store = NoStore
          BY <1>2, <3>4, <5>1 DEF HasSubgraph, GraphType
        <5>3. old.height = 0
          BY <5>2
        <5> QED BY <1>6, <3>1, <5>2, <5>3 DEF HasIdentity, OnDevice
      <4> QED BY <4>1
    <3>6. /\ realizing' = realizing /\ local'[t] = r /\ uop'[F[t]] = g
          /\ \A u \in Realizer \ {t} : local'[u] = local[u]
          /\ \A y \in Tensor \ {x} : uop'[y] = uop[y]
          /\ uop'[x] = h
      BY <1>2, <1>8, <2>2, <3>1, <3>3, <3>5, ThreadState DEF RegistryInv, RegistryTypeOK
    <3>7. Moves(F, t) /\ Undisturbed(F)
      BY <1>1, <3>6, QuietUndisturbed DEF Moves
    <3>8. RegistryTypeOK(F)'
      <4>1. \A u \in Realizer : realizing'[u] \notin Scanning => local'[u].affected = {}
        BY <1>1, <1>3, <3>6 DEF RegistryInv, RegistryTypeOK
      <4>2. local' \in [Realizer -> LocalType] /\ uop' \in [Tensor -> GraphType]
        BY <2>2, <2>4, <3>3, <3>4 DEF RegistryInv, RegistryTypeOK
      <4> QED BY <1>1, <1>8, <4>1, <4>2 DEF RegistryInv, RegistryTypeOK
    <3>9. ASSUME NEW u \in Realizer \ {t}, NEW k1 \in GraphType, NEW k2 \in GraphType, k1 = uop[F[u]], k2 = uop'[F[u]]
          PROVE  Replaced(F, u, k1, k2)
      <4>1. CASE x # F[u]
        BY <3>6, <3>9, <4>1 DEF Replaced, OnesOwn
      <4>2. CASE x = F[u]
        <5>1. k1 = k /\ k2 = h
          BY <3>2, <3>6, <3>9, <4>2
        <5>2. Entry(F, u, k)
          BY <3>2, <3>9, <5>1 DEF RegistryInv
        <5>3. OnDevice(k) /\ ~IsConst(k) /\ ~HasIdentity(k)
          BY <1>6, <3>1, <3>2, <3>4 DEF HasSubgraph, OnDevice, IsConst, HasIdentity, GraphType
        <5>4. Stands(F, u, k)
          BY <5>2, <5>3 DEF Entry
        <5>5. k.store = NoStore
          <6>1. ASSUME k.store # NoStore PROVE FALSE
            <7>1. k = FirstGraph[F[u]]
              BY <5>4, <6>1 DEF Stands
            <7>2. old.store # NoStore /\ old.base = k.base
              BY <3>4, <6>1 DEF HasSubgraph
            <7>3. old = FirstGraph[F[t]]
              BY <1>6, <7>2 DEF Stands
            <7> QED BY <3>9, <6>1, <7>1, <7>2, <7>3 DEF OnesOwn
          <6> QED BY <6>1
        <5>6. old.store = NoStore /\ Settled(F, old.base) /\ Value(old) = Value(new)
          BY <1>6, <3>1, <3>4, <5>5 DEF HasSubgraph, Stands
        <5>7. /\ h.base = new.base /\ h.store = NoStore /\ OnDevice(h) /\ ~IsConst(h) /\ Value(h) = Value(k)
          BY <1>6, <3>1, <3>2, <3>4, <5>5, <5>6, SubstituteValue
        <5>8. Settled(F, h.base)'
          BY <1>6, <3>7, <5>7 DEF Undisturbed, Settled
        <5>9. Value(h)' = Value(h)
          BY <1>1, <3>4, ValueKept
        <5> QED BY <5>1, <5>3, <5>4, <5>5, <5>7, <5>8, <5>9 DEF Replaced, Stands
      <4> QED BY <4>1, <4>2
    <3>10. OfThread(F, t)'
      <4>1. ASSUME NEW graph \in GraphType PROVE Planning(F, t, old, graph)'
        BY <1>1, <1>2, <1>3, <3>6, <3>7, StaysFinal
      <4>2. /\ HasIdentity(new) /\ Settled(F, new.base)' /\ Value(new)' = Meaning(FirstGraph[F[t]])
            /\ buffers'[new.base] = buffers[new.base]
            /\ ~IsConst(new) /\ new.store = NoStore /\ Stands(F, t, new)'
        BY <1>1, <1>2, <1>3, <3>7, StaysSettled
      <4>3. Replacing(F, t, old, new)'
        <5>1. realizing'[t] = "apply" /\ attached'[F[t]] = buffers'[new.base] /\ uop'[F[t]] = new
              /\ (r.affected # {} => OnDevice(old)) /\ r.todo \subseteq r.affected
          BY <1>1, <1>4, <1>5, <2>3, <3>6, <4>2
        <5> QED BY <3>6, <4>2, <5>1 DEF Replacing, Named, Renaming, Scanning
      <4>4. Entry(F, t, g)'
        BY <1>1, <1>3, <1>5, <1>6, <3>6, <4>2 DEF Entry, Named
      <4> QED BY <2>3, <3>6, <4>1, <4>3, <4>4 DEF OfThread
    <3>11. /\ \A u \in Realizer \ {t} : attached'[F[u]] = attached[F[u]]
           /\ local'[t].input \in {local[t].input, NoStorage} /\ local'[t].output \in {local[t].output, NoStorage}
           /\ realizing'[t] \notin {"execute", "register"}
      BY <1>1, <2>3, <3>6
    <3> QED BY <1>1, <3>7, <3>8, <3>9, <3>10, <3>11, SharedStep
  <2> QED BY <2>5, <2>6
<1> QED BY <1>2, <1>7, <1>8 DEF Apply

---------------------------------------------------------------------------------
(* TensorRegistry: steps that bind or compute                                  *)

\* The invariant from what such a step does to its own thread, if it touches nothing
\* that others rely on.
LEMMA BusyStep ==
    ASSUME NEW F, WellFormed, OnesOwn(F), RegistryInv(F), NEW t \in Realizer, UNCHANGED uop,
           RegistryTypeOK(F)', Undisturbed(F), \A u \in Realizer \ {t} : Untouched(F, u),
           OfThread(F, t)', \A u \in Realizer : Private(u)', Bindings'
    PROVE  RegistryInv(F)'
<1>1. ASSUME NEW u \in Realizer, u # t PROVE OfThread(F, u)'
  <2>1. Untouched(F, u)
    BY <1>1
  <2>2. \A g, h \in GraphType : g = uop[F[u]] /\ h = uop'[F[u]] => Replaced(F, u, g, h)
    BY DEF Replaced
  <2> QED BY <2>1, <2>2, OthersKept
<1>2. \A u \in Realizer : OfThread(F, u)'
  BY <1>1
<1> QED BY <1>2 DEF RegistryInv, OfThread

\* A new storage is one that nothing has.
LEMMA StorageIsNew ==
    ASSUME \E s \in Storage : s \notin StoragesInUse
    PROVE  /\ NewStorage \in Storage
           /\ \A b \in Identity : buffers[b] # NewStorage
           /\ \A t \in Realizer : local[t].input # NewStorage /\ local[t].output # NewStorage
           /\ NewStorage \notin Inputs
<1>1. NewStorage \in Storage /\ NewStorage \notin StoragesInUse
  BY DEF NewStorage
<1> QED BY <1>1 DEF StoragesInUse

\* An identity that is stored into is referred to by its tensor until then.
LEMMA PendingReferenced ==
    ASSUME NEW F, WellFormed, OnesOwn(F), RegistryInv(F), NEW u \in Realizer, Pending(F, u)
    PROVE  Referenced(FirstGraph[F[u]].base)
<1>1. PICK g \in GraphType : g = uop[F[u]]
  BY ThreadState
<1>2. Entry(F, u, g) /\ F[u] \in Tensor
  BY <1>1, ThreadState
<1>3. g = FirstGraph[F[u]]
  <2>1. CASE IsConst(g)
    BY <1>2, <2>1 DEF Entry
  <2>2. CASE ~IsConst(g)
    <3>1. g.store # NoStore
      BY <1>2 DEF Pending, Entry, Early, Renaming, Scanning
    <3> QED BY <1>2, <2>2, <3>1 DEF Entry, Stands
  <2> QED BY <2>1, <2>2
<1> QED BY <1>1, <1>2, <1>3 DEF Referenced

\* A plan is an assign if the graph the call started from is: that graph has not
\* changed.
LEMMA AssignOfOld ==
    ASSUME NEW F, WellFormed, OnesOwn(F), RegistryInv(F), NEW u \in Realizer, NEW old, NEW graph,
           old = local[u].old, graph = local[u].graph, realizing[u] \in Planned
    PROVE  /\ IsAssign(graph) <=> IsAssign(old)
           /\ IsAssign(graph) => old = graph
           /\ graph.store # NoStore => graph = FirstGraph[F[u]] /\ OnDevice(graph)
<1>1. old \in GraphType /\ graph \in GraphType /\ F[u] \in Tensor
  BY ThreadState
<1>2. Planning(F, u, old, graph)
  BY <1>1 DEF RegistryInv
<1>3. /\ Stands(F, u, old) /\ (old.store = NoStore => FirstGraph[F[u]].store = NoStore)
      /\ Stands(F, u, graph) /\ (graph.store = NoStore => FirstGraph[F[u]].store = NoStore)
  BY <1>2 DEF Planning
<1>4. old.store # NoStore => old = FirstGraph[F[u]] /\ graph.store # NoStore
  BY <1>3 DEF Stands
<1>5. graph.store # NoStore => graph = FirstGraph[F[u]] /\ old.store # NoStore
  BY <1>3 DEF Stands
<1>6. graph.store # NoStore => OnDevice(graph)
  BY <1>5 DEF OnesOwn, OnDevice
<1> QED BY <1>4, <1>5, <1>6 DEF IsAssign

\* bind_graph_buffers allocates the storage of a placeholder: it is its thread's.
LEMMA AllocateKeeps ==
    ASSUME NEW F, WellFormed, OnesOwn(F), RegistryInv(F), NEW t \in Realizer, Allocate(t), Supply
    PROVE  RegistryInv(F)'
<1>1. realizing[t] = "allocate" /\ RealizeTo(t, "collect") /\ UNCHANGED <<uop, attached, contents, task, local>>
  BY DEF Allocate, RealizeAt
<1>2. PICK g \in GraphType, old \in GraphType, graph \in GraphType, new \in GraphType :
        g = uop[F[t]] /\ old = local[t].old /\ graph = local[t].graph /\ new = local[t].new
  BY ThreadState
<1>3. Entry(F, t, g) /\ Planning(F, t, old, graph) /\ F[t] \in Tensor
  BY <1>2, ThreadState
<1>4. graph.store # NoStore /\ graph.base \notin Inputs /\ Stands(F, t, graph) /\ Stands(F, t, old)
  BY <1>1, <1>3 DEF Planning, Planned
<1>5. graph = FirstGraph[F[t]] /\ Pending(F, t)
  BY <1>1, <1>4 DEF Stands, Pending, Early
<1>6. PICK b : b = graph.base
  OBVIOUS
<1>7. b \in Identity /\ b \notin Inputs /\ \A u \in Realizer \ {t} : FirstGraph[F[u]].base # b
  BY <1>4, <1>5, <1>6 DEF OnesOwn, GraphType
<1>8. PICK s \in Storage :
        /\ s = NewStorage /\ \A c \in Identity : buffers[c] # s
        /\ \A u \in Realizer : local[u].input # s /\ local[u].output # s
  BY <1>1, StorageIsNew DEF Supply
<1>9. /\ buffers' = [buffers EXCEPT ![b] = s] /\ buffers'[b] = s
      /\ \A c \in Identity \ {b} : buffers'[c] = buffers[c]
      /\ realizing'[t] = "collect" /\ \A u \in Realizer \ {t} : realizing'[u] = realizing[u]
  BY <1>1, <1>2, <1>6, <1>7, <1>8 DEF Allocate, RealizeTo, RegistryInv, RegistryTypeOK
<1>10. Undisturbed(F)
  <2>1. \A u \in Realizer : Pending(F, u)' => Pending(F, u)
    BY <1>5, <1>9 DEF Pending
  <2>2. \A c \in Identity : Settled(F, c) => c # b
    BY <1>5, <1>6 DEF Settled
  <2> QED BY <1>1, <1>9, <2>1, <2>2 DEF Undisturbed, Settled
<1>11. ASSUME NEW u \in Realizer \ {t} PROVE Untouched(F, u)
  <2>1. Pending(F, u) => FirstGraph[F[u]].base \in Identity \ {b}
    <3>1. F[u] \in Tensor
      BY DEF OnesOwn
    <3> QED BY <1>7, <3>1 DEF Pending, OnesOwn, WellFormed, GraphType
  <2> QED BY <1>1, <1>9, <2>1 DEF Untouched
<1>12. RegistryTypeOK(F)'
  <2>1. realizing' \in [Realizer -> Early \cup {"register", "entry", "done", "failed"} \cup Named]
    BY <1>1 DEF RealizeTo, RegistryInv, RegistryTypeOK, Early
  <2>2. \A u \in Realizer : realizing'[u] \notin Scanning => local'[u].affected = {}
    BY <1>1, <1>9 DEF RegistryInv, RegistryTypeOK, Scanning
  <2>3. buffers' \in [Identity -> Storage \cup {NoStorage}]
    BY <1>8, <1>9 DEF RegistryInv, RegistryTypeOK
  <2> QED BY <1>1, <2>1, <2>2, <2>3 DEF RegistryInv, RegistryTypeOK
<1>13. OfThread(F, t)'
  <2>1. Stands(F, t, graph)' /\ Stands(F, t, old)' /\ (~IsConst(g) => Stands(F, t, g)')
    BY <1>3, <1>4, <1>10, StandsKept DEF Entry
  <2>2. Entry(F, t, g)'
    BY <1>1, <1>3, <1>9, <2>1 DEF Entry, Named, Renaming, Scanning
  <2>3. Planning(F, t, old, graph)'
    BY <1>1, <1>3, <1>4, <1>6, <1>8, <1>9, <2>1 DEF Planning, Planned, Named, Renaming, Scanning
  <2>4. Replacing(F, t, old, new)'
    BY <1>9 DEF Replacing, Named, Renaming, Scanning
  <2> QED BY <1>1, <1>2, <2>2, <2>3, <2>4 DEF OfThread
<1>14. ASSUME NEW u \in Realizer PROVE Private(u)'
  <2>1. CASE u = t
    BY <1>9, <2>1 DEF Private
  <2>2. CASE u # t
    <3>1. Private(u) /\ realizing'[u] = realizing[u]
      BY <1>9, <2>2 DEF RegistryInv
    <3>2. \A c \in Identity : buffers[c] # local[u].output => buffers'[c] # local[u].output
      BY <1>8, <1>9
    <3> QED BY <1>1, <3>1, <3>2 DEF Private
  <2> QED BY <2>1, <2>2
<1>15. Bindings'
  <2>1. \A c, d \in Identity : c # d /\ buffers'[c] # NoStorage => buffers'[c] # buffers'[d]
    BY <1>8, <1>9 DEF RegistryInv, Bindings
  <2>2. \A c \in Inputs : buffers'[c] = c
    BY <1>7, <1>9 DEF RegistryInv, Bindings, WellFormed
  <2> QED BY <2>1, <2>2 DEF Bindings
<1> QED BY <1>1, <1>10, <1>11, <1>12, <1>13, <1>14, <1>15, BusyStep

\* The plan takes its input from the index, and a new output unless it is an assign.
LEMMA CollectKeeps ==
    ASSUME NEW F, WellFormed, OnesOwn(F), RegistryInv(F), NEW t \in Realizer, Collect(t), Supply
    PROVE  RegistryInv(F)'
<1>1. realizing[t] = "collect" /\ RealizeTo(t, "execute") /\ UNCHANGED <<uop, attached, buffers, contents, task>>
  BY DEF Collect, RealizeAt
<1>2. PICK g \in GraphType, old \in GraphType, graph \in GraphType, new \in GraphType :
        g = uop[F[t]] /\ old = local[t].old /\ graph = local[t].graph /\ new = local[t].new
  BY ThreadState
<1>3. /\ Entry(F, t, g) /\ Planning(F, t, old, graph) /\ F[t] \in Tensor
      /\ local[t] \in LocalType /\ local[t].affected = {}
  BY <1>1, <1>2, ThreadState DEF Scanning
<1>4. Stands(F, t, graph) /\ Stands(F, t, old) /\ (OnDevice(graph) => buffers[graph.base] \in Storage)
  BY <1>1, <1>3 DEF Planning, Planned
<1>5. graph.store # NoStore => OnDevice(graph)
  BY <1>1, <1>2, AssignOfOld DEF Planned
<1>6. PICK input : input = GetBuffer(graph.base)
  OBVIOUS
<1>7. IF OnDevice(graph) THEN input = buffers[graph.base] /\ graph.base \in Identity /\ input \in Storage
      ELSE input = NoStorage
  <2>1. Referenced(graph.base)
    BY <1>2 DEF Referenced
  <2> QED BY <1>4, <1>6, <2>1 DEF GetBuffer, OnDevice, GraphType
<1>8. PICK s \in Storage :
        /\ s = NewStorage /\ \A c \in Identity : buffers[c] # s
        /\ \A u \in Realizer : local[u].input # s /\ local[u].output # s
  BY <1>1, StorageIsNew DEF Supply
<1>9. PICK output : output = IF IsAssign(graph) THEN input ELSE s
  OBVIOUS
<1>10. PICK r : r = [local[t] EXCEPT !.input = input, !.output = output]
  OBVIOUS
<1>11. /\ local' = [local EXCEPT ![t] = r]
       /\ r.input = input /\ r.output = output /\ r.old = old /\ r.graph = graph /\ r.new = new /\ r.affected = {}
  <2>1. local' = [local EXCEPT ![t].input = input, ![t].output = output]
    BY <1>2, <1>6, <1>8, <1>9 DEF Collect
  <2>2. local' = [local EXCEPT ![t] = r]
    BY <1>10, <2>1 DEF RegistryInv, RegistryTypeOK
  <2> QED BY <1>2, <1>3, <1>10, <2>2 DEF LocalType
<1>12. r \in LocalType
  <2>1. input \in Storage \cup {NoStorage} /\ output \in Storage \cup {NoStorage}
    BY <1>7, <1>8, <1>9
  <2> QED BY <1>3, <1>10, <2>1 DEF LocalType
<1>13. /\ local'[t] = r /\ \A u \in Realizer \ {t} : local'[u] = local[u]
       /\ realizing'[t] = "execute" /\ \A u \in Realizer \ {t} : realizing'[u] = realizing[u]
  BY <1>1, <1>11 DEF RealizeTo, RegistryInv, RegistryTypeOK
<1>14. Undisturbed(F)
  BY <1>1, <1>13, QuietUndisturbed DEF Moves, Early
<1>15. \A u \in Realizer \ {t} : Untouched(F, u)
  BY <1>1, <1>13 DEF Untouched
<1>16. RegistryTypeOK(F)'
  <2>1. realizing' \in [Realizer -> Early \cup {"register", "entry", "done", "failed"} \cup Named]
    BY <1>1 DEF RealizeTo, RegistryInv, RegistryTypeOK, Early
  <2>2. \A u \in Realizer : realizing'[u] \notin Scanning => local'[u].affected = {}
    BY <1>11, <1>13 DEF RegistryInv, RegistryTypeOK
  <2>3. local' \in [Realizer -> LocalType]
    BY <1>11, <1>12 DEF RegistryInv, RegistryTypeOK
  <2> QED BY <1>1, <2>1, <2>2, <2>3 DEF RegistryInv, RegistryTypeOK
<1>17. OfThread(F, t)'
  <2>1. Stands(F, t, graph)' /\ Stands(F, t, old)' /\ (~IsConst(g) => Stands(F, t, g)')
    BY <1>3, <1>4, <1>14, StandsKept DEF Entry
  <2>2. Entry(F, t, g)'
    BY <1>1, <1>3, <1>13, <2>1 DEF Entry, Named, Renaming, Scanning
  <2>3. Planning(F, t, old, graph)'
    BY <1>1, <1>3, <1>4, <1>7, <1>9, <1>11, <1>13, <2>1 DEF Planning, Planned, Named, Renaming, Scanning
  <2>4. Replacing(F, t, old, new)'
    BY <1>13 DEF Replacing, Named, Renaming, Scanning
  <2> QED BY <1>1, <1>2, <1>11, <1>13, <2>2, <2>3, <2>4 DEF OfThread
<1>18. ASSUME NEW u \in Realizer PROVE Private(u)'
  <2>1. CASE u = t
    <3>1. ~IsAssign(graph) => output = s
      BY <1>9
    <3> QED BY <1>1, <1>8, <1>11, <1>13, <2>1, <3>1 DEF Private
  <2>2. CASE u # t
    <3>1. Private(u) /\ realizing'[u] = realizing[u] /\ local'[u] = local[u] /\ buffers' = buffers
      BY <1>1, <1>13, <2>2 DEF RegistryInv
    <3>2. \A p \in Storage : p = local[u].output /\ (\A c \in Identity : buffers[c] # p) => p # input /\ p # output
      BY <1>7, <1>8, <1>9 DEF WellFormed
    <3> QED BY <1>11, <1>13, <3>1, <3>2 DEF Private
  <2> QED BY <2>1, <2>2
<1>19. Bindings'
  BY <1>1 DEF RegistryInv, Bindings
<1> QED BY <1>1, <1>14, <1>15, <1>16, <1>17, <1>18, <1>19, BusyStep

\* What a plan computes is data.
LEMMA ComputesType ==
    ASSUME WellFormed, NEW g \in GraphType, NEW held, OnDevice(g) => held \in HeldType
    PROVE  Computes(g, held) \in HeldType
  BY DEF Computes, OnDevice, GraphType, HeldType, Store

\* The kernels write the output of their plan, and what a store of it stores into.
LEMMA ExecuteWrites ==
    ASSUME NEW F, WellFormed, OnesOwn(F), RegistryInv(F), NEW t \in Realizer, ExecutePlan(t),
           NEW graph, graph = local[t].graph
    PROVE  /\ contents' \in [Storage -> HeldType]
           /\ local[t].output \in Storage /\ contents'[local[t].output] = Meaning(FirstGraph[F[t]])
           /\ \A s \in Storage : s # local[t].output /\ (graph.store # NoStore => s # local[t].input)
                => contents'[s] = contents[s]
           /\ graph.store # NoStore =>
                /\ graph = FirstGraph[F[t]] /\ Pending(F, t) /\ graph.base \in Identity
                /\ local[t].input = buffers[graph.base] /\ local[t].input \in Storage
           /\ IF IsAssign(graph) THEN local[t].output = local[t].input
              ELSE \A b \in Identity : buffers[b] # local[t].output
<1>1. realizing[t] = "execute"
  BY DEF ExecutePlan, RealizeAt
<1>2. PICK old \in GraphType : old = local[t].old
  BY ThreadState
<1>3. graph \in GraphType /\ Planning(F, t, old, graph)
  BY <1>2, ThreadState
<1>4. /\ Stands(F, t, graph)
      /\ OnDevice(graph) => buffers[graph.base] \in Storage /\ local[t].input = buffers[graph.base]
      /\ IsAssign(graph) => local[t].output = local[t].input
  BY <1>1, <1>3 DEF Planning, Planned
<1>5. graph.store # NoStore => OnDevice(graph) /\ graph = FirstGraph[F[t]]
  BY <1>1, <1>2, AssignOfOld DEF Planned
<1>6. ~IsAssign(graph) => local[t].output \in Storage /\ \A b \in Identity : buffers[b] # local[t].output
  BY <1>1 DEF RegistryInv, Private
<1>7. local[t].output \in Storage
  BY <1>4, <1>5, <1>6 DEF IsAssign
<1>8. PICK input, output : input = local[t].input /\ output = local[t].output
  OBVIOUS
<1>9. PICK held : held = IF OnDevice(graph) THEN contents[input] ELSE Fresh
  OBVIOUS
<1>10. OnDevice(graph) => held \in HeldType /\ held = contents[buffers[graph.base]]
  BY <1>4, <1>8, <1>9 DEF RegistryInv, RegistryTypeOK
<1>11. PICK whole, stored : whole = Computes(graph, held) /\ stored = Computes([graph EXCEPT !.height = 0], held)
  OBVIOUS
<1>12. contents' = [s \in Storage |->
            CASE s = output -> whole
              [] s = input /\ graph.store # NoStore -> stored
              [] OTHER -> contents[s]]
  BY <1>8, <1>9, <1>11 DEF ExecutePlan
<1>13. whole \in HeldType /\ stored \in HeldType
  <2>1. PICK flat : flat = [graph EXCEPT !.height = 0]
    OBVIOUS
  <2>2. flat \in GraphType /\ flat.base = graph.base
    BY <1>3, <2>1 DEF GraphType
  <2>3. OnDevice(flat) => OnDevice(graph)
    BY <2>2 DEF OnDevice
  <2> QED BY <1>3, <1>10, <1>11, <2>1, <2>2, <2>3, ComputesType
<1>14. whole = Meaning(FirstGraph[F[t]])
  <2>1. whole = Value(graph)
    BY <1>3, <1>10, <1>11 DEF Value, Computes, OnDevice
  <2> QED BY <1>4, <2>1 DEF Stands
<1>15. contents' \in [Storage -> HeldType]
  <2>1. \A s \in Storage : contents[s] \in HeldType
    BY DEF RegistryInv, RegistryTypeOK
  <2> QED BY <1>12, <1>13, <2>1
<1>16. \A s \in Storage : s # output /\ (graph.store # NoStore => s # input) => contents'[s] = contents[s]
  <2> SUFFICES ASSUME NEW s \in Storage, s # output, graph.store # NoStore => s # input
               PROVE  contents'[s] = contents[s]
    OBVIOUS
  <2>1. ~(s = output) /\ ~(s = input /\ graph.store # NoStore)
    OBVIOUS
  <2> QED BY <1>12, <2>1
<1>17. graph.store # NoStore => Pending(F, t) /\ graph.base \in Identity
  BY <1>1, <1>3, <1>5 DEF Pending, Early, OnDevice, GraphType
<1>18. contents'[output] = whole
  <2>1. CASE output = input /\ graph.store # NoStore
    <3>1. IsAssign(graph)
      BY <1>4, <1>5, <1>6, <1>8, <1>17, <2>1
    <3>2. [graph EXCEPT !.height = 0] = graph
      BY <1>3, <3>1 DEF IsAssign, GraphType
    <3>3. stored = whole
      BY <1>11, <3>2
    <3> QED BY <1>7, <1>8, <1>12, <2>1, <3>3
  <2>2. CASE ~(output = input /\ graph.store # NoStore)
    BY <1>7, <1>8, <1>12, <2>2
  <2> QED BY <2>1, <2>2
<1> QED BY <1>4, <1>5, <1>6, <1>7, <1>8, <1>14, <1>15, <1>16, <1>17, <1>18

\* ExecutionPlan::execute: nobody else relies on what the kernels write.
LEMMA ExecuteKeeps ==
    ASSUME NEW F, WellFormed, OnesOwn(F), RegistryInv(F), NEW t \in Realizer, ExecutePlan(t)
    PROVE  RegistryInv(F)'
<1>1. realizing[t] = "execute" /\ RealizeTo(t, "register") /\ UNCHANGED <<uop, attached, buffers, task, local>>
  BY DEF ExecutePlan, RealizeAt
<1>2. PICK g \in GraphType, old \in GraphType, graph \in GraphType, new \in GraphType :
        g = uop[F[t]] /\ old = local[t].old /\ graph = local[t].graph /\ new = local[t].new
  BY ThreadState
<1>3. Entry(F, t, g) /\ Planning(F, t, old, graph) /\ F[t] \in Tensor
  BY <1>2, ThreadState
<1>4. Stands(F, t, graph) /\ Stands(F, t, old)
  BY <1>1, <1>3 DEF Planning, Planned
<1>5. PICK input, output : input = local[t].input /\ output = local[t].output
  OBVIOUS
<1>6. /\ contents' \in [Storage -> HeldType]
      /\ output \in Storage /\ contents'[output] = Meaning(FirstGraph[F[t]])
      /\ \A s \in Storage : s # output /\ (graph.store # NoStore => s # input) => contents'[s] = contents[s]
      /\ graph.store # NoStore =>
           graph = FirstGraph[F[t]] /\ Pending(F, t) /\ graph.base \in Identity /\ input = buffers[graph.base] /\ input \in Storage
      /\ IF IsAssign(graph) THEN output = input ELSE \A b \in Identity : buffers[b] # output
  BY <1>2, <1>5, ExecuteWrites
<1>7. realizing'[t] = "register" /\ \A u \in Realizer \ {t} : realizing'[u] = realizing[u]
  BY <1>1 DEF RealizeTo, RegistryInv, RegistryTypeOK
<1>8. Undisturbed(F)
  <2>1. \A u \in Realizer : Pending(F, u)' => Pending(F, u)
    BY <1>7 DEF Pending, Early
  <2>2. ASSUME NEW b \in Identity, Settled(F, b) PROVE contents'[buffers[b]] = contents[buffers[b]]
    <3>1. buffers[b] \in Storage /\ buffers[b] # NoStorage
      BY <2>2 DEF Settled, WellFormed
    <3>2. graph.store # NoStore => b # graph.base
      BY <1>6, <2>2 DEF Settled
    <3>3. graph.store # NoStore => buffers[b] # input
      BY <1>6, <3>1, <3>2 DEF RegistryInv, Bindings
    <3>4. buffers[b] # output
      BY <1>6, <2>2, <3>3 DEF IsAssign
    <3> QED BY <1>6, <3>1, <3>3, <3>4
  <2> QED BY <1>1, <2>1, <2>2 DEF Undisturbed, Settled
<1>9. ASSUME NEW u \in Realizer \ {t} PROVE Untouched(F, u)
  <2>1. ASSUME realizing[u] = "register" PROVE contents'[local[u].output] = contents[local[u].output]
    <3>1. PICK o \in GraphType, h \in GraphType : o = local[u].old /\ h = local[u].graph
      BY ThreadState
    <3>2. Planning(F, u, o, h)
      BY <3>1, ThreadState
    <3>3. CASE IsAssign(h)
      <4>1. IsAssign(o)
        BY <2>1, <3>1, <3>3, AssignOfOld DEF Planned
      <4>2. Settled(F, o.base) /\ local[u].output = buffers[o.base]
        BY <2>1, <3>2, <4>1 DEF Planning
      <4> QED BY <1>8, <4>2 DEF Undisturbed, Settled
    <3>4. CASE ~IsAssign(h)
      <4>1. local[u].output \in Storage /\ local[u].output # input /\ local[u].output # output
        BY <1>5, <2>1, <3>1, <3>4 DEF RegistryInv, Private
      <4> QED BY <1>6, <4>1
    <3> QED BY <3>3, <3>4
  <2> QED BY <1>1, <1>7, <2>1 DEF Untouched
<1>10. RegistryTypeOK(F)'
  <2>1. realizing' \in [Realizer -> Early \cup {"register", "entry", "done", "failed"} \cup Named]
    BY <1>1 DEF RealizeTo, RegistryInv, RegistryTypeOK
  <2>2. \A u \in Realizer : realizing'[u] \notin Scanning => local'[u].affected = {}
    BY <1>1, <1>7 DEF RegistryInv, RegistryTypeOK, Scanning
  <2> QED BY <1>1, <1>6, <2>1, <2>2 DEF RegistryInv, RegistryTypeOK
<1>11. OfThread(F, t)'
  <2>1. Stands(F, t, graph)' /\ Stands(F, t, old)' /\ (~IsConst(g) => Stands(F, t, g)')
    BY <1>3, <1>4, <1>8, StandsKept DEF Entry
  <2>2. Entry(F, t, g)'
    BY <1>1, <1>3, <1>7, <2>1 DEF Entry, Named, Renaming, Scanning
  <2>3. IsAssign(old) => Settled(F, old.base)' /\ output = buffers[old.base]
    <3>1. SUFFICES ASSUME IsAssign(old) PROVE Settled(F, old.base)' /\ output = buffers[old.base]
      OBVIOUS
    <3>2. IsAssign(graph) /\ old = graph
      BY <1>1, <1>2, <3>1, AssignOfOld DEF Planned
    <3>3. /\ old.base \in Identity /\ old = FirstGraph[F[t]] /\ old.store # NoStore
          /\ output = buffers[old.base] /\ buffers[old.base] \in Storage
      BY <1>6, <3>2 DEF IsAssign
    <3>4. \A u \in Realizer : Pending(F, u)' => old.base # FirstGraph[F[u]].base
      BY <1>7, <3>3 DEF Pending, Early, OnesOwn
    <3> QED BY <1>1, <3>3, <3>4 DEF Settled
  <2>4. Planning(F, t, old, graph)'
    BY <1>1, <1>3, <1>5, <1>6, <1>7, <2>1, <2>3 DEF Planning, Planned, Named, Renaming, Scanning
  <2>5. Replacing(F, t, old, new)'
    BY <1>7 DEF Replacing, Named, Renaming, Scanning
  <2> QED BY <1>1, <1>2, <2>2, <2>4, <2>5 DEF OfThread
<1>12. \A u \in Realizer : Private(u)'
  BY <1>1, <1>7 DEF RegistryInv, Private
<1>13. Bindings'
  BY <1>1 DEF RegistryInv, Bindings
<1> QED BY <1>1, <1>8, <1>9, <1>10, <1>11, <1>12, <1>13, BusyStep

\* A new identity is one that nothing refers to.
LEMMA IdentityIsNew ==
    ASSUME \E b \in Identity : buffers[b] = NoStorage /\ ~Referenced(b)
    PROVE  NewIdentity \in Identity /\ buffers[NewIdentity] = NoStorage /\ ~Referenced(NewIdentity)
  BY DEF NewIdentity

\* realized_identity of an assign is the identity that was stored into.
LEMMA RegisterStoredKeeps ==
    ASSUME NEW F, WellFormed, OnesOwn(F), RegistryInv(F), NEW t \in Realizer, Register(t), IsAssign(local[t].old)
    PROVE  RegistryInv(F)'
<1>1. realizing[t] = "register" /\ RealizeTo(t, "entry") /\ UNCHANGED <<uop, attached, contents, task>>
  BY DEF Register, RealizeAt
<1>2. PICK g \in GraphType, old \in GraphType, graph \in GraphType :
        g = uop[F[t]] /\ old = local[t].old /\ graph = local[t].graph
  BY ThreadState
<1>3. Entry(F, t, g) /\ Planning(F, t, old, graph) /\ F[t] \in Tensor /\ local[t] \in LocalType /\ local[t].affected = {}
  BY <1>1, <1>2, ThreadState DEF Scanning
<1>4. PICK output, a : output = local[t].output /\ a = attached[F[t]]
  OBVIOUS
<1>5. /\ Stands(F, t, old) /\ Settled(F, old.base) /\ output = buffers[old.base]
      /\ contents[output] = Meaning(FirstGraph[F[t]])
  BY <1>1, <1>2, <1>3, <1>4 DEF Planning, Planned
<1>6. old.base \in Identity /\ old.base # Const /\ output \in Storage /\ old.store # NoStore /\ ~HasIdentity(old)
  BY <1>2, <1>5 DEF Settled, WellFormed, IsAssign, HasIdentity
<1>7. GetBuffer(old.base) = output
  <2>1. Referenced(old.base)
    BY <1>2 DEF Referenced
  <2> QED BY <1>5, <1>6, <2>1 DEF GetBuffer
<1>8. PICK new : new = Graph(old.base, NoStore, 0)
  OBVIOUS
<1>9. new \in GraphType /\ HasIdentity(new) /\ new.base = old.base /\ new.store = NoStore /\ new.height = 0
  BY <1>6, <1>8 DEF Graph, GraphType, HasIdentity
<1>10. PICK r : r = [local[t] EXCEPT !.new = new, !.output = output]
  OBVIOUS
<1>11. r \in LocalType /\ r.input = local[t].input /\ r.output = output /\ r.affected = {}
       /\ r.old = old /\ r.graph = graph /\ r.new = new
  BY <1>2, <1>3, <1>6, <1>9, <1>10 DEF LocalType
<1>12. local' = [local EXCEPT ![t] = r] /\ UNCHANGED buffers
  <2>1. local' = [local EXCEPT ![t].new = new, ![t].output = output] /\ UNCHANGED buffers
    BY <1>2, <1>7, <1>8 DEF Register
  <2> QED BY <1>10, <2>1 DEF RegistryInv, RegistryTypeOK
<1>13. Writes(F, t, "entry", r, g, a)
  BY <1>1, <1>2, <1>4, <1>11, <1>12, WritesLocals DEF Early
<1>14. /\ Undisturbed(F) /\ realizing'[t] = "entry" /\ local'[t] = r /\ uop'[F[t]] = g /\ attached'[F[t]] = a
       /\ buffers' = buffers /\ contents' = contents
  BY <1>1, <1>13, Written
<1>15. Stands(F, t, old)' /\ (~IsConst(g) => Stands(F, t, g)')
  BY <1>3, <1>5, <1>14, StandsKept DEF Entry
<1>16. Entry(F, t, g)'
  BY <1>1, <1>3, <1>4, <1>14, <1>15 DEF Entry, Named, Renaming, Scanning
<1>17. Planning(F, t, old, graph)'
  BY <1>1, <1>3, <1>6, <1>14, <1>15 DEF Planning, Planned, Named, Renaming, Scanning
<1>18. Replacing(F, t, old, new)'
  <2>1. Settled(F, new.base)'
    BY <1>5, <1>6, <1>9, <1>14 DEF Undisturbed
  <2>2. Value(new)' = Meaning(FirstGraph[F[t]])
    <3>1. PICK held \in HeldType : held = contents[output]
      BY <1>6 DEF RegistryInv, RegistryTypeOK
    <3>2. [held EXCEPT !.height = @ + 0] = held
      BY <3>1 DEF HeldType
    <3>3. Computes(new, held) = held
      BY <1>6, <1>9, <3>2 DEF Computes
    <3> QED BY <1>5, <1>9, <1>14, <3>1, <3>3 DEF Value
  <2> QED BY <1>5, <1>9, <1>11, <1>14, <2>1, <2>2 DEF Replacing, Named, Renaming, Scanning
<1> QED BY <1>11, <1>13, <1>16, <1>17, <1>18, OwnStep

\* Any other plan gets an identity nothing refers to, bound to its own output.
LEMMA RegisterNewKeeps ==
    ASSUME NEW F, WellFormed, OnesOwn(F), RegistryInv(F), NEW t \in Realizer, Register(t), ~IsAssign(local[t].old), Supply
    PROVE  RegistryInv(F)'
<1>1. realizing[t] = "register" /\ RealizeTo(t, "entry") /\ UNCHANGED <<uop, attached, contents, task>>
  BY DEF Register, RealizeAt
<1>2. PICK g \in GraphType, old \in GraphType, graph \in GraphType :
        g = uop[F[t]] /\ old = local[t].old /\ graph = local[t].graph
  BY ThreadState
<1>3. Entry(F, t, g) /\ Planning(F, t, old, graph) /\ F[t] \in Tensor /\ local[t] \in LocalType /\ local[t].affected = {}
  BY <1>1, <1>2, ThreadState DEF Scanning
<1>4. PICK output : output = local[t].output
  OBVIOUS
<1>5. Stands(F, t, old) /\ contents[output] = Meaning(FirstGraph[F[t]]) /\ ~HasIdentity(old)
  BY <1>1, <1>3, <1>4 DEF Planning, Planned
<1>6. ~IsAssign(graph)
  BY <1>1, <1>2, AssignOfOld DEF Planned
<1>7. /\ output \in Storage /\ output # NoStorage
      /\ \A c \in Identity : buffers[c] # output
      /\ \A u \in Realizer \ {t} : output # local[u].input /\ output # local[u].output
  BY <1>1, <1>2, <1>4, <1>6 DEF RegistryInv, Private, WellFormed
<1>8. PICK b \in Identity : b = NewIdentity /\ buffers[b] = NoStorage /\ ~Referenced(b)
  BY <1>1, IdentityIsNew DEF Supply
<1>9. b # Const /\ b \notin Inputs /\ \A u \in Realizer : Pending(F, u) => FirstGraph[F[u]].base # b
  BY <1>8, PendingReferenced DEF WellFormed, Referenced
<1>10. PICK new : new = Graph(b, NoStore, 0)
  OBVIOUS
<1>11. new \in GraphType /\ HasIdentity(new) /\ new.base = b /\ new.store = NoStore /\ new.height = 0
  BY <1>9, <1>10 DEF Graph, GraphType, HasIdentity
<1>12. PICK r : r = [local[t] EXCEPT !.new = new]
  OBVIOUS
<1>13. r \in LocalType /\ r.input = local[t].input /\ r.output = output /\ r.affected = {}
       /\ r.old = old /\ r.graph = graph /\ r.new = new
  BY <1>2, <1>3, <1>4, <1>11, <1>12 DEF LocalType
<1>14. local' = [local EXCEPT ![t] = r] /\ buffers' = [buffers EXCEPT ![b] = output]
  <2>1. local' = [local EXCEPT ![t].new = new] /\ buffers' = [buffers EXCEPT ![b] = output]
    BY <1>4, <1>8, <1>10 DEF Register
  <2> QED BY <1>12, <2>1 DEF RegistryInv, RegistryTypeOK
<1>15. /\ realizing'[t] = "entry" /\ \A u \in Realizer \ {t} : realizing'[u] = realizing[u]
       /\ local'[t] = r /\ \A u \in Realizer \ {t} : local'[u] = local[u]
       /\ buffers'[b] = output /\ \A c \in Identity \ {b} : buffers'[c] = buffers[c]
  BY <1>1, <1>14 DEF RealizeTo, RegistryInv, RegistryTypeOK
<1>16. Undisturbed(F)
  <2>1. \A u \in Realizer : Pending(F, u)' => Pending(F, u)
    BY <1>15 DEF Pending, Early
  <2>2. \A c \in Identity : Settled(F, c) => c # b
    BY <1>8 DEF Settled, WellFormed
  <2> QED BY <1>1, <1>15, <2>1, <2>2 DEF Undisturbed, Settled
<1>17. ASSUME NEW u \in Realizer \ {t} PROVE Untouched(F, u)
  <2>1. Pending(F, u) => FirstGraph[F[u]].base \in Identity \ {b}
    <3>1. F[u] \in Tensor
      BY DEF OnesOwn
    <3> QED BY <1>9, <3>1 DEF Pending, OnesOwn, WellFormed, GraphType
  <2> QED BY <1>1, <1>15, <2>1 DEF Untouched
<1>18. RegistryTypeOK(F)'
  <2>1. realizing' \in [Realizer -> Early \cup {"register", "entry", "done", "failed"} \cup Named]
    BY <1>1 DEF RealizeTo, RegistryInv, RegistryTypeOK
  <2>2. \A u \in Realizer : realizing'[u] \notin Scanning => local'[u].affected = {}
    BY <1>13, <1>15 DEF RegistryInv, RegistryTypeOK
  <2>3. buffers' \in [Identity -> Storage \cup {NoStorage}] /\ local' \in [Realizer -> LocalType]
    BY <1>7, <1>13, <1>14 DEF RegistryInv, RegistryTypeOK
  <2> QED BY <1>1, <2>1, <2>2, <2>3 DEF RegistryInv, RegistryTypeOK
<1>19. OfThread(F, t)'
  <2>1. Stands(F, t, old)' /\ (~IsConst(g) => Stands(F, t, g)')
    BY <1>3, <1>5, <1>16, StandsKept DEF Entry
  <2>2. Entry(F, t, g)'
    BY <1>1, <1>3, <1>15, <2>1 DEF Entry, Named, Renaming, Scanning
  <2>3. Planning(F, t, old, graph)'
    BY <1>1, <1>3, <1>5, <1>15, <2>1 DEF Planning, Planned, Named, Renaming, Scanning
  <2>4. Settled(F, new.base)'
    <3>1. \A u \in Realizer : Pending(F, u)' => Pending(F, u)
      BY <1>15 DEF Pending, Early
    <3> QED BY <1>1, <1>7, <1>9, <1>11, <1>15, <3>1 DEF Settled
  <2>5. Value(new)' = Meaning(FirstGraph[F[t]])
    <3>1. PICK held \in HeldType : held = contents[output]
      BY <1>7 DEF RegistryInv, RegistryTypeOK
    <3>2. [held EXCEPT !.height = @ + 0] = held
      BY <3>1 DEF HeldType
    <3>3. Computes(new, held) = held
      BY <1>9, <1>11, <3>2 DEF Computes
    <3> QED BY <1>1, <1>5, <1>11, <1>15, <3>1, <3>3 DEF Value
  <2>6. Replacing(F, t, old, new)'
    BY <1>11, <1>13, <1>15, <2>4, <2>5 DEF Replacing, Named, Renaming, Scanning
  <2> QED BY <1>1, <1>2, <1>13, <1>15, <2>2, <2>3, <2>6 DEF OfThread
<1>20. ASSUME NEW u \in Realizer PROVE Private(u)'
  <2>1. CASE u = t
    BY <1>15, <2>1 DEF Private
  <2>2. CASE u # t
    <3>1. Private(u) /\ realizing'[u] = realizing[u] /\ local'[u] = local[u]
      BY <1>15, <2>2 DEF RegistryInv
    <3>2. \A c \in Identity : buffers[c] # local[u].output => buffers'[c] # local[u].output
      BY <1>7, <1>15, <2>2
    <3>3. \A v \in Realizer : local'[v].input = local[v].input /\ local'[v].output = local[v].output
      BY <1>4, <1>13, <1>15
    <3> QED BY <3>1, <3>2, <3>3 DEF Private
  <2> QED BY <2>1, <2>2
<1>21. Bindings'
  <2>1. \A c, d \in Identity : c # d /\ buffers'[c] # NoStorage => buffers'[c] # buffers'[d]
    BY <1>7, <1>15 DEF RegistryInv, Bindings
  <2>2. \A c \in Inputs : buffers'[c] = c
    BY <1>9, <1>15 DEF RegistryInv, Bindings, WellFormed
  <2> QED BY <2>1, <2>2 DEF Bindings
<1> QED BY <1>1, <1>16, <1>17, <1>18, <1>19, <1>20, <1>21, BusyStep

---------------------------------------------------------------------------------
(* TensorRegistry: the theorem                                                 *)

\* At first every tensor holds what it is to be, and nothing is realized.
LEMMA RegistryStarts ==
    ASSUME WellFormed, OnesOwn(task), RegistryInit
    PROVE  RegistryInv(task)
<1>1. PICK F : F = task
  OBVIOUS
<1>2. /\ uop = FirstGraph
      /\ attached = [x \in Tensor |-> IF HasIdentity(FirstGraph[x]) THEN FirstGraph[x].base ELSE NoStorage]
      /\ buffers = [b \in Identity |-> IF b \in Inputs THEN b ELSE NoStorage]
      /\ contents = [s \in Storage |-> [root |-> IF s \in Inputs THEN s ELSE 0, height |-> 0]]
      /\ realizing = [t \in Realizer |-> "start"] /\ local = [t \in Realizer |-> Locals]
  BY DEF RegistryInit
<1>3. /\ \A b \in Inputs : b \in Identity /\ b \in Storage /\ buffers[b] = b
      /\ \A b \in Identity : IF b \in Inputs THEN buffers[b] = b ELSE buffers[b] = NoStorage
  BY <1>2 DEF WellFormed
<1>4. RegistryTypeOK(F)
  <2>1. uop \in [Tensor -> GraphType]
    BY <1>2 DEF WellFormed
  <2>2. contents \in [Storage -> HeldType]
    BY <1>2 DEF HeldType
  <2>3. buffers \in [Identity -> Storage \cup {NoStorage}]
    BY <1>2 DEF WellFormed
  <2>4. local \in [Realizer -> LocalType] /\ \A t \in Realizer : local[t].affected = {}
    BY <1>2, LocalsType
  <2>5. realizing \in [Realizer -> Early \cup {"register", "entry", "done", "failed"} \cup Named]
    BY <1>2 DEF Early
  <2>6. attached = [x \in Tensor |-> attached[x]]
    BY <1>2
  <2> QED BY <1>1, <2>1, <2>2, <2>3, <2>4, <2>5, <2>6 DEF RegistryTypeOK
<1>5. Bindings
  BY <1>3 DEF Bindings
<1>6. ASSUME NEW t \in Realizer PROVE realizing[t] = "start" /\ local[t] = Locals
  BY <1>2
<1>7. ASSUME NEW t \in Realizer, NEW g \in GraphType, g = uop[F[t]] PROVE Entry(F, t, g)
  <2>1. F[t] \in Tensor /\ g = FirstGraph[F[t]]
    BY <1>1, <1>2, <1>7 DEF OnesOwn
  <2>2. g.store = NoStore => g.base \in Inputs \cup {Const}
    BY <1>1, <2>1 DEF OnesOwn
  <2>3. g.store = NoStore /\ OnDevice(g) =>
          /\ g.base \in Inputs /\ buffers[g.base] = g.base
          /\ contents[buffers[g.base]] = [root |-> g.base, height |-> 0]
    <3>1. SUFFICES ASSUME g.store = NoStore, OnDevice(g)
                   PROVE  /\ g.base \in Inputs /\ buffers[g.base] = g.base
                          /\ contents[buffers[g.base]] = [root |-> g.base, height |-> 0]
      OBVIOUS
    <3>2. g.base \in Inputs
      BY <2>2, <3>1 DEF OnDevice
    <3>3. g.base \in Storage /\ buffers[g.base] = g.base
      BY <1>3, <3>2
    <3> QED BY <1>2, <3>2, <3>3
  <2>4. g.store = NoStore /\ OnDevice(g) => Settled(F, g.base)
    <3>1. SUFFICES ASSUME g.store = NoStore, OnDevice(g) PROVE Settled(F, g.base)
      OBVIOUS
    <3>2. g.base \in Identity /\ buffers[g.base] \in Storage
      BY <1>3, <2>3, <3>1
    <3>3. ASSUME NEW u \in Realizer, Pending(F, u) PROVE g.base # FirstGraph[F[u]].base
      <4>1. FirstGraph[F[u]].store # NoStore /\ u # t
        BY <2>1, <3>1, <3>3 DEF Pending
      <4> QED BY <1>1, <2>1, <4>1 DEF OnesOwn
    <3> QED BY <3>2, <3>3 DEF Settled
  <2>5. ~IsConst(g) => Value(g) = Meaning(FirstGraph[F[t]])
    <3>1. CASE g.store = NoStore /\ OnDevice(g)
      BY <2>1, <2>3, <3>1 DEF Value, Meaning
    <3>2. CASE ~(g.store = NoStore /\ OnDevice(g))
      BY <2>1, <3>2 DEF Value, Meaning, Computes, OnDevice
    <3> QED BY <3>1, <3>2
  <2>6. ~IsConst(g) => Stands(F, t, g)
    BY <2>1, <2>4, <2>5 DEF Stands
  <2>7. attached[F[t]] = IF HasIdentity(g) THEN g.base ELSE NoStorage
    BY <1>2, <2>1
  <2> QED BY <1>6, <2>1, <2>6, <2>7 DEF Entry, Named, Renaming, Scanning
<1>8. ASSUME NEW t \in Realizer, NEW old, NEW graph PROVE Planning(F, t, old, graph)
  BY <1>6 DEF Planning, Planned, Named, Renaming, Scanning
<1>9. ASSUME NEW t \in Realizer, NEW old, NEW new PROVE Replacing(F, t, old, new)
  BY <1>6 DEF Replacing, Named, Renaming, Scanning
<1>10. \A t \in Realizer : Private(t)
  BY <1>6 DEF Private
<1>11. RegistryInv(F)
  BY <1>4, <1>5, <1>7, <1>8, <1>9, <1>10 DEF RegistryInv
<1> QED BY <1>1, <1>11

\* Nothing changes while nothing happens.
LEMMA RegistryStutters ==
    ASSUME NEW F, WellFormed, OnesOwn(F), RegistryInv(F), UNCHANGED registryVars
    PROVE  RegistryInv(F)'
<1>1. UNCHANGED <<uop, attached, buffers, contents, task, realizing, local>>
  BY DEF registryVars
<1>2. Undisturbed(F)
  BY <1>1 DEF Undisturbed, Settled, Pending
<1>3. RegistryTypeOK(F)'
  BY <1>1 DEF RegistryInv, RegistryTypeOK
<1>4. ASSUME NEW u \in Realizer PROVE OfThread(F, u)'
  <2>1. Untouched(F, u)
    BY <1>1 DEF Untouched
  <2>2. \A g, h \in GraphType : g = uop[F[u]] /\ h = uop'[F[u]] => Replaced(F, u, g, h)
    BY <1>1 DEF Replaced
  <2> QED BY <1>2, <1>3, <2>1, <2>2, OthersKept
<1>5. \A u \in Realizer : Private(u)'
  BY <1>1 DEF RegistryInv, Private
<1>6. Bindings'
  BY <1>1 DEF RegistryInv, Bindings
<1> QED BY <1>3, <1>4, <1>5, <1>6 DEF RegistryInv, OfThread

\* Every step keeps the invariant.
LEMMA RegistryKeeps ==
    ASSUME NEW F, WellFormed, OnesOwn(F), RegistryInv(F), Supply, [RegistryNext]_registryVars
    PROVE  RegistryInv(F)'
<1>1. CASE UNCHANGED registryVars
  BY <1>1, RegistryStutters
<1>2. ASSUME NEW t \in Realizer,
             \/ Enter(t) \/ EnsureBuffer(t) \/ Attach(t) \/ WrapConst(t) \/ StoreWrapped(t) \/ ReadOld(t)
             \/ PreparePlan(t) \/ Adopt(t) \/ BindCheck(t) \/ RealizeFails(t)
      PROVE  RegistryInv(F)'
  BY <1>2, EnterKeeps, EnsureKeeps, AttachKeeps, WrapKeeps, StoreWrappedKeeps, ReadOldKeeps,
     PrepareKeeps, AdoptKeeps, BindCheckKeeps, FailsKeeps
<1>3. ASSUME NEW t \in Realizer, Allocate(t) \/ Collect(t) \/ ExecutePlan(t) \/ Register(t)
      PROVE  RegistryInv(F)'
  BY <1>3, AllocateKeeps, CollectKeeps, ExecuteKeeps, RegisterStoredKeeps, RegisterNewKeeps
<1>4. ASSUME NEW t \in Realizer,
             \/ RegisterEntry(t) \/ SetUop(t) \/ SetBuffer(t) \/ Reread(t) \/ Scan(t) \/ Snapshot(t) \/ Apply(t)
      PROVE  RegistryInv(F)'
  BY <1>4, RegisterEntryKeeps, SetUopKeeps, SetBufferKeeps, RereadKeeps, ScanKeeps, SnapshotKeeps, ApplyKeeps
<1> QED BY <1>1, <1>2, <1>3, <1>4 DEF RegistryNext

\* What the invariant says of a thread that is done.
LEMMA RegistryInvAgrees ==
    ASSUME NEW F, WellFormed, OnesOwn(F), RegistryInv(F)
    PROVE  IdentitiesAgree
<1>1. SUFFICES ASSUME NEW t \in Realizer, realizing[t] = "done"
               PROVE  /\ HasIdentity(uop[F[t]]) /\ attached[F[t]] # NoStorage
                      /\ GetBuffer(uop[F[t]].base) = attached[F[t]]
                      /\ contents[attached[F[t]]] = Meaning(FirstGraph[F[t]])
  BY AtTarget DEF IdentitiesAgree
<1>2. PICK g \in GraphType : g = uop[F[t]]
  BY ThreadState
<1>3. Entry(F, t, g) /\ F[t] \in Tensor
  BY <1>2, ThreadState
<1>4. HasIdentity(g) /\ Stands(F, t, g) /\ attached[F[t]] = buffers[g.base]
  BY <1>1, <1>3 DEF Entry
<1>5. Settled(F, g.base)
  BY <1>4 DEF Stands, HasIdentity, OnDevice
<1>6. buffers[g.base] \in Storage /\ buffers[g.base] # NoStorage
  BY <1>5 DEF Settled, WellFormed
<1>7. GetBuffer(g.base) = buffers[g.base]
  <2>1. Referenced(g.base)
    BY <1>2, <1>3 DEF Referenced
  <2> QED BY <1>4, <2>1 DEF GetBuffer, HasIdentity
<1>8. contents[buffers[g.base]] = Meaning(FirstGraph[F[t]])
  <2>1. PICK held \in HeldType : held = contents[buffers[g.base]]
    BY <1>6 DEF RegistryInv, RegistryTypeOK
  <2>2. [held EXCEPT !.height = @ + 0] = held
    BY <2>1 DEF HeldType
  <2>3. Value(g) = held
    BY <1>4, <2>1, <2>2 DEF Value, Computes, HasIdentity
  <2> QED BY <1>4, <2>1, <2>3 DEF Stands
<1> QED BY <1>2, <1>4, <1>6, <1>7, <1>8

\* Once realize has returned, the tensor's graph, its buffer and the index name one
\* storage, and it holds the tensor's data: for any number of threads, tensors,
\* graphs and storages, if each thread realizes a tensor of its own and an identity
\* that is stored into belongs to one of them (Tensor::realize, register_buffer and
\* the broadcast of tensor_registry.rs).
THEOREM RegistryIdentitiesAgree ==
    ASSUME \A F \in Tasks : OnesOwn(F)
    PROVE  RegistrySpec /\ []Supply => []IdentitiesAgree
<1> DEFINE Inv == \E F \in Tasks : RegistryInv(F)
<1>0. WellFormed
  BY RegistryAssumption DEF WellFormed, GraphType, Store
<1>1. RegistryInit => Inv
  BY <1>0, RegistryStarts DEF RegistryInit
<1>2. Inv /\ Supply /\ [RegistryNext]_registryVars => Inv'
  <2> SUFFICES ASSUME NEW F \in Tasks, RegistryInv(F), Supply, [RegistryNext]_registryVars PROVE Inv'
    OBVIOUS
  <2>1. RegistryInv(F)'
    BY <1>0, RegistryKeeps
  <2> QED BY <2>1
<1>3. Inv => IdentitiesAgree
  BY <1>0, RegistryInvAgrees
<1> QED
  <2> HIDE DEF Inv
  <2> QED BY <1>1, <1>2, <1>3, PTL DEF RegistrySpec

=================================================================================
