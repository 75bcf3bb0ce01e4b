------------------------ MODULE TaskEventQueueProofs ------------------------
(***************************************************************************)
(* No event is stranded in a queue, the notifications of a queue are       *)
(* bounded and the tick is kept alive, for any number of queues, producers *)
(* and pushes; the events of a sender that shares its queues with nobody   *)
(* arrive in order.                                                        *)
(***************************************************************************)
EXTENDS TaskEventQueue, Link, FiniteSetTheorems, SequenceTheorems, TLAPS

\* The positions of q in a sequence of notifications.
At(s, q) == {i \in 1..Len(s) : s[i] = q}

\* The positions of a queue are finitely many.
LEMMA AtFinite ==
    ASSUME NEW s \in Seq(Queues), NEW q
    PROVE  IsFiniteSet(At(s, q)) /\ Cardinality(At(s, q)) \in Nat
<1>1. Len(s) \in Nat /\ At(s, q) \subseteq 1..Len(s)
    BY DEF At
<1>2. IsFiniteSet(1..Len(s))
    BY <1>1, FS_Interval
<1> QED
    BY <1>1, <1>2, FS_Subset, FS_CardinalityType

\* A function on 1..n is a sequence of length n.
LEMMA FunctionIsSeq ==
    ASSUME NEW Q, NEW n \in Nat, NEW t \in [1..n -> Q]
    PROVE  t \in Seq(Q) /\ Len(t) = n
<1>1. t \in Seq(Q)
    BY SeqDef
<1> QED
    BY <1>1, LenProperties

\* A one-to-one map from a finite set onto another keeps the cardinality.
LEMMA SameSize ==
    ASSUME NEW S, NEW T, IsFiniteSet(S), NEW f \in [S -> T],
           \A x, y \in S : f[x] = f[y] => x = y,
           \A t \in T : \E x \in S : f[x] = t
    PROVE  Cardinality(T) = Cardinality(S)
<1>1. f \in Bijection(S, T)
    BY DEF Bijection, Injection, IsInjective, Surjection
<1> QED
    BY <1>1, FS_Bijection DEF ExistsBijection

\* Appending a notification adds one to its queue's count and to no other's.
LEMMA AppendCount ==
    ASSUME NEW s \in Seq(Queues), NEW q \in Queues, NEW r \in Queues
    PROVE  Cardinality(At(Append(s, q), r)) =
               IF r = q THEN Cardinality(At(s, r)) + 1 ELSE Cardinality(At(s, r))
<1>1. CASE r = q
    <2>1. At(Append(s, q), r) = At(s, r) \cup {Len(s) + 1} /\ Len(s) + 1 \notin At(s, r)
        <3>1. /\ Len(s) \in Nat /\ Len(Append(s, q)) = Len(s) + 1
              /\ Append(s, q)[Len(s) + 1] = q
              /\ \A i \in 1..Len(s) : Append(s, q)[i] = s[i]
            OBVIOUS
        <3>2. 1..(Len(s) + 1) = (1..Len(s)) \cup {Len(s) + 1} /\ Len(s) + 1 \notin 1..Len(s)
            BY <3>1
        <3> QED
            BY <1>1, <3>1, <3>2 DEF At
    <2>2. IsFiniteSet(At(s, r))
        BY AtFinite
    <2>3. Cardinality(At(s, r) \cup {Len(s) + 1}) = Cardinality(At(s, r)) + 1
        BY <2>1, <2>2, FS_AddElement
    <2> QED
        BY <1>1, <2>1, <2>3
<1>2. CASE r # q
    <2>1. At(Append(s, q), r) = At(s, r)
        BY <1>2 DEF At
    <2> QED
        BY <1>2, <2>1
<1> QED
    BY <1>1, <1>2

\* Taking the first notification takes one from its queue's count.
LEMMA TailCount ==
    ASSUME NEW s \in Seq(Queues), s # <<>>, NEW r \in Queues
    PROVE  Cardinality(At(Tail(s), r)) =
               IF r = Head(s) THEN Cardinality(At(s, r)) - 1 ELSE Cardinality(At(s, r))
<1> DEFINE T == At(Tail(s), r)
           S == At(s, r) \ {1}
           f == [i \in T |-> i + 1]
<1>1. Tail(s) \in Seq(Queues) /\ Len(Tail(s)) = Len(s) - 1 /\ Len(s) \in Nat /\ Len(s) > 0
    OBVIOUS
<1>2. \A i \in 1..Len(Tail(s)) : Tail(s)[i] = s[i + 1]
    OBVIOUS
<1>3. f \in [T -> S]
    BY <1>1, <1>2 DEF At
<1>4. \A x, y \in T : f[x] = f[y] => x = y
    BY DEF At
<1>5. ASSUME NEW t \in S PROVE \E x \in T : f[x] = t
    <2>1. t \in Nat /\ t - 1 \in 1..Len(Tail(s)) /\ s[t] = r
        BY <1>1 DEF At
    <2>2. t - 1 \in T
        BY <1>1, <1>2, <2>1 DEF At
    <2>3. f[t - 1] = t
        BY <2>1, <2>2
    <2> QED
        BY <2>2, <2>3
<1>6. Cardinality(S) = Cardinality(T)
    <2> HIDE DEF f, S
    <2> QED
        BY <1>1, <1>3, <1>4, <1>5, AtFinite, SameSize
<1>7. 1 \in At(s, r) <=> r = Head(s)
    BY <1>1 DEF At
<1> QED
    BY <1>6, <1>7, AtFinite, FS_RemoveElement

\* remove_expired_queues() turns s into t: a queue that is kept keeps its
\* count, a queue that is not has none left.
Compacted(s, t, kept, r) ==
    /\ t \in Seq(Queues)
    /\ At(s, r) \subseteq kept => Cardinality(At(t, r)) = Cardinality(At(s, r))
    /\ At(s, r) \cap kept = {} => Cardinality(At(t, r)) = 0

\* Keeping the kept positions in their order compacts the notifications.
LEMMA CompactCount ==
    ASSUME NEW s \in Seq(Queues), NEW kept \in SUBSET (1..Len(s)), NEW r \in Queues,
           NEW n \in Nat, NEW f \in [1..n -> kept],
           \A i, j \in 1..n : i < j => f[i] < f[j],
           \A k \in kept : \E i \in 1..n : f[i] = k,
           NEW t \in [1..n -> Queues],
           \A i \in 1..n : t[i] = s[f[i]]
    PROVE  Compacted(s, t, kept, r)
<1>2. t \in Seq(Queues) /\ Len(t) = n /\ \A i \in 1..n : t[i] = s[f[i]] /\ f[i] \in 1..Len(s)
    <2>1. ASSUME NEW i \in 1..n PROVE f[i] \in 1..Len(s) /\ s[f[i]] \in Queues
        <3>1. f[i] \in kept
            OBVIOUS
        <3>2. f[i] \in 1..Len(s)
            BY <3>1
        <3> QED
            BY <3>2
    <2>2. t \in [1..n -> Queues] /\ \A i \in 1..n : t[i] = s[f[i]]
        BY <2>1
    <2>3. t \in Seq(Queues) /\ Len(t) = n
        BY <2>2, FunctionIsSeq
    <2> QED
        BY <2>1, <2>2, <2>3
<1>3. ASSUME At(s, r) \subseteq kept
      PROVE  Cardinality(At(t, r)) = Cardinality(At(s, r))
    <2> DEFINE g == [i \in At(t, r) |-> f[i]]
    <2>1. g \in [At(t, r) -> At(s, r)]
        BY <1>2 DEF At
    <2>2. ASSUME NEW x \in At(t, r), NEW y \in At(t, r), g[x] = g[y] PROVE x = y
        <3>1. x \in 1..n /\ y \in 1..n
            BY <1>2 DEF At
        <3>2. f[x] = f[y] /\ f[x] \in Nat /\ f[y] \in Nat
            BY <1>2, <2>2, <3>1
        <3>3. ~(x < y) /\ ~(y < x)
            BY <3>1, <3>2
        <3> QED
            BY <3>1, <3>3
    <2>3. ASSUME NEW k \in At(s, r) PROVE \E x \in At(t, r) : g[x] = k
        <3>1. PICK i \in 1..n : f[i] = k
            BY <1>3
        <3>2. i \in At(t, r)
            BY <1>2, <3>1 DEF At
        <3> QED
            BY <3>1, <3>2
    <2>4. IsFiniteSet(At(t, r))
        BY <1>2, AtFinite
    <2>5. \A x, y \in At(t, r) : g[x] = g[y] => x = y
        BY <2>2
    <2> HIDE DEF g
    <2> QED
        BY <2>1, <2>3, <2>4, <2>5, SameSize
<1>4. ASSUME At(s, r) \cap kept = {}
      PROVE  Cardinality(At(t, r)) = 0
    <2>1. At(t, r) = {}
        BY <1>2, <1>4 DEF At
    <2> QED
        BY <2>1, FS_EmptySet
<1> QED
    BY <1>2, <1>3, <1>4 DEF Compacted

-----------------------------------------------------------------------------
\* The task works on a queue after it took a notification.
ServingQueue == pc \in {"lock", "forward"} => current \in Queues

\* Items and wake-ups of one queue.  There are never fewer wake-ups than items
\* in a living queue; without clear() there are not more either, and even the
\* notifications that outlive the queue are covered by the items in it.
QueueInv(q) ==
    /\ ~Expired(q) => Len(items[q]) <= WakeUps(q)
    /\ (q \notin Clearable /\ ~Expired(q)) => WakeUps(q) <= Len(items[q])
    /\ q \notin Clearable =>
        Cardinality(Notified(q)) + Cardinality(Pushing(q)) <= Len(items[q])

IInv ==
    /\ TypeOK
    /\ ServingQueue
    /\ UsedQueueLives
    /\ \A q \in Queues : QueueInv(q)

\* The counts in WakeUps are natural numbers.
LEMMA CountsAreNat ==
    ASSUME TypeOK, NEW q \in Queues
    PROVE  /\ IsFiniteSet(Notified(q)) /\ Cardinality(Notified(q)) \in Nat
           /\ IsFiniteSet(Pushing(q)) /\ Cardinality(Pushing(q)) \in Nat
           /\ Serving(q) \in {0, 1}
           /\ Len(items[q]) \in Nat
<1>1. Notified(q) = At(notifications, q)
    BY DEF Notified, At
<1>2. IsFiniteSet(Notified(q)) /\ Cardinality(Notified(q)) \in Nat
    BY <1>1, AtFinite DEF TypeOK
<1>3. IsFiniteSet(Pushing(q)) /\ Cardinality(Pushing(q)) \in Nat
    <2>1. Pushing(q) \subseteq Producers
        BY DEF Pushing
    <2> QED
        BY <2>1, ProducersAssumption, FS_Subset, FS_CardinalityType
<1>4. Len(items[q]) \in Nat
    BY DEF TypeOK
<1> QED
    BY <1>2, <1>3, <1>4 DEF Serving

\* The first half of a push adds an item and a wake-up.
LEMMA PushInv ==
    ASSUME IInv, NEW p \in Producers, NEW q \in Queues, Push(p, q)
    PROVE  IInv'
<1>1. TypeOK'
    <2> DEFINE m == [by |-> p, n |-> sent[p] + 1]
    <2>1. sent[p] + 1 \in 1..MaxPush /\ m \in Items
        BY MaxPushAssumption DEF IInv, TypeOK, Push, Items
    <2>2. Append(items[q], m) \in Seq(Items) /\ Len(Append(items[q], m)) <= Size[q]
        <3>1. items[q] \in Seq(Items) /\ Len(items[q]) < Size[q] /\ Size[q] \in Nat
            BY SizeAssumption DEF IInv, TypeOK, Push
        <3> HIDE DEF m
        <3> QED
            BY <2>1, <3>1
    <2>3. items' \in [Queues -> Seq(Items)] /\ \A r \in Queues : Len(items'[r]) <= Size[r]
        BY <2>2 DEF IInv, TypeOK, Push
    <2> QED
        BY <2>1, <2>3 DEF IInv, TypeOK, Push, taskVars
<1>2. ServingQueue'
    BY DEF IInv, ServingQueue, Push, taskVars
<1>3. UsedQueueLives'
    BY DEF IInv, TypeOK, UsedQueueLives, Push, taskVars, Pushing, Expired
<1>4. ASSUME NEW r \in Queues PROVE QueueInv(r)'
    <2>1. Notified(r)' = Notified(r) /\ Serving(r)' = Serving(r) /\ Expired(r)' = Expired(r)
        BY DEF Push, taskVars, Notified, Serving, Expired
    <2>2. CASE r = q
        <3>1. Pushing(r)' = Pushing(r) \cup {p} /\ p \notin Pushing(r)
            BY <2>2, QueuesAssumption DEF Push, Pushing, IInv, TypeOK
        <3>2. Cardinality(Pushing(r)') = Cardinality(Pushing(r)) + 1
            BY <3>1, CountsAreNat, FS_AddElement DEF IInv
        <3>3. Len(items'[r]) = Len(items[r]) + 1
            BY <2>2 DEF Push, IInv, TypeOK
        <3>4. /\ Cardinality(Notified(r)) \in Nat /\ Cardinality(Pushing(r)) \in Nat
              /\ Serving(r) \in {0, 1} /\ Len(items[r]) \in Nat
            BY CountsAreNat DEF IInv
        <3>5. QueueInv(r)
            BY DEF IInv
        <3> QED
            BY <2>1, <3>2, <3>3, <3>4, <3>5 DEF QueueInv, WakeUps
    <2>3. CASE r # q
        <3>1. Pushing(r)' = Pushing(r)
            BY <2>3, QueuesAssumption DEF Push, Pushing, IInv, TypeOK
        <3>2. items'[r] = items[r]
            BY <2>3 DEF Push, IInv, TypeOK
        <3> QED
            BY <2>1, <3>1, <3>2 DEF IInv, QueueInv, WakeUps
    <2> QED
        BY <2>2, <2>3
<1> QED
    BY <1>1, <1>2, <1>3, <1>4 DEF IInv

\* The second half turns the wake-up of the push into a notification.
LEMMA NotifyInv ==
    ASSUME IInv, NEW p \in Producers, Notify(p)
    PROVE  IInv'
<1> DEFINE q == pushed[p]
<1>0. q \in Queues /\ ~Expired(q)
    BY QueuesAssumption DEF IInv, TypeOK, Notify, UsedQueueLives, Pushing
<1>1. TypeOK'
    BY <1>0 DEF IInv, TypeOK, Notify, taskVars, historyVars, LifeAfterDrop, Lives
<1>2. ServingQueue'
    BY DEF IInv, ServingQueue, Notify, taskVars
<1>3. ASSUME NEW r \in Queues PROVE Expired(r) => Expired(r)'
    BY <1>0 DEF Notify, LifeAfterDrop, Expired, IInv, TypeOK
<1>4. UsedQueueLives'
    <2> SUFFICES ASSUME NEW r \in Queues,
                        Pushing(r)' # {} \/ (pc' = "forward" /\ current' = r)
                 PROVE  ~Expired(r)'
        BY DEF UsedQueueLives
    <2>1. Pushing(r) # {} \/ (pc = "forward" /\ current = r)
        BY <1>0, QueuesAssumption DEF Notify, Pushing, taskVars, IInv, TypeOK
    <2>2. ~Expired(r)
        BY <2>1 DEF IInv, UsedQueueLives
    <2>3. CASE r # q
        BY <2>2, <2>3 DEF Notify, LifeAfterDrop, Expired, IInv, TypeOK
    <2>4. CASE r = q
        <3>1. (\E o \in Producers \ {p} : pushed[o] = q) \/ (pc = "forward" /\ current = q)
            BY <1>0, <2>4, QueuesAssumption DEF Notify, Pushing, taskVars, IInv, TypeOK
        <3>2. life' = life
            BY <3>1 DEF Notify, LifeAfterDrop
        <3> QED
            BY <2>2, <3>2 DEF Expired
    <2> QED
        BY <2>3, <2>4
<1>5. ASSUME NEW r \in Queues PROVE QueueInv(r)'
    <2>1. Serving(r)' = Serving(r) /\ items'[r] = items[r]
        BY DEF Notify, taskVars, Serving
    <2>2. Cardinality(Notified(r)') =
              IF r = q THEN Cardinality(Notified(r)) + 1 ELSE Cardinality(Notified(r))
        <3>1. /\ Notified(r) = At(notifications, r)
              /\ Notified(r)' = At(Append(notifications, q), r)
            BY DEF Notify, Notified, At
        <3> QED
            BY <1>0, <3>1, AppendCount DEF IInv, TypeOK
    <2>3. Cardinality(Pushing(r)') =
              IF r = q THEN Cardinality(Pushing(r)) - 1 ELSE Cardinality(Pushing(r))
        <3>1. Pushing(r)' = IF r = q THEN Pushing(r) \ {p} ELSE Pushing(r)
            BY <1>0, QueuesAssumption DEF Notify, Pushing, IInv, TypeOK
        <3>2. r = q => p \in Pushing(r)
            BY DEF Pushing
        <3> QED
            BY <3>1, <3>2, CountsAreNat, FS_RemoveElement DEF IInv
    <2> QED
        BY <1>3, <2>1, <2>2, <2>3, CountsAreNat DEF IInv, QueueInv, WakeUps
<1> QED
    BY <1>1, <1>2, <1>4, <1>5 DEF IInv

\* A step that leaves notifications, pushes and the task alone and neither adds
\* items nor brings a queue back to life keeps the invariant, if only queues
\* that may be cleared lose items and no queue in use expires.
LEMMA OwnerInv ==
    ASSUME IInv, TypeOK', UNCHANGED <<notifications, pushed, pc, current>>,
           UsedQueueLives',
           \A r \in Queues : Expired(r) => Expired(r)',
           \A r \in Queues : Len(items'[r]) <= Len(items[r]),
           \A r \in Queues \ Clearable : items'[r] = items[r]
    PROVE  IInv'
<1>1. ServingQueue'
    BY DEF IInv, ServingQueue
<1>2. ASSUME NEW r \in Queues PROVE QueueInv(r)'
    <2>1. Notified(r)' = Notified(r) /\ Pushing(r)' = Pushing(r) /\ Serving(r)' = Serving(r)
        BY DEF Notified, Pushing, Serving
    <2>2. Len(items'[r]) \in Nat
        BY DEF TypeOK
    <2> QED
        BY <2>1, <2>2, CountsAreNat DEF IInv, QueueInv, WakeUps
<1> QED
    BY <1>1, <1>2 DEF IInv

\* clear() and the release of a queue by its owner.
LEMMA ClearInv ==
    ASSUME IInv, NEW q \in Queues, BeginClear(q) \/ Clear(q) \/ Release(q)
    PROVE  IInv'
<1>1. CASE BeginClear(q)
    <2>1. TypeOK' /\ UsedQueueLives'
        BY <1>1 DEF BeginClear, producerVars, taskVars, historyVars, IInv, TypeOK, UsedQueueLives, Pushing, Expired
    <2> QED
        BY <1>1, <2>1, CountsAreNat, OwnerInv DEF BeginClear, producerVars, taskVars, Expired, IInv
<1>2. CASE Clear(q)
    <2>1. q \in Clearable
        BY <1>2 DEF Clear, IInv, TypeOK
    <2>2. /\ items' \in [Queues -> Seq(Items)]
          /\ \A r \in Queues : Len(items'[r]) <= Len(items[r])
          /\ \A r \in Queues \ Clearable : items'[r] = items[r]
        <3>1. /\ items \in [Queues -> Seq(Items)]
              /\ items[q] # <<>> => /\ Tail(items[q]) \in Seq(Items)
                                    /\ Len(Tail(items[q])) <= Len(items[q])
            BY DEF IInv, TypeOK
        <3>2. items' = items \/ (items[q] # <<>> /\ items' = [items EXCEPT ![q] = Tail(items[q])])
            BY <1>2 DEF Clear
        <3>3. \A r \in Queues : items'[r] = items[r] \/ (r = q /\ items'[r] = Tail(items[r]) /\ items[r] # <<>>)
            BY <3>1, <3>2
        <3>4. items' \in [Queues -> Seq(Items)]
            BY <3>1, <3>2
        <3>5. \A r \in Queues : Len(items'[r]) <= Len(items[r])
            BY <3>1, <3>3
        <3> QED
            BY <2>1, <3>3, <3>4, <3>5
    <2>3. TypeOK'
        <3>1. \A r \in Queues : Len(items'[r]) <= Size[r]
            BY <2>2, SizeAssumption DEF IInv, TypeOK
        <3> QED
            BY <1>2, <2>2, <3>1 DEF Clear, producerVars, taskVars, IInv, TypeOK
    <2>4. UsedQueueLives'
        BY <1>2 DEF Clear, producerVars, taskVars, IInv, UsedQueueLives, Pushing, Expired
    <2> QED
        BY <1>2, <2>2, <2>3, <2>4, OwnerInv DEF Clear, producerVars, taskVars, Expired
<1>3. CASE Release(q)
    <2>1. TypeOK'
        BY <1>3 DEF Release, producerVars, taskVars, historyVars, IInv, TypeOK, Lives
    <2>2. UsedQueueLives'
        BY <1>3 DEF Release, producerVars, taskVars, IInv, TypeOK, UsedQueueLives, Pushing, Expired
    <2>3. \A r \in Queues : Expired(r) => Expired(r)'
        BY <1>3 DEF Release, Expired, IInv, TypeOK
    <2> QED
        BY <1>3, <2>1, <2>2, <2>3, CountsAreNat, OwnerInv DEF Release, producerVars, taskVars, IInv
<1> QED
    BY <1>1, <1>2, <1>3

\* The destructor of a queue removes notifications of expired queues only.
LEMMA DestructInv ==
    ASSUME IInv, NEW q \in Queues, Destruct(q)
    PROVE  IInv'
<1> DEFINE kept == {i \in 1..Len(notifications) : ~Expired(notifications[i])}
<1>1. PICK f \in [1..Cardinality(kept) -> kept] :
            /\ \A i, j \in DOMAIN f : i < j => f[i] < f[j]
            /\ \A k \in kept : \E i \in DOMAIN f : f[i] = k
            /\ notifications' = [i \in 1..Cardinality(kept) |-> notifications[f[i]]]
    BY DEF Destruct
<1>2. ASSUME NEW r \in Queues
      PROVE  /\ notifications' \in Seq(Queues)
             /\ ~Expired(r) => Cardinality(At(notifications', r)) = Cardinality(At(notifications, r))
             /\ Expired(r) => Cardinality(At(notifications', r)) = 0
    <2>1. notifications \in Seq(Queues) /\ kept \in SUBSET (1..Len(notifications))
        BY DEF IInv, TypeOK
    <2>2. ~Expired(r) => At(notifications, r) \subseteq kept
        BY DEF At
    <2>3. Expired(r) => At(notifications, r) \cap kept = {}
        BY DEF At
    <2> HIDE DEF kept
    <2>4. /\ \A i, j \in 1..Cardinality(kept) : i < j => f[i] < f[j]
          /\ \A k \in kept : \E i \in 1..Cardinality(kept) : f[i] = k
        BY <1>1
    <2>5. /\ notifications' \in [1..Cardinality(kept) -> Queues]
          /\ \A i \in 1..Cardinality(kept) : notifications'[i] = notifications[f[i]]
        <3>1. ASSUME NEW i \in 1..Cardinality(kept) PROVE notifications[f[i]] \in Queues
            <4>1. f[i] \in 1..Len(notifications)
                BY <2>1
            <4> QED
                BY <2>1, <4>1
        <3> QED
            BY <1>1, <3>1
    <2>6. Compacted(notifications, notifications', kept, r)
        <3>1. Cardinality(kept) \in Nat
            <4>1. 1 \in Int /\ Len(notifications) \in Int
                BY <2>1
            <4>2. IsFiniteSet(1..Len(notifications))
                BY <4>1, FS_Interval
            <4> QED
                BY <2>1, <4>2, FS_Subset, FS_CardinalityType
        <3>2. f \in [1..Cardinality(kept) -> kept]
            OBVIOUS
        <3> DEFINE n == Cardinality(kept)
        <3>3. n \in Nat /\ f \in [1..n -> kept] /\ notifications' \in [1..n -> Queues]
            BY <2>5, <3>1, <3>2
        <3>4. /\ \A i, j \in 1..n : i < j => f[i] < f[j]
              /\ \A k \in kept : \E i \in 1..n : f[i] = k
              /\ \A i \in 1..n : notifications'[i] = notifications[f[i]]
            BY <2>4, <2>5
        <3> HIDE DEF n
        <3> QED
            BY <2>1, <3>3, <3>4, CompactCount
    <2> QED
        BY <2>2, <2>3, <2>6 DEF Compacted
<1>3. TypeOK'
    <2>1. items' \in [Queues -> Seq(Items)] /\ \A r \in Queues : Len(items'[r]) <= Size[r]
        <3>1. items' = [items EXCEPT ![q] = <<>>] /\ <<>> \in Seq(Items) /\ Len(<<>>) = 0
            BY DEF Destruct
        <3>2. \A r \in Queues : items'[r] = items[r] \/ items'[r] = <<>>
            BY <3>1 DEF IInv, TypeOK
        <3>3. items' \in [Queues -> Seq(Items)]
            BY <3>1 DEF IInv, TypeOK
        <3>4. ASSUME NEW r \in Queues PROVE Len(items'[r]) <= Size[r]
            <4>1. Size[r] \in Nat /\ Len(items[r]) <= Size[r]
                BY SizeAssumption DEF IInv, TypeOK
            <4>2. CASE items'[r] = items[r]
                BY <4>1, <4>2
            <4>3. CASE items'[r] = <<>>
                <5>1. Len(items'[r]) = 0
                    BY <3>1, <4>3
                <5> QED
                    BY <4>1, <5>1
            <4> QED
                BY <3>2, <4>2, <4>3
        <3> QED
            BY <3>3, <3>4
    <2> QED
        BY <1>2, <2>1 DEF Destruct, producerVars, taskVars, historyVars, IInv, TypeOK, Lives
<1>4. ServingQueue'
    BY DEF Destruct, taskVars, IInv, ServingQueue
<1>5. \A r \in Queues : Expired(r)' <=> Expired(r)
    BY DEF Destruct, Expired, IInv, TypeOK
<1>6. UsedQueueLives'
    BY <1>5 DEF Destruct, producerVars, taskVars, IInv, UsedQueueLives, Pushing
<1>7. ASSUME NEW r \in Queues PROVE QueueInv(r)'
    <2>1. Pushing(r)' = Pushing(r) /\ Serving(r)' = Serving(r)
        BY DEF Destruct, producerVars, taskVars, Pushing, Serving
    <2>2. Notified(r) = At(notifications, r) /\ Notified(r)' = At(notifications', r)
        BY DEF Notified, At
    <2>3. CASE Expired(r)
        <3>1. Cardinality(Pushing(r)) = 0
            BY <2>3, FS_EmptySet DEF IInv, UsedQueueLives
        <3>2. Len(items'[r]) \in Nat
            BY <1>3 DEF TypeOK
        <3> QED
            BY <1>2, <1>5, <2>1, <2>2, <2>3, <3>1, <3>2 DEF QueueInv
    <2>4. CASE ~Expired(r)
        <3>1. items'[r] = items[r]
            BY <2>4 DEF Destruct, Expired, IInv, TypeOK
        <3> QED
            BY <1>2, <1>5, <2>1, <2>2, <2>4, <3>1 DEF IInv, QueueInv, WakeUps
    <2> QED
        BY <2>3, <2>4
<1> QED
    BY <1>3, <1>4, <1>6, <1>7, QueuesAssumption DEF IInv

\* The clock and the steps of the loop that touch no queue.
LEMMA TickInv ==
    ASSUME IInv, TimePasses \/ OverdueTick \/ NothingOverdue \/ Timeout
    PROVE  IInv'
<1>1. /\ UNCHANGED <<items, notifications, life, clearing, pushed, sent, current, delivered>>
      /\ UNCHANGED <<senders, cleared>>
      /\ pc' = pc \/ (pc = "test" /\ pc' = "wait")
    BY DEF TimePasses, OverdueTick, NothingOverdue, Timeout, producerVars, historyVars
<1>2. TypeOK'
    <2>1. overdue' \in BOOLEAN /\ late' \in Nat
        <3>1. CASE TimePasses
            BY <3>1 DEF TimePasses
        <3>2. CASE OverdueTick \/ NothingOverdue \/ Timeout
            BY <3>2 DEF OverdueTick, NothingOverdue, Timeout, IInv, TypeOK
        <3> QED
            BY <3>1, <3>2
    <2> QED
        BY <1>1, <2>1 DEF IInv, TypeOK, Places
<1>3. ServingQueue' /\ UsedQueueLives'
    BY <1>1 DEF IInv, ServingQueue, UsedQueueLives, Pushing, Expired
<1>4. ASSUME NEW r \in Queues PROVE QueueInv(r)'
    <2>1. /\ Notified(r)' = Notified(r) /\ Pushing(r)' = Pushing(r)
          /\ Serving(r)' = Serving(r) /\ Expired(r)' = Expired(r)
        BY <1>1 DEF Notified, Pushing, Serving, Expired
    <2> QED
        BY <1>1, <2>1 DEF IInv, QueueInv, WakeUps
<1> QED
    BY <1>2, <1>3, <1>4 DEF IInv

\* The task takes a notification: one wake-up changes its form.
LEMMA TakeInv ==
    ASSUME IInv, Take
    PROVE  IInv'
<1>1. /\ notifications \in Seq(Queues) /\ notifications # <<>>
      /\ notifications' = Tail(notifications) /\ notifications' \in Seq(Queues)
      /\ current' = Head(notifications) /\ current' \in Queues
    BY DEF Take, IInv, TypeOK
<1>2. TypeOK' /\ ServingQueue'
    BY <1>1 DEF Take, producerVars, historyVars, IInv, TypeOK, Places, ServingQueue
<1>3. UsedQueueLives'
    BY DEF Take, producerVars, IInv, UsedQueueLives, Pushing, Expired
<1>4. ASSUME NEW r \in Queues PROVE QueueInv(r)'
    <2>1. Pushing(r)' = Pushing(r) /\ Expired(r)' = Expired(r) /\ items'[r] = items[r]
        BY DEF Take, producerVars, Pushing, Expired
    <2>2. Serving(r) = 0 /\ Serving(r)' = IF r = current' THEN 1 ELSE 0
        BY DEF Take, Serving
    <2>3. Cardinality(Notified(r)') =
            IF r = current' THEN Cardinality(Notified(r)) - 1 ELSE Cardinality(Notified(r))
        <3>1. Notified(r) = At(notifications, r) /\ Notified(r)' = At(Tail(notifications), r)
            BY <1>1 DEF Notified, At
        <3> QED
            BY <1>1, <3>1, TailCount
    <2> QED
        BY <2>1, <2>2, <2>3, CountsAreNat DEF IInv, QueueInv, WakeUps
<1> QED
    BY <1>2, <1>3, <1>4 DEF IInv

\* The task promotes the weak pointer or drops a notification that has outlived
\* its queue.
LEMMA LockInv ==
    ASSUME IInv, Lock
    PROVE  IInv'
<1>1. UNCHANGED <<items, notifications, life, clearing, pushed, sent, overdue, delivered, late>>
    BY DEF Lock, producerVars
<1>2. TypeOK' /\ ServingQueue'
    BY <1>1 DEF Lock, historyVars, IInv, TypeOK, Places, ServingQueue
<1>3. UsedQueueLives'
    BY <1>1 DEF Lock, IInv, UsedQueueLives, Pushing, Expired
<1>4. ASSUME NEW r \in Queues PROVE QueueInv(r)'
    <2>1. /\ Notified(r)' = Notified(r) /\ Pushing(r)' = Pushing(r)
          /\ Expired(r)' = Expired(r) /\ items'[r] = items[r]
        BY <1>1 DEF Notified, Pushing, Expired
    <2>2. ~Expired(r) => Serving(r)' = Serving(r)
        BY <1>1 DEF Lock, Serving, Expired
    <2> QED
        BY <2>1, <2>2 DEF IInv, QueueInv, WakeUps
<1> QED
    BY <1>2, <1>3, <1>4 DEF IInv

\* The task pops an item for the wake-up it used up.
LEMMA ForwardInv ==
    ASSUME IInv, Forward
    PROVE  IInv'
<1>1. current \in Queues /\ ~Expired(current)
    BY DEF Forward, IInv, ServingQueue, UsedQueueLives
<1>2. \/ items[current] = <<>> /\ UNCHANGED <<items, delivered, late>>
      \/ /\ items[current] # <<>>
         /\ items' = [items EXCEPT ![current] = Tail(items[current])]
         /\ delivered' = Append(delivered, Head(items[current]))
         /\ late' = IF overdue THEN late + 1 ELSE late
    BY DEF Forward
<1>3. /\ items[current] \in Seq(Items)
      /\ items[current] # <<>> => /\ Tail(items[current]) \in Seq(Items)
                                  /\ Head(items[current]) \in Items
                                  /\ Len(Tail(items[current])) = Len(items[current]) - 1
                                  /\ Len(items[current]) > 0
    BY <1>1 DEF IInv, TypeOK
<1>4. ASSUME NEW r \in Queues
      PROVE  Len(items'[r]) = IF r = current /\ items[r] # <<>> THEN Len(items[r]) - 1
                              ELSE Len(items[r])
    BY <1>1, <1>2, <1>3 DEF IInv, TypeOK
<1>5. TypeOK'
    <2>1. items' \in [Queues -> Seq(Items)]
        BY <1>1, <1>2, <1>3 DEF IInv, TypeOK
    <2>2. ASSUME NEW r \in Queues PROVE Len(items'[r]) <= Size[r]
        <3>1. Len(items[r]) \in Nat /\ Len(items[r]) <= Size[r] /\ Size[r] \in Nat
            BY SizeAssumption DEF IInv, TypeOK
        <3> QED
            BY <1>4, <3>1
    <2>3. delivered' \in Seq(Items) /\ late' \in Nat
        <3>1. delivered \in Seq(Items) /\ late \in Nat
            BY DEF IInv, TypeOK
        <3>2. late' = late \/ late' = late + 1
            BY <1>2
        <3>3. late' \in Nat
            BY <3>1, <3>2
        <3>4. delivered' \in Seq(Items)
            <4>1. CASE items[current] = <<>>
                BY <1>2, <3>1, <4>1
            <4>2. CASE items[current] # <<>>
                <5>1. Head(items[current]) \in Items
                    BY <1>3, <4>2
                <5>2. delivered' = Append(delivered, Head(items[current]))
                    BY <1>2, <4>2
                <5> QED
                    BY <3>1, <5>1, <5>2
            <4> QED
                BY <4>1, <4>2
        <3> QED
            BY <3>3, <3>4
    <2>4. life' \in [Queues -> Lives]
        BY <1>1 DEF Forward, LifeAfterDrop, IInv, TypeOK, Lives
    <2> QED
        BY <2>1, <2>2, <2>3, <2>4 DEF Forward, producerVars, historyVars, IInv, TypeOK, Places
<1>6. ServingQueue'
    BY DEF Forward, ServingQueue
<1>7. \A r \in Queues : Expired(r) => Expired(r)'
    BY <1>1 DEF Forward, LifeAfterDrop, Expired, IInv, TypeOK
<1>8. UsedQueueLives'
    <2> SUFFICES ASSUME NEW r \in Queues, Pushing(r) # {} PROVE ~Expired(r)'
        BY DEF Forward, producerVars, UsedQueueLives, Pushing
    <2>1. ~Expired(r)
        BY DEF IInv, UsedQueueLives
    <2> QED
        BY <1>1, <2>1 DEF Forward, LifeAfterDrop, Expired, Pushing, IInv, TypeOK
<1>9. ASSUME NEW r \in Queues PROVE QueueInv(r)'
    <2>1. Notified(r)' = Notified(r) /\ Pushing(r)' = Pushing(r)
        BY DEF Forward, producerVars, Notified, Pushing
    <2>2. Serving(r)' = 0 /\ Serving(r) = IF r = current THEN 1 ELSE 0
        BY DEF Forward, Serving
    <2>3. items[r] # <<>> <=> Len(items[r]) > 0
        BY DEF IInv, TypeOK
    <2> QED
        BY <1>1, <1>4, <1>7, <2>1, <2>2, <2>3, CountsAreNat DEF IInv, QueueInv, WakeUps
<1> QED
    BY <1>5, <1>6, <1>8, <1>9 DEF IInv

-----------------------------------------------------------------------------
\* The invariant holds initially.
LEMMA InitInv == Init => IInv
<1> SUFFICES ASSUME Init PROVE IInv
    OBVIOUS
<1>1. TypeOK
    <2>1. <<>> \in Seq(Items) /\ <<>> \in Seq(Queues) /\ Len(<<>>) = 0 /\ 0 \in 0..MaxPush
        BY MaxPushAssumption
    <2>2. items \in [Queues -> Seq(Items)] /\ \A q \in Queues : Len(items[q]) <= Size[q]
        BY <2>1, SizeAssumption DEF Init
    <2>3. overdue \in BOOLEAN /\ late \in Nat
        BY DEF Init
    <2> QED
        BY <2>1, <2>2, <2>3 DEF Init, TypeOK, Lives, Places
<1>2. ServingQueue
    BY DEF Init, ServingQueue
<1>3. ASSUME NEW q \in Queues
      PROVE  Notified(q) = {} /\ Pushing(q) = {} /\ Serving(q) = 0 /\ Len(items[q]) = 0 /\ ~Expired(q)
    BY QueuesAssumption DEF Init, Notified, Pushing, Serving, Expired
<1>4. UsedQueueLives
    BY <1>3 DEF Init, UsedQueueLives
<1>5. \A q \in Queues : QueueInv(q)
    <2>1. ASSUME NEW q \in Queues
          PROVE  Cardinality(Notified(q)) = 0 /\ Cardinality(Pushing(q)) = 0
        BY <1>3, FS_EmptySet
    <2> QED
        BY <1>3, <2>1 DEF QueueInv, WakeUps
<1> QED
    BY <1>1, <1>2, <1>4, <1>5 DEF IInv

\* Every step keeps it.
LEMMA NextInv == IInv /\ [Next]_vars => IInv'
<1> SUFFICES ASSUME IInv, [Next]_vars PROVE IInv'
    OBVIOUS
<1>1. CASE UNCHANGED vars
    BY <1>1 DEF vars, producerVars, taskVars, historyVars, IInv, TypeOK, ServingQueue, UsedQueueLives,
        QueueInv, WakeUps, Notified, Pushing, Serving, Expired
<1>2. CASE TaskStep \/ TimePasses
    BY <1>2, TickInv, TakeInv, LockInv, ForwardInv DEF TaskStep
<1> QED
    BY <1>1, <1>2, PushInv, NotifyInv, ClearInv, DestructInv DEF Next

\* The queues are used as the types and sizes say.
THEOREM TypeCorrect == Spec => []TypeOK
<1>1. IInv => TypeOK
    BY DEF IInv
<1> QED
    BY <1>1, InitInv, NextInv, PTL DEF Spec

\* Every item in a living queue has a wake-up: no event is stranded, whatever
\* producers, other queues' destructors and clear() do.
THEOREM EventsNotStranded == Spec => []NoStrandedEvent
<1>1. IInv => NoStrandedEvent
    BY DEF IInv, QueueInv, NoStrandedEvent
<1> QED
    BY <1>1, InitInv, NextInv, PTL DEF Spec

\* The task's notifications of a queue that is never cleared fit its size.
THEOREM NotificationsBounded == Spec => []NotificationBound
<1>1. ASSUME IInv, NEW q \in Queues \ Clearable PROVE Cardinality(Notified(q)) <= Size[q]
    <2>1. Len(items[q]) <= Size[q] /\ Size[q] \in Nat
        BY <1>1, SizeAssumption DEF IInv, TypeOK
    <2>2. Cardinality(Notified(q)) + Cardinality(Pushing(q)) <= Len(items[q])
        BY <1>1 DEF IInv, QueueInv
    <2> QED
        BY <1>1, <2>1, <2>2, CountsAreNat DEF IInv
<1>2. IInv => NotificationBound
    BY <1>1 DEF NotificationBound
<1> QED
    BY <1>2, InitInv, NextInv, PTL DEF Spec

\* No queue is destructed under a push or under the task.
THEOREM UsedQueuesLive == Spec => []UsedQueueLives
<1>1. IInv => UsedQueueLives
    BY DEF IInv
<1> QED
    BY <1>1, InitInv, NextInv, PTL DEF Spec

\* Once an item was forwarded with the tick overdue, the loop is back at its
\* test, which makes the tick before anything else.
LateInv == late \in {0, 1} /\ ((overdue /\ late = 1) => pc = "test")

\* At most one item is forwarded between the moment the tick falls due and the
\* tick, however fast the producers are.
THEOREM TickNotStarved == Spec => []TickKeptAlive
<1>1. Init => LateInv
    BY DEF Init, LateInv
<1>2. LateInv /\ [Next]_vars => LateInv'
    <2> SUFFICES ASSUME LateInv, [Next]_vars PROVE LateInv'
        OBVIOUS
    <2>1. CASE UNCHANGED taskVars
        BY <2>1 DEF taskVars, LateInv
    <2>2. CASE TimePasses
        BY <2>2 DEF TimePasses, LateInv
    <2>3. CASE OverdueTick \/ NothingOverdue \/ Timeout
        BY <2>3 DEF OverdueTick, NothingOverdue, Timeout, LateInv
    <2>4. CASE Take \/ Lock
        BY <2>4 DEF Take, Lock, LateInv
    <2>5. CASE Forward
        BY <2>5 DEF Forward, LateInv
    <2>6. ASSUME NEW p \in Producers, NEW q \in Queues, Push(p, q)
          PROVE  UNCHANGED taskVars
        BY <2>6 DEF Push
    <2>7. ASSUME NEW q \in Queues, BeginClear(q) \/ Clear(q) \/ Release(q) \/ Destruct(q)
          PROVE  UNCHANGED taskVars
        BY <2>7 DEF BeginClear, Clear, Release, Destruct
    <2>8. ASSUME NEW p \in Producers, Notify(p) PROVE UNCHANGED taskVars
        BY <2>8 DEF Notify
    <2> QED
        BY <2>1, <2>2, <2>3, <2>4, <2>5, <2>6, <2>7, <2>8 DEF Next, TaskStep, vars
<1>3. LateInv => TickKeptAlive
    BY DEF LateInv, TickKeptAlive
<1> QED
    BY <1>1, <1>2, <1>3, PTL DEF Spec

-----------------------------------------------------------------------------
(* The order of one sender's items, over all the queues of the task.         *)

\* The wake-ups in the order in which they take effect: the one the task works
\* on, the notifications, the one the sender P is about to make.
Slot(P, i) ==
    IF i = 0 THEN IF pc \in {"lock", "forward"} THEN current ELSE NoQueue
    ELSE IF i \in 1..Len(notifications) THEN notifications[i]
    ELSE IF i = Len(notifications) + 1 THEN pushed[P] ELSE NoQueue

\* The queues that P has to itself.
Own(P) == {q \in Queues : senders[q] = {P}}

LiveAt(P, i) == Slot(P, i) \in Own(P) /\ ~Expired(Slot(P, i))

\* Wake-up i was made for item h[i] of its queue: the items in P's living queues
\* are those of the wake-ups, come in the order of the wake-ups, and after all
\* items of P that have been delivered.
Matched(P, h) ==
    /\ \A i, j \in Nat : LiveAt(P, i) /\ LiveAt(P, j) /\ i < j => h[i] < h[j]
    /\ \A q \in Own(P) : ~Expired(q) =>
           \A k \in 1..Len(items[q]) : \E i \in Nat : Slot(P, i) = q /\ h[i] = items[q][k].n
    /\ \A i \in Nat : LiveAt(P, i) =>
           \E k \in 1..Len(items[Slot(P, i)]) : items[Slot(P, i)][k].n = h[i]
    /\ \A i \in Nat : \A x \in 1..Len(delivered) :
           LiveAt(P, i) /\ delivered[x].by = P => delivered[x].n < h[i]

\* The items are numbered as they are sent, in each of P's queues and as
\* delivered.
Numbered(P) ==
    /\ \A q \in Own(P) : \A k, l \in 1..Len(items[q]) : k < l => items[q][k].n < items[q][l].n
    /\ \A q \in Own(P) : \A k \in 1..Len(items[q]) : items[q][k].n <= sent[P]
    /\ \A x \in 1..Len(delivered) : delivered[x].by = P => delivered[x].n <= sent[P]
    /\ \A x, y \in 1..Len(delivered) :
           x < y /\ delivered[x].by = P /\ delivered[y].by = P => delivered[x].n < delivered[y].n

Ordered(P) == Numbered(P) /\ \E h \in [Nat -> Nat] : Matched(P, h)

\* Items and wake-ups come from those who have pushed to the queue.
Traced ==
    /\ \A q \in Queues : \A k \in 1..Len(items[q]) : items[q][k].by \in senders[q]
    /\ \A p \in Producers : pushed[p] # NoQueue => p \in senders[pushed[p]]
    /\ \A i \in 1..Len(notifications) : senders[notifications[i]] # {}
    /\ pc \in {"lock", "forward"} => senders[current] # {}

OrderInv == Traced /\ \A P \in Producers : Alone(P) => Ordered(P)

\* A step that moves wake-up e[i] to place i, and leaves the items of P's living
\* queues alone, keeps the matching.
LEMMA Reindex ==
    ASSUME NEW P, NEW h \in [Nat -> Nat], Matched(P, h), NEW e \in [Nat -> Nat],
           Own(P)' = Own(P),
           \A x \in 1..Len(delivered') : delivered'[x].by = P =>
               x \in 1..Len(delivered) /\ delivered'[x] = delivered[x],
           \A q \in Own(P) : ~Expired(q)' => ~Expired(q) /\ items'[q] = items[q],
           \A i \in Nat : LiveAt(P, i)' => Slot(P, i)' = Slot(P, e[i]),
           \A i, j \in Nat : LiveAt(P, i)' /\ LiveAt(P, j)' /\ i < j => e[i] < e[j],
           \A q \in Own(P) : \A i \in Nat : Slot(P, i) = q /\ ~Expired(q)' =>
               \E j \in Nat : e[j] = i /\ Slot(P, j)' = q
    PROVE  \E g \in [Nat -> Nat] : Matched(P, g)'
<1>1. PICK g \in [Nat -> Nat] : \A i \in Nat : g[i] = h[e[i]]
    <2>1. [i \in Nat |-> h[e[i]]] \in [Nat -> Nat]
        OBVIOUS
    <2> QED
        BY <2>1
<1>2. \A i \in Nat : LiveAt(P, i)' => /\ e[i] \in Nat /\ LiveAt(P, e[i])
                                      /\ Slot(P, i)' = Slot(P, e[i])
                                      /\ items'[Slot(P, e[i])] = items[Slot(P, e[i])]
    BY DEF LiveAt
<1>3. ASSUME NEW i \in Nat, NEW j \in Nat, LiveAt(P, i)', LiveAt(P, j)', i < j
      PROVE  g[i] < g[j]
    <2>1. /\ e[i] \in Nat /\ e[j] \in Nat /\ LiveAt(P, e[i]) /\ LiveAt(P, e[j])
          /\ g[i] = h[e[i]] /\ g[j] = h[e[j]]
        BY <1>1, <1>2, <1>3
    <2>2. e[i] < e[j]
        BY <1>3
    <2> QED
        BY <2>1, <2>2 DEF Matched
<1>4. ASSUME NEW q \in Own(P), ~Expired(q)', NEW k \in 1..Len(items'[q])
      PROVE  \E i \in Nat : Slot(P, i)' = q /\ g[i] = items'[q][k].n
    <2>1. ~Expired(q) /\ items'[q] = items[q]
        BY <1>4
    <2>2. PICK i \in Nat : Slot(P, i) = q /\ h[i] = items[q][k].n
        BY <1>4, <2>1 DEF Matched
    <2>3. PICK j \in Nat : e[j] = i /\ Slot(P, j)' = q
        BY <1>4, <2>2
    <2> QED
        BY <1>1, <2>1, <2>2, <2>3
<1>5. ASSUME NEW i \in Nat, LiveAt(P, i)'
      PROVE  \E k \in 1..Len(items'[Slot(P, i)']) : items'[Slot(P, i)'][k].n = g[i]
    <2>1. PICK r : r = Slot(P, e[i])
        OBVIOUS
    <2>2. /\ e[i] \in Nat /\ LiveAt(P, e[i])
          /\ Slot(P, i)' = r /\ items'[r] = items[r]
        BY <1>2, <1>5, <2>1
    <2>3. PICK k \in 1..Len(items[r]) : items[r][k].n = h[e[i]]
        <3>1. PICK j \in Nat : j = e[i]
            BY <2>2
        <3>2. LiveAt(P, j) /\ Slot(P, j) = r
            BY <2>1, <2>2, <3>1
        <3>3. \E k \in 1..Len(items[Slot(P, j)]) : items[Slot(P, j)][k].n = h[j]
            BY <3>2 DEF Matched
        <3> QED
            BY <3>1, <3>2, <3>3
    <2>4. g[i] = h[e[i]]
        BY <1>1
    <2>5. k \in 1..Len(items'[r]) /\ items'[r][k].n = g[i]
        BY <2>2, <2>3, <2>4
    <2> QED
        BY <2>2, <2>5
<1>6. ASSUME NEW i \in Nat, NEW x \in 1..Len(delivered'), LiveAt(P, i)', delivered'[x].by = P
      PROVE  delivered'[x].n < g[i]
    <2>1. x \in 1..Len(delivered) /\ delivered'[x] = delivered[x]
        BY <1>6
    <2>2. e[i] \in Nat /\ LiveAt(P, e[i]) /\ g[i] = h[e[i]]
        BY <1>1, <1>2, <1>6
    <2> QED
        BY <1>6, <2>1, <2>2 DEF Matched
<1>7. Matched(P, g)'
    BY <1>3, <1>4, <1>5, <1>6 DEF Matched
<1> QED
    BY <1>7

\* A step that leaves P's items alone and delivers none of them.
LEMMA StillNumbered ==
    ASSUME NEW P, Numbered(P), sent'[P] = sent[P], Own(P)' = Own(P),
           \A q \in Own(P) : Len(items'[q]) # 0 => items'[q] = items[q],
           \A q \in Own(P) : Len(items'[q]) \in Nat,
           \A x \in 1..Len(delivered') : delivered'[x].by = P =>
               x \in 1..Len(delivered) /\ delivered'[x] = delivered[x]
    PROVE  Numbered(P)'
<1>1. ASSUME NEW q \in Own(P), NEW k \in 1..Len(items'[q]) PROVE items'[q] = items[q]
    BY <1>1
<1>2. /\ \A q \in Own(P) : \A k, l \in 1..Len(items'[q]) : k < l => items'[q][k].n < items'[q][l].n
      /\ \A q \in Own(P) : \A k \in 1..Len(items'[q]) : items'[q][k].n <= sent[P]
    BY <1>1 DEF Numbered
<1>3. \A x \in 1..Len(delivered') : delivered'[x].by = P => delivered'[x].n <= sent[P]
    BY DEF Numbered
<1>4. \A x, y \in 1..Len(delivered') :
          x < y /\ delivered'[x].by = P /\ delivered'[y].by = P => delivered'[x].n < delivered'[y].n
    BY DEF Numbered
<1> QED
    BY <1>2, <1>3, <1>4 DEF Numbered

\* The steps that move no wake-up of P.
LEMMA SameSlots ==
    ASSUME NEW P, Ordered(P), Own(P)' = Own(P), sent'[P] = sent[P],
           \A x \in 1..Len(delivered') : delivered'[x].by = P =>
               x \in 1..Len(delivered) /\ delivered'[x] = delivered[x],
           \A q \in Own(P) : items'[q] = items[q] /\ Len(items[q]) \in Nat,
           \A q \in Own(P) : ~Expired(q)' => ~Expired(q),
           \A i \in Nat : LiveAt(P, i)' => Slot(P, i)' = Slot(P, i),
           \A q \in Own(P) : \A i \in Nat : Slot(P, i) = q /\ ~Expired(q)' => Slot(P, i)' = q
    PROVE  Ordered(P)'
<1>1. PICK h \in [Nat -> Nat] : Matched(P, h)
    BY DEF Ordered
<1>2. PICK e \in [Nat -> Nat] : \A i \in Nat : e[i] = i
    <2>1. [i \in Nat |-> i] \in [Nat -> Nat]
        OBVIOUS
    <2> QED
        BY <2>1
<1>3. \A i \in Nat : LiveAt(P, i)' => Slot(P, i)' = Slot(P, e[i])
    BY <1>2
<1>4. \A i, j \in Nat : LiveAt(P, i)' /\ LiveAt(P, j)' /\ i < j => e[i] < e[j]
    BY <1>2
<1>5. \A q \in Own(P) : \A i \in Nat : Slot(P, i) = q /\ ~Expired(q)' =>
          \E j \in Nat : e[j] = i /\ Slot(P, j)' = q
    BY <1>2
<1>6. \E g \in [Nat -> Nat] : Matched(P, g)'
    BY <1>1, <1>3, <1>4, <1>5, Reindex
<1>7. Numbered(P)'
    BY StillNumbered DEF Ordered
<1> QED
    BY <1>6, <1>7 DEF Ordered

\* The numbers of the items are natural numbers.
LEMMA NumbersAreNat ==
    ASSUME IInv
    PROVE  /\ \A r \in Queues : \A k \in 1..Len(items[r]) : items[r][k].n \in Nat
           /\ \A x \in 1..Len(delivered) : delivered[x].n \in Nat
           /\ \A r \in Queues : Len(items[r]) \in Nat
           /\ Len(delivered) \in Nat /\ Len(notifications) \in Nat
           /\ \A p \in Producers : sent[p] \in Nat
<1>1. \A m \in Items : m.n \in Nat
    BY MaxPushAssumption DEF Items
<1>2. \A r \in Queues : items[r] \in Seq(Items)
    BY DEF IInv, TypeOK
<1>3. delivered \in Seq(Items) /\ notifications \in Seq(Queues)
    BY DEF IInv, TypeOK
<1>4. \A r \in Queues : \A k \in 1..Len(items[r]) : items[r][k] \in Items
    BY <1>2
<1>5. \A x \in 1..Len(delivered) : delivered[x] \in Items
    BY <1>3
<1>6. \A r \in Queues : Len(items[r]) \in Nat
    BY <1>2
<1>7. \A p \in Producers : sent[p] \in Nat
    BY MaxPushAssumption DEF IInv, TypeOK
<1>8. Len(delivered) \in Nat /\ Len(notifications) \in Nat
    BY <1>3
<1> QED
    BY <1>1, <1>4, <1>5, <1>6, <1>7, <1>8

\* push(): the new item has the largest number, and the last wake-up.
LEMMA OrderPush ==
    ASSUME NEW P \in Producers, IInv, Traced, Alone(P)', Ordered(P), NEW q \in Queues, Push(P, q)
    PROVE  Ordered(P)'
<1>1. PICK m \in Nat : m = Len(items[q])
    BY NumbersAreNat
<1>2. PICK num \in Nat : num = sent[P] + 1
    BY NumbersAreNat
<1>3. PICK e \in Nat : e = Len(notifications) + 1
    BY NumbersAreNat
<1>4. delivered' = delivered /\ life' = life
    BY DEF Push, taskVars
<1>5. \A r \in Queues \ {q} : items'[r] = items[r]
    BY DEF Push, IInv, TypeOK
<1>6. items'[q] = Append(items[q], [by |-> P, n |-> num]) /\ items[q] \in Seq(Items)
    BY <1>2 DEF Push, IInv, TypeOK
<1>7. Len(items'[q]) = m + 1
    BY <1>1, <1>6
<1>8. items'[q][m + 1].n = num
    BY <1>1, <1>6
<1>9. \A k \in 1..m : items'[q][k] = items[q][k]
    BY <1>1, <1>6
<1>10. sent'[P] = num /\ sent[P] < num
    BY <1>2, NumbersAreNat DEF Push, IInv, TypeOK
<1>32. senders'[q] = {P} /\ senders[q] \subseteq {P} /\ \A r \in Queues \ {q} : senders'[r] = senders[r]
    <2>1. senders'[q] = senders[q] \cup {P} /\ \A r \in Queues \ {q} : senders'[r] = senders[r]
        BY DEF Push, IInv, TypeOK
    <2>2. senders'[q] = {P}
        BY <2>1 DEF Alone
    <2> QED
        BY <2>1, <2>2
<1>33. Own(P)' = Own(P) \cup {q}
    BY <1>32 DEF Own
<1>34. \A k \in 1..Len(items[q]) : q \in Own(P)
    <2>1. ASSUME NEW k \in 1..Len(items[q]) PROVE senders[q] # {}
        BY DEF Traced
    <2> QED
        BY <1>32, <2>1 DEF Own
<1>35. \A r \in Own(P)' : \A k \in 1..Len(items[r]) : r \in Own(P)
    BY <1>33, <1>34
<1>36. \A r \in Own(P)' : r \in Queues
    BY <1>33 DEF Own
<1>11. \A r \in Own(P)' : \A k \in 1..Len(items[r]) : items[r][k].n < num
    <2>1. \A r \in Own(P)' : \A k \in 1..Len(items[r]) : items[r][k].n <= sent[P]
        BY <1>35 DEF Ordered, Numbered
    <2>2. sent[P] \in Nat
        BY NumbersAreNat
    <2> QED
        BY <1>10, <1>36, <2>1, <2>2, NumbersAreNat
<1>12. \A x \in 1..Len(delivered) : delivered[x].by = P => delivered[x].n < num
    <2>1. \A x \in 1..Len(delivered) : delivered[x].by = P => delivered[x].n <= sent[P]
        BY DEF Ordered, Numbered
    <2>2. sent[P] \in Nat
        BY NumbersAreNat
    <2> QED
        BY <1>10, <2>1, <2>2, NumbersAreNat
<1>13. \A k \in 1..(m + 1) : k \in 1..m \/ k = m + 1
    OBVIOUS
<1>14. Numbered(P)'
    <2>1. ASSUME NEW r \in Own(P)', NEW k \in 1..Len(items'[r]), NEW l \in 1..Len(items'[r]), k < l
          PROVE  items'[r][k].n < items'[r][l].n
        <3>1. CASE r # q
            BY <1>5, <1>33, <1>36, <2>1, <3>1 DEF Ordered, Numbered
        <3>2. CASE r = q /\ l = m + 1
            <4>1. k \in 1..m
                BY <1>7, <2>1, <3>2
            <4>2. items[q][k].n < num /\ items'[q][k] = items[q][k]
                BY <1>1, <1>9, <1>11, <3>2, <4>1
            <4> QED
                BY <1>8, <3>2, <4>2
        <3>3. CASE r = q /\ l # m + 1
            <4>1. k \in 1..m /\ l \in 1..m
                BY <1>7, <2>1, <3>3
            <4>2. items[q][k].n < items[q][l].n
                BY <1>1, <1>34, <2>1, <4>1 DEF Ordered, Numbered
            <4> QED
                BY <1>9, <3>3, <4>1, <4>2
        <3> QED
            BY <3>1, <3>2, <3>3
    <2>2. ASSUME NEW r \in Own(P)', NEW k \in 1..Len(items'[r])
          PROVE  items'[r][k].n <= sent'[P]
        <3>1. CASE r # q
            BY <1>5, <1>10, <1>11, <1>36, <3>1, NumbersAreNat
        <3>2. CASE r = q /\ k = m + 1
            BY <1>8, <1>10, <3>2
        <3>3. CASE r = q /\ k # m + 1
            <4>1. k \in 1..m
                BY <1>7, <3>3
            <4>2. items'[q][k] = items[q][k]
                BY <1>9, <4>1
            <4>3. items[q][k].n < num /\ items[q][k].n \in Nat
                BY <1>1, <1>11, <3>3, <4>1, NumbersAreNat
            <4> QED
                BY <1>10, <3>3, <4>2, <4>3
        <3> QED
            BY <3>1, <3>2, <3>3
    <2>3. \A x \in 1..Len(delivered) : delivered[x].by = P => delivered[x].n <= sent'[P]
        BY <1>10, <1>12, NumbersAreNat
    <2>4. \A x, y \in 1..Len(delivered) :
              x < y /\ delivered[x].by = P /\ delivered[y].by = P => delivered[x].n < delivered[y].n
        BY DEF Ordered, Numbered
    <2> QED
        BY <1>4, <2>1, <2>2, <2>3, <2>4 DEF Numbered
<1>15. PICK h \in [Nat -> Nat] : Matched(P, h)
    BY DEF Ordered
<1>16. PICK g \in [Nat -> Nat] : g[e] = num /\ \A i \in Nat \ {e} : g[i] = h[i]
    <2>1. [i \in Nat |-> IF i = e THEN num ELSE h[i]] \in [Nat -> Nat]
        OBVIOUS
    <2> QED
        BY <2>1
<1>17. pushed[P] = NoQueue /\ pushed'[P] = q
    BY DEF Push, IInv, TypeOK
<1>18. UNCHANGED <<notifications, pc, current>>
    BY DEF Push, taskVars
<1>19. PICK d \in Nat : d = Len(notifications) /\ e = d + 1
    BY <1>3, NumbersAreNat
<1>20. e # 0 /\ e \notin 1..d /\ \A i \in Nat : i > e => i # 0 /\ i \notin 1..d /\ i # e
    <2>0. e = d + 1
        BY <1>19
    <2>1. e > d /\ e > 0
        BY <2>0
    <2> QED
        BY <2>1
<1>21. Slot(P, e)' = q
    BY <1>17, <1>18, <1>19, <1>20 DEF Slot
<1>22. \A i \in Nat \ {e} : Slot(P, i)' = Slot(P, i)
    BY <1>18, <1>19 DEF Slot
<1>23. \A i \in Nat : i >= e => ~LiveAt(P, i)
    <2>1. Slot(P, e) = NoQueue
        BY <1>17, <1>19, <1>20 DEF Slot
    <2>2. \A i \in Nat : i > e => Slot(P, i) = NoQueue
        BY <1>19, <1>20 DEF Slot
    <2>3. \A i \in Nat : i >= e => i = e \/ i > e
        OBVIOUS
    <2> QED
        BY <2>1, <2>2, <2>3, QueuesAssumption DEF LiveAt, Own
<1>24. \A r \in Queues : Expired(r)' = Expired(r)
    BY <1>4 DEF Expired
<1>25. \A i \in Nat \ {e} : LiveAt(P, i)' => LiveAt(P, i) /\ i < e
    <2>1. ASSUME NEW i \in Nat \ {e}, LiveAt(P, i)' PROVE LiveAt(P, i)
        <3>1. PICK r \in Own(P)' : Slot(P, i) = r /\ ~Expired(r)'
            BY <1>22, <2>1 DEF LiveAt
        <3>2. senders[r] # {}
            BY <1>17, <1>36, <3>1, QueuesAssumption DEF Slot, Traced
        <3>3. r \in Own(P)
            BY <1>32, <1>33, <3>2 DEF Own
        <3> QED
            BY <1>24, <1>36, <3>1, <3>3 DEF LiveAt
    <2> QED
        BY <1>23, <2>1
<1>26. \A i \in Nat : LiveAt(P, i) => h[i] < num
    <2> SUFFICES ASSUME NEW i \in Nat, LiveAt(P, i) PROVE h[i] < num
        OBVIOUS
    <2>1. PICK k \in 1..Len(items[Slot(P, i)]) : items[Slot(P, i)][k].n = h[i]
        BY <1>15 DEF Matched
    <2>2. Slot(P, i) \in Own(P)'
        BY <1>33 DEF LiveAt
    <2> QED
        BY <1>11, <2>1, <2>2
<1>27. ASSUME NEW i \in Nat, NEW j \in Nat, LiveAt(P, i)', LiveAt(P, j)', i < j
       PROVE  g[i] < g[j]
    <2>1. i # e
        BY <1>25, <1>27
    <2>2. LiveAt(P, i) /\ g[i] = h[i]
        BY <1>16, <1>25, <1>27, <2>1
    <2>3. CASE j = e
        BY <1>16, <1>26, <2>2, <2>3
    <2>4. CASE j # e
        <3>1. LiveAt(P, j) /\ g[j] = h[j]
            BY <1>16, <1>25, <1>27, <2>4
        <3> QED
            BY <1>15, <1>27, <2>2, <3>1 DEF Matched
    <2> QED
        BY <2>3, <2>4
<1>28. ASSUME NEW r \in Own(P)', ~Expired(r)', NEW k \in 1..Len(items'[r])
       PROVE  \E i \in Nat : Slot(P, i)' = r /\ g[i] = items'[r][k].n
    <2>1. CASE r = q /\ k = m + 1
        BY <1>8, <1>16, <1>21, <2>1
    <2>2. CASE ~(r = q /\ k = m + 1)
        <3>1. k \in 1..Len(items[r]) /\ items'[r][k] = items[r][k]
            <4>1. CASE r = q
                <5>0. k \in 1..(m + 1) /\ k # m + 1
                    BY <1>7, <2>2, <4>1
                <5>1. k \in 1..m
                    BY <1>13, <5>0
                <5> QED
                    BY <1>1, <1>9, <4>1, <5>1
            <4>2. CASE r # q
                BY <1>5, <1>36, <4>2
            <4> QED
                BY <4>1, <4>2
        <3>2. ~Expired(r) /\ r \in Own(P)
            BY <1>24, <1>28, <1>35, <1>36, <3>1
        <3>3. PICK i \in Nat : Slot(P, i) = r /\ h[i] = items[r][k].n
            BY <1>15, <3>1, <3>2 DEF Matched
        <3>4. i # e
            <4>1. LiveAt(P, i)
                BY <3>2, <3>3 DEF LiveAt
            <4>2. e >= e
                BY <1>19
            <4> QED
                BY <1>23, <4>1, <4>2
        <3> QED
            BY <1>16, <1>22, <3>1, <3>3, <3>4
    <2> QED
        BY <2>1, <2>2
<1>29. ASSUME NEW i \in Nat, LiveAt(P, i)'
       PROVE  \E k \in 1..Len(items'[Slot(P, i)']) : items'[Slot(P, i)'][k].n = g[i]
    <2>1. CASE i = e
        <3>1. m + 1 \in 1..Len(items'[q])
            BY <1>7
        <3> QED
            BY <1>8, <1>16, <1>21, <2>1, <3>1
    <2>2. CASE i # e
        <3>1. LiveAt(P, i) /\ Slot(P, i)' = Slot(P, i) /\ g[i] = h[i]
            BY <1>16, <1>22, <1>25, <1>29, <2>2
        <3>2. PICK k \in 1..Len(items[Slot(P, i)]) : items[Slot(P, i)][k].n = h[i]
            BY <1>15, <3>1 DEF Matched
        <3>3. PICK r \in Queues : r = Slot(P, i)
            BY <3>1 DEF LiveAt, Own
        <3>4. k \in 1..Len(items'[r]) /\ items'[r][k] = items[r][k]
            <4>1. CASE r = q
                <5>0. Len(items[Slot(P, i)]) = m
                    BY <1>1, <3>3, <4>1
                <5>1. k \in 1..m /\ k \in 1..(m + 1)
                    BY <3>2, <5>0
                <5> QED
                    BY <1>7, <1>9, <4>1, <5>1
            <4>2. CASE r # q
                BY <1>5, <3>2, <3>3, <4>2
            <4> QED
                BY <4>1, <4>2
        <3> QED
            BY <3>1, <3>2, <3>3, <3>4
    <2> QED
        BY <2>1, <2>2
<1>30. ASSUME NEW i \in Nat, NEW x \in 1..Len(delivered'), LiveAt(P, i)', delivered'[x].by = P
       PROVE  delivered'[x].n < g[i]
    <2>1. CASE i = e
        BY <1>4, <1>12, <1>16, <1>30, <2>1
    <2>2. CASE i # e
        <3>1. LiveAt(P, i) /\ g[i] = h[i]
            BY <1>16, <1>25, <1>30, <2>2
        <3> QED
            BY <1>4, <1>15, <1>30, <3>1 DEF Matched
    <2> QED
        BY <2>1, <2>2
<1>31. Matched(P, g)'
    BY <1>27, <1>28, <1>29, <1>30 DEF Matched
<1> QED
    BY <1>14, <1>31 DEF Ordered

\* notify(), the reset of a shared_ptr and the ticks leave every wake-up in its
\* place.
LEMMA OrderStay ==
    ASSUME NEW P \in Producers, IInv, Ordered(P),
           \/ Notify(P)
           \/ \E q \in Queues : Release(q)
           \/ TimePasses \/ OverdueTick \/ NothingOverdue \/ Timeout
    PROVE  Ordered(P)'
<1>1. items' = items /\ delivered' = delivered /\ sent' = sent /\ senders' = senders
    BY DEF Notify, Release, TimePasses, OverdueTick, NothingOverdue, Timeout, taskVars, producerVars,
        historyVars
<1>2. \A r \in Queues : ~Expired(r)' => ~Expired(r)
    <2>1. CASE Notify(P)
        BY <2>1 DEF Notify, LifeAfterDrop, Expired, IInv, TypeOK
    <2>2. CASE \E q \in Queues : Release(q)
        BY <2>2 DEF Release, Expired, IInv, TypeOK
    <2>3. CASE life' = life
        BY <2>3 DEF Expired
    <2>4. CASE TimePasses \/ OverdueTick \/ NothingOverdue \/ Timeout
        BY <2>3, <2>4 DEF TimePasses, OverdueTick, NothingOverdue, Timeout
    <2> QED
        BY <2>1, <2>2, <2>4
<1>3. \A i \in Nat : Slot(P, i)' = Slot(P, i)
    <2>1. CASE Notify(P)
        <3>1. PICK d \in Nat : d = Len(notifications)
            BY NumbersAreNat
        <3>2. /\ notifications' = Append(notifications, pushed[P])
              /\ pushed'[P] = NoQueue /\ pc' = pc /\ current' = current
            BY <2>1 DEF Notify, taskVars, IInv, TypeOK
        <3>3. notifications \in Seq(Queues) /\ pushed[P] \in Queues
            BY <2>1 DEF Notify, IInv, TypeOK
        <3>4. Len(notifications') = d + 1
            BY <3>1, <3>2, <3>3
        <3>5. notifications'[d + 1] = pushed[P]
            BY <3>1, <3>2, <3>3
        <3>6. \A i \in 1..d : notifications'[i] = notifications[i]
            BY <3>1, <3>2, <3>3
        <3> SUFFICES ASSUME NEW i \in Nat PROVE Slot(P, i)' = Slot(P, i)
            OBVIOUS
        <3>7. CASE i = 0
            BY <3>2, <3>7 DEF Slot
        <3>8. CASE i \in 1..d
            <4>1. i # 0 /\ i \in 1..(d + 1)
                BY <3>8
            <4> QED
                BY <3>1, <3>4, <3>6, <3>8, <4>1 DEF Slot
        <3>9. CASE i = d + 1
            <4>1. i # 0 /\ i \in 1..(d + 1) /\ i \notin 1..d
                BY <3>9
            <4> QED
                BY <3>1, <3>4, <3>5, <3>9, <4>1 DEF Slot
        <3>10. CASE i > d + 1
            <4>1. i # 0 /\ i \notin 1..(d + 1) /\ i \notin 1..d /\ i # d + 1
                BY <3>10
            <4>2. Slot(P, i) = NoQueue
                BY <3>1, <4>1 DEF Slot
            <4>3. Slot(P, i)' = NoQueue
                BY <3>2, <3>4, <4>1 DEF Slot
            <4> QED
                BY <4>2, <4>3
        <3>11. i = 0 \/ i \in 1..d \/ i = d + 1 \/ i > d + 1
            OBVIOUS
        <3> QED
            BY <3>7, <3>8, <3>9, <3>10, <3>11
    <2>2. CASE \E q \in Queues : Release(q)
        <3>1. UNCHANGED <<notifications, pushed, pc, current>>
            BY <2>2 DEF Release, producerVars, taskVars
        <3> QED
            BY <3>1 DEF Slot
    <2>3. CASE TimePasses \/ OverdueTick \/ NothingOverdue \/ Timeout
        <3>1. UNCHANGED <<notifications, pushed, current>>
            BY <2>3 DEF TimePasses, OverdueTick, NothingOverdue, Timeout, producerVars
        <3>2. pc' \in {"lock", "forward"} <=> pc \in {"lock", "forward"}
            BY <2>3 DEF TimePasses, OverdueTick, NothingOverdue, Timeout
        <3> QED
            BY <3>1, <3>2 DEF Slot
    <2> QED
        BY <2>1, <2>2, <2>3
<1>4. Own(P)' = Own(P) /\ \A q \in Own(P) : q \in Queues
    BY <1>1 DEF Own
<1>5. \A q \in Own(P) : items'[q] = items[q] /\ Len(items[q]) \in Nat
    BY <1>1, <1>4, NumbersAreNat
<1> QED
    BY <1>1, <1>2, <1>3, <1>4, <1>5, SameSlots

\* Pushes of others and clear() work on queues that are not P's.
LEMMA OrderOthers ==
    ASSUME NEW P \in Producers, IInv, Traced, Alone(P)', Ordered(P), NEW q \in Queues,
           \/ \E o \in Producers \ {P} : Push(o, q)
           \/ BeginClear(q) \/ Clear(q)
    PROVE  Ordered(P)'
<1>1. /\ delivered' = delivered /\ sent'[P] = sent[P] /\ pushed'[P] = pushed[P]
      /\ notifications' = notifications /\ life' = life /\ pc' = pc /\ current' = current
    BY DEF Push, BeginClear, Clear, taskVars, producerVars, IInv, TypeOK
<1>2. \A i \in Nat : Slot(P, i)' = Slot(P, i)
    BY <1>1 DEF Slot
<1>3. \A r \in Queues : Expired(r)' = Expired(r)
    BY <1>1 DEF Expired
<1>4. CASE \E o \in Producers \ {P} : Push(o, q)
    <2>1. PICK o \in Producers \ {P} : Push(o, q)
        BY <1>4
    <2>2. /\ senders'[q] = senders[q] \cup {o}
          /\ \A r \in Queues \ {q} : senders'[r] = senders[r] /\ items'[r] = items[r]
        BY <2>1 DEF Push, IInv, TypeOK
    <2>3. P \notin senders'[q]
        BY <2>2 DEF Alone
    <2>4. Own(P)' = Own(P) /\ q \notin Own(P)
        BY <2>2, <2>3 DEF Own
    <2> QED
        BY <1>1, <1>2, <1>3, <2>2, <2>4, NumbersAreNat, SameSlots DEF Own
<1>5. CASE BeginClear(q) \/ Clear(q)
    <2>1. senders' = senders
        BY <1>5 DEF BeginClear, Clear, historyVars
    <2>2. \A r \in Queues : items'[r] # items[r] => r = q /\ q \in cleared'
        BY <1>5 DEF BeginClear, Clear, IInv, TypeOK
    <2>3. \A r \in Own(P) : r \in Queues /\ r \notin cleared'
        BY <2>1 DEF Own, Alone
    <2>4. Own(P)' = Own(P)
        BY <2>1 DEF Own
    <2>5. \A r \in Own(P) : items'[r] = items[r] /\ Len(items[r]) \in Nat
        BY <2>2, <2>3, NumbersAreNat
    <2> QED
        BY <1>1, <1>2, <1>3, <2>3, <2>4, <2>5, SameSlots
<1> QED
    BY <1>4, <1>5

\* notify() of another producer comes before the one P is about to make.
LEMMA OrderOtherNotify ==
    ASSUME NEW P \in Producers, IInv, Traced, Ordered(P),
           NEW o \in Producers \ {P}, Notify(o)
    PROVE  Ordered(P)'
<1>1. /\ items' = items /\ delivered' = delivered /\ sent' = sent /\ senders' = senders
      /\ pc' = pc /\ current' = current
    BY DEF Notify, taskVars, historyVars
<1>2. /\ notifications' = Append(notifications, pushed[o]) /\ notifications \in Seq(Queues)
      /\ pushed[o] \in Queues /\ pushed'[P] = pushed[P]
    BY DEF Notify, IInv, TypeOK
<1>3. Own(P)' = Own(P) /\ \A q \in Own(P) : q \in Queues
    BY <1>1 DEF Own
<1>4. pushed[o] \notin Own(P)
    <2>1. o \in senders[pushed[o]]
        BY <1>2, QueuesAssumption DEF Traced
    <2> QED
        BY <2>1 DEF Own
<1>5. PICK d \in Nat : d = Len(notifications)
    BY NumbersAreNat
<1>6. Len(notifications') = d + 1 /\ notifications'[d + 1] = pushed[o]
    BY <1>2, <1>5
<1>7. \A i \in 1..d : notifications'[i] = notifications[i]
    BY <1>2, <1>5
<1>8. \A q \in Own(P) : ~Expired(q)' => ~Expired(q)
    BY <1>3 DEF Notify, LifeAfterDrop, Expired, IInv, TypeOK
<1>9. PICK e \in [Nat -> Nat] : /\ \A i \in 0..d : e[i] = i
                               /\ \A i \in Nat : i > d + 1 => e[i] = i - 1
    <2>1. \A i \in Nat : i > d + 1 => i - 1 \in Nat
        OBVIOUS
    <2> DEFINE E == [i \in Nat |-> IF i > d + 1 THEN i - 1 ELSE i]
    <2>2. E \in [Nat -> Nat]
        BY <2>1
    <2>3. \A i \in 0..d : i \in Nat /\ ~(i > d + 1)
        OBVIOUS
    <2>4. \A i \in 0..d : E[i] = i
        BY <2>3
    <2>5. \A i \in Nat : i > d + 1 => E[i] = i - 1
        OBVIOUS
    <2> HIDE DEF E
    <2> QED
        BY <2>2, <2>4, <2>5
<1>10. ASSUME NEW i \in 0..d PROVE Slot(P, i)' = Slot(P, i)
    <2>1. CASE i = 0
        BY <1>1, <2>1 DEF Slot
    <2>2. CASE i # 0
        <3>1. i \in 1..d /\ i \in 1..(d + 1)
            BY <2>2
        <3> QED
            BY <1>5, <1>6, <1>7, <2>2, <3>1 DEF Slot
    <2> QED
        BY <2>1, <2>2
<1>11. Slot(P, d + 1)' = pushed[o] /\ Slot(P, d + 1) = pushed[P]
    <2>1. d + 1 # 0 /\ d + 1 \in 1..(d + 1) /\ d + 1 \notin 1..d
        OBVIOUS
    <2> QED
        BY <1>5, <1>6, <2>1 DEF Slot
<1>12. ASSUME NEW i \in Nat, i > d + 1
       PROVE  /\ Slot(P, i)' = IF i = (d + 1) + 1 THEN pushed[P] ELSE NoQueue
              /\ Slot(P, i) = NoQueue
              /\ Slot(P, i - 1) = IF i = (d + 1) + 1 THEN pushed[P] ELSE NoQueue
    <2>1. /\ i # 0 /\ i \notin 1..(d + 1) /\ i \notin 1..d /\ i # d + 1
          /\ i - 1 # 0 /\ i - 1 \notin 1..d /\ (i - 1 = d + 1 <=> i = (d + 1) + 1)
        BY <1>12
    <2> QED
        BY <1>2, <1>5, <1>6, <2>1 DEF Slot
<1>13. \A i \in Nat : i \in 0..d \/ i = d + 1 \/ i > d + 1
    OBVIOUS
<1>14. ~LiveAt(P, d + 1)'
    BY <1>3, <1>4, <1>11 DEF LiveAt
<1>15. \A i \in Nat : LiveAt(P, i)' => i \in 0..d \/ i > d + 1
    BY <1>13, <1>14
<1>16. \A i \in Nat : LiveAt(P, i)' => Slot(P, i)' = Slot(P, e[i])
    BY <1>9, <1>10, <1>12, <1>15
<1>17. ASSUME NEW i \in Nat, NEW j \in Nat, LiveAt(P, i)', LiveAt(P, j)', i < j
       PROVE  e[i] < e[j]
    <2>1. (i \in 0..d \/ i > d + 1) /\ (j \in 0..d \/ j > d + 1)
        BY <1>15, <1>17
    <2>2. /\ i \in 0..d => e[i] = i
          /\ i > d + 1 => e[i] = i - 1
          /\ j \in 0..d => e[j] = j
          /\ j > d + 1 => e[j] = j - 1
        BY <1>9
    <2> QED
        BY <1>17, <2>1, <2>2
<1>18. ASSUME NEW q \in Own(P), NEW i \in Nat, Slot(P, i) = q, ~Expired(q)'
       PROVE  \E j \in Nat : e[j] = i /\ Slot(P, j)' = q
    <2>1. CASE i \in 0..d
        BY <1>9, <1>10, <1>18, <2>1
    <2>2. CASE i = d + 1
        <3>1. i + 1 \in Nat /\ i + 1 > d + 1 /\ i + 1 = (d + 1) + 1 /\ (i + 1) - 1 = i
            BY <2>2
        <3>2. e[i + 1] = i /\ Slot(P, i + 1)' = pushed[P]
            BY <1>9, <1>12, <3>1
        <3> QED
            BY <1>11, <1>18, <2>2, <3>1, <3>2
    <2>3. CASE i > d + 1
        BY <1>3, <1>12, <1>18, <2>3, QueuesAssumption
    <2> QED
        BY <1>13, <2>1, <2>2, <2>3
<1>19. PICK h \in [Nat -> Nat] : Matched(P, h)
    BY DEF Ordered
<1>20. \E g \in [Nat -> Nat] : Matched(P, g)'
    BY <1>1, <1>3, <1>8, <1>16, <1>17, <1>18, <1>19, Reindex
<1>21. Numbered(P)'
    BY <1>1, <1>3, NumbersAreNat, StillNumbered DEF Ordered
<1> QED
    BY <1>20, <1>21 DEF Ordered

\* wait_for_notification(): every wake-up moves up by one place.
LEMMA OrderTake ==
    ASSUME NEW P \in Producers, IInv, Ordered(P), Take
    PROVE  Ordered(P)'
<1>1. /\ items' = items /\ delivered' = delivered /\ sent' = sent /\ life' = life
      /\ pushed' = pushed /\ senders' = senders
    BY DEF Take, producerVars, historyVars
<1>2. PICK d \in Nat : d + 1 = Len(notifications)
    <2>1. notifications # <<>> /\ notifications \in Seq(Queues)
        BY DEF Take, IInv, TypeOK
    <2>2. Len(notifications) \in Nat /\ Len(notifications) # 0
        BY <2>1
    <2>3. Len(notifications) - 1 \in Nat /\ (Len(notifications) - 1) + 1 = Len(notifications)
        BY <2>2
    <2> QED
        BY <2>3
<1>3. /\ notifications' = Tail(notifications) /\ current' = Head(notifications)
      /\ notifications # <<>> /\ notifications \in Seq(Queues)
      /\ pc = "wait" /\ pc' = "lock"
    BY DEF Take, IInv, TypeOK
<1>4. /\ current' = notifications[1]
      /\ Len(notifications') = Len(notifications) - 1
      /\ \A i \in 1..Len(notifications') : notifications'[i] = notifications[i + 1]
    BY <1>3
<1>5. Len(notifications') = d
    BY <1>2, <1>4
<1>6. \A i \in Nat : Slot(P, i)' = Slot(P, i + 1)
    <2> SUFFICES ASSUME NEW i \in Nat PROVE Slot(P, i)' = Slot(P, i + 1)
        OBVIOUS
    <2>1. CASE i = 0
        <3>1. i + 1 = 1 /\ 1 \in 1..(d + 1) /\ 1 # 0
            BY <2>1
        <3>2. Slot(P, i + 1) = notifications[1]
            BY <1>2, <3>1 DEF Slot
        <3>3. Slot(P, i)' = current'
            BY <1>3, <2>1 DEF Slot
        <3> QED
            BY <1>4, <3>2, <3>3
    <2>2. CASE i \in 1..d
        <3>1. i # 0 /\ i + 1 # 0 /\ i + 1 \in 1..(d + 1)
            BY <2>2
        <3>2. Slot(P, i + 1) = notifications[i + 1]
            BY <1>2, <3>1 DEF Slot
        <3>3. Slot(P, i)' = notifications'[i]
            BY <1>5, <2>2, <3>1 DEF Slot
        <3> QED
            BY <1>4, <1>5, <2>2, <3>2, <3>3
    <2>3. CASE i > d
        <3>1. /\ i # 0 /\ i + 1 # 0 /\ i \notin 1..d /\ i + 1 \notin 1..(d + 1)
              /\ i = d + 1 <=> i + 1 = (d + 1) + 1
            BY <2>3
        <3>2. Slot(P, i + 1) = IF i = d + 1 THEN pushed[P] ELSE NoQueue
            BY <1>2, <3>1 DEF Slot
        <3>3. Slot(P, i)' = IF i = d + 1 THEN pushed[P] ELSE NoQueue
            BY <1>1, <1>5, <3>1 DEF Slot
        <3> QED
            BY <3>2, <3>3
    <2> QED
        BY <2>1, <2>2, <2>3
<1>7. Slot(P, 0) = NoQueue
    BY <1>3 DEF Slot
<1>8. PICK e \in [Nat -> Nat] : \A i \in Nat : e[i] = i + 1
    <2>1. [i \in Nat |-> i + 1] \in [Nat -> Nat]
        OBVIOUS
    <2> QED
        BY <2>1
<1>9. PICK h \in [Nat -> Nat] : Matched(P, h)
    BY DEF Ordered
<1>10. /\ Own(P)' = Own(P) /\ \A r \in Own(P) : r \in Queues
       /\ \A r \in Own(P) : ~Expired(r)' => ~Expired(r) /\ items'[r] = items[r]
    BY <1>1 DEF Expired, Own
<1>11. \A i \in Nat : LiveAt(P, i)' => Slot(P, i)' = Slot(P, e[i])
    BY <1>6, <1>8
<1>12. \A i, j \in Nat : LiveAt(P, i)' /\ LiveAt(P, j)' /\ i < j => e[i] < e[j]
    BY <1>8
<1>13. ASSUME NEW q \in Own(P), NEW i \in Nat, Slot(P, i) = q, ~Expired(q)'
       PROVE  \E j \in Nat : e[j] = i /\ Slot(P, j)' = q
    <2>1. i # 0
        BY <1>7, <1>10, <1>13, QueuesAssumption
    <2>2. i - 1 \in Nat /\ (i - 1) + 1 = i
        BY <2>1
    <2>3. e[i - 1] = i /\ Slot(P, i - 1)' = q
        BY <1>6, <1>8, <1>13, <2>2
    <2> QED
        BY <2>2, <2>3
<1>14. \E g \in [Nat -> Nat] : Matched(P, g)'
    BY <1>1, <1>9, <1>10, <1>11, <1>12, <1>13, Reindex
<1>15. Numbered(P)'
    BY <1>1, <1>10, NumbersAreNat, StillNumbered DEF Ordered
<1> QED
    BY <1>14, <1>15 DEF Ordered

\* queue_ptr.lock(): only a wake-up of an expired queue is dropped.
LEMMA OrderLock ==
    ASSUME NEW P \in Producers, IInv, Ordered(P), Lock
    PROVE  Ordered(P)'
<1>1. /\ items' = items /\ delivered' = delivered /\ sent' = sent /\ life' = life
      /\ pushed' = pushed /\ notifications' = notifications /\ senders' = senders
    BY DEF Lock, producerVars, historyVars
<1>2. \A r \in Queues : ~Expired(r)' => ~Expired(r)
    BY <1>1 DEF Expired
<1>7. Own(P)' = Own(P) /\ \A r \in Own(P) : r \in Queues
    BY <1>1 DEF Own
<1>8. \A r \in Own(P) : items'[r] = items[r] /\ Len(items[r]) \in Nat
    BY <1>1, <1>7, NumbersAreNat
<1>3. \A i \in Nat : i # 0 => Slot(P, i)' = Slot(P, i)
    BY <1>1 DEF Slot
<1>4. Slot(P, 0) = current
    BY DEF Slot, Lock
<1>5. CASE Expired(current)
    <2>1. Slot(P, 0)' = NoQueue
        BY <1>5 DEF Slot, Lock
    <2>2. \A i \in Nat : LiveAt(P, i)' => Slot(P, i)' = Slot(P, i)
        BY <1>3, <1>7, <2>1, QueuesAssumption DEF LiveAt
    <2>3. \A q \in Own(P) : \A i \in Nat : Slot(P, i) = q /\ ~Expired(q)' => Slot(P, i)' = q
        BY <1>2, <1>3, <1>4, <1>5, <1>7
    <2> QED
        BY <1>1, <1>2, <1>7, <1>8, <2>2, <2>3, SameSlots
<1>6. CASE ~Expired(current)
    <2>1. Slot(P, 0)' = current
        BY <1>6 DEF Slot, Lock
    <2>2. \A i \in Nat : Slot(P, i)' = Slot(P, i)
        BY <1>3, <1>4, <2>1
    <2> QED
        BY <1>1, <1>2, <1>7, <1>8, <2>2, SameSlots
<1> QED
    BY <1>5, <1>6

\* The task pops the item that its wake-up was made for, and that item comes
\* before all the others.
LEMMA OrderForward ==
    ASSUME NEW P \in Producers, IInv, Traced, Ordered(P), Forward, current \in Own(P)
    PROVE  Ordered(P)'
<1>1. PICK q \in Queues : q = current
    BY DEF Forward, IInv, ServingQueue
<1>2. ~Expired(q)
    BY <1>1 DEF Forward, IInv, UsedQueueLives
<1>3. Slot(P, 0) = q /\ LiveAt(P, 0)
    BY <1>1, <1>2 DEF Slot, LiveAt, Forward
<1>36. Own(P)' = Own(P) /\ q \in Own(P) /\ \A r \in Own(P) : r \in Queues
    BY <1>1 DEF Own, Forward, historyVars
<1>4. PICK h \in [Nat -> Nat] : Matched(P, h)
    BY DEF Ordered
<1>5. PICK m \in Nat : m = Len(items[q])
    BY NumbersAreNat
<1>6. PICK num \in Nat : num = h[0]
    OBVIOUS
<1>7. PICK k0 \in 1..m : items[q][k0].n = num
    BY <1>3, <1>4, <1>5, <1>6 DEF Matched
<1>8. 1 \in 1..m /\ m - 1 \in Nat /\ \A k \in 1..m : k # 1 => 1 < k /\ k - 1 \in 1..(m - 1)
    BY <1>7
<1>9. \A i \in Nat : LiveAt(P, i) /\ i # 0 => num < h[i]
    BY <1>3, <1>4, <1>6 DEF Matched
<1>10. items[q][1].n = num
    <2>1. PICK i \in Nat : Slot(P, i) = q /\ h[i] = items[q][1].n
        BY <1>2, <1>4, <1>5, <1>8, <1>36 DEF Matched
    <2>2. i = 0 \/ num < items[q][1].n
        BY <1>2, <1>9, <1>36, <2>1 DEF LiveAt
    <2>3. k0 = 1 \/ items[q][1].n < num
        BY <1>5, <1>7, <1>8, <1>36 DEF Ordered, Numbered
    <2>4. items[q][1].n \in Nat
        BY <1>5, <1>8, NumbersAreNat
    <2> QED
        BY <1>6, <1>7, <2>1, <2>2, <2>3, <2>4
<1>11. items[q] # <<>> /\ items[q] \in Seq(Items) /\ delivered \in Seq(Items)
    <2>1. items[q] \in Seq(Items) /\ delivered \in Seq(Items)
        BY DEF IInv, TypeOK
    <2>2. Len(items[q]) # 0
        BY <1>5, <1>8
    <2> QED
        BY <2>1, <2>2
<1>12. /\ items' = [items EXCEPT ![q] = Tail(items[q])]
       /\ delivered' = Append(delivered, Head(items[q]))
       /\ sent' = sent /\ pushed' = pushed /\ notifications' = notifications /\ pc' = "test"
    BY <1>1, <1>11 DEF Forward, producerVars
<1>13. items'[q] = Tail(items[q]) /\ \A r \in Queues \ {q} : items'[r] = items[r]
    BY <1>12 DEF IInv, TypeOK
<1>14. Len(items'[q]) = m - 1
    BY <1>5, <1>11, <1>13
<1>15. \A k \in 1..(m - 1) : items'[q][k] = items[q][k + 1] /\ k + 1 \in 1..m
    <2>1. \A k \in 1..(m - 1) : items'[q][k] = items[q][k + 1]
        BY <1>5, <1>11, <1>13
    <2> QED
        BY <2>1
<1>16. Head(items[q]) = items[q][1]
    BY <1>11
<1>17. PICK d \in Nat : d = Len(delivered)
    BY NumbersAreNat
<1>18. Len(delivered') = d + 1
    BY <1>11, <1>12, <1>16, <1>17
<1>19. delivered'[d + 1] = items[q][1]
    BY <1>11, <1>12, <1>16, <1>17
<1>37. delivered'[d + 1].n = num
    BY <1>10, <1>19
<1>20. \A x \in 1..d : delivered'[x] = delivered[x]
    BY <1>11, <1>12, <1>16, <1>17
<1>21. \A x \in 1..(d + 1) : x \in 1..d \/ x = d + 1
    OBVIOUS
<1>22. \A x \in 1..d : delivered'[x].by = P => delivered'[x].n < num
    BY <1>3, <1>4, <1>6, <1>17, <1>20 DEF Matched
<1>23. \A r \in Queues : ~Expired(r)' => ~Expired(r)
    BY DEF Forward, LifeAfterDrop, Expired, IInv, TypeOK
<1>24. Slot(P, 0)' = NoQueue
    BY <1>12 DEF Slot
<1>25. \A i \in Nat : i # 0 => Slot(P, i)' = Slot(P, i)
    BY <1>12 DEF Slot
<1>26. \A i \in Nat : LiveAt(P, i)' => i # 0 /\ LiveAt(P, i) /\ Slot(P, i)' = Slot(P, i)
    BY <1>23, <1>24, <1>25, <1>36, QueuesAssumption DEF LiveAt
<1>27. \A i, j \in Nat : LiveAt(P, i)' /\ LiveAt(P, j)' /\ i < j => h[i] < h[j]
    BY <1>4, <1>26 DEF Matched
<1>28. ASSUME NEW r \in Own(P), ~Expired(r)', NEW k \in 1..Len(items'[r])
       PROVE  \E i \in Nat : Slot(P, i)' = r /\ h[i] = items'[r][k].n
    <2>1. CASE r # q
        <3>1. items'[r] = items[r] /\ ~Expired(r)
            BY <1>13, <1>23, <1>28, <1>36, <2>1
        <3>2. PICK i \in Nat : Slot(P, i) = r /\ h[i] = items[r][k].n
            BY <1>4, <3>1 DEF Matched
        <3> QED
            BY <1>3, <1>25, <2>1, <3>1, <3>2
    <2>2. CASE r = q
        <3>1. k \in 1..(m - 1)
            BY <1>14, <2>2
        <3>2. items'[q][k] = items[q][k + 1] /\ k + 1 \in 1..m /\ 1 < k + 1
            BY <1>15, <3>1
        <3>3. PICK i \in Nat : Slot(P, i) = q /\ h[i] = items[q][k + 1].n
            BY <1>2, <1>4, <1>5, <1>36, <3>2 DEF Matched
        <3>4. num < items[q][k + 1].n
            BY <1>5, <1>8, <1>10, <1>36, <3>2 DEF Ordered, Numbered
        <3>5. i # 0
            <4>1. ASSUME i = 0 PROVE num < num
                <5>1. h[0] = items[q][k + 1].n
                    BY <3>3, <4>1
                <5> QED
                    BY <1>6, <3>4, <5>1
            <4> QED
                BY <1>6, <4>1
        <3> QED
            BY <1>25, <2>2, <3>2, <3>3, <3>5
    <2> QED
        BY <2>1, <2>2
<1>29. ASSUME NEW i \in Nat, LiveAt(P, i)'
       PROVE  \E k \in 1..Len(items'[Slot(P, i)']) : items'[Slot(P, i)'][k].n = h[i]
    <2>1. i # 0 /\ LiveAt(P, i) /\ Slot(P, i)' = Slot(P, i)
        BY <1>26, <1>29
    <2>2. PICK r \in Queues : r = Slot(P, i)
        BY <2>1 DEF LiveAt, Own
    <2>3. PICK k \in 1..Len(items[r]) : items[r][k].n = h[i]
        BY <1>4, <2>1, <2>2 DEF Matched
    <2>4. CASE r # q
        BY <1>13, <2>1, <2>2, <2>3, <2>4
    <2>5. CASE r = q
        <3>1. k \in 1..m /\ items[q][k].n = h[i]
            BY <1>5, <2>3, <2>5
        <3>2. num < h[i]
            BY <1>9, <2>1
        <3>3. k # 1
            <4>1. h[i] # num
                BY <3>2
            <4> QED
                BY <1>10, <3>1, <4>1
        <3>4. k - 1 \in 1..(m - 1) /\ (k - 1) + 1 = k
            BY <1>8, <3>1, <3>3
        <3>5. items'[q][k - 1] = items[q][k]
            BY <1>15, <3>4
        <3> QED
            BY <1>14, <2>1, <2>2, <2>5, <3>1, <3>4, <3>5
    <2> QED
        BY <2>4, <2>5
<1>30. ASSUME NEW i \in Nat, NEW x \in 1..Len(delivered'), LiveAt(P, i)', delivered'[x].by = P
       PROVE  delivered'[x].n < h[i]
    <2>1. LiveAt(P, i) /\ num < h[i]
        BY <1>9, <1>26, <1>30
    <2>2. x \in 1..d \/ x = d + 1
        BY <1>18, <1>21
    <2>3. CASE x = d + 1
        BY <1>37, <2>1, <2>3
    <2>4. CASE x \in 1..d
        BY <1>4, <1>17, <1>20, <1>30, <2>1, <2>4 DEF Matched
    <2> QED
        BY <2>2, <2>3, <2>4
<1>31. Matched(P, h)'
    BY <1>27, <1>28, <1>29, <1>30, <1>36 DEF Matched
<1>32. ASSUME NEW r \in Own(P), NEW k \in 1..Len(items'[r]), NEW l \in 1..Len(items'[r])
       PROVE  (k < l => items'[r][k].n < items'[r][l].n) /\ items'[r][k].n <= sent[P]
    <2>1. CASE r # q
        BY <1>13, <1>36, <2>1 DEF Ordered, Numbered
    <2>2. CASE r = q
        <3>1. k \in 1..(m - 1) /\ l \in 1..(m - 1)
            BY <1>14, <2>2
        <3>2. /\ items'[q][k] = items[q][k + 1] /\ k + 1 \in 1..m
              /\ items'[q][l] = items[q][l + 1] /\ l + 1 \in 1..m
            BY <1>15, <3>1
        <3>3. k < l => k + 1 < l + 1
            BY <3>1
        <3>4. /\ k + 1 < l + 1 => items[q][k + 1].n < items[q][l + 1].n
              /\ items[q][k + 1].n <= sent[P]
            BY <1>5, <1>36, <3>2 DEF Ordered, Numbered
        <3> QED
            BY <2>2, <3>2, <3>3, <3>4
    <2> QED
        BY <2>1, <2>2
<1>33. \A x \in 1..(d + 1) : delivered'[x].by = P => delivered'[x].n <= sent[P]
    <2>1. num <= sent[P]
        BY <1>5, <1>8, <1>10, <1>36 DEF Ordered, Numbered
    <2>2. \A x \in 1..d : delivered'[x].by = P => delivered'[x].n <= sent[P]
        BY <1>17, <1>20 DEF Ordered, Numbered
    <2> QED
        BY <1>21, <1>37, <2>1, <2>2
<1>34. ASSUME NEW x \in 1..(d + 1), NEW y \in 1..(d + 1), x < y,
              delivered'[x].by = P, delivered'[y].by = P
       PROVE  delivered'[x].n < delivered'[y].n
    <2>1. x \in 1..d
        BY <1>34
    <2>2. CASE y = d + 1
        BY <1>22, <1>34, <1>37, <2>1, <2>2
    <2>3. CASE y \in 1..d
        BY <1>17, <1>20, <1>34, <2>1, <2>3 DEF Ordered, Numbered
    <2> QED
        BY <1>21, <2>2, <2>3
<1>35. Numbered(P)'
    BY <1>12, <1>18, <1>32, <1>33, <1>34, <1>36 DEF Numbered
<1> QED
    BY <1>31, <1>35 DEF Ordered

\* What it pops from the queues of others is not P's.
LEMMA OrderForwardOther ==
    ASSUME NEW P \in Producers, IInv, Traced, Alone(P), Ordered(P), Forward, current \notin Own(P)
    PROVE  Ordered(P)'
<1>1. PICK q \in Queues : q = current
    BY DEF Forward, IInv, ServingQueue
<1>2. P \notin senders[q]
    BY <1>1 DEF Alone, Own
<1>3. Own(P)' = Own(P) /\ q \notin Own(P) /\ \A r \in Own(P) : r \in Queues
    BY <1>1 DEF Own, Forward, historyVars
<1>4. /\ sent' = sent /\ pushed' = pushed /\ notifications' = notifications /\ pc' = "test"
      /\ \A r \in Queues \ {q} : items'[r] = items[r]
    BY <1>1 DEF Forward, producerVars, IInv, TypeOK
<1>5. \A r \in Own(P) : items'[r] = items[r] /\ Len(items[r]) \in Nat
    BY <1>3, <1>4, NumbersAreNat
<1>6. \A x \in 1..Len(delivered') : delivered'[x].by = P =>
          x \in 1..Len(delivered) /\ delivered'[x] = delivered[x]
    <2>1. CASE items[q] = <<>>
        BY <1>1, <2>1 DEF Forward
    <2>2. CASE items[q] # <<>>
        <3>1. items[q] \in Seq(Items) /\ delivered \in Seq(Items)
            BY DEF IInv, TypeOK
        <3>2. Head(items[q]) = items[q][1] /\ 1 \in 1..Len(items[q]) /\ items[q][1] \in Items
            BY <2>2, <3>1
        <3>3. delivered' = Append(delivered, items[q][1])
            BY <1>1, <2>2, <3>2 DEF Forward
        <3>4. items[q][1].by # P
            BY <1>2, <3>2 DEF Traced
        <3>5. \A x \in 1..Len(delivered') :
                  (x \in 1..Len(delivered) /\ delivered'[x] = delivered[x]) \/ delivered'[x] = items[q][1]
            BY <3>1, <3>2, <3>3
        <3> QED
            BY <3>4, <3>5
    <2> QED
        BY <2>1, <2>2
<1>7. \A r \in Queues : ~Expired(r)' => ~Expired(r)
    BY DEF Forward, LifeAfterDrop, Expired, IInv, TypeOK
<1>8. Slot(P, 0) = q /\ Slot(P, 0)' = NoQueue
    BY <1>1, <1>4 DEF Slot, Forward
<1>9. \A i \in Nat : i # 0 => Slot(P, i)' = Slot(P, i)
    BY <1>4 DEF Slot
<1>10. \A i \in Nat : LiveAt(P, i)' => Slot(P, i)' = Slot(P, i)
    BY <1>3, <1>8, <1>9, QueuesAssumption DEF LiveAt
<1>11. \A r \in Own(P) : \A i \in Nat : Slot(P, i) = r /\ ~Expired(r)' => Slot(P, i)' = r
    BY <1>3, <1>8, <1>9
<1> QED
    BY <1>3, <1>4, <1>5, <1>6, <1>7, <1>10, <1>11, SameSlots

\* remove_expired_queues(): the wake-ups of living queues keep their order.
LEMMA OrderDestruct ==
    ASSUME NEW P \in Producers, IInv, Ordered(P), NEW q \in Queues, Destruct(q)
    PROVE  Ordered(P)'
<1> DEFINE kept == {i \in 1..Len(notifications) : ~Expired(notifications[i])}
<1>1. PICK d \in Nat : d = Len(notifications)
    BY NumbersAreNat
<1>2. PICK c \in Nat : c = Cardinality(kept)
    <2>1. kept \subseteq 1..d
        BY <1>1
    <2>2. IsFiniteSet(1..d)
        BY FS_Interval
    <2> HIDE DEF kept
    <2>3. IsFiniteSet(kept)
        BY <2>1, <2>2, FS_Subset
    <2>4. Cardinality(kept) \in Nat
        BY <2>3, FS_CardinalityType
    <2> QED
        BY <2>4
<1>3. PICK f \in [1..c -> kept] :
          /\ \A i, j \in 1..c : i < j => f[i] < f[j]
          /\ \A k \in kept : \E i \in 1..c : f[i] = k
          /\ notifications' = [i \in 1..c |-> notifications[f[i]]]
    <2>1. PICK f \in [1..Cardinality(kept) -> kept] :
              /\ \A i, j \in DOMAIN f : i < j => f[i] < f[j]
              /\ \A k \in kept : \E i \in DOMAIN f : f[i] = k
              /\ notifications' = [i \in 1..Cardinality(kept) |-> notifications[f[i]]]
        BY DEF Destruct
    <2> HIDE DEF kept
    <2>2. f \in [1..c -> kept] /\ DOMAIN f = 1..c
        BY <1>2, <2>1
    <2>3. notifications' = [i \in 1..c |-> notifications[f[i]]]
        BY <1>2, <2>1
    <2>4. /\ \A i, j \in 1..c : i < j => f[i] < f[j]
          /\ \A k \in kept : \E i \in 1..c : f[i] = k
        BY <2>1, <2>2
    <2> QED
        BY <2>2, <2>3, <2>4
<1>4. /\ delivered' = delivered /\ sent' = sent /\ pushed' = pushed /\ pc' = pc
      /\ current' = current /\ senders' = senders
    BY DEF Destruct, producerVars, taskVars, historyVars
<1>22. Own(P)' = Own(P) /\ \A r \in Own(P) : r \in Queues
    BY <1>4 DEF Own
<1>5. /\ Expired(q) /\ Expired(q)'
      /\ \A r \in Queues : Expired(r)' = Expired(r)
    BY DEF Destruct, Expired, IInv, TypeOK
<1>6. items'[q] = <<>> /\ \A r \in Queues \ {q} : items'[r] = items[r]
    BY DEF Destruct, IInv, TypeOK
<1>7. \A i \in 1..c : f[i] \in 1..d /\ ~Expired(notifications[f[i]])
    BY <1>1, <1>3
<1>8. \A k \in 1..d : ~Expired(notifications[k]) => \E i \in 1..c : f[i] = k
    BY <1>1, <1>3
<1>9. Len(notifications') = c /\ \A i \in 1..c : notifications'[i] = notifications[f[i]]
    <2>1. \A i \in 1..c : notifications[f[i]] \in Queues
        BY <1>1, <1>7 DEF IInv, TypeOK
    <2>2. notifications' \in [1..c -> Queues]
        BY <1>3, <2>1
    <2>3. Len(notifications') = c
        BY <2>2, FunctionIsSeq
    <2> QED
        BY <1>3, <2>3
<1> HIDE DEF kept
<1>10. PICK e \in [Nat -> Nat] :
           /\ e[0] = 0
           /\ \A i \in 1..c : e[i] = f[i]
           /\ \A i \in Nat : i > c => e[i] = d + (i - c)
    <2> DEFINE E == [i \in Nat |-> IF i = 0 THEN 0 ELSE IF i \in 1..c THEN f[i] ELSE d + (i - c)]
    <2>1. \A i \in 1..c : f[i] \in Nat /\ i # 0 /\ i \in Nat
        BY <1>7
    <2>2. \A i \in Nat : i # 0 /\ i \notin 1..c => d + (i - c) \in Nat
        OBVIOUS
    <2>3. E \in [Nat -> Nat]
        BY <2>1, <2>2
    <2>4. E[0] = 0 /\ \A i \in 1..c : E[i] = f[i]
        BY <2>1
    <2>5. \A i \in Nat : i > c => i # 0 /\ i \notin 1..c
        OBVIOUS
    <2>6. \A i \in Nat : i > c => E[i] = d + (i - c)
        BY <2>5
    <2> HIDE DEF E
    <2> QED
        BY <2>3, <2>4, <2>6
<1>11. \A i \in Nat : i = 0 \/ i \in 1..c \/ i > c
    OBVIOUS
<1>12. Slot(P, 0)' = Slot(P, 0)
    BY <1>4 DEF Slot
<1>13. \A i \in 1..c : Slot(P, i)' = Slot(P, e[i])
    <2> SUFFICES ASSUME NEW i \in 1..c PROVE Slot(P, i)' = Slot(P, e[i])
        OBVIOUS
    <2>1. e[i] \in 1..d /\ e[i] # 0 /\ e[i] = f[i] /\ i # 0
        BY <1>7, <1>10
    <2>2. Slot(P, e[i]) = notifications[f[i]]
        BY <1>1, <2>1 DEF Slot
    <2>3. Slot(P, i)' = notifications'[i]
        BY <1>9, <2>1 DEF Slot
    <2> QED
        BY <1>9, <2>2, <2>3
<1>14. \A i \in Nat : i > c => Slot(P, i)' = Slot(P, e[i])
    <2> SUFFICES ASSUME NEW i \in Nat, i > c PROVE Slot(P, i)' = Slot(P, e[i])
        OBVIOUS
    <2>1. e[i] = d + (i - c)
        BY <1>10
    <2>2. /\ i # 0 /\ i \notin 1..c /\ e[i] # 0 /\ e[i] \notin 1..d
          /\ i = c + 1 <=> e[i] = d + 1
        BY <2>1
    <2>3. Slot(P, i)' = IF i = c + 1 THEN pushed[P] ELSE NoQueue
        BY <1>4, <1>9, <2>2 DEF Slot
    <2>4. Slot(P, e[i]) = IF i = c + 1 THEN pushed[P] ELSE NoQueue
        BY <1>1, <2>2 DEF Slot
    <2> QED
        BY <2>3, <2>4
<1>15. \A i \in Nat : Slot(P, i)' = Slot(P, e[i])
    BY <1>10, <1>11, <1>12, <1>13, <1>14
<1>16. ASSUME NEW i \in Nat, NEW j \in Nat, i < j PROVE e[i] < e[j]
    <2>1. CASE i = 0
        <3>1. j # 0
            BY <1>16, <2>1
        <3>2. CASE j \in 1..c
            <4>1. e[j] \in 1..d
                BY <1>7, <1>10, <3>2
            <4>2. e[i] = 0
                BY <1>10, <2>1
            <4> QED
                BY <4>1, <4>2
        <3>3. CASE j > c
            <4>1. e[j] = d + (j - c)
                BY <1>10, <3>3
            <4>2. e[i] = 0
                BY <1>10, <2>1
            <4> QED
                BY <3>3, <4>1, <4>2
        <3> QED
            BY <1>11, <3>1, <3>2, <3>3
    <2>2. CASE i \in 1..c /\ j \in 1..c
        BY <1>3, <1>10, <1>16, <2>2
    <2>3. CASE i \in 1..c /\ j > c
        <3>1. e[i] \in 1..d
            BY <1>7, <1>10, <2>3
        <3>2. e[j] = d + (j - c)
            BY <1>10, <2>3
        <3> QED
            BY <2>3, <3>1, <3>2
    <2>4. CASE i > c
        <3>1. j > c
            BY <1>16, <2>4
        <3>2. e[i] = d + (i - c) /\ e[j] = d + (j - c)
            BY <1>10, <2>4, <3>1
        <3> QED
            BY <1>16, <3>2
    <2>5. i \in 1..c => j \in 1..c \/ j > c
        BY <1>16
    <2> QED
        BY <1>11, <2>1, <2>2, <2>3, <2>4, <2>5
<1>17. ASSUME NEW r \in Own(P), NEW i \in Nat, Slot(P, i) = r, ~Expired(r)'
       PROVE  \E j \in Nat : e[j] = i /\ Slot(P, j)' = r
    <2>1. CASE i = 0
        BY <1>10, <1>12, <1>17, <2>1
    <2>2. CASE i \in 1..d
        <3>1. i # 0
            BY <2>2
        <3>2. notifications[i] = r
            BY <1>1, <1>17, <2>2, <3>1 DEF Slot
        <3>3. ~Expired(r)
            BY <1>5, <1>17, <1>22
        <3>4. PICK j \in 1..c : f[j] = i
            BY <1>8, <2>2, <3>2, <3>3
        <3>5. e[j] = i /\ j \in Nat
            BY <1>10, <3>4
        <3> QED
            BY <1>15, <1>17, <3>5
    <2>3. CASE i > d
        <3>1. PICK j \in Nat : j = c + (i - d) /\ j > c /\ d + (j - c) = i
            <4>1. c + (i - d) \in Nat /\ c + (i - d) > c /\ d + ((c + (i - d)) - c) = i
                BY <2>3
            <4> QED
                BY <4>1
        <3>2. e[j] = i
            BY <1>10, <3>1
        <3> QED
            BY <1>15, <1>17, <3>2
    <2>4. i = 0 \/ i \in 1..d \/ i > d
        OBVIOUS
    <2> QED
        BY <2>1, <2>2, <2>3, <2>4
<1>18. PICK h \in [Nat -> Nat] : Matched(P, h)
    BY DEF Ordered
<1>19. \A r \in Own(P) : ~Expired(r)' => ~Expired(r) /\ items'[r] = items[r]
    BY <1>5, <1>6, <1>22
<1>20. \E g \in [Nat -> Nat] : Matched(P, g)'
    <2>1. \A i \in Nat : LiveAt(P, i)' => Slot(P, i)' = Slot(P, e[i])
        BY <1>15
    <2>2. \A i, j \in Nat : LiveAt(P, i)' /\ LiveAt(P, j)' /\ i < j => e[i] < e[j]
        BY <1>16
    <2>3. \A r \in Own(P) : \A i \in Nat : Slot(P, i) = r /\ ~Expired(r)' =>
              \E j \in Nat : e[j] = i /\ Slot(P, j)' = r
        BY <1>17
    <2>4. delivered' = delivered
        BY <1>4
    <2> QED
        BY <1>18, <1>19, <1>22, <2>1, <2>2, <2>3, <2>4, Reindex
<1>21. Numbered(P)'
    <2>1. \A r \in Own(P) : Len(items'[r]) \in Nat /\ (Len(items'[r]) # 0 => items'[r] = items[r])
        <3>1. Len(<<>>) = 0
            OBVIOUS
        <3>2. ASSUME NEW r \in Own(P), r # q
              PROVE  items'[r] = items[r] /\ Len(items[r]) \in Nat
            BY <1>6, <1>22, <3>2, NumbersAreNat
        <3>3. ASSUME NEW r \in Own(P), r = q PROVE Len(items'[r]) = 0
            BY <1>6, <3>1, <3>3
        <3> QED
            BY <3>2, <3>3
    <2> QED
        BY <1>4, <1>22, <2>1, StillNumbered DEF Ordered
<1> QED
    BY <1>20, <1>21 DEF Ordered

-----------------------------------------------------------------------------

\* A step that adds neither items nor wake-ups keeps Traced.
LEMMA TracedKept ==
    ASSUME IInv, Traced, pushed' = pushed, senders' = senders,
           \A q \in Queues : \A k \in 1..Len(items'[q]) :
               \E l \in 1..Len(items[q]) : items'[q][k] = items[q][l],
           \A i \in 1..Len(notifications') :
               \E j \in 1..Len(notifications) : notifications'[i] = notifications[j],
           pc' \in {"lock", "forward"} =>
               \/ pc \in {"lock", "forward"} /\ current' = current
               \/ \E j \in 1..Len(notifications) : current' = notifications[j]
    PROVE  Traced'
<1>1. \A q \in Queues : \A k \in 1..Len(items'[q]) : items'[q][k].by \in senders[q]
    BY DEF Traced
<1>2. \A i \in 1..Len(notifications') : senders[notifications'[i]] # {}
    BY DEF Traced
<1>3. pc' \in {"lock", "forward"} => senders[current'] # {}
    BY DEF Traced
<1> QED
    BY <1>1, <1>2, <1>3 DEF Traced

LEMMA TracedStep ==
    ASSUME IInv, Traced, [Next]_vars
    PROVE  Traced'
<1>0. /\ items \in [Queues -> Seq(Items)] /\ notifications \in Seq(Queues)
      /\ pushed \in [Producers -> Queues \cup {NoQueue}] /\ senders \in [Queues -> SUBSET Producers]
    BY DEF IInv, TypeOK
<1>1. CASE UNCHANGED vars
    BY <1>1 DEF vars, producerVars, taskVars, historyVars, Traced
<1>2. ASSUME NEW p \in Producers, NEW q \in Queues, Push(p, q) PROVE Traced'
    <2>1. /\ senders' = [senders EXCEPT ![q] = senders[q] \cup {p}]
          /\ pushed' = [pushed EXCEPT ![p] = q]
          /\ UNCHANGED <<notifications, pc, current>>
        BY <1>2 DEF Push, taskVars
    <2>2. \A r \in Queues : senders[r] \subseteq senders'[r]
        BY <1>0, <2>1
    <2>3. ASSUME NEW r \in Queues, NEW k \in 1..Len(items'[r]) PROVE items'[r][k].by \in senders'[r]
        <3>1. CASE r # q
            <4>1. items'[r] = items[r]
                BY <1>0, <1>2, <3>1 DEF Push
            <4> QED
                BY <2>2, <4>1 DEF Traced
        <3>2. CASE r = q
            <4>1. PICK m : m = [by |-> p, n |-> sent[p] + 1]
                OBVIOUS
            <4>2. items'[q] = Append(items[q], m) /\ m.by = p /\ items[q] \in Seq(Items)
                BY <1>0, <1>2, <4>1 DEF Push
            <4>3. (k \in 1..Len(items[q]) /\ items'[q][k] = items[q][k]) \/ items'[q][k] = m
                BY <3>2, <4>2
            <4>4. p \in senders'[q]
                BY <1>0, <2>1
            <4> QED
                BY <2>2, <3>2, <4>2, <4>3, <4>4 DEF Traced
        <3> QED
            BY <3>1, <3>2
    <2>4. ASSUME NEW o \in Producers, pushed'[o] # NoQueue PROVE o \in senders'[pushed'[o]]
        <3>1. CASE o = p
            BY <1>0, <2>1, <3>1
        <3>2. CASE o # p
            <4>1. pushed'[o] = pushed[o] /\ pushed[o] \in Queues
                BY <1>0, <2>1, <2>4, <3>2
            <4> QED
                BY <2>2, <2>4, <4>1 DEF Traced
        <3> QED
            BY <3>1, <3>2
    <2>5. \A i \in 1..Len(notifications) : notifications[i] \in Queues
        BY <1>0
    <2>6. \A i \in 1..Len(notifications) : senders'[notifications[i]] # {}
        BY <2>2, <2>5 DEF Traced
    <2>7. pc \in {"lock", "forward"} => senders'[current] # {}
        BY <2>2 DEF Traced, IInv, ServingQueue
    <2> QED
        BY <2>1, <2>3, <2>4, <2>6, <2>7 DEF Traced
<1>3. ASSUME NEW p \in Producers, Notify(p) PROVE Traced'
    <2>1. /\ UNCHANGED <<items, senders, pc, current>>
          /\ pushed' = [pushed EXCEPT ![p] = NoQueue]
          /\ notifications' = Append(notifications, pushed[p]) /\ pushed[p] \in Queues
        BY <1>0, <1>3 DEF Notify, taskVars, historyVars
    <2>2. senders[pushed[p]] # {}
        BY <1>3 DEF Notify, Traced
    <2>3. \A i \in 1..Len(notifications') :
              notifications'[i] = pushed[p]
              \/ (i \in 1..Len(notifications) /\ notifications'[i] = notifications[i])
        BY <1>0, <2>1
    <2>4. \A i \in 1..Len(notifications') : senders[notifications'[i]] # {}
        BY <2>2, <2>3 DEF Traced
    <2>5. \A o \in Producers : pushed'[o] # NoQueue => o \in senders[pushed'[o]]
        BY <1>0, <2>1 DEF Traced
    <2> QED
        BY <2>1, <2>4, <2>5 DEF Traced
<1>4. ASSUME NEW q \in Queues, BeginClear(q) \/ Clear(q) \/ Release(q) PROVE Traced'
    <2>1. UNCHANGED <<pushed, senders, notifications, pc, current>>
        BY <1>4 DEF BeginClear, Clear, Release, producerVars, taskVars, historyVars
    <2>2. ASSUME NEW r \in Queues
          PROVE  items'[r] = items[r] \/ (items[r] # <<>> /\ items'[r] = Tail(items[r]))
        BY <1>0, <1>4 DEF BeginClear, Clear, Release
    <2>3. ASSUME NEW r \in Queues, NEW k \in 1..Len(items'[r])
          PROVE  \E l \in 1..Len(items[r]) : items'[r][k] = items[r][l]
        <3>1. items[r] \in Seq(Items)
            BY <1>0
        <3>2. CASE items[r] # <<>> /\ items'[r] = Tail(items[r])
            <4>1. k + 1 \in 1..Len(items[r]) /\ items'[r][k] = items[r][k + 1]
                BY <3>1, <3>2
            <4> QED
                BY <4>1
        <3> QED
            BY <2>2, <3>2
    <2> QED
        BY <2>1, <2>3, TracedKept
<1>5. ASSUME NEW q \in Queues, Destruct(q) PROVE Traced'
    <2>1. UNCHANGED <<pushed, senders, pc, current>>
        BY <1>5 DEF Destruct, producerVars, taskVars, historyVars
    <2>2. \A r \in Queues : items'[r] = items[r] \/ items'[r] = <<>>
        BY <1>0, <1>5 DEF Destruct
    <2>3. \A r \in Queues : \A k \in 1..Len(items'[r]) :
              \E l \in 1..Len(items[r]) : items'[r][k] = items[r][l]
        <3>1. Len(<<>>) = 0 /\ 1..0 = {}
            OBVIOUS
        <3> QED
            BY <2>2, <3>1
    <2>4. \A i \in 1..Len(notifications') :
              \E j \in 1..Len(notifications) : notifications'[i] = notifications[j]
        <3> DEFINE kept == {i \in 1..Len(notifications) : ~Expired(notifications[i])}
        <3>1. kept \subseteq 1..Len(notifications)
            OBVIOUS
        <3>2. Cardinality(kept) \in Nat
            <4>1. IsFiniteSet(1..Len(notifications))
                BY <1>0, FS_Interval
            <4> HIDE DEF kept
            <4> QED
                BY <3>1, <4>1, FS_Subset, FS_CardinalityType
        <3>3. PICK f \in [1..Cardinality(kept) -> kept] :
                  notifications' = [i \in 1..Cardinality(kept) |-> notifications[f[i]]]
            BY <1>5 DEF Destruct
        <3> HIDE DEF kept
        <3>4. PICK c \in Nat : c = Cardinality(kept)
            BY <3>2
        <3>5. \A i \in 1..c : f[i] \in 1..Len(notifications) /\ notifications[f[i]] \in Queues
            <4>1. \A i \in 1..c : f[i] \in kept
                BY <3>3, <3>4
            <4>2. \A j \in 1..Len(notifications) : notifications[j] \in Queues
                BY <1>0
            <4> QED
                BY <3>1, <4>1, <4>2
        <3>6. notifications' \in [1..c -> Queues]
            BY <3>3, <3>4, <3>5
        <3>7. Len(notifications') = c
            BY <3>6, FunctionIsSeq
        <3> QED
            BY <3>3, <3>4, <3>5, <3>7
    <2> QED
        BY <2>1, <2>3, <2>4, TracedKept
<1>6. CASE TimePasses \/ OverdueTick \/ NothingOverdue \/ Timeout \/ Lock
    <2>1. UNCHANGED <<pushed, senders, items, notifications>>
        BY <1>6 DEF TimePasses, OverdueTick, NothingOverdue, Timeout, Lock, producerVars, historyVars
    <2>2. pc' \in {"lock", "forward"} => pc \in {"lock", "forward"} /\ current' = current
        BY <1>6 DEF TimePasses, OverdueTick, NothingOverdue, Timeout, Lock
    <2> QED
        BY <2>1, <2>2, TracedKept
<1>7. CASE Take
    <2>1. /\ UNCHANGED <<pushed, senders, items>>
          /\ notifications # <<>> /\ notifications' = Tail(notifications)
          /\ current' = Head(notifications)
        BY <1>7 DEF Take, producerVars, historyVars
    <2>2. 1 \in 1..Len(notifications) /\ current' = notifications[1]
        BY <1>0, <2>1
    <2>3. ASSUME NEW i \in 1..Len(notifications')
          PROVE  \E j \in 1..Len(notifications) : notifications'[i] = notifications[j]
        <3>1. i + 1 \in 1..Len(notifications) /\ notifications'[i] = notifications[i + 1]
            BY <1>0, <2>1
        <3> QED
            BY <3>1
    <2> QED
        BY <2>1, <2>2, <2>3, TracedKept
<1>8. CASE Forward
    <2>1. UNCHANGED <<pushed, senders, notifications>> /\ pc' = "test"
        BY <1>8 DEF Forward, producerVars, historyVars
    <2>2. ASSUME NEW r \in Queues
          PROVE  items'[r] = items[r] \/ (items[r] # <<>> /\ items'[r] = Tail(items[r]))
        BY <1>0, <1>8 DEF Forward
    <2>3. ASSUME NEW r \in Queues, NEW k \in 1..Len(items'[r])
          PROVE  \E l \in 1..Len(items[r]) : items'[r][k] = items[r][l]
        <3>1. items[r] \in Seq(Items)
            BY <1>0
        <3>2. CASE items[r] # <<>> /\ items'[r] = Tail(items[r])
            <4>1. k + 1 \in 1..Len(items[r]) /\ items'[r][k] = items[r][k + 1]
                BY <3>1, <3>2
            <4> QED
                BY <4>1
        <3> QED
            BY <2>2, <3>2
    <2> QED
        BY <2>1, <2>3, TracedKept
<1> QED
    BY <1>1, <1>2, <1>3, <1>4, <1>5, <1>6, <1>7, <1>8 DEF Next, TaskStep

\* A sender that is alone has always been.
LEMMA AloneBefore ==
    ASSUME IInv, [Next]_vars, NEW P \in Producers, Alone(P)'
    PROVE  Alone(P)
<1>1. \A q \in Queues : senders[q] \subseteq senders'[q]
    <2>1. ASSUME NEW p \in Producers, NEW q \in Queues, Push(p, q)
          PROVE  \A r \in Queues : senders[r] \subseteq senders'[r]
        BY <2>1 DEF Push, IInv, TypeOK
    <2>2. CASE senders' = senders
        BY <2>2
    <2>3. ASSUME NEW p \in Producers, Notify(p) PROVE senders' = senders
        BY <2>3 DEF Notify, historyVars
    <2>4. ASSUME NEW q \in Queues, BeginClear(q) \/ Clear(q) \/ Release(q) \/ Destruct(q)
          PROVE  senders' = senders
        BY <2>4 DEF BeginClear, Clear, Release, Destruct, historyVars
    <2>5. CASE TimePasses \/ TaskStep \/ UNCHANGED vars
        BY <2>2, <2>5 DEF TimePasses, TaskStep, OverdueTick, NothingOverdue, Timeout, Take, Lock,
            Forward, vars, historyVars
    <2> QED
        BY <2>1, <2>2, <2>3, <2>4, <2>5 DEF Next
<1>2. cleared \subseteq cleared'
    <2>1. ASSUME NEW p \in Producers, NEW q \in Queues, Push(p, q) PROVE cleared' = cleared
        BY <2>1 DEF Push
    <2>2. ASSUME NEW p \in Producers, Notify(p) PROVE cleared' = cleared
        BY <2>2 DEF Notify, historyVars
    <2>3. ASSUME NEW q \in Queues, BeginClear(q) \/ Clear(q) \/ Release(q) \/ Destruct(q)
          PROVE  cleared \subseteq cleared'
        BY <2>3 DEF BeginClear, Clear, Release, Destruct, historyVars
    <2>4. CASE TimePasses \/ TaskStep \/ UNCHANGED vars
        BY <2>4 DEF TimePasses, TaskStep, OverdueTick, NothingOverdue, Timeout, Take, Lock,
            Forward, vars, historyVars
    <2> QED
        BY <2>1, <2>2, <2>3, <2>4 DEF Next
<1> QED
    BY <1>1, <1>2 DEF Alone, IInv, TypeOK

\* "messages [...] arrive in the same order they were sent when there are more
\* than one receiver queue" (Task.cpp:184-186) holds for every sender that shares
\* its queues with nobody, for any number of queues of any size, whatever other
\* senders and clear() do to other queues of the same task.
THEOREM SentInOrder == Spec => []SendOrder
<1>1. Init => OrderInv
    <2> SUFFICES ASSUME Init PROVE OrderInv
        OBVIOUS
    <2>1. \A q \in Queues : items[q] = <<>> /\ senders[q] = {}
        BY DEF Init
    <2>2. delivered = <<>> /\ notifications = <<>> /\ Len(<<>>) = 0 /\ 1..0 = {} /\ pc = "test"
        BY DEF Init
    <2>3. \A p \in Producers : pushed[p] = NoQueue
        BY DEF Init
    <2>4. Traced
        BY <2>1, <2>2, <2>3 DEF Traced
    <2>5. ASSUME NEW P \in Producers PROVE Ordered(P)
        <3>1. Own(P) = {}
            BY <2>1 DEF Own
        <3>2. \A i \in Nat : ~LiveAt(P, i)
            BY <3>1 DEF LiveAt
        <3>3. [i \in Nat |-> 0] \in [Nat -> Nat]
            OBVIOUS
        <3>4. PICK h \in [Nat -> Nat] : TRUE
            BY <3>3
        <3>5. Matched(P, h)
            BY <3>1, <3>2 DEF Matched
        <3>6. Numbered(P)
            BY <2>2, <3>1 DEF Numbered
        <3> QED
            BY <3>5, <3>6 DEF Ordered
    <2> QED
        BY <2>4, <2>5 DEF OrderInv
<1>2. IInv /\ OrderInv /\ [Next]_vars => OrderInv'
    <2> SUFFICES ASSUME IInv, OrderInv, [Next]_vars PROVE OrderInv'
        OBVIOUS
    <2>0. Traced /\ Traced'
        BY TracedStep DEF OrderInv
    <2> SUFFICES ASSUME NEW P \in Producers, Alone(P)' PROVE Ordered(P)'
        BY <2>0 DEF OrderInv
    <2>1. Alone(P) /\ Ordered(P)
        BY AloneBefore DEF OrderInv
    <2>2. CASE UNCHANGED vars
        <3>1. UNCHANGED <<items, notifications, life, pushed, sent, pc, current, delivered, senders>>
            BY <2>2 DEF vars, producerVars, taskVars, historyVars
        <3>2. \A i \in Nat : Slot(P, i)' = Slot(P, i)
            BY <3>1 DEF Slot
        <3>3. \A r \in Queues : Expired(r)' = Expired(r)
            BY <3>1 DEF Expired
        <3>4. Own(P)' = Own(P) /\ \A r \in Own(P) : r \in Queues
            BY <3>1 DEF Own
        <3> QED
            BY <2>1, <3>1, <3>2, <3>3, <3>4, NumbersAreNat, SameSlots
    <2>3. ASSUME NEW p \in Producers, NEW q \in Queues, Push(p, q) PROVE Ordered(P)'
        BY <2>0, <2>1, <2>3, OrderPush, OrderOthers
    <2>4. ASSUME NEW p \in Producers, Notify(p) PROVE Ordered(P)'
        BY <2>0, <2>1, <2>4, OrderStay, OrderOtherNotify
    <2>5. ASSUME NEW q \in Queues, BeginClear(q) \/ Clear(q) PROVE Ordered(P)'
        BY <2>0, <2>1, <2>5, OrderOthers
    <2>6. ASSUME NEW q \in Queues, Release(q) \/ Destruct(q) PROVE Ordered(P)'
        BY <2>1, <2>6, OrderStay, OrderDestruct
    <2>7. CASE TimePasses \/ TaskStep
        BY <2>0, <2>1, <2>7, OrderStay, OrderTake, OrderLock, OrderForward, OrderForwardOther DEF TaskStep
    <2> QED
        BY <2>2, <2>3, <2>4, <2>5, <2>6, <2>7 DEF Next
<1>3. IInv /\ OrderInv => SendOrder
    <2> SUFFICES ASSUME IInv, OrderInv, NEW i \in 1..Len(delivered), NEW j \in 1..Len(delivered),
                        i < j, delivered[i].by = delivered[j].by, Alone(delivered[i].by)
                 PROVE  delivered[i].n < delivered[j].n
        BY DEF SendOrder
    <2>1. PICK P \in Producers : P = delivered[i].by
        <3>1. delivered[i] \in Items
            BY DEF IInv, TypeOK
        <3>2. \A m \in Items : m.by \in Producers
            BY DEF Items
        <3> QED
            BY <3>1, <3>2
    <2> QED
        BY <2>1 DEF OrderInv, Ordered, Numbered
<1> QED
    BY <1>1, <1>2, <1>3, InitInv, NextInv, PTL DEF Spec

-----------------------------------------------------------------------------
(***************************************************************************)
(* Publish/subscribe, for any number of queues, of publishing threads and  *)
(* of publications.                                                        *)
(*                                                                         *)
(* The argument: a thread inside publish() holds the mutex (Held), so      *)
(* there is at most one, and the list cannot change under it.  Publication *)
(* order needs to know more of that thread: what it publishes is new       *)
(* (Fresh), it comes last wherever it has arrived (CurrentLast), and it    *)
(* has not arrived at the queues that are still to be visited (NotYet),    *)
(* which are visited once each (Once).                                     *)
(***************************************************************************)

Active(t) == at[t] \in {"visit", "push", "drop", "stuck"}
Current(t) == [by |-> t, n |-> published[t]]

\* A thread inside publish() holds the mutex, and a queue while it pushes.
Held ==
    \A t \in Publishers :
        /\ Active(t) => mutex = t /\ published[t] > 0
        /\ at[t] \in {"push", "drop", "stuck"} => rest[t] # <<>>

\* A queue subscribes when it is created and is gone when it has unsubscribed.
Living ==
    /\ \A i \in 1..Len(subscribers) : linkLife[subscribers[i]] \notin {"new", "gone"}
    /\ \A t \in Publishers : \A i \in 1..Len(rest[t]) :
            Active(t) => linkLife[rest[t][i]] # "gone"

\* No queue is in the list, or still to be visited, twice.
Once ==
    /\ \A i, j \in 1..Len(subscribers) : subscribers[i] = subscribers[j] => i = j
    /\ \A t \in Publishers : Active(t) =>
            \A i, j \in 1..Len(rest[t]) : rest[t][i] = rest[t][j] => i = j

\* A queue has received nothing that was not published.
Fresh ==
    \A q \in LinkQueues : \A i \in 1..Len(received[q]) :
        received[q][i].n <= published[received[q][i].by]

\* The publication under way is the last one wherever it has arrived.
CurrentLast ==
    \A t \in Publishers : Active(t) =>
        \A q \in LinkQueues : \A i \in 1..Len(received[q]) :
            received[q][i] = Current(t) => i = Len(received[q])

Arrived(t, q) == \E i \in 1..Len(received[q]) : received[q][i] = Current(t)

\* It has not arrived at the queues that are still to be visited.
NotYetOf(t) ==
    \A k \in 1..Len(rest[t]) :
        (at[t] \in {"visit", "push"} \/ (at[t] = "drop" /\ k > 1)) => ~Arrived(t, rest[t][k])
NotYet == \A t \in Publishers : NotYetOf(t)

LinkInv == LinkTypeOK /\ Held /\ Living /\ Once
PublicationInv == Fresh /\ CurrentLast /\ NotYet /\ OnePublicationOrder

-----------------------------------------------------------------------------

\* A list without x is a list of elements of the old one, in their order and
\* none of them x: what forward_list::remove() leaves.
LEMMA WithoutIsPart ==
    ASSUME NEW S, NEW s \in Seq(S), NEW x, NEW r \in Without(s, x)
    PROVE  /\ r \in Seq(S)
           /\ \E f \in [1..Len(r) -> 1..Len(s)] :
                /\ \A i \in 1..Len(r) : r[i] = s[f[i]] /\ r[i] # x
                /\ \A i, j \in 1..Len(r) : i < j => f[i] < f[j]
<1> DEFINE kept == {i \in 1..Len(s) : s[i] # x}
           n == Cardinality(kept)
<1>1. Len(s) \in Nat
  OBVIOUS
<1>2. IsFiniteSet(kept) /\ n \in Nat
  <2>1. IsFiniteSet(1..Len(s))
    BY <1>1, FS_Interval
  <2>2. kept \subseteq 1..Len(s)
    OBVIOUS
  <2> QED
    BY <2>1, <2>2, FS_Subset, FS_CardinalityType
<1>3. PICK f \in Walks(kept) : r = [i \in 1..n |-> s[f[i]]]
  BY DEF Without, Kept
<1>4. /\ f \in [1..n -> kept]
      /\ \A i, j \in 1..n : i < j => f[i] < f[j]
  BY DEF Walks
<1>5. \A i \in 1..n : f[i] \in 1..Len(s) /\ s[f[i]] # x
  BY <1>4
<1>6. r \in Seq(S) /\ Len(r) = n
  <2> HIDE DEF n
  <2>1. \A i \in 1..n : s[f[i]] \in S
    BY <1>5
  <2> QED
    BY <1>2, <1>3, <2>1
<1>7. f \in [1..Len(r) -> 1..Len(s)]
  BY <1>4, <1>5, <1>6
<1> HIDE DEF n
<1> QED
  BY <1>3, <1>4, <1>5, <1>6, <1>7

\* The initial states: no queue has been created, nothing published.
LEMMA LinkStart == ASSUME LinkInit PROVE LinkInv /\ PublicationInv
  BY LinkAssumption
  DEF LinkInit, LinkInv, PublicationInv, LinkTypeOK, Held, Living, Once, Fresh, CurrentLast, NotYet,
      NotYetOf, OnePublicationOrder, Active, LinkLives, PublishPlaces

\* With the mutex free, nobody is inside publish().
LEMMA FreeMutex ==
    ASSUME Held, mutex = Nobody
    PROVE  \A t \in Publishers : ~Active(t)
  BY LinkAssumption DEF Held

\* At most one thread is inside publish().
LEMMA OneInside ==
    ASSUME Held, NEW t \in Publishers, NEW u \in Publishers, Active(t), Active(u)
    PROVE  t = u
  BY DEF Held

\* The steps of the queues' owners and tasks keep LinkInv.
LEMMA LinkQueueStep ==
    ASSUME LinkInv, NEW q \in LinkQueues,
           Create(q) \/ ReleaseQueue(q) \/ Unsubscribe(q) \/ Serve(q) \/ Served(q)
    PROVE  LinkInv'
<1> USE DEF LinkInv
<1>1. CASE Create(q)
  <2>1. LinkTypeOK'
    BY <1>1 DEF LinkTypeOK, Create, publisherVars, LinkLives
  <2>2. Held'
    BY <1>1 DEF Held, Create, publisherVars, Active
  <2>3. \A t \in Publishers : ~Active(t)'
    BY <1>1, FreeMutex DEF Create, publisherVars, Active
  <2>4. /\ Len(subscribers') = Len(subscribers) + 1
        /\ subscribers'[1] = q
        /\ \A i \in 2..Len(subscribers') :
              i - 1 \in 1..Len(subscribers) /\ subscribers'[i] = subscribers[i - 1]
    BY <1>1 DEF LinkTypeOK, Create
  <2>5. \A i \in 1..Len(subscribers) : subscribers[i] # q
    BY <1>1 DEF Living, Create
  <2>6. Living'
    <3>1. linkLife'[q] = "owned" /\ \A p \in LinkQueues : p # q => linkLife'[p] = linkLife[p]
      BY <1>1 DEF LinkTypeOK, Create
    <3>2. ASSUME NEW i \in 1..Len(subscribers')
          PROVE  linkLife'[subscribers'[i]] \notin {"new", "gone"}
      <4>1. CASE i = 1
        BY <2>4, <3>1, <4>1
      <4>2. CASE i # 1
        <5>1. i \in 2..Len(subscribers')
          BY <2>4, <4>2
        <5>2. PICK j \in 1..Len(subscribers) : subscribers'[i] = subscribers[j]
          BY <2>4, <5>1
        <5>3. subscribers[j] \in LinkQueues
          BY DEF LinkTypeOK
        <5> QED
          BY <2>5, <3>1, <5>2, <5>3 DEF Living
      <4> QED
        BY <4>1, <4>2
    <3> QED
      BY <2>3, <3>2 DEF Living
  <2>7. Once'
    <3> SUFFICES ASSUME NEW i \in 1..Len(subscribers'), NEW j \in 1..Len(subscribers'),
                        subscribers'[i] = subscribers'[j]
                 PROVE  i = j
      BY <2>3 DEF Once
    <3>0. /\ i \in Int /\ j \in Int
          /\ i = 1 \/ i \in 2..Len(subscribers')
          /\ j = 1 \/ j \in 2..Len(subscribers')
      BY <2>4 DEF LinkTypeOK
    <3>1. CASE i = 1 \/ j = 1
      BY <2>4, <2>5, <3>0, <3>1
    <3>2. CASE i # 1 /\ j # 1
      <4>1. /\ i - 1 \in 1..Len(subscribers) /\ subscribers'[i] = subscribers[i - 1]
            /\ j - 1 \in 1..Len(subscribers) /\ subscribers'[j] = subscribers[j - 1]
        BY <2>4, <3>0, <3>2
      <4>2. i - 1 = j - 1
        BY <4>1 DEF Once
      <4> QED
        BY <3>0, <4>2
    <3> QED
      BY <3>1, <3>2
  <2> QED
    BY <2>1, <2>2, <2>6, <2>7
<1>2. CASE ReleaseQueue(q)
  <2>1. LinkTypeOK'
    BY <1>2 DEF LinkTypeOK, ReleaseQueue, publisherVars, LinkLives
  <2>2. Held' /\ Once'
    BY <1>2 DEF Held, Once, ReleaseQueue, publisherVars, Active
  <2>3. Living'
    <3>1. \A r \in LinkQueues : /\ linkLife[r] # "new" => linkLife'[r] # "new"
                               /\ linkLife[r] # "gone" => linkLife'[r] # "gone"
      BY <1>2 DEF LinkTypeOK, ReleaseQueue
    <3>2. UNCHANGED <<subscribers, rest, at>>
      BY <1>2 DEF ReleaseQueue, publisherVars
    <3>3. /\ \A i \in 1..Len(subscribers) : subscribers[i] \in LinkQueues
          /\ \A t \in Publishers : \A i \in 1..Len(rest[t]) : rest[t][i] \in LinkQueues
      BY DEF LinkTypeOK
    <3>4. \A i \in 1..Len(subscribers) : linkLife'[subscribers[i]] \notin {"new", "gone"}
      <4> SUFFICES ASSUME NEW i \in 1..Len(subscribers)
                   PROVE  linkLife'[subscribers[i]] \notin {"new", "gone"}
        OBVIOUS
      <4>1. PICK r \in LinkQueues : r = subscribers[i]
        BY <3>3
      <4>2. linkLife[r] # "new" /\ linkLife[r] # "gone"
        BY <4>1 DEF Living
      <4>3. linkLife'[r] # "new" /\ linkLife'[r] # "gone"
        BY <1>2, <4>2 DEF LinkTypeOK, ReleaseQueue
      <4> QED
        BY <4>1, <4>3
    <3>5. \A t \in Publishers : \A i \in 1..Len(rest[t]) :
              Active(t) => linkLife'[rest[t][i]] # "gone"
      BY <3>1, <3>3 DEF Living
    <3>6. \A t \in Publishers : Active(t)' = Active(t)
      BY <3>2 DEF Active
    <3> QED
      BY <3>2, <3>4, <3>5, <3>6 DEF Living
  <2> QED
    BY <2>1, <2>2, <2>3
<1>3. CASE Unsubscribe(q)
  <2>1. subscribers \in Seq(LinkQueues)
    BY DEF LinkTypeOK
  <2>2. subscribers' \in Without(subscribers, q)
    BY <1>3 DEF Unsubscribe
  <2>3. subscribers' \in Seq(LinkQueues)
    BY <2>1, <2>2, WithoutIsPart
  <2>4. PICK f \in [1..Len(subscribers') -> 1..Len(subscribers)] :
          /\ \A i \in 1..Len(subscribers') : subscribers'[i] = subscribers[f[i]] /\ subscribers'[i] # q
          /\ \A i, j \in 1..Len(subscribers') : i < j => f[i] < f[j]
    <3>1. PICK s \in Seq(LinkQueues) : s = subscribers
      BY <2>1
    <3>2. PICK r \in Without(s, q) : r = subscribers'
      BY <2>2, <3>1
    <3>3. \E f \in [1..Len(r) -> 1..Len(s)] :
            /\ \A i \in 1..Len(r) : r[i] = s[f[i]] /\ r[i] # q
            /\ \A i, j \in 1..Len(r) : i < j => f[i] < f[j]
      BY WithoutIsPart
    <3> QED
      BY <3>1, <3>2, <3>3, Zenon
  <2>5. LinkTypeOK'
    BY <1>3, <2>3 DEF LinkTypeOK, Unsubscribe, publisherVars, LinkLives
  <2>6. Held'
    BY <1>3 DEF Held, Unsubscribe, publisherVars, Active
  <2>7. \A t \in Publishers : ~Active(t)'
    BY <1>3, FreeMutex DEF Unsubscribe, publisherVars, Active
  <2>8. Living'
    <3> SUFFICES ASSUME NEW i \in 1..Len(subscribers')
                 PROVE  linkLife'[subscribers'[i]] \notin {"new", "gone"}
      BY <2>7 DEF Living
    <3>1. f[i] \in 1..Len(subscribers) /\ subscribers'[i] = subscribers[f[i]] /\ subscribers'[i] # q
      BY <2>4
    <3>2. linkLife[subscribers'[i]] \notin {"new", "gone"}
      BY <3>1 DEF Living
    <3>3. subscribers'[i] \in LinkQueues
      BY <2>3
    <3> QED
      BY <1>3, <3>1, <3>2, <3>3 DEF LinkTypeOK, Unsubscribe
  <2>9. Once'
    <3> SUFFICES ASSUME NEW i \in 1..Len(subscribers'), NEW j \in 1..Len(subscribers'),
                        subscribers'[i] = subscribers'[j]
                 PROVE  i = j
      BY <2>7 DEF Once
    <3>1. f[i] = f[j]
      BY <2>4 DEF Once
    <3>2. f[i] \in Int /\ f[j] \in Int
      BY <2>1, <2>4
    <3> QED
      BY <2>3, <2>4, <3>1, <3>2
  <2> QED
    BY <2>5, <2>6, <2>8, <2>9
<1>4. CASE Serve(q)
  <2>1. LinkTypeOK'
    <3>1. Tail(inbox[q]) \in Seq(Publications) /\ Len(Tail(inbox[q])) <= LinkSize[q]
      <4>1. inbox[q] \in Seq(Publications) /\ inbox[q] # <<>> /\ Len(inbox[q]) <= LinkSize[q]
        BY <1>4 DEF LinkTypeOK, Serve
      <4>2. LinkSize[q] \in Nat
        BY LinkAssumption
      <4> QED
        BY <4>1, <4>2
    <3> QED
      BY <1>4, <3>1 DEF LinkTypeOK, Serve, publisherVars
  <2>2. Held' /\ Once' /\ Living'
    BY <1>4 DEF Held, Once, Living, Serve, publisherVars, Active
  <2> QED
    BY <2>1, <2>2
<1>5. CASE Served(q)
  <2>1. LinkTypeOK'
    BY <1>5 DEF LinkTypeOK, Served, publisherVars, LinkLives
  <2>2. Held' /\ Once'
    BY <1>5 DEF Held, Once, Served, publisherVars, Active
  <2>3. Living'
    <3>1. ASSUME NEW r \in LinkQueues
          PROVE  /\ linkLife[r] # "new" => linkLife'[r] # "new"
                 /\ linkLife[r] # "gone" => linkLife'[r] # "gone"
      BY <1>5 DEF LinkTypeOK, Served
    <3>2. UNCHANGED <<subscribers, rest, at>>
      BY <1>5 DEF Served, publisherVars
    <3>3. \A i \in 1..Len(subscribers) : subscribers[i] \in LinkQueues
      BY DEF LinkTypeOK
    <3>4. \A t \in Publishers : \A i \in 1..Len(rest[t]) : rest[t][i] \in LinkQueues
      BY DEF LinkTypeOK
    <3>5. \A i \in 1..Len(subscribers) : linkLife'[subscribers[i]] \notin {"new", "gone"}
      BY <3>1, <3>3 DEF Living
    <3>6. \A t \in Publishers : \A i \in 1..Len(rest[t]) :
              Active(t) => linkLife'[rest[t][i]] # "gone"
      BY <3>1, <3>4 DEF Living
    <3>7. \A t \in Publishers : Active(t)' = Active(t)
      BY <3>2 DEF Active
    <3> QED
      BY <3>2, <3>5, <3>6, <3>7 DEF Living
  <2> QED
    BY <2>1, <2>2, <2>3
<1> QED
  BY <1>1, <1>2, <1>3, <1>4, <1>5

\* What publish() still has to visit, without the queue it has just visited.
LEMMA RestOfRest ==
    ASSUME NEW s \in Seq(LinkQueues), s # <<>>
    PROVE  /\ Head(s) = s[1] /\ s[1] \in LinkQueues /\ 1 \in 1..Len(s)
           /\ Tail(s) \in Seq(LinkQueues)
           /\ Len(Tail(s)) = Len(s) - 1
           /\ \A i \in 1..Len(Tail(s)) : i + 1 \in 1..Len(s) /\ Tail(s)[i] = s[i + 1]
  OBVIOUS

\* The steps of publish() keep LinkInv.
LEMMA LinkPublishStep ==
    ASSUME LinkInv, NEW t \in Publishers, LockLink(t) \/ PublishStep(t)
    PROVE  LinkInv'
<1> USE DEF LinkInv
<1>0. rest[t] \in Seq(LinkQueues) /\ rest \in [Publishers -> Seq(LinkQueues)] /\ at \in [Publishers -> PublishPlaces]
  BY DEF LinkTypeOK
<1>1. CASE LockLink(t)
  <2>1. LinkTypeOK'
    BY <1>1, LinkAssumption DEF LinkTypeOK, LockLink, queueVars, PublishPlaces
  <2>2. \A u \in Publishers \ {t} : ~Active(u)'
    BY <1>1, FreeMutex DEF LockLink, Active
  <2>3. Held'
    <3>1. /\ mutex' = t /\ published'[t] > 0
          /\ at'[t] = "visit"
      BY <1>1, <1>0 DEF LinkTypeOK, LockLink
    <3> QED
      BY <2>2, <3>1 DEF Held, Active
  <2>4. Living' /\ Once'
    BY <1>1, <1>0, <2>2 DEF Living, Once, LockLink, Active, queueVars
  <2> QED
    BY <2>1, <2>3, <2>4
<1>2. CASE Visit(t)
  <2>1. rest[t] # <<>> /\ Active(t)
    BY <1>2 DEF Visit, Active
  <2>2. CASE rest' = [rest EXCEPT ![t] = Tail(@)] /\ UNCHANGED at
    <3>1. LinkTypeOK'
      BY <1>2, <1>0, <2>1, <2>2, RestOfRest DEF LinkTypeOK, Visit, queueVars
    <3>2. Held'
      BY <1>2, <1>0, <2>2 DEF Held, Visit, Active
    <3>3. Living'
      <4>1. \A i \in 1..Len(rest'[t]) : linkLife[rest'[t][i]] # "gone"
        <5>1. rest'[t] = Tail(rest[t])
          BY <1>0, <2>2
        <5>2. \A i \in 1..Len(rest[t]) : linkLife[rest[t][i]] # "gone"
          BY <2>1 DEF Living
        <5> QED
          BY <1>0, <2>1, <5>1, <5>2, RestOfRest
      <4>2. \A u \in Publishers \ {t} : rest'[u] = rest[u] /\ Active(u)' = Active(u)
        BY <1>0, <2>2 DEF Active
      <4>3. linkLife' = linkLife /\ subscribers' = subscribers
        BY <1>2 , <2>2 DEF Visit, queueVars
      <4> QED
        BY <4>1, <4>2, <4>3 DEF Living
    <3>4. Once'
      BY <1>2, <1>0, <2>1, <2>2, RestOfRest DEF Once, Visit, Active
    <3> QED
      BY <3>1, <3>2, <3>3, <3>4
  <2>3. CASE at' = [at EXCEPT ![t] = "push"] /\ UNCHANGED rest
    <3>1. LinkTypeOK'
      BY <1>2, <2>3 DEF LinkTypeOK, Visit, queueVars, PublishPlaces
    <3>2. Held' /\ Living' /\ Once'
      BY <1>2, <1>0, <2>1, <2>3 DEF Held, Living, Once, Visit, Active, queueVars
    <3> QED
      BY <3>1, <3>2
  <2> QED
    BY <1>2, <2>2, <2>3 DEF Visit
<1>3. CASE PushTo(t)
  <2> DEFINE q == Head(rest[t])
             item == [by |-> t, n |-> published[t]]
  <2>1. q \in LinkQueues
    BY <1>3, <1>0, RestOfRest DEF PushTo, Held
  <2>2. item \in Publications
    <3>1. published[t] \in 1..MaxPublish
      BY <1>3, LinkAssumption DEF PushTo, LinkTypeOK, Held, Active
    <3> QED
      BY <3>1 DEF Publications
  <2> HIDE DEF q, item
  <2>3. LinkTypeOK'
    <3>1. at' \in [Publishers -> PublishPlaces] /\ res' \in [Publishers -> BOOLEAN]
      BY <1>3 DEF LinkTypeOK, PushTo, PublishPlaces
    <3>2. /\ inbox' \in [LinkQueues -> Seq(Publications)]
          /\ received' \in [LinkQueues -> Seq(Publications)]
          /\ \A r \in LinkQueues : Len(inbox'[r]) <= LinkSize[r]
          /\ refused' \in [Publishers -> BOOLEAN]
      <4>1. CASE Len(inbox[q]) < LinkSize[q]
        <5>1. Append(inbox[q], item) \in Seq(Publications) /\ Append(received[q], item) \in Seq(Publications)
          BY <2>1, <2>2 DEF LinkTypeOK
        <5>2. Len(Append(inbox[q], item)) <= LinkSize[q]
          BY <2>1, <2>2, <4>1, LinkAssumption DEF LinkTypeOK
        <5>3. /\ inbox' = [inbox EXCEPT ![q] = Append(inbox[q], item)]
              /\ received' = [received EXCEPT ![q] = Append(received[q], item)]
              /\ refused' = refused
          BY <1>3, <4>1 DEF PushTo, q, item
        <5> QED
          BY <2>1, <5>1, <5>2, <5>3 DEF LinkTypeOK
      <4>2. CASE ~(Len(inbox[q]) < LinkSize[q])
        BY <1>3, <4>2 DEF PushTo, LinkTypeOK, q
      <4> QED
        BY <4>1, <4>2
    <3> QED
      BY <1>3, <3>1, <3>2 DEF LinkTypeOK, PushTo
  <2>4. /\ mutex' = mutex /\ rest' = rest /\ subscribers' = subscribers
        /\ linkLife' = linkLife /\ published' = published
        /\ at[t] = "push" /\ at' = [at EXCEPT ![t] = "drop"]
    BY <1>3 DEF PushTo
  <2>8. \A o \in Publishers : Active(o)' = Active(o)
    BY <2>4, <1>0 DEF Active
  <2>5. Held'
    BY <2>4, <2>8, <1>0 DEF Held
  <2>6. Living' /\ Once'
    BY <2>4, <2>8 DEF Living, Once
  <2> QED
    BY <2>3, <2>5, <2>6
<1>4. CASE Drop(t)
  <2>1. rest[t] # <<>> /\ Active(t)
    BY <1>4 DEF Drop, Active, Held
  <2>2. CASE linkLife' = linkLife /\ at' = [at EXCEPT ![t] = "visit"] /\ rest' = [rest EXCEPT ![t] = Tail(@)]
    <3>1. LinkTypeOK'
      BY <1>4, <1>0, <2>1, <2>2, RestOfRest DEF LinkTypeOK, Drop, PublishPlaces
    <3>2. Held'
      BY <1>4, <1>0, <2>2 DEF Held, Drop, Active
    <3>3. Living'
      <4>1. \A i \in 1..Len(rest'[t]) : linkLife[rest'[t][i]] # "gone"
        <5>1. rest'[t] = Tail(rest[t])
          BY <1>0, <2>2
        <5>2. \A i \in 1..Len(rest[t]) : linkLife[rest[t][i]] # "gone"
          BY <2>1 DEF Living
        <5> QED
          BY <1>0, <2>1, <5>1, <5>2, RestOfRest
      <4>2. \A u \in Publishers \ {t} : rest'[u] = rest[u] /\ Active(u)' = Active(u)
        BY <1>0, <2>2 DEF Active
      <4>3. linkLife' = linkLife /\ subscribers' = subscribers
        BY <1>4 , <2>2 DEF Drop
      <4> QED
        BY <4>1, <4>2, <4>3 DEF Living
    <3>4. Once'
      BY <1>4, <1>0, <2>1, <2>2, RestOfRest DEF Once, Drop, Active
    <3> QED
      BY <3>1, <3>2, <3>3, <3>4
  <2>3. CASE /\ linkLife' = [linkLife EXCEPT ![Head(rest[t])] = "expired"]
             /\ at' = [at EXCEPT ![t] = "stuck"]
             /\ rest' = rest
    <3>1. LinkTypeOK'
      BY <1>4, <2>3 DEF LinkTypeOK, Drop, PublishPlaces, LinkLives
    <3>2. Held' /\ Once'
      BY <1>4, <1>0, <2>1, <2>3 DEF Held, Once, Drop, Active
    <3>3. Living'
      <4>1. \A q \in LinkQueues : linkLife[q] # "gone" => linkLife'[q] # "gone"
        BY <2>3 DEF LinkTypeOK
      <4>2. \A q \in LinkQueues : linkLife[q] # "new" => linkLife'[q] # "new"
        BY <2>3 DEF LinkTypeOK
      <4>3. \A u \in Publishers : Active(u)' => Active(u)
        BY <1>0, <2>1, <2>3 DEF Active
      <4>4. subscribers' = subscribers /\ subscribers \in Seq(LinkQueues)
        BY <1>4 DEF Drop, LinkTypeOK
      <4> QED
        BY <1>0, <2>3, <4>1, <4>2, <4>3, <4>4 DEF Living
    <3> QED
      BY <3>1, <3>2, <3>3
  <2> QED
    BY <1>4, <2>2, <2>3 DEF Drop
<1>5. CASE Unlock(t)
  <2>1. \A u \in Publishers \ {t} : ~Active(u)
    BY <1>5, OneInside DEF Unlock, Active
  <2>2. LinkTypeOK'
    BY <1>5 DEF LinkTypeOK, Unlock, queueVars, PublishPlaces
  <2>3. Held' /\ Living' /\ Once'
    BY <1>5, <1>0, <2>1 DEF Held, Living, Once, Unlock, Active, queueVars
  <2> QED
    BY <2>2, <2>3
<1>6. CASE Return(t)
  <2>1. LinkTypeOK'
    BY <1>6 DEF LinkTypeOK, Return, queueVars, PublishPlaces
  <2>2. Held' /\ Living' /\ Once'
    BY <1>6, <1>0 DEF Held, Living, Once, Return, Active, queueVars
  <2> QED
    BY <2>1, <2>2
<1> QED
  BY <1>1, <1>2, <1>3, <1>4, <1>5, <1>6 DEF PublishStep

-----------------------------------------------------------------------------
(* The order of publications.                                              *)

\* Only publish() changes what the order is about.
LEMMA OrderQueueStep ==
    ASSUME PublicationInv, UNCHANGED <<received, publisherVars>>
    PROVE  PublicationInv'
<1>1. received' = received /\ published' = published /\ at' = at /\ rest' = rest
  BY DEF publisherVars
<1>2. Fresh' /\ OnePublicationOrder'
  BY <1>1 DEF PublicationInv, Fresh, OnePublicationOrder
<1>3. CurrentLast'
  BY <1>1 DEF PublicationInv, CurrentLast, Active, Current
<1>4. NotYet'
  BY <1>1 DEF PublicationInv, NotYet, NotYetOf, Arrived, Current
<1> QED
  BY <1>2, <1>3, <1>4 DEF PublicationInv

\* The steps of publish() but PushTo: what a queue has received stays, and so
\* does what the thread publishes, until the next publish() counts it up.
LEMMA OrderOtherStep ==
    ASSUME LinkInv, PublicationInv, NEW t \in Publishers,
           LockLink(t) \/ Visit(t) \/ Drop(t) \/ Unlock(t) \/ Return(t)
    PROVE  PublicationInv'
<1> USE DEF LinkInv, PublicationInv
<1>0. /\ rest \in [Publishers -> Seq(LinkQueues)] /\ at \in [Publishers -> PublishPlaces]
      /\ published \in [Publishers -> Nat] /\ received \in [LinkQueues -> Seq(Publications)]
  BY LinkAssumption DEF LinkTypeOK
<1>1. received' = received
  BY DEF LockLink, Visit, Drop, Unlock, Return, queueVars
<1>2. OnePublicationOrder'
  BY <1>1 DEF OnePublicationOrder
<1>3. CASE LockLink(t)
  <2>1. /\ \A u \in Publishers : ~Active(u)
        /\ \A u \in Publishers \ {t} : ~Active(u)'
    BY <1>3, FreeMutex DEF LockLink, Active
  <2>2. /\ published'[t] = published[t] + 1
        /\ \A u \in Publishers : published'[u] \in Nat /\ published[u] <= published'[u]
    BY <1>0, <1>3 DEF LockLink
  <2>3. \A q \in LinkQueues : \A i \in 1..Len(received[q]) :
            /\ received[q][i].by \in Publishers /\ received[q][i].n \in Nat
            /\ received[q][i].n <= published[received[q][i].by]
    <3>1. \A q \in LinkQueues : \A i \in 1..Len(received[q]) : received[q][i] \in Publications
      BY <1>0
    <3> QED
      BY <3>1, LinkAssumption DEF Fresh, Publications
  <2>4. \A q \in LinkQueues : \A i \in 1..Len(received[q]) : received[q][i] # Current(t)'
    <3> SUFFICES ASSUME NEW q \in LinkQueues, NEW i \in 1..Len(received[q]),
                        received[q][i] = [by |-> t, n |-> published'[t]]
                 PROVE  FALSE
      BY DEF Current
    <3>1. received[q][i].by = t /\ received[q][i].n = published[t] + 1
      BY <2>2
    <3> QED
      BY <1>0, <2>3, <3>1
  <2>5. Fresh'
    BY <1>0, <1>1, <2>2, <2>3 DEF Fresh
  <2>6. CurrentLast'
    BY <1>1, <2>1, <2>4 DEF CurrentLast
  <2>7. NotYet'
    <3>1. \A i \in 1..Len(rest'[t]) : rest'[t][i] \in LinkQueues
      BY <1>3, <1>0 DEF LinkTypeOK, LockLink
    <3>2. \A q \in LinkQueues : ~Arrived(t, q)'
      BY <1>1, <2>4 DEF Arrived
    <3> QED
      BY <2>1, <3>1, <3>2 DEF NotYet, NotYetOf, Active
  <2> QED
    BY <1>2, <2>5, <2>6, <2>7
<1>4. CASE Visit(t) \/ Drop(t) \/ Unlock(t) \/ Return(t)
  <2>1. published' = published
    BY <1>4 DEF Visit, Drop, Unlock, Return
  <2>2. Fresh'
    BY <1>1, <2>1 DEF Fresh
  <2>3. \A u \in Publishers : Active(u)' => Active(u)
    BY <1>4, <1>0 DEF Visit, Drop, Unlock, Return, Active
  <2>4. CurrentLast'
    BY <1>1, <2>1, <2>3 DEF CurrentLast, Current
  <2>5. NotYet'
    <3>1. \A u \in Publishers \ {t} : rest'[u] = rest[u] /\ at'[u] = at[u]
      BY <1>4, <1>0 DEF Visit, Drop, Unlock, Return
    <3>2. \A u, q : Arrived(u, q)' = Arrived(u, q)
      BY <1>1, <2>1 DEF Arrived, Current
    <3>3. \A u \in Publishers \ {t} : NotYetOf(u)'
      BY <3>1, <3>2 DEF NotYet, NotYetOf
    <3>4. NotYetOf(t)'
      <4>1. CASE rest'[t] = rest[t] /\ (at'[t] = at[t] \/ at'[t] \notin {"visit", "drop"})
        <5>1. at'[t] = "push" => at[t] = "visit"
          BY <1>0, <1>4, <4>1 DEF Visit, Drop, Unlock, Return
        <5> QED
          BY <3>2, <4>1, <5>1 DEF NotYet, NotYetOf
      <4>2. CASE /\ rest[t] # <<>> /\ rest'[t] = Tail(rest[t])
                 /\ at[t] \in {"visit", "drop"} /\ at'[t] = "visit"
        <5>1. \A i \in 1..Len(rest'[t]) :
                  i + 1 \in 1..Len(rest[t]) /\ i + 1 > 1 /\ rest'[t][i] = rest[t][i + 1]
          BY <1>0, <4>2, RestOfRest
        <5> QED
          BY <3>2, <4>2, <5>1 DEF NotYet, NotYetOf
      <4>3. CASE Visit(t)
        BY <1>0, <4>1, <4>2, <4>3 DEF Visit
      <4>4. CASE Drop(t)
        BY <1>0, <4>1, <4>2, <4>4 DEF Drop, Held
      <4>5. CASE Unlock(t) \/ Return(t)
        BY <1>0, <4>1, <4>5 DEF Unlock, Return
      <4> QED
        BY <1>4, <4>3, <4>4, <4>5
    <3> QED
      BY <3>3, <3>4 DEF NotYet
  <2> QED
    BY <1>2, <2>2, <2>4, <2>5
<1> QED
  BY <1>3, <1>4

\* PushTo: the publication comes last in the queue that takes it, and was not
\* there before.
LEMMA PublicationPush ==
    ASSUME LinkInv, PublicationInv, NEW t \in Publishers, PushTo(t)
    PROVE  PublicationInv'
<1> USE DEF LinkInv, PublicationInv
<1> DEFINE q == Head(rest[t])
<1>0. /\ rest \in [Publishers -> Seq(LinkQueues)] /\ at \in [Publishers -> PublishPlaces]
      /\ published \in [Publishers -> Nat] /\ received \in [LinkQueues -> Seq(Publications)]
  BY LinkAssumption DEF LinkTypeOK
<1>1. /\ published' = published /\ rest' = rest
      /\ at[t] = "push" /\ at' = [at EXCEPT ![t] = "drop"]
  BY DEF PushTo
<1>2. q \in LinkQueues /\ q = rest[t][1] /\ 1 \in 1..Len(rest[t])
  BY <1>0, <1>1, RestOfRest DEF Held
<1>3. Active(t) /\ \A u \in Publishers \ {t} : ~Active(u) /\ ~Active(u)'
  BY <1>0, <1>1, OneInside DEF Active
<1>4. \A u : Current(u)' = Current(u)
  BY <1>1 DEF Current
<1>5. ~Arrived(t, q)
  BY <1>1, <1>2 DEF NotYet, NotYetOf
<1>6. \A k \in 1..Len(rest[t]) : k > 1 => rest[t][k] # q /\ ~Arrived(t, rest[t][k])
  BY <1>1, <1>2, <1>3 DEF Once, NotYet, NotYetOf
<1> HIDE DEF q
<1>7. CASE received' = received
  <2>1. Fresh' /\ OnePublicationOrder'
    BY <1>1, <1>7 DEF Fresh, OnePublicationOrder
  <2>2. CurrentLast'
    BY <1>3, <1>4, <1>7 DEF CurrentLast
  <2>3. NotYet'
    <3>1. \A r : Arrived(t, r)' = Arrived(t, r)
      BY <1>4, <1>7 DEF Arrived
    <3> QED
      BY <1>0, <1>1, <1>3, <1>6, <3>1 DEF NotYet, NotYetOf, Active
  <2> QED
    BY <2>1, <2>2, <2>3
<1>8. CASE received' = [received EXCEPT ![q] = Append(received[q], Current(t))]
  <2> DEFINE n == Len(received[q])
  <2>1. /\ n \in Nat
        /\ \A r \in LinkQueues \ {q} : received'[r] = received[r]
        /\ Len(received'[q]) = n + 1
        /\ \A i \in 1..n : received'[q][i] = received[q][i]
        /\ received'[q][n + 1] = Current(t)
    <3>1. received'[q] = Append(received[q], Current(t)) /\ received[q] \in Seq(Publications)
      BY <1>0, <1>2, <1>8
    <3> QED
      BY <1>0, <1>2, <1>8, <3>1
  <2>2. \A i \in 1..n : received[q][i] # Current(t)
    BY <1>5 DEF Arrived
  <2> HIDE DEF n
  <2>3. \A i \in 1..Len(received'[q]) : i \in 1..n \/ i = n + 1
    BY <2>1
  <2>4. Fresh'
    <3>1. \A i \in 1..Len(received'[q]) : received'[q][i].n <= published[received'[q][i].by]
      <4>1. Current(t).n <= published[Current(t).by]
        BY <1>0 DEF Current
      <4> QED
        BY <1>2, <2>1, <2>3, <4>1 DEF Fresh, n
    <3> QED
      BY <1>1, <2>1, <3>1 DEF Fresh
  <2>5. CurrentLast'
    <3>1. \A i \in 1..Len(received'[q]) : received'[q][i] = Current(t) => i = Len(received'[q])
      BY <2>1, <2>2, <2>3
    <3> QED
      BY <1>3, <1>4, <2>1, <3>1 DEF CurrentLast
  <2>6. NotYet'
    <3>1. \A r \in LinkQueues \ {q} : Arrived(t, r)' = Arrived(t, r)
      BY <1>4, <2>1 DEF Arrived
    <3>2. \A k \in 1..Len(rest[t]) : rest[t][k] \in LinkQueues
      BY <1>0
    <3> QED
      BY <1>0, <1>1, <1>3, <1>6, <3>1, <3>2 DEF NotYet, NotYetOf, Active
  <2>7. OnePublicationOrder'
    <3> SUFFICES ASSUME NEW a \in LinkQueues, NEW b \in LinkQueues
                 PROVE  ~ \E i, j \in 1..Len(received'[a]), k, l \in 1..Len(received'[b]) :
                            /\ i < j /\ k < l
                            /\ received'[a][i] = received'[b][l]
                            /\ received'[a][j] = received'[b][k]
      BY Zenon DEF OnePublicationOrder
    <3> SUFFICES ASSUME NEW i \in 1..Len(received'[a]), NEW j \in 1..Len(received'[a]),
                        NEW k \in 1..Len(received'[b]), NEW l \in 1..Len(received'[b]),
                        i < j, k < l,
                        received'[a][i] = received'[b][l],
                        received'[a][j] = received'[b][k]
                 PROVE  FALSE
      BY Zenon
    <3>1. \A c \in LinkQueues : \A x, y \in 1..Len(received'[c]) :
              x < y => /\ x \in 1..Len(received[c]) /\ received'[c][x] = received[c][x]
                       /\ received[c][x] # Current(t)
      <4>1. \A x, y \in 1..Len(received'[q]) : x < y => x \in 1..n
        BY <2>1
      <4>2. \A c \in LinkQueues \ {q} : \A x, y \in 1..Len(received[c]) :
                x < y => received[c][x] # Current(t)
        <5> SUFFICES ASSUME NEW c \in LinkQueues \ {q},
                            NEW x \in 1..Len(received[c]), NEW y \in 1..Len(received[c]),
                            x < y, received[c][x] = Current(t)
                     PROVE  FALSE
          OBVIOUS
        <5>1. x = Len(received[c])
          BY <1>0, <1>3 DEF CurrentLast
        <5>2. Len(received[c]) \in Nat
          BY DEF LinkTypeOK
        <5> QED
          BY <5>1, <5>2
      <4>3. \A x, y \in 1..Len(received'[q]) :
                x < y => /\ x \in 1..Len(received[q]) /\ received'[q][x] = received[q][x]
                         /\ received[q][x] # Current(t)
        BY <2>1, <2>2, <4>1 DEF n
      <4>4. \A c \in LinkQueues \ {q} : received'[c] = received[c]
        BY <2>1
      <4> QED
        BY <4>2, <4>3, <4>4
    <3>2. received'[a][j] # Current(t) /\ received'[b][l] # Current(t)
      BY <3>1
    <3>3. j \in 1..Len(received[a]) /\ received'[a][j] = received[a][j]
      BY <2>1, <2>3, <3>2 DEF n
    <3>4. l \in 1..Len(received[b]) /\ received'[b][l] = received[b][l]
      BY <2>1, <2>3, <3>2 DEF n
    <3>5. /\ i \in 1..Len(received[a]) /\ received'[a][i] = received[a][i]
          /\ k \in 1..Len(received[b]) /\ received'[b][k] = received[b][k]
      BY <3>1
    <3>6. received[a][i] = received[b][l] /\ received[a][j] = received[b][k]
      BY <3>3, <3>4, <3>5
    <3> QED
      BY <3>3, <3>4, <3>5, <3>6 DEF OnePublicationOrder
  <2> QED
    BY <2>4, <2>5, <2>6, <2>7
<1> QED
  BY <1>7, <1>8 DEF PushTo, Current, q

-----------------------------------------------------------------------------

\* Every step keeps the invariant.
LEMMA LinkStep ==
    ASSUME LinkInv, PublicationInv, [LinkNext]_linkVars
    PROVE  LinkInv' /\ PublicationInv'
<1>1. CASE UNCHANGED linkVars
  <2>1. UNCHANGED <<received, publisherVars>> /\ UNCHANGED <<mutex, subscribers, linkLife, inbox, serving>>
    BY <1>1 DEF linkVars, queueVars
  <2>2. PublicationInv'
    BY <2>1, OrderQueueStep
  <2>3. LinkInv'
    BY <2>1 DEF LinkInv, LinkTypeOK, Held, Living, Once, Active, publisherVars
  <2> QED
    BY <2>2, <2>3
<1>2. ASSUME NEW q \in LinkQueues,
             Create(q) \/ ReleaseQueue(q) \/ Unsubscribe(q) \/ Serve(q) \/ Served(q)
      PROVE  LinkInv' /\ PublicationInv'
  <2>1. UNCHANGED <<received, publisherVars>>
    BY <1>2 DEF Create, ReleaseQueue, Unsubscribe, Serve, Served
  <2> QED
    BY <1>2, <2>1, LinkQueueStep, OrderQueueStep
<1>3. ASSUME NEW t \in Publishers, LockLink(t) \/ PublishStep(t)
      PROVE  LinkInv' /\ PublicationInv'
  BY <1>3, LinkPublishStep, OrderOtherStep, PublicationPush DEF PublishStep
<1> QED
  BY <1>1, <1>2, <1>3 DEF LinkNext

\* Every wrapper that publish() calls or will call belongs to a queue that still
\* exists, whichever threads create, drop and publish: ~SubscribingTaskEventQueue()
\* waits for the publish() that is under way.
THEOREM SubscribersLive == LinkSpec => [](LinkTypeOK /\ NoDanglingSubscriber)
<1>1. LinkInv => LinkTypeOK /\ NoDanglingSubscriber
  <2> SUFFICES ASSUME LinkInv PROVE NoDanglingSubscriber
    BY DEF LinkInv
  <2>1. \A t \in Publishers : at[t] \notin {"idle", "done"} => Active(t)
    BY DEF LinkInv, LinkTypeOK, Active, PublishPlaces
  <2> QED
    BY <2>1 DEF LinkInv, Living, NoDanglingSubscriber
<1> QED
  BY <1>1, LinkStart, LinkStep, PTL DEF LinkSpec

\* All queues receive what is published in one and the same order, for any
\* number of threads that call Link<T>::publish(): the mutex is held for the
\* whole loop over the subscribers.
THEOREM PublicationsOrdered == LinkSpec => []OnePublicationOrder
<1>1. PublicationInv => OnePublicationOrder
  BY DEF PublicationInv
<1> QED
  BY <1>1, LinkStart, LinkStep, PTL DEF LinkSpec
=============================================================================
