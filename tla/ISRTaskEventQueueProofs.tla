---------------------- MODULE ISRTaskEventQueueProofs ----------------------
(***************************************************************************)
(* Proofs about the queues that interrupts feed, for any number of queues, *)
(* of any size, and of signals.                                            *)
(*                                                                         *)
(* Two arguments that do not meet.  About values: what a queue has         *)
(* delivered, what waits in it and what signal() is about to send are, one *)
(* after the other, in rising order, and the newest of them is never lost  *)
(* (Rising, Newest).  About wake-ups: a queue is polled at one place only  *)
(* (PolledOnce), and for a living queue read_since_poll is TRUE, or it has *)
(* one notification, or it is being served, never two of these (WakeUp).   *)
(***************************************************************************)
EXTENDS ISRTaskEventQueue, FiniteSetTheorems, TLAPS

Ascending(s) == \A i, j \in 1..Len(s) : i < j => s[i] < s[j]

\* Delivered before waiting before being sent, each in the order of the signals.
Rising ==
    \A q \in Queues :
        /\ Ascending(delivered[q]) /\ Ascending(items[q])
        /\ \A i \in 1..Len(delivered[q]) : \A j \in 1..Len(items[q]) : delivered[q][i] < items[q][j]
        /\ \A i \in 1..Len(delivered[q]) : delivered[q][i] <= signalled[q]
        /\ \A j \in 1..Len(items[q]) : items[q][j] <= signalled[q]
        /\ signalling[q] # NoValue =>
            /\ signalling[q] = signalled[q]
            /\ \A i \in 1..Len(delivered[q]) : delivered[q][i] < signalled[q]
            /\ \A j \in 1..Len(items[q]) : items[q][j] < signalled[q]

\* The newest value waits last or was delivered last, unless it is being sent.
Newest ==
    \A q \in Queues : (signalling[q] = NoValue /\ signalled[q] > 0) =>
        \/ /\ items[q] # <<>>
           /\ items[q][Len(items[q])] = signalled[q]
        \/ /\ items[q] = <<>> /\ delivered[q] # <<>>
           /\ delivered[q][Len(delivered[q])] = signalled[q]

\* The task works on a queue at these places.
Busy == at \in {"lock", "forward", "stuck"} => current \in Queues

\* A queue is polled at one place, from its construction on.
PolledOnce ==
    /\ \A i, j \in 1..Len(polled) : polled[i] = polled[j] => i = j
    /\ \A i \in 1..Len(polled) : life[polled[i]] # "new"

Waits(q) == \E i \in 1..Len(notifications) : notifications[i] = q
Served(q) == at \in {"lock", "forward"} /\ current = q

\* Of a living queue: no wake-up when it has been read since the poll, otherwise
\* one that waits or one that is being served.
WakeUpOf(q) ==
    /\ \A i, j \in 1..Len(notifications) : notifications[i] = q /\ notifications[j] = q => i = j
    /\ read_since_poll[q] => ~Waits(q) /\ ~Served(q)
    /\ ~read_since_poll[q] => (Waits(q) <=> ~Served(q))
WakeUp == \A q \in Queues : ~Expired(q) => WakeUpOf(q)

ValueInv == IsrTypeOK /\ Busy /\ Rising /\ Newest

-----------------------------------------------------------------------------
(* Values.                                                                 *)

\* The elements of a sequence.
LEMMA ElementOf == ASSUME NEW S, NEW s \in Seq(S) PROVE \A i \in 1..Len(s) : s[i] \in S
  OBVIOUS

\* Taking the first element of a sequence.
LEMMA TailOf ==
    ASSUME NEW S, NEW s \in Seq(S), s # <<>>
    PROVE  /\ Head(s) = s[1] /\ s[1] \in S /\ 1 \in 1..Len(s) /\ Len(s) \in Nat
           /\ Tail(s) \in Seq(S)
           /\ Len(Tail(s)) = Len(s) - 1
           /\ \A i \in 1..Len(Tail(s)) : i + 1 \in 1..Len(s) /\ Tail(s)[i] = s[i + 1]
  OBVIOUS

\* Adding an element at the end of a sequence.
LEMMA AppendTo ==
    ASSUME NEW S, NEW s \in Seq(S), NEW x \in S
    PROVE  /\ Append(s, x) \in Seq(S) /\ Len(s) \in Nat
           /\ Len(Append(s, x)) = Len(s) + 1
           /\ Append(s, x)[Len(s) + 1] = x
           /\ \A i \in 1..Len(s) : Append(s, x)[i] = s[i]
           /\ \A i \in 1..Len(Append(s, x)) : i \in 1..Len(s) \/ i = Len(s) + 1
  OBVIOUS

\* The initial states: nothing was signalled.
LEMMA ValueInit == ASSUME IsrInit PROVE ValueInv
  BY IsrAssumption
  DEF IsrInit, ValueInv, IsrTypeOK, Busy, Rising, Newest, Ascending, Lives, IsrPlaces

\* What waits in a queue and what it has delivered are numbers.
LEMMA ValuesAreNumbers ==
    ASSUME IsrTypeOK, NEW q \in Queues
    PROVE  /\ \A i \in 1..Len(items[q]) : items[q][i] \in Int
           /\ \A i \in 1..Len(delivered[q]) : delivered[q][i] \in Int
<1>1. items[q] \in Seq(1..MaxSignal) /\ delivered[q] \in Seq(1..MaxSignal)
  BY DEF IsrTypeOK
<1>2. 1..MaxSignal \subseteq Int
  BY IsrAssumption
<1>3. \A i \in 1..Len(items[q]) : items[q][i] \in 1..MaxSignal
  BY <1>1, ElementOf
<1>4. \A i \in 1..Len(delivered[q]) : delivered[q][i] \in 1..MaxSignal
  BY <1>1, ElementOf
<1> QED
  BY <1>2, <1>3, <1>4

\* An interrupt: the value to be sent is larger than all before it.
LEMMA ValueInterrupt ==
    ASSUME ValueInv, NEW q \in Queues, Interrupt(q)
    PROVE  ValueInv'
<1> USE DEF ValueInv
<1>1. /\ items' = items /\ delivered' = delivered /\ at' = at /\ current' = current
      /\ UNCHANGED <<polled, life, read_since_poll, notifications>>
  BY DEF Interrupt, taskVars
<1>2. /\ signalled[q] \in Nat /\ signalled'[q] = signalled[q] + 1
      /\ signalling'[q] = signalled[q] + 1
      /\ signalled[q] + 1 \in 1..MaxSignal
      /\ signalled' = [signalled EXCEPT ![q] = signalled[q] + 1]
      /\ signalling' = [signalling EXCEPT ![q] = signalled[q] + 1]
  BY IsrAssumption DEF Interrupt, IsrTypeOK
<1>3. \A r \in Queues \ {q} : signalled'[r] = signalled[r] /\ signalling'[r] = signalling[r]
  BY <1>2 DEF IsrTypeOK
<1>4. IsrTypeOK'
  BY <1>1, <1>2, IsrAssumption DEF IsrTypeOK
<1>5. \A r \in Queues : /\ \A i \in 1..Len(items[r]) : items[r][i] \in Int
                        /\ \A i \in 1..Len(delivered[r]) : delivered[r][i] \in Int
  BY ValuesAreNumbers
<1>6. Rising'
  <2>1. /\ Ascending(delivered[q]) /\ Ascending(items[q])
        /\ \A i \in 1..Len(delivered[q]) :
             \A j \in 1..Len(items[q]) : delivered[q][i] < items[q][j]
        /\ \A i \in 1..Len(delivered[q]) : delivered[q][i] < signalled[q] + 1
        /\ \A j \in 1..Len(items[q]) : items[q][j] < signalled[q] + 1
    BY <1>2, <1>5 DEF Rising
  <2>2. /\ \A i \in 1..Len(delivered[q]) : delivered[q][i] <= signalled[q] + 1
        /\ \A j \in 1..Len(items[q]) : items[q][j] <= signalled[q] + 1
    BY <1>2, <1>5, <2>1
  <2> DEFINE Rises(d, s, n, w) ==
               /\ Ascending(d) /\ Ascending(s)
               /\ \A i \in 1..Len(d) : \A j \in 1..Len(s) : d[i] < s[j]
               /\ \A i \in 1..Len(d) : d[i] <= n
               /\ \A j \in 1..Len(s) : s[j] <= n
               /\ w # NoValue => /\ w = n
                                 /\ \A i \in 1..Len(d) : d[i] < n
                                 /\ \A j \in 1..Len(s) : s[j] < n
  <2>3. \A r \in Queues : Rises(delivered[r], items[r], signalled[r], signalling[r])
    BY DEF Rising
  <2>4. Rises(delivered[q], items[q], signalled[q] + 1, signalled[q] + 1)
    BY <2>1, <2>2
  <2> HIDE DEF Rises
  <2>5. \A r \in Queues : Rises(delivered'[r], items'[r], signalled'[r], signalling'[r])
    BY <1>1, <1>2, <1>3, <2>3, <2>4
  <2> QED
    BY <2>5 DEF Rises, Rising
<1>7. Newest'
  BY <1>1, <1>2, <1>3, IsrAssumption DEF Newest
<1> QED
  BY <1>1, <1>4, <1>6, <1>7 DEF Busy

\* A turn of the loop in signal(): the oldest value goes, or the new one comes
\* in, behind all others.
LEMMA ValueSend ==
    ASSUME ValueInv, NEW q \in Queues, SendFromISR(q)
    PROVE  ValueInv'
<1> USE DEF ValueInv
<1>1. /\ delivered' = delivered /\ at' = at /\ current' = current
      /\ UNCHANGED <<polled, signalled, read_since_poll, notifications>>
  BY DEF SendFromISR, taskVars
<1>2. /\ items[q] \in Seq(1..MaxSignal) /\ Len(items[q]) \in Nat /\ Size[q] \in Nat \ {0}
      /\ Len(items[q]) <= Size[q]
      /\ signalling[q] \in 1..MaxSignal /\ signalling[q] # NoValue
  BY IsrAssumption DEF SendFromISR, IsrTypeOK
<1>3. life' \in [Queues -> Lives]
  BY DEF SendFromISR, IsrTypeOK, Lives
<1>4. Busy'
  BY <1>1 DEF Busy
<1>5. \A r \in Queues : /\ \A i \in 1..Len(items[r]) : items[r][i] \in Int
                        /\ \A i \in 1..Len(delivered[r]) : delivered[r][i] \in Int
  BY ValuesAreNumbers
<1>6. CASE Len(items[q]) < Size[q]
  <2> DEFINE x == signalling[q]
             n == Len(items[q])
  <2>1. /\ items' = [items EXCEPT ![q] = Append(items[q], x)]
        /\ signalling' = [signalling EXCEPT ![q] = NoValue]
    BY <1>6 DEF SendFromISR
  <2>2. \A r \in Queues \ {q} : items'[r] = items[r] /\ signalling'[r] = signalling[r]
    BY <2>1 DEF IsrTypeOK
  <2>3. /\ items'[q] \in Seq(1..MaxSignal) /\ Len(items'[q]) = n + 1 /\ items'[q][n + 1] = x
        /\ \A i \in 1..n : items'[q][i] = items[q][i]
        /\ \A i \in 1..Len(items'[q]) : i \in 1..n \/ i = n + 1
        /\ signalling'[q] = NoValue
    BY <1>2, <2>1, AppendTo DEF IsrTypeOK
  <2>4. x = signalled[q] /\ x \in Int /\ n \in Nat
    BY <1>2, IsrAssumption DEF Rising
  <2>5. /\ \A i \in 1..Len(delivered[q]) : delivered[q][i] < x
        /\ \A i \in 1..n : items[q][i] < x
    BY <1>2, <2>4 DEF Rising
  <2> HIDE DEF x, n
  <2>6. IsrTypeOK'
    <3>1. items' \in [Queues -> Seq(1..MaxSignal)]
      BY <2>1, <2>3 DEF IsrTypeOK
    <3>2. Len(items'[q]) <= Size[q]
      BY <1>2, <1>6, <2>3 DEF n
    <3>3. signalling' \in [Queues -> 1..MaxSignal \cup {NoValue}]
      BY <2>1 DEF IsrTypeOK
    <3> QED
      BY <1>1, <1>3, <2>2, <3>1, <3>2, <3>3 DEF IsrTypeOK
  <2>7. Rising'
    <3>1. Ascending(items'[q])
      <4>1. \A i, j \in 1..n : i < j => items[q][i] < items[q][j]
        BY DEF Rising, Ascending, n
      <4> QED
        BY <2>3, <2>4, <2>5, <4>1 DEF Ascending
    <3>2. /\ Ascending(delivered[q])
          /\ \A i \in 1..Len(delivered[q]) : \A j \in 1..n : delivered[q][i] < items[q][j]
      BY DEF Rising, n
    <3>3. \A i \in 1..Len(delivered[q]) : \A j \in 1..Len(items'[q]) : delivered[q][i] < items'[q][j]
      BY <2>3, <2>5, <3>2
    <3>4. /\ \A i \in 1..Len(delivered[q]) : delivered[q][i] <= signalled[q]
          /\ \A j \in 1..Len(items'[q]) : items'[q][j] <= signalled[q]
      <4>1. \A i \in 1..Len(delivered[q]) : delivered[q][i] <= signalled[q]
        BY DEF Rising
      <4>2. \A j \in 1..n : items[q][j] <= signalled[q]
        BY DEF Rising, n
      <4> QED
        BY <1>2, <2>3, <2>4, <4>1, <4>2
    <3> QED
      BY <1>1, <2>2, <2>3, <3>1, <3>2, <3>3, <3>4 DEF Rising
  <2>8. Newest'
    <3>1. items'[q] # <<>> /\ items'[q][Len(items'[q])] = signalled[q]
      BY <2>3, <2>4
    <3> QED
      BY <1>1, <2>2, <3>1 DEF Newest
  <2> QED
    BY <1>4, <2>6, <2>7, <2>8
<1>7. CASE ~(Len(items[q]) < Size[q])
  <2>1. items' = [items EXCEPT ![q] = Tail(items[q])] /\ signalling' = signalling
    BY <1>7 DEF SendFromISR
  <2>2. \A r \in Queues \ {q} : items'[r] = items[r]
    BY <2>1 DEF IsrTypeOK
  <2>3. items[q] # <<>>
    BY <1>2, <1>7
  <2>4. /\ items'[q] = Tail(items[q])
        /\ items'[q] \in Seq(1..MaxSignal) /\ Len(items'[q]) = Len(items[q]) - 1
        /\ \A i \in 1..Len(items'[q]) : i + 1 \in 1..Len(items[q]) /\ items'[q][i] = items[q][i + 1]
    BY <1>2, <2>1, <2>3, TailOf DEF IsrTypeOK
  <2>5. IsrTypeOK'
    <3>1. items' \in [Queues -> Seq(1..MaxSignal)]
      BY <2>1, <2>4 DEF IsrTypeOK
    <3>2. Len(items'[q]) <= Size[q]
      BY <1>2, <2>4
    <3> QED
      BY <1>1, <1>3, <2>1, <2>2, <3>1, <3>2 DEF IsrTypeOK
  <2>6. Rising'
    <3>1. Ascending(items'[q])
      BY <1>2, <2>4 DEF Rising, Ascending
    <3> QED
      BY <1>1, <2>1, <2>2, <2>4, <3>1 DEF Rising
  <2>7. Newest'
    BY <1>1, <1>2, <2>1, <2>2 DEF Newest
  <2> QED
    BY <1>4, <2>5, <2>6, <2>7
<1> QED
  BY <1>6, <1>7

\* The forward: the first of the values that wait is delivered after all others.
LEMMA ValueForward ==
    ASSUME ValueInv, Forward
    PROVE  ValueInv'
<1> USE DEF ValueInv
<1> DEFINE q == current
<1>1. q \in Queues
  BY DEF Forward, Busy
<1>2. /\ UNCHANGED <<signalled, signalling, polled, notifications>>
      /\ read_since_poll' = [read_since_poll EXCEPT ![q] = TRUE]
      /\ at' \in {"stuck", "top"}
      /\ at' = "stuck" => current' = q
      /\ current' \in {q, NoQueue}
  BY DEF Forward, isrVars
<1>3. life' \in [Queues -> Lives]
  BY DEF Forward, IsrTypeOK, Lives
<1>4. Busy'
  BY <1>1, <1>2 DEF Busy
<1>5. \A r \in Queues : /\ \A i \in 1..Len(items[r]) : items[r][i] \in Int
                        /\ \A i \in 1..Len(delivered[r]) : delivered[r][i] \in Int
  BY ValuesAreNumbers
<1>6. /\ items[q] \in Seq(1..MaxSignal) /\ delivered[q] \in Seq(1..MaxSignal)
      /\ Len(items[q]) <= Size[q] /\ Size[q] \in Nat /\ signalled[q] \in Nat
  BY <1>1, IsrAssumption DEF IsrTypeOK
<1>7. read_since_poll' \in [Queues -> BOOLEAN]
  BY <1>1, <1>2 DEF IsrTypeOK
<1>8. CASE items[q] = <<>>
  <2>1. items' = items /\ delivered' = delivered
    BY <1>8 DEF Forward
  <2>2. IsrTypeOK'
    BY <1>1, <1>2, <1>3, <1>7, <2>1 DEF IsrTypeOK, IsrPlaces
  <2> QED
    BY <1>2, <1>4, <2>1, <2>2 DEF Rising, Newest
<1>9. CASE items[q] # <<>>
  <2> DEFINE x == Head(items[q])
             n == Len(delivered[q])
  <2>1. /\ items' = [items EXCEPT ![q] = Tail(items[q])]
        /\ delivered' = [delivered EXCEPT ![q] = Append(delivered[q], x)]
    BY <1>9 DEF Forward
  <2>2. \A r \in Queues \ {q} : items'[r] = items[r] /\ delivered'[r] = delivered[r]
    BY <2>1 DEF IsrTypeOK
  <2>3. /\ items'[q] = Tail(items[q])
        /\ items'[q] \in Seq(1..MaxSignal) /\ Len(items'[q]) = Len(items[q]) - 1
        /\ Len(items[q]) \in Nat
        /\ \A i \in 1..Len(items'[q]) : i + 1 \in 1..Len(items[q]) /\ items'[q][i] = items[q][i + 1]
        /\ x = items[q][1] /\ 1 \in 1..Len(items[q]) /\ x \in 1..MaxSignal
    BY <1>1, <1>6, <1>9, <2>1, TailOf DEF IsrTypeOK
  <2> HIDE DEF x, q
  <2>4. /\ delivered'[q] \in Seq(1..MaxSignal) /\ Len(delivered'[q]) = n + 1
        /\ delivered'[q][n + 1] = x /\ n \in Nat
        /\ \A i \in 1..n : delivered'[q][i] = delivered[q][i]
        /\ \A i \in 1..Len(delivered'[q]) : i \in 1..n \/ i = n + 1
    BY <1>1, <1>6, <2>1, <2>3, AppendTo DEF IsrTypeOK
  <2> HIDE DEF n
  <2>5. IsrTypeOK'
    <3>1. items' \in [Queues -> Seq(1..MaxSignal)] /\ delivered' \in [Queues -> Seq(1..MaxSignal)]
      BY <1>1, <2>1, <2>3, <2>4 DEF IsrTypeOK
    <3>2. Len(items'[q]) <= Size[q]
      BY <1>6, <2>3
    <3>3. \A r \in Queues : Len(items'[r]) <= Size[r]
      BY <2>2, <3>2 DEF IsrTypeOK
    <3> QED
      BY <1>1, <1>2, <1>3, <1>7, <3>1, <3>3 DEF IsrTypeOK, IsrPlaces
  <2>6. x \in Int /\ x <= signalled[q] /\ (signalling[q] # NoValue => x < signalled[q])
    BY <1>1, <1>5, <2>3 DEF Rising
  <2>7. /\ \A i \in 1..n : delivered[q][i] < x
        /\ \A j \in 1..Len(items'[q]) : x < items'[q][j]
    <3>1. \A i \in 1..n : delivered[q][i] < items[q][1]
      BY <1>1, <2>3 DEF Rising, n
    <3>2. \A j \in 1..Len(items[q]) : 1 < j => items[q][1] < items[q][j]
      BY <1>1, <2>3 DEF Rising, Ascending
    <3>3. \A j \in 1..Len(items'[q]) : 1 < j + 1
      BY <2>3
    <3> QED
      BY <2>3, <3>1, <3>2, <3>3
  <2>8. Rising'
    <3>1. Ascending(items'[q])
      BY <1>1, <1>6, <2>3 DEF Rising, Ascending
    <3>2. Ascending(delivered'[q])
      <4>1. \A i, j \in 1..n : i < j => delivered[q][i] < delivered[q][j]
        BY <1>1 DEF Rising, Ascending, n
      <4> QED
        BY <2>4, <2>7, <4>1 DEF Ascending
    <3>3. \A i \in 1..Len(delivered'[q]) : \A j \in 1..Len(items'[q]) : delivered'[q][i] < items'[q][j]
      <4>1. \A i \in 1..n : \A j \in 1..Len(items'[q]) : delivered[q][i] < items'[q][j]
        BY <1>1, <2>3 DEF Rising, n
      <4> QED
        BY <2>4, <2>7, <4>1
    <3>4. /\ \A i \in 1..Len(delivered'[q]) : delivered'[q][i] <= signalled[q]
          /\ \A j \in 1..Len(items'[q]) : items'[q][j] <= signalled[q]
      BY <1>1, <2>3, <2>4, <2>6 DEF Rising, n
    <3>5. signalling[q] # NoValue =>
            /\ signalling[q] = signalled[q]
            /\ \A i \in 1..Len(delivered'[q]) : delivered'[q][i] < signalled[q]
            /\ \A j \in 1..Len(items'[q]) : items'[q][j] < signalled[q]
      BY <1>1, <2>3, <2>4, <2>6 DEF Rising, n
    <3> QED
      BY <1>2, <2>2, <3>1, <3>2, <3>3, <3>4, <3>5 DEF Rising
  <2>9. Newest'
    <3>1. ASSUME signalling[q] = NoValue, signalled[q] > 0
          PROVE  items[q][Len(items[q])] = signalled[q]
      BY <1>1, <1>9, <3>1 DEF Newest, q
    <3>2. CASE items'[q] = <<>>
      <4>0. Len(items'[q]) = 0
        BY <3>2
      <4>1. Len(items[q]) = 1
        BY <2>3, <4>0
      <4>2. delivered'[q] # <<>> /\ delivered'[q][Len(delivered'[q])] = items[q][Len(items[q])]
        BY <2>3, <2>4, <4>1
      <4> QED
        BY <1>2, <2>2, <3>1, <3>2, <4>2 DEF Newest
    <3>3. CASE items'[q] # <<>>
      <4>1. Len(items'[q]) \in 1..Len(items'[q])
        BY <2>3, <3>3
      <4>2. items'[q][Len(items'[q])] = items[q][Len(items[q])]
        BY <2>3, <4>1
      <4> QED
        BY <1>2, <2>2, <3>1, <3>3, <4>2 DEF Newest
    <3> QED
      BY <3>2, <3>3
  <2> QED
    BY <1>4, <2>5, <2>8, <2>9
<1> QED
  BY <1>8, <1>9

-----------------------------------------------------------------------------
(* The lists of queues.                                                    *)

\* r takes the elements of s at the positions kept, each of them once.
Picks(f, s, kept, r) ==
    /\ f \in [1..Len(r) -> kept]
    /\ \A i \in 1..Len(r) : r[i] = s[f[i]]
    /\ \A i, j \in 1..Len(r) : f[i] = f[j] => i = j
    /\ \A k \in kept : \E i \in 1..Len(r) : f[i] = k

\* What Kept leaves: each position that is kept occurs once.
LEMMA KeptIsPart ==
    ASSUME NEW S, NEW s \in Seq(S), NEW kept \in SUBSET (1..Len(s)), NEW r \in Kept(s, kept)
    PROVE  r \in Seq(S) /\ \E f : Picks(f, s, kept, r)
<1> DEFINE n == Cardinality(kept)
<1>1. IsFiniteSet(kept) /\ n \in Nat
  <2>1. IsFiniteSet(1..Len(s))
    BY FS_Interval
  <2> QED
    BY <2>1, FS_Subset, FS_CardinalityType
<1>2. PICK f \in Walks(kept) : r = [i \in 1..n |-> s[f[i]]]
  BY DEF Kept
<1>3. /\ f \in [1..n -> kept]
      /\ \A i, j \in 1..n : i < j => f[i] < f[j]
      /\ \A k \in kept : \E i \in 1..n : f[i] = k
  BY DEF Walks
<1> HIDE DEF n
<1>4. \A i \in 1..n : f[i] \in 1..Len(s) /\ f[i] \in Int /\ s[f[i]] \in S
  <2>1. \A i \in 1..n : f[i] \in 1..Len(s)
    BY <1>3
  <2>2. 1..Len(s) \subseteq Int /\ \A k \in 1..Len(s) : s[k] \in S
    BY ElementOf
  <2> QED
    BY <2>1, <2>2
<1>5. r \in Seq(S) /\ Len(r) = n
  BY <1>1, <1>2, <1>4
<1>6. \A i, j \in 1..n : f[i] = f[j] => i = j
  BY <1>1, <1>3, <1>4
<1>7. Picks(f, s, kept, r)
  BY <1>2, <1>3, <1>5, <1>6 DEF Picks
<1> QED
  BY <1>5, <1>7

\* The list without x.
LEMMA WithoutIsPart ==
    ASSUME NEW S, NEW s \in Seq(S), NEW x, NEW r \in Without(s, x)
    PROVE  /\ r \in Seq(S)
           /\ \E f : Picks(f, s, {i \in 1..Len(s) : s[i] # x}, r)
<1> DEFINE kept == {i \in 1..Len(s) : s[i] # x}
<1>1. kept \in SUBSET (1..Len(s)) /\ r \in Kept(s, kept)
  BY DEF Without
<1> HIDE DEF kept
<1>2. r \in Seq(S) /\ \E f : Picks(f, s, kept, r)
  BY <1>1, KeptIsPart
<1> QED
  BY <1>2 DEF kept

-----------------------------------------------------------------------------
(* Wake-ups.                                                               *)

\* No step leads an expired queue back to life.
LEMMA NoRevival ==
    ASSUME IsrTypeOK, Busy, NEW q \in Queues, [IsrNext]_isrTaskVars, ~Expired(q)'
    PROVE  ~Expired(q)
<1>1. life[q] \in {"expired", "gone"} => life'[q] \in {"expired", "gone"}
  <2>1. ASSUME NEW r \in Queues, Interrupt(r) \/ SendFromISR(r) \/ Register(r) \/ Created(r)
                                    \/ Release(r) \/ Unregister(r)
        PROVE  life[q] \in {"expired", "gone"} => life'[q] \in {"expired", "gone"}
    BY <2>1 DEF IsrTypeOK, Interrupt, SendFromISR, Register, Created, Release, Unregister
  <2>2. CASE TaskStep \/ UNCHANGED isrTaskVars
    BY <2>2 DEF IsrTypeOK, Busy, TaskStep, Poll, PollTimeout, Take, Lock, Forward, isrTaskVars
  <2> QED
    BY <2>1, <2>2 DEF IsrNext
<1> QED
  BY <1>1 DEF Expired

\* The initial states: no queue is known to the task.
LEMMA WakeUpInit == ASSUME IsrInit PROVE PolledOnce /\ WakeUp
  BY DEF IsrInit, PolledOnce, WakeUp, WakeUpOf, Waits, Served

\* What is not about wake-ups.
LEMMA WakeUpOtherStep ==
    ASSUME IsrTypeOK, Busy, WakeUp, [IsrNext]_isrTaskVars,
           UNCHANGED <<notifications, read_since_poll, at, current>>
    PROVE  WakeUp'
<1> SUFFICES ASSUME NEW q \in Queues, ~Expired(q)' PROVE WakeUpOf(q)'
  BY DEF WakeUp
<1>1. WakeUpOf(q)
  BY NoRevival DEF WakeUp
<1> QED
  BY <1>1 DEF WakeUpOf, Waits, Served

\* A poll wakes up for the queues that are ready, once each.
LEMMA WakeUpPoll ==
    ASSUME IsrTypeOK, Busy, PolledOnce, WakeUp, Poll
    PROVE  WakeUp' /\ notifications' \in Seq(Queues)
<1>0. notifications \in Seq(Queues) /\ polled \in Seq(Queues)
  BY DEF IsrTypeOK
<1>1. CASE at' = "terminated" /\ UNCHANGED <<read_since_poll, notifications>>
  <2> SUFFICES ASSUME NEW q \in Queues, ~Expired(q)' PROVE WakeUpOf(q)'
    BY <1>0, <1>1 DEF WakeUp
  <2>1. WakeUpOf(q)
    BY DEF WakeUp, Poll, Expired
  <2>2. ~Served(q) /\ ~Served(q)'
    BY <1>1 DEF Poll, Served
  <2> QED
    BY <1>1, <2>1, <2>2 DEF WakeUpOf, Waits
<1>2. CASE /\ at' = "wait"
           /\ notifications' \in {notifications \o ready : ready \in ReadyQueues}
           /\ read_since_poll' = [q \in Queues |->
                read_since_poll[q] /\ ~(items[q] # <<>> /\ \E i \in 1..Len(polled) : polled[i] = q)]
  <2> DEFINE kept == {i \in 1..Len(polled) : Ready(polled[i])}
             n == Len(notifications)
  <2>1. PICK r \in Kept(polled, kept) : notifications' = notifications \o r
    BY <1>2 DEF ReadyQueues
  <2>2. kept \in SUBSET (1..Len(polled))
    OBVIOUS
  <2>3. \A k \in 1..Len(polled) : k \in kept <=> Ready(polled[k])
    OBVIOUS
  <2> HIDE DEF kept
  <2>4. r \in Seq(Queues) /\ \E f : Picks(f, polled, kept, r)
    BY <1>0, <2>1, <2>2, KeptIsPart
  <2>5. PICK f : Picks(f, polled, kept, r)
    BY <2>4
  <2> USE DEF Picks
  <2>6. \A i, j \in 1..Len(r) : r[i] = r[j] => i = j
    <3> SUFFICES ASSUME NEW i \in 1..Len(r), NEW j \in 1..Len(r), r[i] = r[j] PROVE i = j
      OBVIOUS
    <3>1. f[i] \in 1..Len(polled) /\ f[j] \in 1..Len(polled) /\ polled[f[i]] = polled[f[j]]
      BY <2>2, <2>5
    <3>2. f[i] = f[j]
      BY <3>1 DEF PolledOnce
    <3> QED
      BY <2>5, <3>2
  <2>7. /\ n \in Nat /\ Len(r) \in Nat /\ Len(notifications') = n + Len(r)
        /\ \A i \in 1..n : notifications'[i] = notifications[i]
        /\ \A i \in 1..Len(r) : notifications'[n + i] = r[i]
        /\ \A i \in 1..Len(notifications') : i \in 1..n \/ i - n \in 1..Len(r)
    BY <1>0, <2>1, <2>4
  <2> HIDE DEF n
  <2>8. \A i \in 1..Len(notifications') : i \notin 1..n => notifications'[i] = r[i - n]
    BY <2>7
  <2> SUFFICES ASSUME NEW q \in Queues, ~Expired(q)' PROVE WakeUpOf(q)'
    BY <1>0, <2>1, <2>4 DEF WakeUp
  <2>9. WakeUpOf(q) /\ ~Served(q) /\ ~Served(q)'
    BY <1>2 DEF WakeUp, Poll, Expired, Served
  <2>10. CASE \E i \in 1..Len(r) : r[i] = q
    <3>1. PICK x \in 1..Len(r) : r[x] = q
      BY <2>10
    <3>2. Ready(q) /\ \E i \in 1..Len(polled) : polled[i] = q
      BY <2>2, <2>3, <2>5, <3>1
    <3>3. \A i \in 1..n : notifications[i] # q
      BY <2>9, <3>2 DEF WakeUpOf, Ready, Waits, n
    <3>4. ~read_since_poll'[q]
      BY <1>2, <3>2 DEF Ready
    <3>5. n + x \in 1..Len(notifications') /\ notifications'[n + x] = q
      BY <2>7, <3>1
    <3>6. \A i \in 1..Len(notifications') : notifications'[i] = q => i - n = x
      <4> SUFFICES ASSUME NEW i \in 1..Len(notifications'), notifications'[i] = q
                   PROVE  i - n = x
        OBVIOUS
      <4>1. i \notin 1..n
        BY <2>7, <3>3
      <4>2. i - n \in 1..Len(r) /\ r[i - n] = r[x]
        BY <2>7, <2>8, <3>1, <4>1
      <4> QED
        BY <2>6, <3>1, <4>2
    <3>7. \A i, j \in 1..Len(notifications') :
              notifications'[i] = q /\ notifications'[j] = q => i = j
      BY <2>7, <3>6
    <3> QED
      BY <2>9, <3>4, <3>5, <3>7 DEF WakeUpOf, Waits
  <2>11. CASE \A i \in 1..Len(r) : r[i] # q
    <3>1. \A i \in 1..Len(notifications') :
              notifications'[i] = q => i \in 1..n /\ notifications[i] = q
      BY <2>7, <2>8, <2>11
    <3>2. Waits(q)' <=> Waits(q)
      BY <2>7, <3>1 DEF Waits, n
    <3>3. \A i \in 1..Len(polled) : polled[i] # q \/ ~Ready(q)
      BY <2>3, <2>5, <2>11
    <3>4. read_since_poll'[q] <=> read_since_poll[q]
      BY <1>2, <3>3 DEF Ready
    <3> QED
      BY <2>9, <3>1, <3>2, <3>4 DEF WakeUpOf, n
  <2> QED
    BY <2>10, <2>11
<1> QED
  BY <1>1, <1>2 DEF Poll

\* The task takes the first notification: what waited is now served.
LEMMA WakeUpTake ==
    ASSUME IsrTypeOK, WakeUp, Take
    PROVE  WakeUp' /\ notifications' \in Seq(Queues) /\ current' \in Queues
<1>1. notifications \in Seq(Queues) /\ notifications # <<>>
  BY DEF IsrTypeOK, Take
<1>2. /\ notifications' = Tail(notifications) /\ current' = notifications[1]
      /\ 1 \in 1..Len(notifications) /\ Len(notifications) \in Nat
      /\ Len(notifications') = Len(notifications) - 1
      /\ notifications' \in Seq(Queues) /\ current' \in Queues
      /\ \A i \in 1..Len(notifications') :
            i + 1 \in 1..Len(notifications) /\ notifications'[i] = notifications[i + 1]
      /\ at = "wait" /\ at' = "lock" /\ life' = life /\ read_since_poll' = read_since_poll
  BY <1>1, TailOf DEF Take
<1> SUFFICES ASSUME NEW q \in Queues, ~Expired(q)' PROVE WakeUpOf(q)'
  BY <1>2 DEF WakeUp
<1>3. WakeUpOf(q)
  BY <1>2 DEF WakeUp, Expired
<1>4. \A i, j \in 1..Len(notifications') :
            notifications'[i] = q /\ notifications'[j] = q => i = j
  <2> SUFFICES ASSUME NEW i \in 1..Len(notifications'), NEW j \in 1..Len(notifications'),
                      notifications'[i] = q, notifications'[j] = q
               PROVE  i = j
    OBVIOUS
  <2>1. i + 1 = j + 1
    BY <1>2, <1>3 DEF WakeUpOf
  <2> QED
    BY <1>2, <2>1
<1>5. ~Served(q)
  BY <1>2 DEF Served
<1>6. Served(q)' <=> current' = q
  BY <1>2 DEF Served
<1>7. CASE current' = q
  <2>1. Waits(q) /\ ~read_since_poll[q]
    BY <1>2, <1>3, <1>7 DEF Waits, WakeUpOf
  <2>2. ~Waits(q)'
    <3> SUFFICES ASSUME NEW i \in 1..Len(notifications'), notifications'[i] = q PROVE FALSE
      BY DEF Waits
    <3>0. /\ 1 \in 1..Len(notifications) /\ notifications[1] = q
          /\ i + 1 \in 1..Len(notifications) /\ notifications[i + 1] = q
      BY <1>2, <1>7
    <3>1. i + 1 = 1
      BY <1>3, <3>0 DEF WakeUpOf
    <3> QED
      BY <1>2, <3>1
  <2> QED
    BY <1>2, <1>4, <1>6, <1>7, <2>1, <2>2 DEF WakeUpOf
<1>8. CASE current' # q
  <2>1. \A i \in 1..Len(notifications) : notifications[i] = q =>
            i - 1 \in 1..Len(notifications') /\ notifications'[i - 1] = q
    <3> SUFFICES ASSUME NEW i \in 1..Len(notifications), notifications[i] = q
                 PROVE  i - 1 \in 1..Len(notifications') /\ notifications'[i - 1] = q
      OBVIOUS
    <3>1. i # 1
      BY <1>2, <1>8
    <3>2. i - 1 \in 1..Len(notifications') /\ (i - 1) + 1 = i
      BY <1>2, <3>1
    <3> QED
      BY <1>2, <3>2
  <2>2. Waits(q)' <=> Waits(q)
    BY <1>2, <2>1 DEF Waits
  <2> QED
    BY <1>2, <1>3, <1>4, <1>5, <1>6, <1>8, <2>2 DEF WakeUpOf
<1> QED
  BY <1>7, <1>8

\* The task finds the queue alive or not, or has served it.
LEMMA WakeUpServe ==
    ASSUME IsrTypeOK, Busy, WakeUp, Lock \/ Forward, [IsrNext]_isrTaskVars
    PROVE  WakeUp'
<1> SUFFICES ASSUME NEW q \in Queues, ~Expired(q)' PROVE WakeUpOf(q)'
  BY DEF WakeUp
<1>1. WakeUpOf(q) /\ ~Expired(q)
  BY NoRevival DEF WakeUp
<1>2. notifications' = notifications /\ (Waits(q)' <=> Waits(q))
  BY DEF Lock, Forward, Waits
<1>3. CASE Lock
  <2>1. read_since_poll' = read_since_poll /\ (Served(q)' <=> Served(q))
    BY <1>1, <1>3, IsrAssumption DEF Lock, Served
  <2> QED
    BY <1>1, <1>2, <2>1 DEF WakeUpOf
<1>4. CASE Forward
  <2>1. ~Served(q)'
    BY <1>4 DEF Forward, Served
  <2>2. CASE current = q
    <3>1. Served(q)
      BY <1>4, <2>2 DEF Forward, Served
    <3>2. ~Waits(q)
      BY <1>1, <3>1 DEF WakeUpOf
    <3>3. read_since_poll'[q] = TRUE
      BY <1>4, <2>2 DEF Forward, IsrTypeOK
    <3> QED
      BY <1>1, <1>2, <2>1, <3>2, <3>3 DEF WakeUpOf
  <2>3. CASE current # q
    <3>1. ~Served(q)
      BY <2>3 DEF Served
    <3>2. read_since_poll'[q] = read_since_poll[q]
      BY <1>4, <2>3 DEF Forward, IsrTypeOK
    <3> QED
      BY <1>1, <1>2, <2>1, <3>1, <3>2 DEF WakeUpOf
  <2> QED
    BY <2>2, <2>3
<1> QED
  BY <1>3, <1>4

\* Nothing is to be taken: the task goes round.
LEMMA WakeUpTimeout ==
    ASSUME IsrTypeOK, WakeUp, PollTimeout
    PROVE  WakeUp'
<1> SUFFICES ASSUME NEW q \in Queues, ~Expired(q)' PROVE WakeUpOf(q)'
  BY DEF WakeUp
<1>1. WakeUpOf(q)
  BY DEF WakeUp, PollTimeout, Expired
<1>2. ~Served(q) /\ ~Served(q)'
  BY DEF PollTimeout, Served
<1> QED
  BY <1>1, <1>2 DEF WakeUpOf, Waits, PollTimeout

\* The list of polled queues.
LEMMA PolledStep ==
    ASSUME IsrTypeOK, Busy, PolledOnce, [IsrNext]_isrTaskVars
    PROVE  PolledOnce' /\ polled' \in Seq(Queues)
<1>0. polled \in Seq(Queues) /\ life \in [Queues -> Lives]
  BY DEF IsrTypeOK
<1>1. ASSUME NEW q \in Queues, Register(q)
      PROVE  PolledOnce' /\ polled' \in Seq(Queues)
  <2>1. /\ polled' = Append(polled, q) /\ life[q] = "new"
        /\ life' = [life EXCEPT ![q] = "registered"]
    BY <1>1 DEF Register
  <2>2. /\ polled' \in Seq(Queues) /\ Len(polled) \in Nat
        /\ Len(polled') = Len(polled) + 1 /\ polled'[Len(polled) + 1] = q
        /\ \A i \in 1..Len(polled) : polled'[i] = polled[i]
        /\ \A i \in 1..Len(polled') : i \in 1..Len(polled) \/ i = Len(polled) + 1
    BY <1>0, <2>1, AppendTo
  <2>3. \A i \in 1..Len(polled) : polled[i] # q /\ polled[i] \in Queues
    BY <1>0, <2>1 DEF PolledOnce
  <2>4. \A i, j \in 1..Len(polled') : polled'[i] = polled'[j] => i = j
    BY <2>2, <2>3 DEF PolledOnce
  <2>5. \A i \in 1..Len(polled') : life'[polled'[i]] # "new"
    <3>1. life'[q] # "new" /\ \A r \in Queues \ {q} : life'[r] = life[r]
      BY <1>0, <2>1
    <3> QED
      BY <2>2, <2>3, <3>1 DEF PolledOnce
  <2> QED
    BY <2>2, <2>4, <2>5 DEF PolledOnce
<1>2. \A q \in Queues : life[q] # "new" => life'[q] # "new"
  <2>1. ASSUME NEW r \in Queues, Interrupt(r) \/ SendFromISR(r) \/ Register(r) \/ Created(r)
                                    \/ Release(r) \/ Unregister(r)
        PROVE  \A q \in Queues : life[q] # "new" => life'[q] # "new"
    BY <1>0, <2>1 DEF Interrupt, SendFromISR, Register, Created, Release, Unregister
  <2>2. CASE TaskStep \/ UNCHANGED isrTaskVars
    BY <1>0, <2>2 DEF Busy, TaskStep, Poll, PollTimeout, Take, Lock, Forward, isrTaskVars
  <2> QED
    BY <2>1, <2>2 DEF IsrNext
<1>3. ASSUME NEW q \in Queues, Unregister(q)
      PROVE  PolledOnce' /\ polled' \in Seq(Queues)
  <2> DEFINE kept == {i \in 1..Len(polled) : polled[i] # q}
  <2>1. polled' \in Without(polled, q)
    BY <1>3 DEF Unregister
  <2>2. polled' \in Seq(Queues) /\ \E f : Picks(f, polled, kept, polled')
    BY <1>0, <2>1, WithoutIsPart
  <2>3. PICK f : Picks(f, polled, kept, polled')
    BY <2>2
  <2>4. kept \in SUBSET (1..Len(polled))
    OBVIOUS
  <2> HIDE DEF kept
  <2>5. \A i \in 1..Len(polled') : f[i] \in 1..Len(polled) /\ polled'[i] = polled[f[i]]
    BY <2>3, <2>4 DEF Picks
  <2>6. \A i, j \in 1..Len(polled') : polled'[i] = polled'[j] => i = j
    <3> SUFFICES ASSUME NEW i \in 1..Len(polled'), NEW j \in 1..Len(polled'), polled'[i] = polled'[j]
                 PROVE  i = j
      OBVIOUS
    <3>1. f[i] = f[j]
      BY <2>5 DEF PolledOnce
    <3> QED
      BY <2>3, <3>1 DEF Picks
  <2>7. \A i \in 1..Len(polled') : life'[polled'[i]] # "new"
    BY <1>0, <1>2, <2>5 DEF PolledOnce
  <2> QED
    BY <2>2, <2>6, <2>7 DEF PolledOnce
<1>4. CASE polled' = polled
  BY <1>0, <1>2, <1>4 DEF PolledOnce
<1>5. \/ polled' = polled
      \/ \E q \in Queues : Register(q) \/ Unregister(q)
  BY DEF IsrNext, Interrupt, SendFromISR, Created, Release, TaskStep, Poll, PollTimeout, Take, Lock,
         Forward, isrTaskVars
<1> QED
  BY <1>1, <1>3, <1>4, <1>5

-----------------------------------------------------------------------------
(* The theorems.                                                           *)

IsrInv == ValueInv /\ PolledOnce /\ WakeUp

\* Every step keeps the invariant.
LEMMA IsrStep == ASSUME IsrInv, [IsrNext]_isrTaskVars PROVE IsrInv'
<1> USE DEF IsrInv
<1>0. IsrTypeOK /\ Busy
  BY DEF ValueInv
<1>1. PolledOnce' /\ polled' \in Seq(Queues)
  BY <1>0, PolledStep
<1>2. ASSUME UNCHANGED <<notifications, read_since_poll, at, current>> PROVE WakeUp'
  BY <1>0, <1>2, WakeUpOtherStep
<1>3. ASSUME UNCHANGED <<items, signalled, signalling, delivered>>,
             read_since_poll' \in [Queues -> BOOLEAN], notifications' \in Seq(Queues),
             life' \in [Queues -> Lives], at' \in IsrPlaces, current' \in Queues \cup {NoQueue},
             Busy'
      PROVE  ValueInv'
  <2>1. IsrTypeOK'
    BY <1>0, <1>1, <1>3 DEF IsrTypeOK
  <2>2. Rising' /\ Newest'
    BY <1>3 DEF ValueInv, Rising, Newest
  <2> QED
    BY <1>3, <2>1, <2>2 DEF ValueInv
<1>4. ASSUME NEW q \in Queues, Interrupt(q) \/ SendFromISR(q) PROVE IsrInv'
  <2>1. WakeUp'
    BY <1>2, <1>4 DEF Interrupt, SendFromISR, taskVars
  <2> QED
    BY <1>1, <1>4, <2>1, ValueInterrupt, ValueSend
<1>5. ASSUME NEW q \in Queues, Register(q) \/ Created(q) \/ Release(q) \/ Unregister(q)
      PROVE  IsrInv'
  <2>1. UNCHANGED <<items, isrVars, taskVars>>
    BY <1>5 DEF Register, Created, Release, Unregister
  <2>2. WakeUp'
    BY <1>2, <2>1 DEF taskVars
  <2>3. life' \in [Queues -> Lives]
    BY <1>0, <1>5 DEF IsrTypeOK, Register, Created, Release, Unregister, Lives
  <2>4. ValueInv'
    BY <1>0, <1>3, <2>1, <2>3 DEF IsrTypeOK, Busy, taskVars, isrVars
  <2> QED
    BY <1>1, <2>2, <2>4
<1>6. CASE Poll
  <2>1. WakeUp' /\ notifications' \in Seq(Queues)
    BY <1>0, <1>6, WakeUpPoll
  <2>2. UNCHANGED <<items, isrVars, polled, life, current, delivered>> /\ at' \in {"terminated", "wait"}
    BY <1>6 DEF Poll
  <2>3. read_since_poll' \in [Queues -> BOOLEAN]
    BY <1>0, <1>6 DEF IsrTypeOK, Poll
  <2>4. ValueInv'
    BY <1>0, <1>3, <2>1, <2>2, <2>3 DEF IsrTypeOK, Busy, isrVars, IsrPlaces
  <2> QED
    BY <1>1, <2>1, <2>4
<1>7. CASE PollTimeout
  <2>1. ValueInv'
    BY <1>0, <1>3, <1>7 DEF PollTimeout, IsrTypeOK, Busy, isrVars, IsrPlaces
  <2> QED
    BY <1>0, <1>1, <1>7, <2>1, WakeUpTimeout
<1>8. CASE Take
  <2>1. WakeUp' /\ notifications' \in Seq(Queues) /\ current' \in Queues
    BY <1>0, <1>8, WakeUpTake
  <2>2. ValueInv'
    BY <1>0, <1>3, <1>8, <2>1 DEF Take, IsrTypeOK, Busy, isrVars, IsrPlaces
  <2> QED
    BY <1>1, <2>1, <2>2
<1>9. CASE Lock
  <2>1. WakeUp'
    BY <1>0, <1>9, WakeUpServe
  <2>2. ValueInv'
    BY <1>0, <1>3, <1>9 DEF Lock, IsrTypeOK, Busy, isrVars, IsrPlaces
  <2> QED
    BY <1>1, <2>1, <2>2
<1>10. CASE Forward
  BY <1>0, <1>1, <1>10, ValueForward, WakeUpServe
<1>11. CASE UNCHANGED isrTaskVars
  <2>1. ValueInv'
    BY <1>0, <1>3, <1>11 DEF IsrTypeOK, Busy, isrTaskVars, isrVars, taskVars
  <2> QED
    BY <1>1, <1>2, <1>11, <2>1 DEF isrTaskVars, taskVars
<1> QED
  BY <1>4, <1>5, <1>6, <1>7, <1>8, <1>9, <1>10, <1>11 DEF IsrNext, TaskStep

\* Poll and forward of a living queue take turns, for any number of queues: the
\* task holds at most one wake-up for it, and holds one whenever
\* read_since_poll is FALSE, so no queue is left unread.
THEOREM OneWakeUpEach == IsrSpec => []OneWakeUp
<1>1. ASSUME IsrInv PROVE OneWakeUp
  <2> SUFFICES ASSUME NEW q \in Queues, ~Expired(q)
               PROVE  Notified(q) + Serving(q) = IF read_since_poll[q] THEN 0 ELSE 1
    BY DEF OneWakeUp
  <2> DEFINE waits == {i \in 1..Len(notifications) : notifications[i] = q}
  <2>1. WakeUpOf(q)
    BY <1>1 DEF IsrInv, WakeUp
  <2>2. Serving(q) = IF Served(q) THEN 1 ELSE 0
    BY DEF Serving, Served
  <2>3. CASE Waits(q)
    <3>1. PICK k \in 1..Len(notifications) : notifications[k] = q
      BY <2>3 DEF Waits
    <3>2. waits = {k}
      BY <2>1, <3>1 DEF WakeUpOf
    <3>3. Notified(q) = 1
      BY <3>2, FS_Singleton DEF Notified
    <3>4. ~read_since_poll[q] /\ ~Served(q)
      BY <2>1, <2>3 DEF WakeUpOf
    <3>5. Serving(q) = 0
      BY <2>2, <3>4
    <3> QED
      BY <3>3, <3>4, <3>5
  <2>4. CASE ~Waits(q)
    <3>1. waits = {}
      BY <2>4 DEF Waits
    <3>2. Notified(q) = 0
      BY <3>1, FS_EmptySet DEF Notified
    <3>3. read_since_poll[q] <=> ~Served(q)
      BY <2>1, <2>4 DEF WakeUpOf
    <3> QED
      BY <2>2, <3>2, <3>3
  <2> QED
    BY <2>3, <2>4
<1>2. ASSUME IsrInit PROVE IsrInv
  BY <1>2, ValueInit, WakeUpInit DEF IsrInv
<1> QED
  BY <1>1, <1>2, IsrStep, PTL DEF IsrSpec

\* What interrupts signal arrives in their order, and an overrun of a queue of
\* any size drops old values only: the newest one waits last or was delivered
\* last when signal() has returned.
THEOREM NewestKeptInOrder ==
    IsrSpec => [](IsrTypeOK /\ NewestValueKept /\ InterruptOrder)
<1>1. IsrInv => IsrTypeOK /\ NewestValueKept /\ InterruptOrder
  BY DEF IsrInv, ValueInv, Newest, NewestValueKept, Rising, Ascending, InterruptOrder
<1>2. ASSUME IsrInit PROVE IsrInv
  BY <1>2, ValueInit, WakeUpInit DEF IsrInv
<1> QED
  BY <1>1, <1>2, IsrStep, PTL DEF IsrSpec
=============================================================================
