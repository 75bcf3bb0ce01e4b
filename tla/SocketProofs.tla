---------------------------- MODULE SocketProofs ----------------------------
(***************************************************************************)
(* The sending side of a socket is a channel of packets (StreamIsChannel), *)
(* and every packet in the receive buffer has an event behind it           *)
(* (PacketsAnnounced), for buffers of any size and any traffic.            *)
(*                                                                         *)
(* The ring is a queue: what put(), get() and clear() do to its array and  *)
(* its two positions is Append, Tail and the empty sequence of RingItems.  *)
(* From that, each critical section of the dispatcher and of the           *)
(* application is a step of the channel, or no step of it.                 *)
(***************************************************************************)
EXTENDS PacketStream, TlsSocket, ServerSocket, SequenceTheorems, FiniteSetTheorems, TLAPS

-----------------------------------------------------------------------------
(* CircularBuffer.                                                         *)

Positions == 0..(Size - 1)

\* A ring of any items.
RingShape(r) ==
    /\ r.read_pos \in Positions /\ r.write_pos \in Positions
    /\ r.count \in 0..Size
    /\ r.write_pos = (r.read_pos + r.count) % Size

Rings(S) ==
    {r \in [buffer : [Positions -> S], read_pos : Positions, write_pos : Positions,
            count : 0..Size] : RingShape(r)}

(* Positions wrap once.                                                      *)
LEMMA Wraps ==
    ASSUME NEW a \in Positions, NEW b \in 0..Size
    PROVE  /\ (a + b) % Size \in Positions
           /\ (a + b) % Size = IF a + b < Size THEN a + b ELSE (a + b) - Size
<1>1. Size \in Nat /\ Size > 0
  BY SizeAssumption
<1> QED BY <1>1 DEF Positions

LEMMA NextPosition ==
    ASSUME NEW a \in Positions
    PROVE  NextPos(a) \in Positions /\ NextPos(a) = IF a + 1 = Size THEN 0 ELSE a + 1
<1>1. Size \in Nat /\ Size > 0 /\ 1 \in 0..Size
  BY SizeAssumption
<1> QED BY <1>1, Wraps DEF Positions, NextPos

(* put() keeps the shape, on a full ring too, and adds at most one item.     *)
LEMMA PutShape ==
    ASSUME NEW r, RingShape(r), NEW x
    PROVE  /\ RingShape(RingPut(r, x))
           /\ RingPut(r, x).count <= r.count + 1
<1> DEFINE p == RingPut(r, x)
<1>1. Size \in Nat /\ Size > 0
  BY SizeAssumption
<1>2. /\ r.read_pos \in Positions /\ r.write_pos \in Positions /\ r.count \in 0..Size
      /\ r.write_pos = IF r.read_pos + r.count < Size THEN r.read_pos + r.count
                       ELSE (r.read_pos + r.count) - Size
  BY Wraps DEF RingShape
<1>3. p.count = IF r.count = Size THEN Size ELSE r.count + 1
  BY DEF RingPut, RingIsFull
<1>4. p.write_pos = NextPos(r.write_pos)
  BY DEF RingPut
<1>5. p.read_pos = IF p.count = Size /\ r.read_pos = r.write_pos THEN NextPos(r.read_pos)
                   ELSE r.read_pos
  BY DEF RingPut
<1> HIDE DEF p
<1>6. p.read_pos \in Positions /\ p.write_pos \in Positions /\ p.count \in 0..Size
  BY <1>1, <1>2, <1>3, <1>4, <1>5, NextPosition
<1>7. p.write_pos = IF p.read_pos + p.count < Size THEN p.read_pos + p.count
                    ELSE (p.read_pos + p.count) - Size
  <2>1. p.write_pos = IF r.write_pos + 1 = Size THEN 0 ELSE r.write_pos + 1
    BY <1>2, <1>4, NextPosition
  <2>2. NextPos(r.read_pos) = IF r.read_pos + 1 = Size THEN 0 ELSE r.read_pos + 1
    BY <1>2, NextPosition
  <2> QED BY <1>1, <1>2, <1>3, <1>5, <2>1, <2>2 DEF Positions
<1>8. RingShape(p)
  BY <1>6, <1>7, Wraps DEF RingShape
<1>9. p.count <= r.count + 1
  BY <1>1, <1>2, <1>3
<1> QED BY <1>8, <1>9 DEF p

(* get() of a ring that is not empty, and clear().                           *)
LEMMA GetShape ==
    ASSUME NEW S, NEW r \in Rings(S), ~RingIsEmpty(r)
    PROVE  RingGet(r) \in Rings(S) /\ RingGet(r).count = r.count - 1
<1> DEFINE g == RingGet(r)
<1>1. Size \in Nat /\ Size > 0
  BY SizeAssumption
<1>2. /\ r \in [buffer : [Positions -> S], read_pos : Positions, write_pos : Positions,
                count : 0..Size]
      /\ RingShape(r)
  BY DEF Rings
<1>3. r.write_pos = IF r.read_pos + r.count < Size THEN r.read_pos + r.count
                    ELSE (r.read_pos + r.count) - Size
  BY <1>2, Wraps DEF RingShape
<1>4. /\ g.buffer = r.buffer /\ g.write_pos = r.write_pos /\ g.count = r.count - 1
      /\ g.read_pos = NextPos(r.read_pos)
  BY <1>2 DEF RingGet
<1>5. /\ g.read_pos \in Positions /\ g.count \in 0..Size
      /\ g.read_pos = IF r.read_pos + 1 = Size THEN 0 ELSE r.read_pos + 1
  BY <1>1, <1>2, <1>4, NextPosition DEF RingIsEmpty
<1>6. g \in [buffer : [Positions -> S], read_pos : Positions, write_pos : Positions,
             count : 0..Size]
  BY <1>2, <1>4, <1>5 DEF RingGet
<1> HIDE DEF g
<1>7. g.write_pos = IF g.read_pos + g.count < Size THEN g.read_pos + g.count
                    ELSE (g.read_pos + g.count) - Size
  <2>1. r.read_pos \in 0..(Size - 1) /\ r.count \in 1..Size
    BY <1>1, <1>2 DEF Positions, RingIsEmpty
  <2>2. CASE r.read_pos + 1 = Size
    BY <1>1, <1>3, <1>4, <1>5, <2>1, <2>2
  <2>3. CASE r.read_pos + 1 # Size
    BY <1>1, <1>3, <1>4, <1>5, <2>1, <2>3
  <2> QED BY <2>2, <2>3
<1>8. RingShape(g)
  BY <1>5, <1>6, <1>7, Wraps DEF RingShape
<1> QED BY <1>4, <1>6, <1>8 DEF Rings, g

LEMMA ClearShape ==
    ASSUME NEW S, NEW r \in Rings(S)
    PROVE  RingClear(r) \in Rings(S) /\ RingClear(r).count = 0
<1> DEFINE c == RingClear(r)
<1>1. Size \in Nat /\ Size > 0 /\ 0 \in Positions /\ 0 \in 0..Size
  BY SizeAssumption DEF Positions
<1>2. r \in [buffer : [Positions -> S], read_pos : Positions, write_pos : Positions,
             count : 0..Size]
  BY DEF Rings
<1>3. c.read_pos = 0 /\ c.write_pos = 0 /\ c.count = 0
  BY <1>2 DEF RingClear
<1>4. c \in [buffer : [Positions -> S], read_pos : Positions, write_pos : Positions,
             count : 0..Size]
  BY <1>1, <1>2 DEF RingClear
<1>5. (0 + 0) % Size = 0
  BY <1>1, Wraps
<1>6. RingShape(c)
  BY <1>1, <1>3, <1>5 DEF RingShape
<1> QED BY <1>3, <1>4, <1>6 DEF Rings

LEMMA NewShape ==
    ASSUME NEW S, Blank \in S
    PROVE  NewRing \in Rings(S) /\ NewRing.count = 0
<1>1. Size \in Nat /\ Size > 0 /\ 0 \in Positions /\ 0 \in 0..Size
  BY SizeAssumption DEF Positions
<1>2. NewRing \in [buffer : [Positions -> S], read_pos : Positions, write_pos : Positions,
                   count : 0..Size]
  BY <1>1 DEF NewRing, Positions
<1>3. (0 + 0) % Size = 0
  BY <1>1, Wraps
<1>4. NewRing.read_pos = 0 /\ NewRing.write_pos = 0 /\ NewRing.count = 0
  BY DEF NewRing
<1> QED BY <1>1, <1>2, <1>3, <1>4 DEF Rings, RingShape

(* What a ring holds, and where.                                             *)
LEMMA ItemsOfRing ==
    ASSUME NEW S, NEW r \in Rings(S)
    PROVE  /\ RingItems(r) \in Seq(S) /\ Len(RingItems(r)) = r.count
           /\ \A i \in 1..r.count :
                RingItems(r)[i] = r.buffer[IF (r.read_pos + i) - 1 < Size
                                           THEN (r.read_pos + i) - 1
                                           ELSE ((r.read_pos + i) - 1) - Size]
<1>1. Size \in Nat /\ Size > 0
  BY SizeAssumption
<1>2. /\ r.read_pos \in Positions /\ r.count \in 0..Size /\ r.buffer \in [Positions -> S]
  BY DEF Rings
<1>3. ASSUME NEW i \in 1..r.count
      PROVE  /\ (r.read_pos + i - 1) % Size \in Positions
             /\ (r.read_pos + i - 1) % Size = IF (r.read_pos + i) - 1 < Size
                                              THEN (r.read_pos + i) - 1
                                              ELSE ((r.read_pos + i) - 1) - Size
  <2> DEFINE j == i - 1
  <2>1. j \in 0..Size /\ r.read_pos + i - 1 = r.read_pos + j /\ (r.read_pos + i) - 1 = r.read_pos + j
    BY <1>1, <1>2 DEF Positions
  <2> HIDE DEF j
  <2>2. /\ (r.read_pos + j) % Size \in Positions
        /\ (r.read_pos + j) % Size = IF r.read_pos + j < Size THEN r.read_pos + j
                                     ELSE (r.read_pos + j) - Size
    BY <1>2, <2>1, Wraps
  <2> QED BY <2>1, <2>2
<1>4. RingItems(r) \in [1..r.count -> S]
  BY <1>2, <1>3 DEF RingItems
<1>5. RingItems(r) \in Seq(S) /\ Len(RingItems(r)) = r.count
  BY <1>1, <1>2, <1>4
<1> QED BY <1>3, <1>5 DEF RingItems

(* A ring is a queue: put() on a ring that is not full appends, ...          *)
LEMMA PutAppends ==
    ASSUME NEW S, NEW r \in Rings(S), NEW x \in S, ~RingIsFull(r)
    PROVE  /\ RingPut(r, x) \in Rings(S) /\ RingPut(r, x).count = r.count + 1
           /\ RingItems(RingPut(r, x)) = Append(RingItems(r), x)
<1> DEFINE p == RingPut(r, x)
<1>1. Size \in Nat /\ Size > 0
  BY SizeAssumption
<1>2. /\ r \in [buffer : [Positions -> S], read_pos : Positions, write_pos : Positions,
                count : 0..Size]
      /\ RingShape(r)
  BY DEF Rings
<1>3. RingShape(p)
  BY <1>2, PutShape
<1>4. p.count = r.count + 1 /\ r.count < Size /\ r.count \in Nat
  BY <1>1, <1>2 DEF RingPut, RingIsFull
<1>5. p.buffer = [r.buffer EXCEPT ![r.write_pos] = x] /\ p.buffer \in [Positions -> S]
  BY <1>2 DEF RingPut
<1>6. p \in [buffer : [Positions -> S], read_pos : Positions, write_pos : Positions,
             count : 0..Size]
  BY <1>3, <1>5 DEF RingShape, RingPut
<1>7. p \in Rings(S)
  BY <1>3, <1>6 DEF Rings
<1>8. r.write_pos = IF r.read_pos + r.count < Size THEN r.read_pos + r.count
                    ELSE (r.read_pos + r.count) - Size
  BY <1>2, Wraps DEF RingShape
<1>9. p.read_pos = r.read_pos
  <2>1. p.read_pos = IF p.count = Size /\ r.read_pos = r.write_pos THEN NextPos(r.read_pos)
                     ELSE r.read_pos
    BY DEF RingPut
  <2>2. NextPos(r.read_pos) = IF r.read_pos + 1 = Size THEN 0 ELSE r.read_pos + 1
    BY <1>2, NextPosition
  <2> HIDE DEF p
  <2> QED BY <1>1, <1>2, <1>4, <1>8, <2>1, <2>2 DEF Positions
<1> HIDE DEF p
<1> DEFINE a == Append(RingItems(r), x)
<1>10. /\ RingItems(r) \in Seq(S) /\ Len(RingItems(r)) = r.count
       /\ RingItems(p) \in Seq(S) /\ Len(RingItems(p)) = r.count + 1
  BY <1>4, <1>7, ItemsOfRing
<1>11. a \in Seq(S) /\ Len(a) = r.count + 1
       /\ \A i \in 1..(r.count + 1) : a[i] = IF i <= r.count THEN RingItems(r)[i] ELSE x
  BY <1>4, <1>10
<1> HIDE DEF a
<1>12. ASSUME NEW i \in 1..(r.count + 1)
       PROVE  RingItems(p)[i] = a[i]
  <2> DEFINE k == IF (r.read_pos + i) - 1 < Size THEN (r.read_pos + i) - 1
                  ELSE ((r.read_pos + i) - 1) - Size
  <2>1. RingItems(p)[i] = p.buffer[k]
    BY <1>4, <1>7, <1>9, ItemsOfRing
  <2>2. CASE i <= r.count
    <3>1. i \in 1..r.count
      BY <1>4, <2>2
    <3>2. RingItems(r)[i] = r.buffer[k]
      BY <3>1, ItemsOfRing
    <3>3. k # r.write_pos /\ k \in Positions
      BY <1>1, <1>2, <1>4, <1>8, <3>1 DEF Positions
    <3>4. p.buffer[k] = r.buffer[k]
      BY <1>2, <1>5, <3>3
    <3> QED BY <1>11, <2>1, <2>2, <3>2, <3>4
  <2>3. CASE i = r.count + 1
    <3>1. k = r.write_pos
      BY <1>1, <1>2, <1>4, <1>8, <2>3 DEF Positions
    <3>2. p.buffer[k] = x
      BY <1>2, <1>5, <3>1
    <3> QED BY <1>4, <1>11, <2>1, <2>3, <3>2
  <2> QED BY <1>4, <2>2, <2>3
<1>13. RingItems(p) = a
  BY <1>10, <1>11, <1>12, SeqEqual
<1> QED BY <1>4, <1>7, <1>13 DEF p, a

(* ... get() takes the first item, and a ring that was cleared holds none.   *)
LEMMA GetTakes ==
    ASSUME NEW S, NEW r \in Rings(S), ~RingIsEmpty(r)
    PROVE  /\ RingFront(r) \in S
           /\ RingItems(r) = <<RingFront(r)>> \o RingItems(RingGet(r))
<1> DEFINE g == RingGet(r)
<1>1. Size \in Nat /\ Size > 0
  BY SizeAssumption
<1>2. /\ r.read_pos \in Positions /\ r.count \in 0..Size /\ r.buffer \in [Positions -> S]
      /\ r.count > 0
  BY <1>1 DEF Rings, RingIsEmpty
<1>3. g \in Rings(S) /\ g.count = r.count - 1
  BY GetShape
<1>4. g.buffer = r.buffer /\ g.read_pos = NextPos(r.read_pos)
  BY DEF RingGet, Rings
<1>5. g.read_pos = IF r.read_pos + 1 = Size THEN 0 ELSE r.read_pos + 1
  BY <1>2, <1>4, NextPosition
<1> HIDE DEF g
<1>6. RingFront(r) \in S
  BY <1>2 DEF RingFront
<1> DEFINE b == <<RingFront(r)>> \o RingItems(g)
<1>7. /\ RingItems(r) \in Seq(S) /\ Len(RingItems(r)) = r.count
      /\ RingItems(g) \in Seq(S) /\ Len(RingItems(g)) = r.count - 1
  BY <1>3, ItemsOfRing
<1>8. <<RingFront(r)>> \in Seq(S) /\ Len(<<RingFront(r)>>) = 1
      /\ <<RingFront(r)>>[1] = RingFront(r)
  BY <1>6
<1>9. b \in Seq(S) /\ Len(b) = r.count
      /\ \A i \in 1..r.count : b[i] = IF i = 1 THEN RingFront(r) ELSE RingItems(g)[i - 1]
  <2>1. b \in Seq(S) /\ Len(b) = 1 + (r.count - 1)
        /\ \A i \in 1..(1 + (r.count - 1)) :
             b[i] = IF i <= 1 THEN <<RingFront(r)>>[i] ELSE RingItems(g)[i - 1]
    BY <1>7, <1>8, ConcatProperties
  <2> HIDE DEF b
  <2> QED BY <1>2, <1>8, <2>1
<1> HIDE DEF b
<1>10. ASSUME NEW i \in 1..r.count
       PROVE  RingItems(r)[i] = b[i]
  <2> DEFINE k == IF (r.read_pos + i) - 1 < Size THEN (r.read_pos + i) - 1
                  ELSE ((r.read_pos + i) - 1) - Size
  <2>1. RingItems(r)[i] = r.buffer[k]
    BY ItemsOfRing
  <2>2. CASE i = 1
    <3>1. k = r.read_pos
      BY <1>1, <1>2, <2>2 DEF Positions
    <3> QED BY <1>9, <2>1, <2>2, <3>1 DEF RingFront
  <2>3. CASE i # 1
    <3> DEFINE j == i - 1
               m == IF (g.read_pos + j) - 1 < Size THEN (g.read_pos + j) - 1
                    ELSE ((g.read_pos + j) - 1) - Size
    <3>1. j \in 1..g.count
      BY <1>2, <1>3, <2>3
    <3>2. RingItems(g)[j] = g.buffer[m]
      BY <1>3, <3>1, ItemsOfRing
    <3>3. m = k
      <4>1. r.read_pos \in 0..(Size - 1) /\ i \in 2..Size
        BY <1>1, <1>2, <2>3 DEF Positions
      <4>2. CASE r.read_pos + 1 = Size
        BY <1>1, <1>5, <4>1, <4>2
      <4>3. CASE r.read_pos + 1 # Size
        BY <1>1, <1>5, <4>1, <4>3
      <4> QED BY <4>2, <4>3
    <3> QED BY <1>4, <1>9, <2>1, <2>3, <3>2, <3>3
  <2> QED BY <2>2, <2>3
<1>11. RingItems(r) = b
  BY <1>7, <1>9, <1>10, SeqEqual
<1> QED BY <1>6, <1>11 DEF b, g

LEMMA ClearEmpties ==
    ASSUME NEW S, NEW r \in Rings(S)
    PROVE  RingItems(RingClear(r)) = <<>>
<1>1. RingClear(r) \in Rings(S) /\ RingClear(r).count = 0
  BY ClearShape
<1>2. RingItems(RingClear(r)) \in Seq(S) /\ Len(RingItems(RingClear(r))) = 0
  BY <1>1, ItemsOfRing
<1> QED BY <1>2, EmptySeq

LEMMA AppendToConcat ==
    ASSUME NEW S, NEW s \in Seq(S), NEW t \in Seq(S), NEW x \in S
    PROVE  s \o Append(t, x) = Append(s \o t, x)
<1>1. <<x>> \in Seq(S) /\ s \o t \in Seq(S)
  OBVIOUS
<1>2. Append(t, x) = t \o <<x>> /\ Append(s \o t, x) = (s \o t) \o <<x>>
  BY <1>1, AppendIsConcat
<1> QED BY <1>1, <1>2, ConcatAssociative

LEMMA HeadTailOfConcat ==
    ASSUME NEW S, NEW s \in Seq(S), NEW x \in S
    PROVE  <<x>> \o s # <<>> /\ Head(<<x>> \o s) = x /\ Tail(<<x>> \o s) = s
<1> DEFINE t == <<x>> \o s
<1>1. <<x>> \in Seq(S) /\ Len(<<x>>) = 1 /\ <<x>>[1] = x /\ Len(s) \in Nat
  OBVIOUS
<1>2. t \in Seq(S) /\ Len(t) = 1 + Len(s) /\ \A i \in 1..(1 + Len(s)) : t[i] = IF i <= 1 THEN <<x>>[i] ELSE s[i - 1]
  BY <1>1, ConcatProperties
<1> HIDE DEF t
<1>3. t # <<>>
  BY <1>1, <1>2
<1>4. Head(t) = x
  BY <1>1, <1>2, <1>3
<1>5. Tail(t) \in Seq(S) /\ Len(Tail(t)) = Len(s) /\ \A i \in 1..Len(s) : Tail(t)[i] = t[i + 1]
  BY <1>1, <1>2, <1>3, HeadTailProperties
<1>6. \A i \in 1..Len(s) : Tail(t)[i] = s[i]
  BY <1>1, <1>2, <1>5
<1>7. Tail(t) = s
  BY <1>5, <1>6, SeqEqual
<1> QED BY <1>3, <1>4, <1>7 DEF t

-----------------------------------------------------------------------------
(* Sending: a channel of packets.                                          *)

Accepted == UNION {ToSet(t.out) : t \in Traffic}
Slots == Accepted \cup {Blank}

SendInv ==
    /\ toSend \in Seq(Accepted)
    /\ tx \in Rings(Slots) /\ current \in Slots /\ in_progress \in BOOLEAN

\* What the refinement maps the queue of the channel to.
Sending == (IF in_progress THEN <<current>> ELSE <<>>) \o RingItems(tx)

(* The packets of a socket, those of a traffic, are packets of the channel.  *)
LEMMA TrafficAccepted ==
    ASSUME NEW t \in Traffic
    PROVE  t.out \in Seq(Accepted)
<1>1. t.out \in Seq(DOMAIN PacketLength)
  BY TrafficAssumption
<1>2. Len(t.out) \in Nat /\ DOMAIN t.out = 1..Len(t.out) /\ t.out \in [1..Len(t.out) -> DOMAIN PacketLength]
  BY <1>1, LenProperties
<1>3. \A i \in 1..Len(t.out) : t.out[i] \in Accepted
  BY <1>2 DEF Accepted, ToSet
<1>4. t.out \in [1..Len(t.out) -> Accepted]
  BY <1>2, <1>3
<1> QED BY <1>2, <1>4

LEMMA SendInit == Init => SendInv /\ Channel!Init
<1> SUFFICES ASSUME Init PROVE SendInv /\ Channel!Init
  OBVIOUS
<1>1. NewRing \in Rings(Slots) /\ NewRing.count = 0
  BY NewShape DEF Slots
<1>2. SendInv
  BY <1>1, TrafficAccepted DEF Init, SendInv, Slots
<1>3. RingItems(tx) \in Seq(Slots) /\ Len(RingItems(tx)) = 0
  BY <1>1, ItemsOfRing DEF Init
<1>4. RingItems(tx) = <<>>
  BY <1>3, EmptySeq
<1>5. Sending = <<>> /\ written = <<>>
  <2>1. Sending = <<>> \o <<>> /\ written = <<>>
    BY <1>4 DEF Init, Sending
  <2>2. <<>> \o <<>> = <<>>
    BY ConcatEmptySeq, EmptySeq
  <2> QED BY <2>1, <2>2
<1> QED BY <1>2, <1>5 DEF Channel!Init, Sending

(* A step that leaves the ring and the packet being sent alone is none of    *)
(* the channel's.                                                            *)
LEMMA SendRests ==
    ASSUME SendInv, UNCHANGED <<toSend, tx, current, in_progress, written>>
    PROVE  SendInv' /\ UNCHANGED <<Sending, written>>
BY DEF SendInv, Sending

LEMMA SendNext ==
    ASSUME SendInv, [Next]_vars
    PROVE  SendInv' /\ [Channel!Next]_<<Sending, written>>
<1> USE DEF sendVars, recvVars
<1> DEFINE Goal == SendInv' /\ [Channel!Next]_<<Sending, written>>
<1>0. /\ toSend \in Seq(Accepted) /\ tx \in Rings(Slots) /\ current \in Slots
      /\ in_progress \in BOOLEAN /\ Accepted \subseteq Slots
      /\ RingItems(tx) \in Seq(Slots) /\ Len(RingItems(tx)) = tx.count
      /\ tx.count \in 0..Size /\ Size \in Nat
  BY ItemsOfRing, SizeAssumption DEF SendInv, Slots, Rings
<1> DEFINE cur == IF in_progress THEN <<current>> ELSE <<>>
<1>1. cur \in Seq(Slots) /\ Len(cur) <= 1 /\ Len(cur) \in Nat /\ Sending = cur \o RingItems(tx)
  BY <1>0 DEF Sending
<1>2. CASE UNCHANGED <<toSend, tx, current, in_progress, written>>
  BY <1>2, SendRests
<1>3. CASE Put
  <2> DEFINE x == Head(toSend)
  <2>1. x \in Accepted /\ Tail(toSend) \in Seq(Accepted) /\ ~RingIsFull(tx)
        /\ tx' = RingPut(tx, x) /\ toSend' = Tail(toSend)
        /\ UNCHANGED <<current, in_progress, written>>
    BY <1>0, <1>3, HeadTailProperties DEF Put
  <2> HIDE DEF x
  <2>2. /\ tx' \in Rings(Slots) /\ RingItems(tx') = Append(RingItems(tx), x)
    BY <1>0, <2>1, PutAppends
  <2>3. SendInv'
    BY <1>0, <2>1, <2>2 DEF SendInv
  <2>4. Sending' = cur \o Append(RingItems(tx), x)
    BY <2>1, <2>2 DEF Sending
  <2>5. Sending' = Append(Sending, x)
    <3> HIDE DEF cur
    <3>1. x \in Slots
      BY <1>0, <2>1
    <3>2. cur \o Append(RingItems(tx), x) = Append(cur \o RingItems(tx), x)
      BY <1>0, <1>1, <3>1, AppendToConcat
    <3> QED BY <1>1, <2>4, <3>2
  <2>6. Len(Sending) < Size + 1
    <3> HIDE DEF cur
    <3>1. Len(Sending) = Len(cur) + tx.count
      BY <1>0, <1>1
    <3>2. tx.count < Size
      BY <1>0, <2>1 DEF RingIsFull
    <3> QED BY <1>0, <1>1, <3>1, <3>2
  <2>7. Channel!Accept(x)
    BY <2>1, <2>5, <2>6 DEF Channel!Accept, Sending
  <2> QED BY <2>1, <2>3, <2>7 DEF Channel!Next, Accepted
<1>4. CASE SendNextPacket
  <2>1. CASE in_progress \/ TxIsEmpty
    BY <1>2, <1>4, <2>1 DEF SendNextPacket
  <2>2. CASE ~(in_progress \/ TxIsEmpty)
    <3>1. ~in_progress /\ ~RingIsEmpty(tx) /\ in_progress' = TRUE
          /\ current' = RingFront(tx) /\ tx' = RingGet(tx) /\ UNCHANGED <<toSend, written>>
      BY <1>4, <2>2 DEF SendNextPacket, TxIsEmpty, PrepareNextPacket
    <3>2. RingFront(tx) \in Slots /\ RingItems(tx) = <<RingFront(tx)>> \o RingItems(RingGet(tx))
          /\ RingGet(tx) \in Rings(Slots)
      BY <1>0, <3>1, GetTakes, GetShape
    <3>3. SendInv'
      BY <1>0, <3>1, <3>2 DEF SendInv
    <3>4. Sending = RingItems(tx)
      BY <1>0, <3>1 DEF Sending
    <3>5. Sending' = <<RingFront(tx)>> \o RingItems(RingGet(tx))
      BY <3>1 DEF Sending
    <3> QED BY <3>1, <3>2, <3>3, <3>4, <3>5 DEF Sending
  <2> QED BY <2>1, <2>2
<1>5. ASSUME NEW n \in 1..MaxLength, WriteData(n) PROVE Goal
  <2>1. UNCHANGED <<toSend, tx, current>> /\ in_progress' \in BOOLEAN /\ (in_progress' => in_progress)
    BY <1>5 DEF WriteData, DataHasBeenSent
  <2>2. SendInv'
    BY <1>0, <2>1 DEF SendInv
  <2>3. CASE in_progress /\ ~in_progress'
    <3>1. written' = Append(written, current)
      BY <1>5, <2>3 DEF WriteData
    <3>2. Sending = <<current>> \o RingItems(tx)
      BY <2>3 DEF Sending
    <3>3. Sending' = RingItems(tx)
      BY <1>0, <2>1, <2>3 DEF Sending
    <3>4. Sending # <<>> /\ Head(Sending) = current /\ Tail(Sending) = RingItems(tx)
      <4>1. <<current>> \in Seq(Slots)
        BY <1>0
      <4> QED BY <1>0, <3>2, <4>1, HeadTailOfConcat
    <3>5. Channel!Write
      BY <3>1, <3>3, <3>4 DEF Channel!Write, Sending
    <3> QED BY <2>2, <3>5 DEF Channel!Next
  <2>4. CASE ~(in_progress /\ ~in_progress')
    <3>1. in_progress' = in_progress
      BY <1>0, <2>1, <2>4
    <3>2. written' = written
      BY <1>5, <2>4 DEF WriteData
    <3> QED BY <1>2, <2>1, <3>1, <3>2
  <2> QED BY <2>3, <2>4
<1>6. CASE ClearTx
  <2>1. tx' = RingClear(tx) /\ in_progress' = FALSE /\ UNCHANGED <<toSend, current, written>>
    BY <1>6 DEF ClearTx
  <2>2. tx' \in Rings(Slots) /\ RingItems(tx') = <<>>
    BY <1>0, <2>1, ClearShape, ClearEmpties
  <2>3. SendInv'
    BY <1>0, <2>1, <2>2 DEF SendInv
  <2>4. Sending' = <<>>
    BY <2>1, <2>2 DEF Sending
  <2>5. Channel!Drop
    BY <2>1, <2>4 DEF Channel!Drop, Sending
  <2> QED BY <2>3, <2>5 DEF Channel!Next
<1>7. CASE UNCHANGED vars
  BY <1>2, <1>7 DEF vars
<1>8. CASE \/ Get \/ HasDataToTransmit \/ GetDataToSend \/ GetRemainingDataLength
           \/ AmountWanted \/ (\E n \in 1..MaxLength : Recv(n))
           \/ DataReceived \/ Announce \/ PrepareNewPacket \/ ClearRx \/ ClearEvents
  BY <1>2, <1>8 DEF Get, HasDataToTransmit, GetDataToSend, GetRemainingDataLength, AmountWanted,
                    Recv, DataReceived, Announce, PrepareNewPacket, ClearRx, ClearEvents
<1> QED BY <1>3, <1>4, <1>5, <1>6, <1>7, <1>8 DEF Next, Dispatcher

(* Whatever the application puts and however send() takes it, whenever       *)
(* clear() comes: what PacketSendBuffer accepts is written in that order,    *)
(* each packet once, or dropped as a whole.                                  *)
THEOREM SocketIsChannel == Spec => StreamIsChannel
<1>1. Spec => []SendInv
  BY SendInit, SendNext, PTL DEF Spec
<1>2. SendInv /\ [Next]_vars => [Channel!Next]_<<Sending, written>>
  BY SendNext
<1> QED BY <1>1, <1>2, SendInit, PTL DEF Spec, StreamIsChannel, Channel!Spec, Sending

-----------------------------------------------------------------------------
(* Receiving: every packet has its event.                                  *)

\* The items of the receive buffer are whatever was received.
IsRing(r) == \E S : r \in Rings(S)

ReceiveTypes ==
    /\ rd = [at |-> rd.at, wanted |-> rd.wanted]
    /\ rd.at = "received" => rd.wanted \in Nat \ {0}
    /\ proto.got \in Nat
    /\ dataAvailable \in Nat

\* The event of the packet that was just put in the buffer is still to be pushed.
EventToCome == rd.at = "announce" /\ IsComplete(proto)

EventsInv ==
    "event" \notin torn => dataAvailable + (IF EventToCome THEN 1 ELSE 0) >= rx.count

ReceiveInv ==
    /\ IsRing(rx) /\ ReceiveTypes /\ EventsInv

LEMMA PutRing ==
    ASSUME NEW r, IsRing(r), NEW x
    PROVE  /\ IsRing(RingPut(r, x)) /\ RingPut(r, x).count <= r.count + 1
           /\ r.count \in Nat /\ RingPut(r, x).count \in Nat
<1>1. PICK S : r \in Rings(S)
  BY DEF IsRing
<1> DEFINE T == S \cup {x}
           p == RingPut(r, x)
<1>2. /\ r.buffer \in [Positions -> S] /\ RingShape(r)
  BY <1>1 DEF Rings
<1>3. RingShape(p) /\ p.count <= r.count + 1
  BY <1>2, PutShape
<1>4. p.buffer \in [Positions -> T]
  BY <1>2 DEF RingPut, RingShape
<1>5. p \in [buffer : [Positions -> T], read_pos : Positions, write_pos : Positions,
             count : 0..Size]
  BY <1>3, <1>4 DEF RingPut, RingShape
<1>6. p \in Rings(T)
  BY <1>3, <1>5 DEF Rings
<1>7. r.count \in Nat /\ p.count \in Nat
  BY <1>2, <1>3, SizeAssumption DEF RingShape
<1> QED BY <1>3, <1>6, <1>7 DEF IsRing

LEMMA ShapeOfRing ==
    ASSUME NEW r, IsRing(r)
    PROVE  /\ r.count \in Nat /\ RingOK(r)
           /\ IsRing(RingClear(r)) /\ RingClear(r).count = 0
           /\ ~RingIsEmpty(r) => IsRing(RingGet(r)) /\ RingGet(r).count = r.count - 1
<1>1. PICK S : r \in Rings(S)
  BY DEF IsRing
<1>2. r.count \in Nat /\ RingOK(r)
  BY <1>1, SizeAssumption DEF Rings, RingShape, RingOK
<1>3. IsRing(RingClear(r)) /\ RingClear(r).count = 0
  BY <1>1, ClearShape DEF IsRing
<1>4. ~RingIsEmpty(r) => IsRing(RingGet(r)) /\ RingGet(r).count = r.count - 1
  BY <1>1, GetShape DEF IsRing
<1> QED BY <1>2, <1>3, <1>4

LEMMA ReceiveInit == Init => ReceiveInv
<1> SUFFICES ASSUME Init PROVE ReceiveInv
  OBVIOUS
<1>1. NewRing \in Rings({Blank}) /\ NewRing.count = 0
  BY NewShape
<1>2. IsRing(rx) /\ rx.count = 0
  BY <1>1 DEF IsRing, Init
<1>3. ReceiveTypes /\ ~EventToCome
  BY DEF Init, ReceiveTypes, NewProto, EventToCome
<1>4. dataAvailable = 0
  BY DEF Init
<1> QED BY <1>2, <1>3, <1>4 DEF ReceiveInv, EventsInv

LEMMA ReceiveNext ==
    ASSUME ReceiveInv, [Next]_vars
    PROVE  ReceiveInv'
<1> USE DEF sendVars, recvVars
<1>0. /\ IsRing(rx) /\ ReceiveTypes /\ EventsInv /\ rx.count \in Nat /\ dataAvailable \in Nat
  BY ShapeOfRing DEF ReceiveInv, ReceiveTypes
<1>1. CASE UNCHANGED <<rx, proto, rd, dataAvailable, torn>>
  BY <1>1 DEF ReceiveInv, ReceiveTypes, EventsInv, EventToCome
<1>2. CASE UNCHANGED vars
  BY <1>1, <1>2 DEF vars
<1>3. CASE Put \/ HasDataToTransmit \/ SendNextPacket \/ GetDataToSend
           \/ GetRemainingDataLength \/ (\E n \in 1..MaxLength : WriteData(n))
  BY <1>1, <1>3 DEF Put, HasDataToTransmit, SendNextPacket, GetDataToSend,
                    GetRemainingDataLength, WriteData
<1>4. CASE ClearTx
  <2>1. UNCHANGED <<rx, proto, rd, dataAvailable>> /\ ("event" \in torn' <=> "event" \in torn)
    BY <1>4 DEF ClearTx
  <2> QED BY <1>0, <2>1 DEF ReceiveInv, ReceiveTypes, EventsInv, EventToCome
<1>5. CASE AmountWanted
  <2>1. UNCHANGED <<rx, proto, dataAvailable, torn>> /\ rd.at = "idle"
        /\ rd' = [at |-> "recv", wanted |-> WantedAmount(proto)]
    BY <1>5 DEF AmountWanted
  <2> QED BY <1>0, <2>1 DEF ReceiveInv, ReceiveTypes, EventsInv, EventToCome
<1>6. ASSUME NEW n \in 1..MaxLength, Recv(n) PROVE ReceiveInv'
  <2>1. UNCHANGED <<rx, proto, dataAvailable>> /\ rd.at = "recv"
        /\ rd' = [at |-> "received", wanted |-> n]
        /\ ("event" \in torn' <=> "event" \in torn)
    BY <1>6 DEF Recv
  <2>2. n \in Nat \ {0}
    BY DEF MaxLength
  <2> QED BY <1>0, <2>1, <2>2 DEF ReceiveInv, ReceiveTypes, EventsInv, EventToCome
<1>7. CASE DataReceived
  <2> DEFINE g == proto.got + rd.wanted
             o == IF proto.got = 0 /\ item # <<>> THEN Announced(item) ELSE proto.of
             full == g >= o
  <2>1. /\ rd.at = "received" /\ UNCHANGED <<dataAvailable, torn>>
        /\ proto' = [got |-> g, of |-> o]
        /\ rd' = [at |-> "announce", wanted |-> rd.wanted]
    BY <1>0, <1>7 DEF DataReceived, ReceiveTypes
  <2>2. rx' = IF full THEN RingPut(rx, item) ELSE rx
    BY <1>7 DEF DataReceived
  <2>3. g \in Nat /\ g > 0
    BY <1>0, <2>1 DEF ReceiveTypes
  <2>4. proto'.got = g /\ proto'.of = o
    BY <2>1
  <2> HIDE DEF g, o
  <2>5. EventToCome' <=> full
    BY <2>1, <2>3, <2>4 DEF EventToCome, IsComplete
  <2>6. ReceiveTypes'
    BY <1>0, <2>1, <2>3, <2>4 DEF ReceiveTypes
  <2> HIDE DEF full
  <2>7. IsRing(rx') /\ rx'.count \in Nat /\ rx'.count <= rx.count + (IF full THEN 1 ELSE 0)
    <3>1. CASE full
      BY <1>0, <2>2, <3>1, PutRing
    <3>2. CASE ~full
      BY <1>0, <2>2, <3>2
    <3> QED BY <3>1, <3>2
  <2>8. EventsInv'
    BY <1>0, <2>1, <2>5, <2>7 DEF EventsInv, EventToCome
  <2> QED BY <2>6, <2>7, <2>8 DEF ReceiveInv
<1>8. CASE Announce
  <2>1. rd.at = "announce" /\ UNCHANGED <<rx, proto, torn>>
        /\ dataAvailable' = dataAvailable + (IF EventToCome THEN 1 ELSE 0)
        /\ rd' = [at |-> IF IsComplete(proto) THEN "prepare" ELSE "idle", wanted |-> rd.wanted]
    BY <1>0, <1>8 DEF Announce, ReceiveTypes, EventToCome
  <2>2. ~EventToCome' /\ ReceiveTypes'
    BY <1>0, <2>1 DEF EventToCome, ReceiveTypes
  <2> QED BY <1>0, <2>1, <2>2 DEF ReceiveInv, EventsInv
<1>9. CASE PrepareNewPacket
  <2>1. rd.at = "prepare" /\ UNCHANGED <<rx, dataAvailable, torn>> /\ proto' = NewProto
        /\ rd' = [at |-> "idle", wanted |-> rd.wanted]
    BY <1>0, <1>9 DEF PrepareNewPacket, ReceiveTypes
  <2> QED BY <1>0, <2>1 DEF ReceiveInv, ReceiveTypes, EventsInv, EventToCome, NewProto
<1>10. CASE Get
  <2>1. dataAvailable > 0 /\ dataAvailable' = dataAvailable - 1 /\ UNCHANGED <<proto, rd, torn>>
        /\ rx' = IF RingIsEmpty(rx) THEN rx ELSE RingGet(rx)
    BY <1>10 DEF Get
  <2>2. IsRing(rx') /\ rx'.count = IF rx.count = 0 THEN 0 ELSE rx.count - 1
    BY <1>0, <2>1, ShapeOfRing DEF RingIsEmpty
  <2>3. ReceiveTypes' /\ (EventToCome' <=> EventToCome)
    BY <1>0, <2>1 DEF ReceiveTypes, EventToCome
  <2>4. EventsInv'
    BY <1>0, <2>1, <2>2, <2>3 DEF EventsInv
  <2> QED BY <2>2, <2>3, <2>4 DEF ReceiveInv
<1>11. CASE ClearRx
  <2>1. rx' = RingClear(rx) /\ proto' = NewProto /\ UNCHANGED <<rd, dataAvailable>>
    BY <1>11 DEF ClearRx
  <2>2. IsRing(rx') /\ rx'.count = 0
    BY <1>0, <2>1, ShapeOfRing
  <2>3. ReceiveTypes'
    BY <1>0, <2>1 DEF ReceiveTypes, NewProto
  <2> QED BY <1>0, <2>1, <2>2, <2>3 DEF ReceiveInv, EventsInv
<1>12. CASE ClearEvents
  <2>1. dataAvailable' = 0 /\ UNCHANGED <<rx, proto, rd>>
        /\ ("event" \notin torn' => rx.count = 0)
    BY <1>12 DEF ClearEvents, RingIsEmpty
  <2>2. ReceiveTypes'
    BY <1>0, <2>1 DEF ReceiveTypes
  <2> QED BY <1>0, <2>1, <2>2 DEF ReceiveInv, EventsInv
<1> QED BY <1>2, <1>3, <1>4, <1>5, <1>6, <1>7, <1>8, <1>9, <1>10, <1>11, <1>12 DEF Next, Dispatcher

(* However the bytes of the peer arrive and whenever the buffers are cleared: *)
(* both rings keep their shape, and no packet stays in PacketReceiveBuffer   *)
(* for want of a DataAvailableEvent, unless BufferContainer::clear() took    *)
(* the event of a packet that came between its two steps.                    *)
THEOREM PacketsHaveEvents == Spec => []PacketsAnnounced
<1>1. SendInv /\ ReceiveInv => PacketsAnnounced
  <2> SUFFICES ASSUME SendInv, ReceiveInv PROVE PacketsAnnounced
    OBVIOUS
  <2>1. RingOK(tx) /\ RingOK(rx) /\ rx.count \in Nat
    BY ShapeOfRing DEF SendInv, ReceiveInv, IsRing
  <2>2. dataAvailable \in Nat
    BY DEF ReceiveInv, ReceiveTypes
  <2>3. ASSUME "event" \notin torn
        PROVE  dataAvailable + (IF rd.at = "announce" THEN 1 ELSE 0) >= rx.count
    BY <2>1, <2>2, <2>3 DEF ReceiveInv, EventsInv, EventToCome
  <2> QED BY <2>1, <2>3 DEF PacketsAnnounced
<1>2. Spec => []SendInv
  BY SendInit, SendNext, PTL DEF Spec
<1> QED BY <1>1, <1>2, ReceiveInit, ReceiveNext, PTL DEF Spec

-----------------------------------------------------------------------------
(***************************************************************************)
(* TLS sockets: application data goes to verified peers only               *)
(* (OnlyVerifiedPeers), and records are sent whole and read to the end,    *)
(* for any handshake, any traffic and any sizes.                           *)
(*                                                                         *)
(* A failure to configure the context is found at the last step of the     *)
(* handshake: it is refused unless the configuration is accepted           *)
(* (Verified), and nothing is sent or received for the application before  *)
(* it is complete (HandshakeFirst).  That read_data() leaves nothing       *)
(* behind needs to know that no flight is left in its way (Arrivals).      *)
(* Records stay whole and distinct because the id of the next one has not  *)
(* been used (TlsRecords).                                                 *)
(***************************************************************************)

Configured == IF role = "client" THEN InitClient(fails, ca) ELSE InitServer(fails)

TlsSetting ==
    /\ role \in {"client", "server"} /\ ca \in BOOLEAN /\ trusted \in BOOLEAN
    /\ fails \in {"none", "seed", "defaults", "cert", "ca", "key", "own"}

WireBytes == Int \X (1..RecordLength)

TlsTypes ==
    /\ TlsSetting
    /\ tls \in [conf : {Configured}, state : Nat \ {0}]
    /\ at \in {"idle", "writing", "reading"}
    /\ tlsAlive \in BOOLEAN /\ broken \in BOOLEAN /\ partial \in BOOLEAN
    /\ tlsWire \in Seq(WireBytes) /\ unread \in Nat
    /\ sent \in Nat /\ out \in 0..Outgoing
    /\ avail \in Nat /\ partly \in 0..(TlsPacketLength - 1)
    /\ inRx \in Nat /\ delivered \in Nat

\* The peer answers flight for flight, so that none waits when the handshake
\* is complete.
Arrivals ==
    IF IsHandshakeComplete THEN arrived \in Seq(Nat \ {0})
    ELSE \/ arrived = <<>>
         \/ Flights[role][tls.state] = "recv" /\ \E x \in {"flight", "alert"} : arrived = <<x>>

\* The last step of a handshake is refused unless the configuration is accepted.
Verified == IsHandshakeComplete => Accepts(tls.conf)

\* Nothing is sent or received for the application before.
HandshakeFirst ==
    (\/ at # "idle" \/ inRx > 0 \/ delivered > 0 \/ partly > 0
     \/ \E i \in DOMAIN tlsWire : tlsWire[i][1] > 0) => IsHandshakeComplete

\* write_data() has a packet, read_data() leaves nothing decrypted behind.
LoopsBusy ==
    /\ at = "writing" => out > 0
    /\ at # "reading" /\ tlsAlive => avail = 0

TlsSafe == TlsTypes /\ Arrivals /\ Verified /\ HandshakeFirst /\ LoopsBusy

LEMMA FlightsType ==
    ASSUME NEW r \in {"client", "server"}
    PROVE  /\ Flights[r] \in Seq({"send", "recv"}) /\ Len(Flights[r]) \in Nat \ {0}
<1>1. Flights[r] \in Seq({"send", "recv"}) /\ Flights[r] # <<>>
  BY TlsMessages
<1> QED BY <1>1, EmptySeq, LenProperties

\* The bytes of a record.
LEMMA RecordBytes ==
    ASSUME NEW id \in Int, NEW n \in 0..RecordLength
    PROVE  /\ SubSeq(Record(id), 1, n) \in Seq(WireBytes)
           /\ Len(SubSeq(Record(id), 1, n)) = n
           /\ \A j \in 1..n : SubSeq(Record(id), 1, n)[j] = <<id, j>>
<1>1. RecordLength \in Nat /\ n \in Int /\ 1 \in Int /\ n \in Nat /\ n <= RecordLength
  BY TlsSizes
<1>2. \A i \in 1..RecordLength : Record(id)[i] = <<id, i>> /\ Record(id)[i] \in WireBytes
  BY DEF Record, WireBytes
<1>3. \A i \in 1..n : i \in 1..RecordLength
  BY <1>1
<1>4. \A i \in 1..n : Record(id)[i] \in WireBytes
  BY <1>2, <1>3
<1>5. /\ SubSeq(Record(id), 1, n) \in Seq(WireBytes)
      /\ Len(SubSeq(Record(id), 1, n)) = IF 1 <= n THEN n - 1 + 1 ELSE 0
      /\ \A i \in 1..n - 1 + 1 : SubSeq(Record(id), 1, n)[i] = Record(id)[1 + i - 1]
  <2> HIDE DEF Record
  <2> QED BY <1>1, <1>4, SubSeqProperties
<1>6. n - 1 + 1 = n /\ \A i \in 1..n : 1 + i - 1 = i
  BY <1>1
<1> QED BY <1>1, <1>2, <1>3, <1>5, <1>6

\* What ssl_send() leaves on the wire.
LEMMA SslSendWire ==
    ASSUME TlsTypes, NEW id \in Int, NEW n \in 0..RecordLength, SslSend(id, n)
    PROVE  /\ tlsWire' \in Seq(WireBytes) /\ unread' \in Nat /\ partial' \in BOOLEAN
           /\ Len(tlsWire') = Len(tlsWire) + n
           /\ \A i \in 1..Len(tlsWire) : tlsWire'[i] = tlsWire[i]
           /\ \A j \in 1..n : tlsWire'[Len(tlsWire) + j] = <<id, j>>
           /\ \A i \in 1..Len(tlsWire') :
                 i \in 1..Len(tlsWire) \/ \E j \in 1..n : i = Len(tlsWire) + j
<1> DEFINE b == SubSeq(Record(id), 1, n)
<1>1. b \in Seq(WireBytes) /\ Len(b) = n /\ \A j \in 1..n : b[j] = <<id, j>>
  BY RecordBytes
<1>2. tlsWire \in Seq(WireBytes) /\ tlsWire' = tlsWire \o b /\ unread' = unread + n /\ unread \in Nat
  BY DEF TlsTypes, SslSend
<1>3. partial' \in BOOLEAN
  BY DEF SslSend
<1> HIDE DEF b
<1>4. /\ tlsWire' \in Seq(WireBytes) /\ Len(tlsWire') = Len(tlsWire) + Len(b)
      /\ \A i \in 1..Len(tlsWire) + Len(b) : tlsWire'[i] =
            IF i <= Len(tlsWire) THEN tlsWire[i] ELSE b[i - Len(tlsWire)]
  BY <1>1, <1>2, ConcatProperties
<1>5. PICK l \in Nat : l = Len(tlsWire)
  BY <1>2, LenProperties
<1>6. n \in Nat
  BY TlsSizes
<1>7. \A i \in 1..Len(tlsWire) : tlsWire'[i] = tlsWire[i]
  BY <1>1, <1>4, <1>5, <1>6
<1>8. ASSUME NEW j \in 1..n PROVE tlsWire'[Len(tlsWire) + j] = <<id, j>>
  <2>1. l + j \in 1..l + n /\ ~(l + j <= l) /\ (l + j) - l = j
    BY <1>6
  <2> QED BY <2>1, <1>1, <1>4, <1>5
<1>9. ASSUME NEW i \in 1..Len(tlsWire')
      PROVE  i \in 1..Len(tlsWire) \/ \E j \in 1..n : i = Len(tlsWire) + j
  <2>1. i \in 1..l + n
    BY <1>1, <1>4, <1>5
  <2>2. CASE i <= l
    BY <2>1, <2>2, <1>5
  <2>3. CASE i > l
    <3>1. i - l \in 1..n /\ i = l + (i - l)
      BY <2>1, <2>3, <1>6
    <3> QED BY <3>1, <1>5
  <2> QED BY <2>1, <2>2, <2>3
<1> QED BY <1>1, <1>2, <1>3, <1>4, <1>6, <1>7, <1>8, <1>9

-----------------------------------------------------------------------------
(* The handshake.                                                            *)

\* A step of the handshake leaves everything else alone, and it completes the
\* handshake only if the configuration is accepted.
LEMMA HandshakeKeeps ==
    ASSUME TlsSafe, at = "idle", tlsAlive, ~IsHandshakeComplete, DoHandshakeStep
    PROVE  TlsSafe'
<1>1. /\ role \in {"client", "server"} /\ tls.state \in Nat \ {0} /\ tls.conf = Configured
      /\ tls = [conf |-> Configured, state |-> tls.state]
      /\ tlsWire \in Seq(WireBytes) /\ unread \in Nat /\ partial \in BOOLEAN
      /\ tlsAlive \in BOOLEAN /\ broken \in BOOLEAN
  BY DEF TlsSafe, TlsTypes, TlsSetting
<1>2. PICK l \in Nat \ {0} : l = Len(Flights[role])
  BY <1>1, FlightsType
<1>3. tls.state <= l
  BY <1>1, <1>2 DEF IsHandshakeComplete
<1>4. /\ role' = role /\ ca' = ca /\ fails' = fails /\ trusted' = trusted
      /\ at' = at /\ broken' = broken /\ sent' = sent /\ out' = out /\ avail' = avail
      /\ partly' = partly /\ inRx' = inRx /\ delivered' = delivered
  BY DEF DoHandshakeStep, setting
<1>5. Configured' = Configured
  BY <1>4 DEF Configured
<1>6. at = "idle" /\ inRx = 0 /\ delivered = 0 /\ partly = 0 /\ avail = 0
  BY <1>1 DEF TlsSafe, TlsTypes, HandshakeFirst, LoopsBusy
<1>7. \A i \in DOMAIN tlsWire : ~(tlsWire[i][1] > 0)
  BY DEF TlsSafe, HandshakeFirst
<1>8. TlsSetting'
  BY <1>4 DEF TlsSafe, TlsTypes, TlsSetting
<1>9. /\ sent' \in Nat /\ out' \in 0..Outgoing /\ avail' \in Nat
      /\ partly' \in 0..(TlsPacketLength - 1) /\ inRx' \in Nat /\ delivered' \in Nat
      /\ at' \in {"idle", "writing", "reading"} /\ broken' \in BOOLEAN
  BY <1>4 DEF TlsSafe, TlsTypes
<1> DEFINE Wires == /\ tlsWire' \in Seq(WireBytes) /\ unread' \in Nat /\ partial' \in BOOLEAN
                    /\ \A i \in DOMAIN tlsWire' : ~(tlsWire'[i][1] > 0)
                    /\ tlsAlive' \in BOOLEAN
<1>10. ASSUME Wires, tls' = tls, arrived' = arrived \/ arrived' = <<>>
       PROVE  TlsSafe'
  <2>1. ~IsHandshakeComplete'
    BY <1>4, <1>10 DEF IsHandshakeComplete
  <2>2. TlsTypes'
    BY <1>1, <1>5, <1>8, <1>9, <1>10 DEF TlsTypes
  <2>3. Arrivals'
    BY <1>4, <1>10, <2>1 DEF TlsSafe, Arrivals
  <2>4. HandshakeFirst' /\ LoopsBusy'
    BY <1>4, <1>6, <1>10 DEF HandshakeFirst, LoopsBusy
  <2> QED BY <2>1, <2>2, <2>3, <2>4 DEF TlsSafe, Verified
<1>11. ASSUME Wires, tls' = [tls EXCEPT !.state = @ + 1], arrived' = <<>>,
              Accepts(tls.conf) \/ tls.state # Len(Flights[role])
       PROVE  TlsSafe'
  <2>1. /\ tls' = [conf |-> Configured, state |-> tls.state + 1]
        /\ tls'.conf = tls.conf /\ tls'.state = tls.state + 1 /\ tls.state + 1 \in Nat \ {0}
    BY <1>1, <1>11
  <2>2. IsHandshakeComplete' => tls.state = l
    BY <1>1, <1>2, <1>3, <1>4, <2>1 DEF IsHandshakeComplete
  <2>3. TlsTypes'
    BY <1>1, <1>5, <1>8, <1>9, <1>11, <2>1 DEF TlsTypes
  <2>4. Arrivals'
    <3>1. <<>> \in Seq(Nat \ {0})
      BY EmptySeq
    <3> QED BY <3>1, <1>11 DEF Arrivals
  <2>5. Verified'
    <3>1. Accepts(tls.conf) => Accepts(tls.conf)'
      BY <1>4, <2>1 DEF Accepts
    <3> QED BY <3>1, <2>2, <1>2, <1>11 DEF Verified
  <2>6. HandshakeFirst' /\ LoopsBusy'
    BY <1>4, <1>6, <1>11 DEF HandshakeFirst, LoopsBusy
  <2> QED BY <2>3, <2>4, <2>5, <2>6 DEF TlsSafe
<1>12. CASE ~Accepts(tls.conf) /\ tls.state = Len(Flights[role])
  <2>1. HandshakeRefused
    BY <1>12 DEF DoHandshakeStep
  <2>2. Wires /\ tls' = tls /\ arrived' = arrived
    BY <2>1, <1>1, <1>7 DEF HandshakeRefused
  <2> QED BY <2>2, <1>10
<1>13. CASE /\ HandshakeSend
            /\ Accepts(tls.conf) \/ tls.state # Len(Flights[role])
  <2>1. arrived' = arrived /\ arrived = <<>>
    BY <1>13 DEF HandshakeSend, TlsSafe, Arrivals
  <2>2. CASE broken /\ SslFails /\ UNCHANGED tls
    <3>1. Wires /\ tls' = tls
      BY <2>2, <1>1, <1>7 DEF SslFails
    <3> QED BY <3>1, <2>1, <1>10
  <2>3. CASE ~(broken /\ SslFails /\ UNCHANGED tls)
    <3>1. PICK n \in 0..RecordLength :
             /\ SslSend(-(tls.state), n)
             /\ tls' = IF n = RecordLength THEN [tls EXCEPT !.state = @ + 1] ELSE tls
             /\ tlsAlive' = tlsAlive
      BY <1>13, <2>3 DEF HandshakeSend
    <3>2. -(tls.state) \in Int /\ ~(-(tls.state) > 0)
      BY <1>1
    <3>3. TlsTypes
      BY DEF TlsSafe
    <3>4. /\ tlsWire' \in Seq(WireBytes) /\ unread' \in Nat /\ partial' \in BOOLEAN
          /\ \A i \in 1..Len(tlsWire) : tlsWire'[i] = tlsWire[i]
          /\ \A j \in 1..n : tlsWire'[Len(tlsWire) + j] = <<-(tls.state), j>>
          /\ \A i \in 1..Len(tlsWire') :
               i \in 1..Len(tlsWire) \/ \E j \in 1..n : i = Len(tlsWire) + j
      BY <3>1, <3>2, <3>3, SslSendWire
    <3>5. DOMAIN tlsWire = 1..Len(tlsWire) /\ DOMAIN tlsWire' = 1..Len(tlsWire')
      BY <1>1, <3>4, LenProperties
    <3>6. ASSUME NEW i \in DOMAIN tlsWire' PROVE ~(tlsWire'[i][1] > 0)
      <4>1. CASE i \in 1..Len(tlsWire)
        BY <4>1, <3>4, <3>5, <1>7
      <4>2. CASE \E j \in 1..n : i = Len(tlsWire) + j
        <5>1. PICK j \in 1..n : i = Len(tlsWire) + j
          BY <4>2
        <5>2. tlsWire'[i] = <<-(tls.state), j>>
          BY <5>1, <3>4
        <5>3. tlsWire'[i][1] = -(tls.state)
          BY <5>2
        <5> QED BY <5>3, <3>2
      <4> QED BY <4>1, <4>2, <3>4, <3>5
    <3>7. Wires
      BY <3>1, <3>4, <3>6, <1>1, <1>6
    <3> QED BY <3>1, <3>7, <2>1, <1>10, <1>11, <1>13
  <2> QED BY <2>2, <2>3
<1>14. CASE /\ HandshakeReceive
            /\ Accepts(tls.conf) \/ tls.state # Len(Flights[role])
  <2>1. tlsWire' = tlsWire /\ unread' = unread /\ partial' = partial
    BY <1>14 DEF HandshakeReceive
  <2>2. CASE arrived = <<>>
    <3>1. tlsAlive' = ~broken /\ tls' = tls /\ arrived' = arrived
      BY <1>14, <2>2 DEF HandshakeReceive
    <3>2. Wires
      BY <2>1, <3>1, <1>1, <1>7
    <3> QED BY <3>1, <3>2, <1>10
  <2>3. CASE arrived # <<>>
    <3>1. PICK x \in {"flight", "alert"} : arrived = <<x>>
      BY <2>3 DEF TlsSafe, Arrivals
    <3>2. arrived' = <<>>
      BY <1>14, <2>3, <3>1 DEF HandshakeReceive
    <3>3. /\ tlsAlive' = (x = "flight")
          /\ tls' = IF x = "flight" THEN [tls EXCEPT !.state = @ + 1] ELSE tls
      <4>1. /\ tlsAlive' = (Head(arrived) = "flight")
            /\ tls' = IF Head(arrived) = "flight" THEN [tls EXCEPT !.state = @ + 1] ELSE tls
        BY <1>14, <2>3, Zenon DEF HandshakeReceive
      <4>2. Head(arrived) = x
        BY <3>1
      <4> QED BY <4>1, <4>2, Zenon
    <3>4. CASE x = "flight"
      <4>1. tlsAlive' = TRUE /\ tls' = [tls EXCEPT !.state = @ + 1]
        BY <3>4, <3>3
      <4>2. Wires
        BY <4>1, <2>1, <1>1, <1>7
      <4> QED BY <4>1, <4>2, <3>2, <1>11, <1>14
    <3>5. CASE x # "flight"
      <4>1. tlsAlive' = FALSE /\ tls' = tls
        BY <3>5, <3>3
      <4>2. Wires
        BY <4>1, <2>1, <1>1, <1>7
      <4> QED BY <4>1, <4>2, <3>2, <1>10
    <3> QED BY <3>4, <3>5
  <2> QED BY <2>2, <2>3
<1> QED BY <1>12, <1>13, <1>14 DEF DoHandshakeStep

-----------------------------------------------------------------------------
(* The loops, the application, the peer and the network.                     *)

LEMMA WriteKeeps ==
    ASSUME TlsSafe, TlsWriteData
    PROVE  TlsSafe'
<1>1. TlsTypes /\ at = "writing" /\ out \in Nat /\ out > 0 /\ IsHandshakeComplete
  BY TlsSizes DEF TlsSafe, TlsTypes, LoopsBusy, HandshakeFirst, TlsWriteData
<1>2. /\ role' = role /\ ca' = ca /\ fails' = fails /\ trusted' = trusted
      /\ tls' = tls /\ broken' = broken /\ arrived' = arrived /\ sent' = sent
      /\ avail' = avail /\ partly' = partly /\ inRx' = inRx /\ delivered' = delivered
  BY DEF TlsWriteData, setting
<1>3. Configured' = Configured /\ TlsSetting' /\ IsHandshakeComplete'
  BY <1>1, <1>2 DEF Configured, TlsTypes, TlsSetting, IsHandshakeComplete
<1>4. Arrivals' /\ Verified' /\ HandshakeFirst'
  BY <1>1, <1>2, <1>3 DEF TlsSafe, Arrivals, Verified, Accepts, HandshakeFirst
<1>5. /\ tlsWire' \in Seq(WireBytes) /\ unread' \in Nat /\ partial' \in BOOLEAN
      /\ tlsAlive' \in BOOLEAN /\ (tlsAlive' => tlsAlive)
      /\ \/ at' = "idle" /\ (out' = out \/ out' = out - 1)
         \/ at' = at /\ out' = out
  <2>1. CASE broken
    BY <2>1, <1>1 DEF TlsWriteData, SslFails, TlsTypes
  <2>2. CASE ~broken
    <3>1. PICK n \in 0..RecordLength :
             /\ SslSend(out, n)
             /\ IF n = RecordLength THEN at' = "idle" /\ out' = out - 1
                ELSE UNCHANGED <<at, out>>
      BY <2>2 DEF TlsWriteData
    <3>2. tlsWire' \in Seq(WireBytes) /\ unread' \in Nat /\ partial' \in BOOLEAN
      BY <3>1, <1>1, SslSendWire
    <3>3. tlsAlive' = tlsAlive
      BY <2>2 DEF TlsWriteData
    <3> QED BY <1>1, <3>1, <3>2, <3>3 DEF TlsTypes
  <2> QED BY <2>1, <2>2
<1>6. out' \in 0..Outgoing /\ (at' = "writing" => out' > 0) /\ at' \in {"idle", "writing"}
  BY <1>1, <1>5, TlsSizes DEF TlsTypes
<1>7. TlsTypes'
  BY <1>1, <1>2, <1>3, <1>5, <1>6 DEF TlsTypes
<1>8. LoopsBusy'
  BY <1>1, <1>2, <1>5, <1>6 DEF TlsSafe, LoopsBusy
<1> QED BY <1>4, <1>7, <1>8 DEF TlsSafe

\* mbedtls_ssl_read() of what the packet wants leaves bytes behind only where
\* the loop goes on.
LEMMA ReadBytesKeeps ==
    ASSUME TlsTypes, NEW have \in Nat \ {0},
           ReadBytes(have, Smaller(have, TlsPacketLength - partly))
    PROVE  /\ avail' \in Nat /\ partly' \in 0..(TlsPacketLength - 1) /\ inRx' \in Nat
           /\ at' \in {"idle", "reading"} /\ (at' # "reading" /\ tlsAlive => avail' = 0)
<1>1. TlsPacketLength \in Nat \ {0} /\ partly \in 0..(TlsPacketLength - 1) /\ inRx \in Nat
      /\ tlsAlive \in BOOLEAN
  BY TlsSizes DEF TlsTypes
<1>2. PICK n \in Nat \ {0} : n = Smaller(have, TlsPacketLength - partly)
                             /\ n <= have /\ n <= TlsPacketLength - partly
  BY <1>1 DEF Smaller
<1>3. /\ avail' = have - n /\ partly' = (partly + n) % TlsPacketLength
      /\ inRx' = inRx + ((partly + n) \div TlsPacketLength)
      /\ at' = IF have > n /\ tlsAlive THEN "reading" ELSE "idle"
  BY <1>2 DEF ReadBytes
<1>4. avail' \in Nat /\ (~(have > n) => avail' = 0)
  BY <1>2, <1>3
<1>5. (partly + n) % TlsPacketLength \in 0..(TlsPacketLength - 1)
  BY <1>1, <1>2
<1>6. (partly + n) \div TlsPacketLength \in Nat
  BY <1>1, <1>2
<1> QED BY <1>1, <1>3, <1>4, <1>5, <1>6

LEMMA ReadKeeps ==
    ASSUME TlsSafe, ReadData
    PROVE  TlsSafe'
<1>1. TlsTypes /\ at = "reading" /\ IsHandshakeComplete /\ arrived \in Seq(Nat \ {0})
  BY DEF TlsSafe, HandshakeFirst, Arrivals, ReadData
<1>2. /\ role' = role /\ ca' = ca /\ fails' = fails /\ trusted' = trusted
      /\ tls' = tls /\ broken' = broken /\ tlsWire' = tlsWire /\ unread' = unread
      /\ sent' = sent /\ out' = out /\ delivered' = delivered /\ partial' = partial
  BY DEF ReadData, setting
<1>3. Configured' = Configured /\ TlsSetting' /\ IsHandshakeComplete'
  BY <1>1, <1>2 DEF Configured, TlsTypes, TlsSetting, IsHandshakeComplete
<1>4. /\ avail' \in Nat /\ partly' \in 0..(TlsPacketLength - 1) /\ inRx' \in Nat
      /\ at' \in {"idle", "reading"} /\ (at' # "reading" /\ tlsAlive' => avail' = 0)
      /\ tlsAlive' \in BOOLEAN /\ arrived' \in Seq(Nat \ {0})
  <2>1. CASE inRx = RxSize
    BY <2>1, <1>1 DEF ReadData, TlsTypes
  <2>2. CASE inRx # RxSize /\ avail > 0
    <3>1. ReadBytes(avail, Smaller(avail, TlsPacketLength - partly)) /\ tlsAlive' = tlsAlive
          /\ arrived' = arrived
      BY <2>2 DEF ReadData, ReadTurn
    <3>2. avail \in Nat \ {0} /\ tlsAlive \in BOOLEAN
      BY <1>1, <2>2 DEF TlsTypes
    <3> QED BY <3>1, <3>2, <1>1, ReadBytesKeeps
  <2>3. CASE inRx # RxSize /\ ~(avail > 0) /\ arrived # <<>>
    <3>1. /\ ReadBytes(Head(arrived), Smaller(Head(arrived), TlsPacketLength - partly))
          /\ arrived' = Tail(arrived) /\ tlsAlive' = tlsAlive
      BY <2>3 DEF ReadData, ReadTurn
    <3>2. Head(arrived) \in Nat \ {0} /\ Tail(arrived) \in Seq(Nat \ {0}) /\ tlsAlive \in BOOLEAN
      BY <1>1, <2>3, HeadTailProperties DEF TlsTypes
    <3> QED BY <3>1, <3>2, <1>1, ReadBytesKeeps
  <2>4. CASE inRx # RxSize /\ ~(avail > 0) /\ arrived = <<>>
    <3>1. avail = 0 /\ at' = "idle" /\ tlsAlive' = (tlsAlive /\ ~broken)
          /\ arrived' = arrived /\ avail' = avail /\ partly' = partly /\ inRx' = inRx
      BY <2>4 DEF ReadData, ReadTurn
    <3> QED BY <3>1, <1>1 DEF TlsTypes
  <2> QED BY <2>1, <2>2, <2>3, <2>4
<1>5. TlsTypes'
  BY <1>1, <1>2, <1>3, <1>4 DEF TlsTypes
<1>6. Arrivals' /\ Verified' /\ HandshakeFirst'
  BY <1>1, <1>2, <1>3, <1>4 DEF TlsSafe, Arrivals, Verified, Accepts, HandshakeFirst
<1>7. LoopsBusy'
  BY <1>4 DEF LoopsBusy
<1> QED BY <1>5, <1>6, <1>7 DEF TlsSafe

LEMMA TlsSafeStart == TlsInit => TlsSafe
<1> SUFFICES ASSUME TlsInit PROVE TlsSafe
  OBVIOUS
<1>1. TlsSetting /\ tls = [conf |-> Configured, state |-> 1] /\ tls.conf = Configured
  BY DEF TlsInit, TlsSetting, Configured
<1>2. Len(Flights[role]) \in Nat \ {0}
  BY <1>1, FlightsType DEF TlsSetting
<1>3. ~IsHandshakeComplete
  BY <1>1, <1>2 DEF IsHandshakeComplete
<1>4. /\ tlsWire = <<>> /\ tlsWire \in Seq(WireBytes) /\ DOMAIN tlsWire = {}
  BY EmptySeq DEF TlsInit
<1>5. TlsTypes
  <2>1. out \in 0..Outgoing /\ partly \in 0..(TlsPacketLength - 1)
    BY TlsSizes DEF TlsInit
  <2>2. tls \in [conf : {Configured}, state : Nat \ {0}]
    BY <1>1
  <2> QED BY <1>1, <1>4, <2>1, <2>2 DEF TlsInit, TlsTypes
<1> QED BY <1>1, <1>3, <1>4, <1>5 DEF TlsInit, TlsSafe, Arrivals, Verified, HandshakeFirst, LoopsBusy

LEMMA TlsSafeStep ==
    ASSUME TlsSafe, [TlsNext]_tlsVars
    PROVE  TlsSafe'
<1> DEFINE Same == /\ role' = role /\ ca' = ca /\ fails' = fails /\ trusted' = trusted
                   /\ tls' = tls /\ tlsWire' = tlsWire /\ out' = out /\ avail' = avail
                   /\ partly' = partly /\ partial' = partial
<1>1. ASSUME Same PROVE /\ Configured' = Configured /\ TlsSetting'
                        /\ IsHandshakeComplete' = IsHandshakeComplete /\ Verified'
  BY <1>1 DEF Configured, TlsSafe, TlsTypes, TlsSetting, IsHandshakeComplete, Verified, Accepts
<1>2. CASE TlsReadable
  <2>1. CASE ~IsHandshakeComplete
    BY <1>2, <2>1, HandshakeKeeps DEF TlsReadable
  <2>2. CASE IsHandshakeComplete
    <3>1. Reading
      BY <1>2, <2>2 DEF TlsReadable
    <3>2. Same /\ at' = "reading" /\ tlsAlive' = tlsAlive /\ broken' = broken /\ unread' = unread
          /\ arrived' = arrived /\ sent' = sent /\ inRx' = inRx /\ delivered' = delivered
      BY <3>1 DEF Reading, setting
    <3>3. TlsTypes' /\ Arrivals' /\ HandshakeFirst' /\ LoopsBusy'
      BY <1>1, <2>2, <3>2 DEF TlsSafe, TlsTypes, Arrivals, HandshakeFirst, LoopsBusy
    <3> QED BY <1>1, <3>2, <3>3 DEF TlsSafe
  <2> QED BY <2>1, <2>2
<1>3. CASE TlsWritable
  <2>1. CASE ~IsHandshakeComplete
    BY <1>3, <2>1, HandshakeKeeps DEF TlsWritable
  <2>2. CASE IsHandshakeComplete
    <3>1. Writing /\ out > 0 /\ at = "idle"
      BY <1>3, <2>2 DEF TlsWritable, TlsHasDataToTransmit
    <3>2. Same /\ at' = "writing" /\ tlsAlive' = tlsAlive /\ broken' = broken /\ unread' = unread
          /\ arrived' = arrived /\ sent' = sent /\ inRx' = inRx /\ delivered' = delivered
      BY <3>1 DEF Writing, setting
    <3>3. TlsTypes' /\ Arrivals' /\ HandshakeFirst' /\ LoopsBusy'
      BY <1>1, <2>2, <3>1, <3>2 DEF TlsSafe, TlsTypes, Arrivals, HandshakeFirst, LoopsBusy
    <3> QED BY <1>1, <3>2, <3>3 DEF TlsSafe
  <2> QED BY <2>1, <2>2
<1>4. CASE TlsGet
  <2>1. Same /\ at' = at /\ tlsAlive' = tlsAlive /\ broken' = broken /\ unread' = unread
        /\ arrived' = arrived /\ sent' = sent /\ inRx > 0 /\ inRx' = inRx - 1
        /\ delivered' = delivered + 1
    BY <1>4 DEF TlsGet, setting
  <2>2. IsHandshakeComplete
    BY <2>1 DEF TlsSafe, HandshakeFirst
  <2>3. TlsTypes' /\ Arrivals' /\ HandshakeFirst' /\ LoopsBusy'
    BY <1>1, <2>1, <2>2 DEF TlsSafe, TlsTypes, Arrivals, HandshakeFirst, LoopsBusy
  <2> QED BY <1>1, <2>1, <2>3 DEF TlsSafe
<1>5. CASE PeerSends
  <2>1. Same /\ at' = at /\ tlsAlive' = tlsAlive /\ broken' = broken /\ unread' = unread
        /\ inRx' = inRx /\ delivered' = delivered
    BY <1>5 DEF PeerSends, setting
  <2>2. sent' \in Nat /\ Arrivals'
    <3>1. CASE ~IsHandshakeComplete
      <4>1. sent' = sent /\ Flights[role][tls.state] = "recv"
            /\ \E x \in {"flight", "alert"} : arrived' = <<x>>
        BY <1>5, <3>1 DEF PeerSends
      <4> QED BY <4>1, <3>1, <2>1, <1>1 DEF TlsSafe, TlsTypes, Arrivals
    <3>2. CASE IsHandshakeComplete
      <4>1. sent < Len(Incoming) /\ arrived' = Append(arrived, Incoming[sent + 1]) /\ sent' = sent + 1
        BY <1>5, <3>2 DEF PeerSends
      <4>2. sent \in Nat /\ arrived \in Seq(Nat \ {0})
        BY <3>2 DEF TlsSafe, TlsTypes, Arrivals
      <4>3. Len(Incoming) \in Nat /\ \A i \in 1..Len(Incoming) : Incoming[i] \in Nat \ {0}
        BY TlsMessages, LenProperties, ElementOfSeq
      <4>4. Incoming[sent + 1] \in Nat \ {0}
        BY <4>1, <4>2, <4>3
      <4>5. arrived' \in Seq(Nat \ {0})
        BY <4>1, <4>2, <4>4
      <4> QED BY <4>1, <4>2, <4>5, <3>2, <2>1, <1>1 DEF Arrivals
    <3> QED BY <3>1, <3>2
  <2>3. TlsTypes' /\ HandshakeFirst' /\ LoopsBusy'
    BY <1>1, <2>1, <2>2 DEF TlsSafe, TlsTypes, HandshakeFirst, LoopsBusy
  <2> QED BY <1>1, <2>1, <2>2, <2>3 DEF TlsSafe
<1>6. ASSUME \/ PeerReads \/ Stop \/ Break \/ UNCHANGED tlsVars
      PROVE  TlsSafe'
  <2>1. /\ Same /\ at' = at /\ (tlsAlive' = tlsAlive \/ tlsAlive' = FALSE)
        /\ (broken' = broken \/ broken' = TRUE) /\ (unread' = unread \/ unread' = 0)
        /\ arrived' = arrived /\ sent' = sent /\ inRx' = inRx /\ delivered' = delivered
    BY <1>6 DEF PeerReads, Stop, Break, tlsVars, setting
  <2>2. TlsTypes'
    <3>1. unread' \in Nat /\ tlsAlive' \in BOOLEAN /\ broken' \in BOOLEAN
      <4>1. unread \in Nat /\ tlsAlive \in BOOLEAN /\ broken \in BOOLEAN
        BY DEF TlsSafe, TlsTypes
      <4>2. unread' \in Nat
        BY <2>1, <4>1
      <4> QED BY <2>1, <4>1, <4>2
    <3> QED BY <1>1, <2>1, <3>1 DEF TlsSafe, TlsTypes
  <2>3. Arrivals' /\ HandshakeFirst'
    BY <1>1, <2>1 DEF TlsSafe, Arrivals, HandshakeFirst
  <2>4. LoopsBusy'
    BY <2>1 DEF TlsSafe, LoopsBusy
  <2> QED BY <1>1, <2>1, <2>2, <2>3, <2>4 DEF TlsSafe
<1> QED BY <1>2, <1>3, <1>4, <1>5, <1>6, WriteKeeps, ReadKeeps DEF TlsNext

\* An accepted configuration is one in which nothing that it needs has failed.
LEMMA AcceptedMeansVerified ==
    ASSUME TlsTypes, Accepts(tls.conf)
    PROVE  /\ role = "client" /\ ca => trusted /\ fails \notin {"seed", "defaults", "ca"}
           /\ role = "server" => fails = "none"
<1>1. tls.conf = Configured /\ TlsSetting
  BY DEF TlsTypes
<1>2. CASE role = "client"
  <2>1. Accepts(InitClient(fails, ca))
    BY <1>1, <1>2 DEF Configured
  <2> QED BY <1>1, <1>2, <2>1 DEF Accepts, InitClient, CommonInit, Zeroed, TlsSetting
<1>3. CASE role = "server"
  <2>1. Accepts(InitServer(fails))
    BY <1>1, <1>3 DEF Configured
  <2> QED BY <1>1, <1>3, <2>1 DEF Accepts, InitServer, CommonInit, Zeroed, TlsSetting
<1> QED BY <1>1, <1>2, <1>3 DEF TlsSetting

\* Application data goes to a verified peer, or to one that the application did
\* not ask to have verified, whatever fails in MBedTLSContext::init_client() and
\* init_server(), for any handshake and any sizes.
THEOREM OnlyVerifiedPeersHolds == TlsSpec => []OnlyVerifiedPeers
<1>1. TlsInit => TlsSafe
  BY TlsSafeStart
<1>2. TlsSafe /\ [TlsNext]_tlsVars => TlsSafe'
  BY TlsSafeStep
<1>3. TlsSafe => OnlyVerifiedPeers
  <2> SUFFICES ASSUME TlsSafe, AppData # {} \/ delivered > 0
               PROVE  /\ role = "client" /\ ca => trusted /\ fails \notin {"seed", "defaults", "ca"}
                      /\ role = "server" => fails = "none"
    BY DEF OnlyVerifiedPeers
  <2>1. IsHandshakeComplete
    BY DEF TlsSafe, HandshakeFirst, AppData
  <2> QED BY <2>1, AcceptedMeansVerified DEF TlsSafe, Verified
<1> QED BY <1>1, <1>2, <1>3, PTL DEF TlsSpec

-----------------------------------------------------------------------------
(* Records.                                                                  *)

\* As long as no send() took a part of a record, the wire holds whole records:
\* those of the flights before the current one, and those of the packets that
\* are no longer to be sent.
TlsRecords ==
    ~partial =>
        /\ Len(tlsWire) % RecordLength = 0
        /\ \A i \in DOMAIN tlsWire : tlsWire[i][2] = ((i - 1) % RecordLength) + 1
        /\ \A i \in DOMAIN tlsWire :
              \/ tlsWire[i][1] < 0 /\ -(tlsWire[i][1]) < tls.state
              \/ tlsWire[i][1] > out
        /\ \A i, k \in DOMAIN tlsWire : tlsWire[i] = tlsWire[k] => i = k
        /\ IsFiniteSet(AppData) /\ Cardinality(AppData) = RecordLength * (Outgoing - out)

LEMMA MultipleModulus ==
    ASSUME NEW q \in Nat, NEW d \in Nat \ {0}
    PROVE  (d * q) % d = 0
OBVIOUS

LEMMA RecordModulus ==
    ASSUME NEW n \in Nat, n % RecordLength = 0
    PROVE  /\ (n + RecordLength) % RecordLength = 0
           /\ \A j \in 1..RecordLength : ((n + j) - 1) % RecordLength = j - 1
<1>1. RecordLength \in Nat \ {0}
  BY TlsSizes
<1>2. (n + RecordLength) % RecordLength = 0
  <2>1. n = RecordLength * (n \div RecordLength) + (n % RecordLength)
    BY <1>1
  <2>2. PICK q \in Nat : q = n \div RecordLength
    BY <1>1
  <2>3. n + RecordLength = RecordLength * (q + 1) /\ q + 1 \in Nat
    BY <1>1, <2>1, <2>2
  <2>4. (RecordLength * (q + 1)) % RecordLength = 0
    BY <1>1, <2>3, MultipleModulus
  <2> QED BY <2>3, <2>4
<1>3. ASSUME NEW j \in 1..RecordLength PROVE ((n + j) - 1) % RecordLength = j - 1
  BY <1>1
<1> QED BY <1>2, <1>3

\* A whole record of a new id.
LEMMA WholeRecord ==
    ASSUME TlsTypes, TlsRecords, ~partial, NEW id \in Int, SslSend(id, RecordLength),
           \A i \in DOMAIN tlsWire : tlsWire[i][1] # id
    PROVE  /\ Len(tlsWire') % RecordLength = 0
           /\ \A i \in DOMAIN tlsWire' : tlsWire'[i][2] = ((i - 1) % RecordLength) + 1
           /\ \A i \in DOMAIN tlsWire' :
                 tlsWire'[i][1] = id \/ (i \in DOMAIN tlsWire /\ tlsWire'[i] = tlsWire[i])
           /\ \A i, k \in DOMAIN tlsWire' : tlsWire'[i] = tlsWire'[k] => i = k
           /\ IsFiniteSet(AppData') /\ Cardinality(AppData) \in Nat
           /\ Cardinality(AppData') = Cardinality(AppData) + (IF id > 0 THEN RecordLength ELSE 0)
<1>1. RecordLength \in Nat \ {0} /\ RecordLength \in 0..RecordLength
  BY TlsSizes
<1>2. /\ tlsWire' \in Seq(WireBytes) /\ Len(tlsWire') = Len(tlsWire) + RecordLength
      /\ \A i \in 1..Len(tlsWire) : tlsWire'[i] = tlsWire[i]
      /\ \A j \in 1..RecordLength : tlsWire'[Len(tlsWire) + j] = <<id, j>>
      /\ \A i \in 1..Len(tlsWire') :
            i \in 1..Len(tlsWire) \/ \E j \in 1..RecordLength : i = Len(tlsWire) + j
  BY <1>1, SslSendWire
<1>3. PICK l \in Nat : l = Len(tlsWire)
  BY LenProperties DEF TlsTypes
<1>4. /\ DOMAIN tlsWire = 1..l /\ DOMAIN tlsWire' = 1..(l + RecordLength)
      /\ tlsWire \in Seq(WireBytes)
  BY <1>2, <1>3, LenProperties DEF TlsTypes
<1>5. /\ l % RecordLength = 0
      /\ \A i \in 1..l : tlsWire[i][2] = ((i - 1) % RecordLength) + 1
      /\ \A i, k \in 1..l : tlsWire[i] = tlsWire[k] => i = k
      /\ IsFiniteSet(AppData)
  BY <1>3, <1>4 DEF TlsRecords
<1>6. /\ (l + RecordLength) % RecordLength = 0
      /\ \A j \in 1..RecordLength : ((l + j) - 1) % RecordLength = j - 1
  BY <1>5, RecordModulus
<1>7. ASSUME NEW i \in 1..(l + RecordLength)
      PROVE  \/ i \in 1..l /\ tlsWire'[i] = tlsWire[i] /\ tlsWire'[i][1] # id
             \/ \E j \in 1..RecordLength : i = l + j /\ tlsWire'[i] = <<id, j>>
  <2>1. CASE i \in 1..l
    BY <2>1, <1>2, <1>3, <1>4
  <2>2. CASE i \notin 1..l
    <3>1. PICK j \in 1..RecordLength : i = l + j
      BY <2>2, <1>1, <1>2, <1>3
    <3>2. tlsWire'[l + j] = <<id, j>>
      BY <1>2, <1>3
    <3> QED BY <3>1, <3>2
  <2> QED BY <2>1, <2>2
<1>8. ASSUME NEW i \in 1..(l + RecordLength)
      PROVE  tlsWire'[i][2] = ((i - 1) % RecordLength) + 1
  <2>1. CASE i \in 1..l
    BY <2>1, <1>2, <1>3, <1>5
  <2>2. CASE i \notin 1..l
    <3>1. PICK j \in 1..RecordLength : i = l + j /\ tlsWire'[i] = <<id, j>>
      BY <1>7, <2>2
    <3>2. tlsWire'[i][2] = j
      BY <3>1
    <3>3. ((l + j) - 1) % RecordLength = j - 1
      BY <1>6
    <3>4. (j - 1) + 1 = j
      OBVIOUS
    <3> QED BY <3>1, <3>2, <3>3, <3>4
  <2> QED BY <2>1, <2>2
<1>9. ASSUME NEW i \in 1..(l + RecordLength), NEW k \in 1..(l + RecordLength),
             tlsWire'[i] = tlsWire'[k]
      PROVE  i = k
  <2>1. CASE i \in 1..l /\ k \in 1..l
    BY <2>1, <1>9, <1>2, <1>3, <1>5
  <2>2. CASE i \notin 1..l
    <3>1. PICK j \in 1..RecordLength : i = l + j /\ tlsWire'[i] = <<id, j>>
      BY <1>7, <2>2
    <3>2. tlsWire'[k] = <<id, j>> /\ tlsWire'[k][1] = id
      BY <3>1, <1>9
    <3>3. PICK h \in 1..RecordLength : k = l + h /\ tlsWire'[k] = <<id, h>>
      BY <1>7, <3>2
    <3>4. h = j
      BY <3>2, <3>3
    <3> QED BY <3>1, <3>3, <3>4
  <2>3. CASE k \notin 1..l
    <3>1. PICK j \in 1..RecordLength : k = l + j /\ tlsWire'[k] = <<id, j>>
      BY <1>7, <2>3
    <3>2. tlsWire'[i] = <<id, j>> /\ tlsWire'[i][1] = id
      BY <3>1, <1>9
    <3>3. PICK h \in 1..RecordLength : i = l + h /\ tlsWire'[i] = <<id, h>>
      BY <1>7, <3>2
    <3>4. h = j
      BY <3>2, <3>3
    <3> QED BY <3>1, <3>3, <3>4
  <2> QED BY <2>1, <2>2, <2>3
<1>10. ASSUME NEW i \in 1..(l + RecordLength)
       PROVE  tlsWire'[i][1] = id \/ (i \in 1..l /\ tlsWire'[i] = tlsWire[i])
  BY <1>7
<1>11. AppData' = AppData \cup (IF id > 0 THEN (l + 1)..(l + RecordLength) ELSE {})
  <2>1. ASSUME NEW i \in 1..l
        PROVE  /\ i \in AppData' <=> i \in AppData
               /\ i \notin (l + 1)..(l + RecordLength) /\ i \in 1..(l + RecordLength)
    BY <1>1, <1>2, <1>3, <1>4 DEF AppData
  <2>2. ASSUME NEW i \in (l + 1)..(l + RecordLength)
        PROVE  /\ i \in AppData' <=> id > 0
               /\ i \notin AppData
    <3>1. i \in 1..(l + RecordLength) /\ i \notin 1..l
      BY <1>1
    <3>2. PICK j \in 1..RecordLength : i = l + j /\ tlsWire'[i] = <<id, j>>
      BY <3>1, <1>7
    <3>3. tlsWire'[i][1] = id
      BY <3>2
    <3> QED BY <3>1, <3>3, <1>4 DEF AppData
  <2>3. \A i \in 1..(l + RecordLength) : i \in 1..l \/ i \in (l + 1)..(l + RecordLength)
    BY <1>1
  <2>4. AppData \subseteq 1..l /\ AppData' \subseteq 1..(l + RecordLength)
    BY <1>4 DEF AppData
  <2>5. CASE id > 0
    BY <2>1, <2>2, <2>3, <2>4, <2>5
  <2>6. CASE ~(id > 0)
    BY <2>1, <2>2, <2>3, <2>4, <2>6
  <2> QED BY <2>5, <2>6
<1>12. /\ IsFiniteSet(AppData') /\ Cardinality(AppData) \in Nat
       /\ Cardinality(AppData') = Cardinality(AppData) + (IF id > 0 THEN RecordLength ELSE 0)
  <2>1. Cardinality(AppData) \in Nat
    BY <1>5, FS_CardinalityType
  <2>2. CASE id > 0
    <3> DEFINE A == AppData
               B == (l + 1)..(l + RecordLength)
    <3>1. IsFiniteSet(B) /\ Cardinality(B) = RecordLength
      <4>1. /\ l + 1 \in Int /\ l + RecordLength \in Int /\ l + 1 <= l + RecordLength
            /\ (l + RecordLength) - (l + 1) + 1 = RecordLength
        BY <1>1
      <4> QED BY <4>1, FS_Interval
    <3>2. A \cap B = {}
      <4>1. A \subseteq 1..l /\ \A i \in B : i \notin 1..l
        BY <1>1, <1>4 DEF AppData
      <4> QED BY <4>1
    <3>3. AppData' = A \cup B /\ IsFiniteSet(A)
      BY <2>2, <1>5, <1>11
    <3> HIDE DEF A, B
    <3>4. /\ IsFiniteSet(A \cup B)
          /\ Cardinality(A \cup B) = Cardinality(A) + Cardinality(B) - Cardinality(A \cap B)
      BY <3>1, <3>3, FS_Union
    <3>5. Cardinality(A \cap B) = 0
      BY <3>2, FS_EmptySet
    <3>6. Cardinality(A) \in Nat
      BY <3>3, FS_CardinalityType
    <3>7. Cardinality(A \cup B) = Cardinality(A) + RecordLength
      BY <3>1, <3>4, <3>5, <3>6, <1>1
    <3> QED BY <3>3, <3>4, <3>6, <3>7, <2>2 DEF A
  <2>3. CASE ~(id > 0)
    BY <2>1, <2>3, <1>5, <1>11
  <2> QED BY <2>2, <2>3
<1> QED BY <1>2, <1>3, <1>4, <1>6, <1>8, <1>9, <1>10, <1>12

\* A send() that takes nothing leaves the wire as it is, one that takes a part
\* of the record is remembered.
LEMMA NoRecord ==
    ASSUME TlsTypes, NEW id \in Int, NEW n \in 0..RecordLength, SslSend(id, n), n # RecordLength
    PROVE  partial' \/ (partial' = partial /\ tlsWire' = tlsWire)
<1>1. n \in Nat /\ RecordLength \in Nat /\ n < RecordLength /\ partial \in BOOLEAN
  BY TlsSizes DEF TlsTypes
<1>2. CASE n > 0
  BY <1>1, <1>2 DEF SslSend
<1>3. CASE n = 0
  <2>1. SubSeq(Record(id), 1, n) = <<>>
    BY <1>3, SubSeqEmpty
  <2>2. tlsWire \o <<>> = tlsWire
    BY ConcatEmptySeq DEF TlsTypes
  <2>3. tlsWire' = tlsWire
    BY <2>1, <2>2 DEF SslSend
  <2>4. partial' = partial
    BY <1>1, <1>3 DEF SslSend
  <2> QED BY <2>3, <2>4
<1> QED BY <1>1, <1>2, <1>3

LEMMA RecordsKept ==
    ASSUME TlsTypes, TlsRecords, partial' = partial, tlsWire' = tlsWire, out' = out,
           tls'.state \in Nat, tls'.state >= tls.state
    PROVE  TlsRecords'
<1>1. SUFFICES ASSUME ~partial PROVE TlsRecords'
  BY DEF TlsRecords
<1>2. AppData' = AppData
  BY DEF AppData
<1>3. ASSUME NEW i \in DOMAIN tlsWire
      PROVE  \/ tlsWire[i][1] < 0 /\ -(tlsWire[i][1]) < tls'.state
             \/ tlsWire[i][1] > out
  <2>1. tlsWire[i][1] \in Int
    BY DEF TlsTypes, WireBytes
  <2>2. tls.state \in Nat
    BY DEF TlsTypes
  <2>3. \/ tlsWire[i][1] < 0 /\ -(tlsWire[i][1]) < tls.state
        \/ tlsWire[i][1] > out
    BY <1>1 DEF TlsRecords
  <2> QED BY <2>1, <2>2, <2>3
<1> QED BY <1>1, <1>2, <1>3 DEF TlsRecords

LEMMA HandshakeRecords ==
    ASSUME TlsSafe, TlsRecords, DoHandshakeStep
    PROVE  TlsRecords'
<1>1. TlsTypes /\ tls.state \in Nat \ {0} /\ out \in Nat /\ out' = out
  BY TlsSizes DEF TlsSafe, TlsTypes, DoHandshakeStep
<1>2. CASE HandshakeRefused
  BY <1>1, <1>2, RecordsKept DEF HandshakeRefused
<1>3. CASE HandshakeReceive
  <2>1. partial' = partial /\ tlsWire' = tlsWire
        /\ (tls' = tls \/ tls' = [tls EXCEPT !.state = @ + 1])
    BY <1>3 DEF HandshakeReceive
  <2>2. tls'.state \in Nat /\ tls'.state >= tls.state
    BY <1>1, <2>1 DEF TlsTypes
  <2> QED BY <1>1, <2>1, <2>2, RecordsKept
<1>4. CASE HandshakeSend
  <2>1. CASE SslFails /\ UNCHANGED tls
    BY <1>1, <2>1, RecordsKept DEF SslFails
  <2>2. CASE ~(SslFails /\ UNCHANGED tls)
    <3>1. PICK n \in 0..RecordLength :
             /\ SslSend(-(tls.state), n)
             /\ tls' = IF n = RecordLength THEN [tls EXCEPT !.state = @ + 1] ELSE tls
      BY <1>4, <2>2 DEF HandshakeSend
    <3>2. PICK id \in Int : id = -(tls.state) /\ id < 0
      BY <1>1
    <3>3. CASE n # RecordLength
      <4>1. partial' \/ (partial' = partial /\ tlsWire' = tlsWire)
        BY <1>1, <3>1, <3>2, <3>3, NoRecord
      <4>2. tls' = tls
        BY <3>1, <3>3
      <4>3. CASE partial'
        BY <4>3 DEF TlsRecords
      <4> QED BY <1>1, <4>1, <4>2, <4>3, RecordsKept
    <3>4. CASE n = RecordLength
      <4>1. tls'.state = tls.state + 1
        BY <3>1, <3>4 DEF TlsSafe, TlsTypes
      <4>2. SUFFICES ASSUME ~partial' PROVE TlsRecords'
        BY DEF TlsRecords
      <4>3. ~partial
        BY <3>1, <4>2 DEF SslSend
      <4>4. ASSUME NEW i \in DOMAIN tlsWire
            PROVE  /\ \/ tlsWire[i][1] < 0 /\ -(tlsWire[i][1]) < tls.state
                      \/ tlsWire[i][1] > out
                   /\ tlsWire[i][1] \in Int /\ tlsWire[i][1] # id
        <5>1. tlsWire[i][1] \in Int
          BY DEF TlsSafe, TlsTypes, WireBytes
        <5>2. \/ tlsWire[i][1] < 0 /\ -(tlsWire[i][1]) < tls.state
              \/ tlsWire[i][1] > out
          BY <4>3 DEF TlsRecords
        <5> QED BY <5>1, <5>2, <3>2, <1>1
      <4>5. /\ Len(tlsWire') % RecordLength = 0
            /\ \A i \in DOMAIN tlsWire' : tlsWire'[i][2] = ((i - 1) % RecordLength) + 1
            /\ \A i \in DOMAIN tlsWire' :
                  tlsWire'[i][1] = id \/ (i \in DOMAIN tlsWire /\ tlsWire'[i] = tlsWire[i])
            /\ \A i, k \in DOMAIN tlsWire' : tlsWire'[i] = tlsWire'[k] => i = k
            /\ IsFiniteSet(AppData') /\ Cardinality(AppData) \in Nat
            /\ Cardinality(AppData') = Cardinality(AppData) + (IF id > 0 THEN RecordLength ELSE 0)
        BY <1>1, <3>1, <3>2, <3>4, <4>3, <4>4, WholeRecord
      <4>6. Cardinality(AppData') = RecordLength * (Outgoing - out')
        <5>1. Cardinality(AppData') = Cardinality(AppData)
          BY <4>5, <3>2
        <5> QED BY <5>1, <4>3, <1>1 DEF TlsRecords
      <4>7. ASSUME NEW i \in DOMAIN tlsWire'
            PROVE  \/ tlsWire'[i][1] < 0 /\ -(tlsWire'[i][1]) < tls'.state
                   \/ tlsWire'[i][1] > out'
        <5>1. CASE tlsWire'[i][1] = id
          BY <5>1, <3>2, <4>1, <1>1
        <5>2. CASE i \in DOMAIN tlsWire /\ tlsWire'[i] = tlsWire[i]
          <6>1. PICK x \in Int : x = tlsWire[i][1] /\ x = tlsWire'[i][1]
            BY <5>2, <4>4
          <6>2. (x < 0 /\ -x < tls.state) \/ x > out
            BY <5>2, <6>1, <4>4
          <6>3. (x < 0 /\ -x < tls.state + 1) \/ x > out
            BY <6>2, <1>1
          <6> QED BY <6>1, <6>3, <4>1, <1>1
        <5> QED BY <5>1, <5>2, <4>5
      <4> QED BY <4>5, <4>6, <4>7 DEF TlsRecords
    <3> QED BY <3>3, <3>4
  <2> QED BY <2>1, <2>2
<1> QED BY <1>2, <1>3, <1>4 DEF DoHandshakeStep

LEMMA WriteRecords ==
    ASSUME TlsSafe, TlsRecords, TlsWriteData
    PROVE  TlsRecords'
<1>1. /\ TlsTypes /\ tls.state \in Nat \ {0} /\ out \in Nat \ {0} /\ tls' = tls
      /\ Outgoing \in Nat /\ RecordLength \in Nat \ {0} /\ out <= Outgoing
  BY TlsSizes DEF TlsSafe, TlsTypes, LoopsBusy, TlsWriteData
<1>2. CASE broken
  BY <1>1, <1>2, RecordsKept DEF TlsWriteData, SslFails
<1>3. CASE ~broken
  <2>1. PICK n \in 0..RecordLength :
           /\ SslSend(out, n)
           /\ IF n = RecordLength THEN at' = "idle" /\ out' = out - 1 ELSE UNCHANGED <<at, out>>
    BY <1>3 DEF TlsWriteData
  <2>2. CASE n # RecordLength
    <3>1. partial' \/ (partial' = partial /\ tlsWire' = tlsWire)
      BY <1>1, <2>1, <2>2, NoRecord
    <3>2. out' = out
      BY <2>1, <2>2
    <3>3. CASE partial'
      BY <3>3 DEF TlsRecords
    <3> QED BY <1>1, <3>1, <3>2, <3>3, RecordsKept
  <2>3. CASE n = RecordLength
    <3>1. out' = out - 1
      BY <2>1, <2>3
    <3>2. SUFFICES ASSUME ~partial' PROVE TlsRecords'
      BY DEF TlsRecords
    <3>3. ~partial
      BY <2>1, <3>2 DEF SslSend
    <3>4. ASSUME NEW i \in DOMAIN tlsWire
          PROVE  /\ \/ tlsWire[i][1] < 0 /\ -(tlsWire[i][1]) < tls.state
                    \/ tlsWire[i][1] > out
                 /\ tlsWire[i][1] \in Int /\ tlsWire[i][1] # out
      <4>1. tlsWire[i][1] \in Int
        BY DEF TlsSafe, TlsTypes, WireBytes
      <4>2. \/ tlsWire[i][1] < 0 /\ -(tlsWire[i][1]) < tls.state
            \/ tlsWire[i][1] > out
        BY <3>3 DEF TlsRecords
      <4> QED BY <4>1, <4>2, <1>1
    <3>5. /\ Len(tlsWire') % RecordLength = 0
          /\ \A i \in DOMAIN tlsWire' : tlsWire'[i][2] = ((i - 1) % RecordLength) + 1
          /\ \A i \in DOMAIN tlsWire' :
                tlsWire'[i][1] = out \/ (i \in DOMAIN tlsWire /\ tlsWire'[i] = tlsWire[i])
          /\ \A i, k \in DOMAIN tlsWire' : tlsWire'[i] = tlsWire'[k] => i = k
          /\ IsFiniteSet(AppData') /\ Cardinality(AppData) \in Nat
          /\ Cardinality(AppData') = Cardinality(AppData) + (IF out > 0 THEN RecordLength ELSE 0)
      BY <1>1, <2>1, <2>3, <3>3, <3>4, WholeRecord
    <3>6. Cardinality(AppData') = RecordLength * (Outgoing - out')
      <4>1. Cardinality(AppData) = RecordLength * (Outgoing - out)
        BY <3>3 DEF TlsRecords
      <4>2. Cardinality(AppData') = Cardinality(AppData) + RecordLength
        BY <3>5, <1>1
      <4>3. RecordLength * (Outgoing - out) + RecordLength = RecordLength * (Outgoing - (out - 1))
        BY <1>1
      <4> QED BY <4>1, <4>2, <4>3, <3>1
    <3>7. ASSUME NEW i \in DOMAIN tlsWire'
          PROVE  \/ tlsWire'[i][1] < 0 /\ -(tlsWire'[i][1]) < tls'.state
                 \/ tlsWire'[i][1] > out'
      <4>1. CASE tlsWire'[i][1] = out
        BY <4>1, <3>1, <1>1
      <4>2. CASE i \in DOMAIN tlsWire /\ tlsWire'[i] = tlsWire[i]
        <5>1. PICK x \in Int : x = tlsWire[i][1] /\ x = tlsWire'[i][1]
          BY <4>2, <3>4
        <5>2. (x < 0 /\ -x < tls.state) \/ x > out
          BY <4>2, <5>1, <3>4
        <5>3. (x < 0 /\ -x < tls.state) \/ x > out - 1
          BY <5>2, <1>1
        <5> QED BY <5>1, <5>3, <3>1, <1>1
      <4> QED BY <4>1, <4>2, <3>5
    <3> QED BY <3>5, <3>6, <3>7 DEF TlsRecords
  <2> QED BY <2>2, <2>3
<1> QED BY <1>2, <1>3

LEMMA TlsRecordsStart == TlsInit => TlsRecords
<1> SUFFICES ASSUME TlsInit PROVE TlsRecords
  OBVIOUS
<1>1. tlsWire = <<>> /\ Len(tlsWire) = 0 /\ DOMAIN tlsWire = {} /\ out = Outgoing
  BY DEF TlsInit
<1>2. AppData = {}
  BY <1>1 DEF AppData
<1>3. IsFiniteSet({}) /\ Cardinality({}) = 0
  BY FS_EmptySet
<1>4. RecordLength * (Outgoing - Outgoing) = 0 /\ 0 % RecordLength = 0
  BY TlsSizes
<1> QED BY <1>1, <1>2, <1>3, <1>4 DEF TlsRecords

LEMMA TlsRecordsStep ==
    ASSUME TlsSafe, TlsRecords, [TlsNext]_tlsVars
    PROVE  TlsRecords'
<1>1. TlsTypes /\ tls.state \in Nat
  BY DEF TlsSafe, TlsTypes
<1>2. ASSUME partial' = partial, tlsWire' = tlsWire, out' = out, tls' = tls
      PROVE  TlsRecords'
  BY <1>1, <1>2, RecordsKept
<1>3. CASE TlsReadable
  BY <1>2, <1>3, HandshakeRecords DEF TlsReadable, Reading
<1>4. CASE TlsWritable
  BY <1>2, <1>4, HandshakeRecords DEF TlsWritable, Writing
<1>5. CASE TlsWriteData
  BY <1>5, WriteRecords
<1>6. CASE ReadData
  BY <1>2, <1>6 DEF ReadData
<1>7. CASE TlsGet \/ PeerReads \/ PeerSends \/ Stop \/ Break \/ UNCHANGED tlsVars
  BY <1>2, <1>7 DEF TlsGet, PeerReads, PeerSends, Stop, Break, tlsVars
<1> QED BY <1>3, <1>4, <1>5, <1>6, <1>7 DEF TlsNext

-----------------------------------------------------------------------------
(* Records of which send() took parts.                                       *)

\* The record that is being sent, and those that have been.
Now == IF IsHandshakeComplete THEN out ELSE -(tls.state)
Done(id) == (id < 0 /\ -id < tls.state) \/ id > out

\* The first three parts of RecordsFinished, which are about the wire alone.
Linked ==
    /\ \A i \in DOMAIN tlsWire : tlsWire[i][2] > 1 =>
         i > 1 /\ tlsWire[i - 1] = <<tlsWire[i][1], tlsWire[i][2] - 1>>
    /\ \A i \in DOMAIN tlsWire : tlsWire[i][2] = 1 /\ i > 1 =>
         (tlsWire[i - 1][1] = tlsWire[i][1] <=> tlsWire[i - 1][2] # RecordLength)
    /\ \A i, k \in DOMAIN tlsWire :
         tlsWire[i][2] = RecordLength /\ tlsWire[k] = tlsWire[i] => i = k

\* The last byte is in the middle of a record: it is the one being sent.
Unfinished == tlsWire # <<>> /\ tlsWire[Len(tlsWire)][2] # RecordLength
Pending ==
    Unfinished => /\ tlsWire[Len(tlsWire)][1] = Now
                  /\ ~IsHandshakeComplete => Flights[role][tls.state] = "send"

Chain ==
    /\ Linked /\ Pending
    /\ \A i \in DOMAIN tlsWire : tlsWire[i][2] = RecordLength => Done(tlsWire[i][1])
    /\ \A id \in 1..Outgoing :
         id > out => \E i \in DOMAIN tlsWire : tlsWire[i] = <<id, RecordLength>>

\* A record is sent, as a whole or in part, that has not been finished, behind
\* a finished one or behind a part of itself.
LEMMA LinkedSend ==
    ASSUME TlsTypes, Linked, NEW id \in Int, NEW n \in 0..RecordLength, SslSend(id, n),
           tlsWire # <<>> => (tlsWire[Len(tlsWire)][1] = id <=> tlsWire[Len(tlsWire)][2] # RecordLength),
           \A i \in DOMAIN tlsWire : tlsWire[i][2] = RecordLength => tlsWire[i][1] # id
    PROVE  Linked'
<1>1. /\ tlsWire' \in Seq(WireBytes) /\ Len(tlsWire') = Len(tlsWire) + n
      /\ \A i \in 1..Len(tlsWire) : tlsWire'[i] = tlsWire[i]
      /\ \A j \in 1..n : tlsWire'[Len(tlsWire) + j] = <<id, j>>
      /\ \A i \in 1..Len(tlsWire') :
            i \in 1..Len(tlsWire) \/ \E j \in 1..n : i = Len(tlsWire) + j
  BY SslSendWire
<1>2. /\ tlsWire \in Seq(WireBytes) /\ RecordLength \in Nat \ {0} /\ n \in Nat /\ n <= RecordLength
  BY TlsSizes DEF TlsTypes
<1>3. PICK l \in Nat : l = Len(tlsWire)
  BY <1>2, LenProperties
<1>4. PICK w, v : w = tlsWire /\ v = tlsWire'
  OBVIOUS
<1>5. DOMAIN w = 1..l /\ DOMAIN v = 1..(l + n) /\ (w # <<>> => l \in 1..l)
  BY <1>1, <1>2, <1>3, <1>4, LenProperties, EmptySeq
<1>6. /\ \A i \in 1..l : v[i] = w[i]
      /\ \A j \in 1..n : v[l + j] = <<id, j>> /\ v[l + j][1] = id /\ v[l + j][2] = j
      /\ \A i \in 1..(l + n) : i \in 1..l \/ \E j \in 1..n : i = l + j
  <2>1. \A i \in 1..l : v[i] = w[i]
    BY <1>1, <1>3, <1>4
  <2>2. \A j \in 1..n : v[l + j] = <<id, j>>
    BY <1>1, <1>3, <1>4
  <2>3. \A i \in 1..(l + n) : i \in 1..l \/ \E j \in 1..n : i = l + j
    BY <1>2, <1>3
  <2>4. ASSUME NEW j \in 1..n PROVE v[l + j][1] = id /\ v[l + j][2] = j
    <3>1. PICK b : b = v[l + j] /\ b = <<id, j>>
      BY <2>2
    <3> QED BY <3>1
  <2> QED BY <2>1, <2>2, <2>3, <2>4
<1>7. /\ \A i \in 1..l : w[i][2] > 1 => i > 1 /\ w[i - 1] = <<w[i][1], w[i][2] - 1>>
      /\ \A i \in 1..l : w[i][2] = 1 /\ i > 1 => (w[i - 1][1] = w[i][1] <=> w[i - 1][2] # RecordLength)
      /\ \A i, k \in 1..l : w[i][2] = RecordLength /\ w[k] = w[i] => i = k
      /\ \A i \in 1..l : w[i][2] = RecordLength => w[i][1] # id
      /\ l > 0 => (w[l][1] = id <=> w[l][2] # RecordLength)
  <2>1. l > 0 => tlsWire # <<>>
    BY <1>3, <1>2, EmptySeq
  <2> QED BY <1>3, <1>4, <1>5, <2>1 DEF Linked
<1>8. ASSUME NEW i \in 1..(l + n), v[i][2] > 1
      PROVE  i > 1 /\ v[i - 1] = <<v[i][1], v[i][2] - 1>>
  <2>1. CASE i \in 1..l
    <3>1. w[i] = v[i] /\ i > 1 /\ w[i - 1] = <<w[i][1], w[i][2] - 1>>
      BY <1>6, <1>7, <1>8, <2>1
    <3>2. i - 1 \in 1..l
      BY <2>1, <3>1
    <3> QED BY <1>6, <3>1, <3>2
  <2>2. CASE i \notin 1..l
    <3>1. PICK j \in 1..n : i = l + j
      BY <1>6, <2>2
    <3>2. v[i] = <<id, j>> /\ v[i][1] = id /\ v[i][2] = j
      BY <1>6, <3>1
    <3>3. j - 1 \in 1..n /\ i - 1 = l + (j - 1) /\ i > 1
      BY <1>2, <1>8, <3>1, <3>2
    <3> QED BY <1>6, <3>2, <3>3
  <2> QED BY <2>1, <2>2
<1>9. ASSUME NEW i \in 1..(l + n), v[i][2] = 1, i > 1
      PROVE  v[i - 1][1] = v[i][1] <=> v[i - 1][2] # RecordLength
  <2>1. CASE i \in 1..l
    <3>1. i - 1 \in 1..l /\ v[i] = w[i] /\ v[i - 1] = w[i - 1]
      BY <1>6, <1>9, <2>1
    <3> QED BY <1>7, <1>9, <2>1, <3>1
  <2>2. CASE i \notin 1..l
    <3>1. PICK j \in 1..n : i = l + j
      BY <1>6, <2>2
    <3>2. v[i][1] = id /\ v[i][2] = j
      BY <1>6, <3>1
    <3>3. i - 1 = l /\ l > 0 /\ l \in 1..l
      BY <1>2, <1>9, <3>1, <3>2
    <3> QED BY <1>6, <1>7, <3>2, <3>3
  <2> QED BY <2>1, <2>2
<1>10. ASSUME NEW i \in 1..(l + n), NEW k \in 1..(l + n), v[i][2] = RecordLength, v[k] = v[i]
       PROVE  i = k
  <2>1. CASE i \in 1..l /\ k \in 1..l
    BY <1>6, <1>7, <1>10, <2>1
  <2>2. ASSUME NEW a \in 1..l, NEW b \in 1..(l + n), b \notin 1..l, v[a][2] = RecordLength, v[a] = v[b]
        PROVE  FALSE
    <3>1. v[b][1] = id
      <4>1. PICK j \in 1..n : b = l + j
        BY <1>6, <2>2
      <4> QED BY <1>6, <4>1
    <3>2. w[a] = v[a]
      BY <1>6
    <3>3. w[a][2] = RecordLength /\ w[a][1] = id
      BY <2>2, <3>1, <3>2
    <3> QED BY <1>7, <3>3
  <2>3. CASE i \notin 1..l /\ k \notin 1..l
    <3>1. PICK j \in 1..n, h \in 1..n : i = l + j /\ k = l + h
      BY <1>6, <2>3
    <3>2. v[i][2] = j /\ v[k][2] = h
      BY <1>6, <3>1
    <3> QED BY <1>10, <3>1, <3>2
  <2> QED BY <1>10, <2>1, <2>2, <2>3
<1> QED BY <1>4, <1>5, <1>8, <1>9, <1>10 DEF Linked

\* A record is sent: the one that Now names, which is not done.
LEMMA ChainSend ==
    ASSUME TlsTypes, Chain, NEW id \in Int, NEW n \in 0..RecordLength, SslSend(id, n),
           id = Now, ~Done(id)
    PROVE  /\ Linked'
           /\ n = 0 => tlsWire' = tlsWire
           /\ n > 0 => tlsWire' # <<>> /\ tlsWire'[Len(tlsWire')] = <<id, n>>
           /\ \A i \in DOMAIN tlsWire : i \in DOMAIN tlsWire' /\ tlsWire'[i] = tlsWire[i]
           /\ \A i \in DOMAIN tlsWire' : tlsWire'[i][2] = RecordLength =>
                (i \in DOMAIN tlsWire /\ tlsWire'[i] = tlsWire[i]) \/ (n = RecordLength /\ tlsWire'[i][1] = id)
           /\ n = RecordLength => \E i \in DOMAIN tlsWire' : tlsWire'[i] = <<id, RecordLength>>
<1>1. /\ tlsWire' \in Seq(WireBytes) /\ Len(tlsWire') = Len(tlsWire) + n
      /\ \A i \in 1..Len(tlsWire) : tlsWire'[i] = tlsWire[i]
      /\ \A j \in 1..n : tlsWire'[Len(tlsWire) + j] = <<id, j>>
      /\ \A i \in 1..Len(tlsWire') :
            i \in 1..Len(tlsWire) \/ \E j \in 1..n : i = Len(tlsWire) + j
  BY SslSendWire
<1>2. /\ tlsWire \in Seq(WireBytes) /\ RecordLength \in Nat \ {0} /\ n \in Nat /\ n <= RecordLength
  BY TlsSizes DEF TlsTypes
<1>3. PICK l \in Nat : l = Len(tlsWire)
  BY <1>2, LenProperties
<1>4. DOMAIN tlsWire = 1..l /\ DOMAIN tlsWire' = 1..(l + n) /\ Len(tlsWire') = l + n
  BY <1>1, <1>2, <1>3, LenProperties
<1>5. \A i \in DOMAIN tlsWire : tlsWire[i][2] = RecordLength => tlsWire[i][1] # id
  BY DEF Chain
<1>6. tlsWire # <<>> => (tlsWire[Len(tlsWire)][1] = id <=> tlsWire[Len(tlsWire)][2] # RecordLength)
  <2>1. tlsWire # <<>> => Len(tlsWire) \in DOMAIN tlsWire
    BY <1>2, <1>3, <1>4, EmptySeq
  <2> QED BY <1>5, <2>1 DEF Chain, Pending, Unfinished
<1>7. Linked'
  BY <1>5, <1>6, LinkedSend DEF Chain
<1>8. n = 0 => tlsWire' = tlsWire
  <2>1. SUFFICES ASSUME n = 0 PROVE tlsWire' = tlsWire
    OBVIOUS
  <2>2. SubSeq(Record(id), 1, n) = <<>>
    BY <2>1, SubSeqEmpty
  <2>3. tlsWire \o <<>> = tlsWire
    BY <1>2, ConcatEmptySeq
  <2> QED BY <2>2, <2>3 DEF SslSend
<1>9. n > 0 => tlsWire' # <<>> /\ tlsWire'[Len(tlsWire')] = <<id, n>>
  <2>1. SUFFICES ASSUME n > 0 PROVE tlsWire' # <<>> /\ tlsWire'[Len(tlsWire')] = <<id, n>>
    OBVIOUS
  <2>2. n \in 1..n /\ l + n # 0
    BY <1>2, <2>1
  <2>3. tlsWire'[l + n] = <<id, n>>
    BY <1>1, <1>3, <2>2
  <2> QED BY <1>1, <1>4, <2>2, <2>3, EmptySeq
<1>10. \A i \in DOMAIN tlsWire : i \in DOMAIN tlsWire' /\ tlsWire'[i] = tlsWire[i]
  BY <1>1, <1>2, <1>3, <1>4
<1>11. ASSUME NEW i \in DOMAIN tlsWire', tlsWire'[i][2] = RecordLength
       PROVE  \/ i \in DOMAIN tlsWire /\ tlsWire'[i] = tlsWire[i]
              \/ n = RecordLength /\ tlsWire'[i][1] = id
  <2>1. CASE i \in 1..l
    BY <1>10, <1>4, <2>1
  <2>2. CASE i \notin 1..l
    <3>1. PICK j \in 1..n : i = l + j
      BY <1>1, <1>3, <1>4, <2>2
    <3>2. tlsWire'[i] = <<id, j>>
      BY <1>1, <1>3, <3>1
    <3>3. tlsWire'[i][1] = id /\ tlsWire'[i][2] = j
      BY <3>2
    <3> QED BY <1>2, <1>11, <3>1, <3>3
  <2> QED BY <2>1, <2>2
<1>12. n = RecordLength => \E i \in DOMAIN tlsWire' : tlsWire'[i] = <<id, RecordLength>>
  <2>1. SUFFICES ASSUME n = RecordLength PROVE \E i \in DOMAIN tlsWire' : tlsWire'[i] = <<id, RecordLength>>
    OBVIOUS
  <2>2. l + n \in 1..(l + n) /\ n \in 1..n
    BY <1>2, <2>1
  <2>3. tlsWire'[l + n] = <<id, RecordLength>>
    BY <1>1, <1>3, <2>1, <2>2
  <2> QED BY <1>4, <2>2, <2>3
<1> QED BY <1>7, <1>8, <1>9, <1>10, <1>11, <1>12

\* What a step means that leaves the wire alone: a flight may have been received.
LEMMA ChainKept ==
    ASSUME TlsTypes, Chain, tlsWire' = tlsWire, out' = out, role' = role,
           \/ tls' = tls
           \/ /\ tls'.state = tls.state + 1
              /\ ~IsHandshakeComplete /\ Flights[role][tls.state] = "recv"
    PROVE  Chain'
<1>1. tls.state \in Nat /\ out \in Nat /\ \A i \in DOMAIN tlsWire : tlsWire[i][1] \in Int
  BY TlsSizes DEF TlsTypes, WireBytes
<1>2. Linked'
  BY DEF Chain, Linked
<1>3. Pending'
  <2>1. CASE tls' = tls
    BY <2>1 DEF Chain, Pending, Unfinished, Now, IsHandshakeComplete
  <2>2. CASE tls' # tls
    BY <2>2 DEF Chain, Pending, Unfinished
  <2> QED BY <2>1, <2>2
<1>4. ASSUME NEW id \in Int, Done(id) PROVE Done(id)'
  <2>1. CASE tls' = tls
    BY <1>4, <2>1 DEF Done
  <2>2. CASE tls'.state = tls.state + 1
    BY <1>1, <1>4, <2>2 DEF Done
  <2> QED BY <2>1, <2>2
<1> QED BY <1>1, <1>2, <1>3, <1>4 DEF Chain

LEMMA HandshakeChain ==
    ASSUME TlsSafe, Chain, DoHandshakeStep, ~IsHandshakeComplete
    PROVE  Chain'
<1>1. /\ TlsTypes /\ tls.state \in Nat \ {0} /\ out \in Nat /\ out' = out /\ role' = role
      /\ tls \in [conf : {Configured}, state : Nat \ {0}]
      /\ RecordLength \in Nat \ {0} /\ Outgoing \in Nat
  BY TlsSizes DEF TlsSafe, TlsTypes, DoHandshakeStep, setting
<1>2. CASE HandshakeRefused
  BY <1>1, <1>2, ChainKept DEF HandshakeRefused
<1>3. CASE HandshakeReceive
  <2>1. /\ tlsWire' = tlsWire /\ Flights[role][tls.state] = "recv"
        /\ (tls' = tls \/ tls' = [tls EXCEPT !.state = @ + 1])
    BY <1>3 DEF HandshakeReceive
  <2>2. tls' = tls \/ tls'.state = tls.state + 1
    BY <1>1, <2>1
  <2> QED BY <1>1, <2>1, <2>2, ChainKept
<1>4. CASE HandshakeSend
  <2>1. CASE SslFails /\ UNCHANGED tls
    BY <1>1, <2>1, ChainKept DEF SslFails
  <2>2. CASE ~(SslFails /\ UNCHANGED tls)
    <3>1. PICK n \in 0..RecordLength :
             /\ SslSend(-(tls.state), n)
             /\ tls' = IF n = RecordLength THEN [tls EXCEPT !.state = @ + 1] ELSE tls
      BY <1>4, <2>2 DEF HandshakeSend
    <3>2. PICK id \in Int : id = -(tls.state) /\ id < 0 /\ -id = tls.state
      BY <1>1
    <3>3. id = Now /\ ~Done(id) /\ SslSend(id, n) /\ Flights[role][tls.state] = "send"
      BY <1>1, <1>4, <3>1, <3>2 DEF Now, Done, HandshakeSend
    <3>4. /\ Linked'
          /\ n = 0 => tlsWire' = tlsWire
          /\ n > 0 => tlsWire' # <<>> /\ tlsWire'[Len(tlsWire')] = <<id, n>>
          /\ \A i \in DOMAIN tlsWire : i \in DOMAIN tlsWire' /\ tlsWire'[i] = tlsWire[i]
          /\ \A i \in DOMAIN tlsWire' : tlsWire'[i][2] = RecordLength =>
               (i \in DOMAIN tlsWire /\ tlsWire'[i] = tlsWire[i]) \/ (n = RecordLength /\ tlsWire'[i][1] = id)
      BY <1>1, <3>2, <3>3, ChainSend
    <3>5. /\ n # RecordLength => tls' = tls
          /\ n = RecordLength => tls'.state = tls.state + 1
      BY <1>1, <3>1
    <3>6. Pending'
      <4>1. CASE n = 0
        BY <1>1, <3>4, <3>5, <4>1 DEF Chain, Pending, Unfinished, Now, IsHandshakeComplete
      <4>2. CASE n > 0 /\ n # RecordLength
        <5>1. tlsWire'[Len(tlsWire')][1] = id /\ tls' = tls
          BY <3>4, <3>5, <4>2
        <5> QED BY <1>1, <3>2, <3>3, <5>1 DEF Pending, Now, IsHandshakeComplete
      <4>3. CASE n = RecordLength
        <5>1. tlsWire'[Len(tlsWire')][2] = RecordLength
          BY <1>1, <3>4, <4>3
        <5> QED BY <5>1 DEF Pending, Unfinished
      <4> QED BY <1>1, <4>1, <4>2, <4>3
    <3>7. ASSUME NEW i \in DOMAIN tlsWire', tlsWire'[i][2] = RecordLength
          PROVE  (tlsWire'[i][1] < 0 /\ -(tlsWire'[i][1]) < tls'.state) \/ tlsWire'[i][1] > out'
      <4>1. CASE i \in DOMAIN tlsWire /\ tlsWire'[i] = tlsWire[i]
        <5>1. PICK x : x = tlsWire[i][1] /\ x = tlsWire'[i][1]
          BY <4>1
        <5>2. x \in Int /\ Done(x)
          BY <1>1, <3>7, <4>1, <5>1 DEF Chain, TlsTypes, WireBytes
        <5>3. (x < 0 /\ -x < tls'.state) \/ x > out'
          BY <1>1, <3>5, <5>2 DEF Done
        <5> QED BY <5>1, <5>3
      <4>2. CASE n = RecordLength /\ tlsWire'[i][1] = id
        <5>1. id < 0 /\ -id < tls'.state
          BY <1>1, <3>2, <3>5, <4>2
        <5> QED BY <4>2, <5>1
      <4> QED BY <3>4, <3>7, <4>1, <4>2
    <3>8. \A x \in 1..Outgoing : x > out' => \E i \in DOMAIN tlsWire' : tlsWire'[i] = <<x, RecordLength>>
      BY <1>1, <3>4 DEF Chain
    <3> QED BY <3>4, <3>6, <3>7, <3>8 DEF Chain, Done
  <2> QED BY <2>1, <2>2
<1> QED BY <1>2, <1>3, <1>4 DEF DoHandshakeStep

LEMMA WriteChain ==
    ASSUME TlsSafe, Chain, TlsWriteData
    PROVE  Chain'
<1>1. /\ TlsTypes /\ tls.state \in Nat \ {0} /\ out \in Nat \ {0} /\ tls' = tls /\ role' = role
      /\ Outgoing \in Nat /\ RecordLength \in Nat \ {0} /\ out <= Outgoing /\ IsHandshakeComplete
  BY TlsSizes DEF TlsSafe, TlsTypes, LoopsBusy, HandshakeFirst, TlsWriteData, setting
<1>2. CASE broken
  BY <1>1, <1>2, ChainKept DEF TlsWriteData, SslFails
<1>3. CASE ~broken
  <2>1. PICK n \in 0..RecordLength :
           /\ SslSend(out, n)
           /\ IF n = RecordLength THEN at' = "idle" /\ out' = out - 1 ELSE UNCHANGED <<at, out>>
    BY <1>3 DEF TlsWriteData
  <2>2. PICK id \in Int : id = out /\ id > 0
    BY <1>1
  <2>3. id = Now /\ ~Done(id) /\ SslSend(id, n)
    BY <1>1, <2>1, <2>2 DEF Now, Done
  <2>4. /\ Linked'
        /\ n = 0 => tlsWire' = tlsWire
        /\ n > 0 => tlsWire' # <<>> /\ tlsWire'[Len(tlsWire')] = <<id, n>>
        /\ \A i \in DOMAIN tlsWire : i \in DOMAIN tlsWire' /\ tlsWire'[i] = tlsWire[i]
        /\ \A i \in DOMAIN tlsWire' : tlsWire'[i][2] = RecordLength =>
             (i \in DOMAIN tlsWire /\ tlsWire'[i] = tlsWire[i]) \/ (n = RecordLength /\ tlsWire'[i][1] = id)
        /\ n = RecordLength => \E i \in DOMAIN tlsWire' : tlsWire'[i] = <<id, RecordLength>>
    BY <1>1, <2>2, <2>3, ChainSend
  <2>5. /\ n # RecordLength => out' = out
        /\ n = RecordLength => out' = out - 1
    BY <2>1
  <2>6. IsHandshakeComplete'
    BY <1>1 DEF IsHandshakeComplete
  <2>7. Pending'
    <3>1. CASE n = 0
      BY <1>1, <2>4, <2>5, <2>6, <3>1 DEF Chain, Pending, Unfinished, Now
    <3>2. CASE n > 0 /\ n # RecordLength
      <4>1. tlsWire'[Len(tlsWire')][1] = id /\ out' = out
        BY <2>4, <2>5, <3>2
      <4> QED BY <2>2, <2>6, <4>1 DEF Pending, Now
    <3>3. CASE n = RecordLength
      <4>1. tlsWire'[Len(tlsWire')][2] = RecordLength
        BY <1>1, <2>4, <3>3
      <4> QED BY <4>1 DEF Pending, Unfinished
    <3> QED BY <1>1, <3>1, <3>2, <3>3
  <2>8. ASSUME NEW i \in DOMAIN tlsWire', tlsWire'[i][2] = RecordLength
        PROVE  (tlsWire'[i][1] < 0 /\ -(tlsWire'[i][1]) < tls'.state) \/ tlsWire'[i][1] > out'
    <3>1. CASE i \in DOMAIN tlsWire /\ tlsWire'[i] = tlsWire[i]
      <4>1. PICK x : x = tlsWire[i][1] /\ x = tlsWire'[i][1]
        BY <3>1
      <4>2. x \in Int /\ Done(x)
        BY <1>1, <2>8, <3>1, <4>1 DEF Chain, TlsTypes, WireBytes
      <4>3. (x < 0 /\ -x < tls'.state) \/ x > out'
        BY <1>1, <2>5, <4>2 DEF Done
      <4> QED BY <4>1, <4>3
    <3>2. CASE n = RecordLength /\ tlsWire'[i][1] = id
      <4>1. id > out'
        BY <1>1, <2>2, <2>5, <3>2
      <4> QED BY <3>2, <4>1
    <3> QED BY <2>4, <2>8, <3>1, <3>2
  <2>9. ASSUME NEW x \in 1..Outgoing, x > out'
        PROVE  \E i \in DOMAIN tlsWire' : tlsWire'[i] = <<x, RecordLength>>
    <3>1. CASE x > out
      BY <2>4, <3>1 DEF Chain
    <3>2. CASE x = out /\ n = RecordLength
      BY <2>2, <2>4, <3>2
    <3> QED BY <1>1, <2>5, <2>9, <3>1, <3>2
  <2> QED BY <2>4, <2>7, <2>8, <2>9 DEF Chain, Done
<1> QED BY <1>2, <1>3

LEMMA ChainStart == ASSUME TlsInit PROVE Chain
<1>1. tlsWire = <<>> /\ DOMAIN tlsWire = {} /\ out = Outgoing /\ Outgoing \in Nat
  BY TlsSizes DEF TlsInit
<1> QED BY <1>1 DEF Chain, Linked, Pending, Unfinished

LEMMA ChainStep ==
    ASSUME TlsSafe, Chain, [TlsNext]_tlsVars
    PROVE  Chain'
<1>1. TlsTypes
  BY DEF TlsSafe
<1>2. ASSUME tlsWire' = tlsWire, out' = out, tls' = tls, role' = role
      PROVE  Chain'
  BY <1>1, <1>2, ChainKept
<1>3. CASE TlsReadable
  BY <1>2, <1>3, HandshakeChain DEF TlsReadable, Reading, setting
<1>4. CASE TlsWritable
  BY <1>2, <1>4, HandshakeChain DEF TlsWritable, Writing, setting
<1>5. CASE TlsWriteData
  BY <1>5, WriteChain
<1>6. CASE ReadData
  BY <1>2, <1>6 DEF ReadData, setting
<1>7. CASE TlsGet \/ PeerReads \/ PeerSends \/ Stop \/ Break \/ UNCHANGED tlsVars
  BY <1>2, <1>7 DEF TlsGet, PeerReads, PeerSends, Stop, Break, tlsVars, setting
<1> QED BY <1>3, <1>4, <1>5, <1>6, <1>7 DEF TlsNext

LEMMA ChainFinishes ==
    ASSUME TlsTypes, Chain
    PROVE  RecordsFinished
<1>1. ASSUME NEW id \in 1..Outgoing
      PROVE  id > out <=> \E i \in DOMAIN tlsWire : tlsWire[i] = <<id, RecordLength>>
  <2>1. id > out => \E i \in DOMAIN tlsWire : tlsWire[i] = <<id, RecordLength>>
    BY DEF Chain
  <2>2. ASSUME NEW i \in DOMAIN tlsWire, tlsWire[i] = <<id, RecordLength>> PROVE id > out
    <3>1. tlsWire[i][1] = id /\ tlsWire[i][2] = RecordLength
      BY <2>2
    <3>2. Done(id)
      BY <3>1 DEF Chain
    <3>3. id \in Int /\ id > 0
      BY TlsSizes
    <3> QED BY <3>2, <3>3 DEF Done
  <2> QED BY <2>1, <2>2
<1> QED BY <1>1 DEF Chain, Linked, RecordsFinished

\* However send() cuts the records, each is finished before the next begins, once,
\* and a packet leaves the buffer with its last byte; without a cut the peer sees
\* whole records only; and the dispatcher never leaves decrypted bytes inside:
\* what TlsDelivers says of safety, for records and packets of any length.
THEOREM TlsRecordsWhole == TlsSpec => [](RecordsFinished /\ RecordsIntact /\ NothingLeftInside)
<1>1. TlsInit => TlsSafe /\ TlsRecords /\ Chain
  BY TlsSafeStart, TlsRecordsStart, ChainStart
<1>2. TlsSafe /\ TlsRecords /\ Chain /\ [TlsNext]_tlsVars => TlsSafe' /\ TlsRecords' /\ Chain'
  BY TlsSafeStep, TlsRecordsStep, ChainStep
<1>3. TlsSafe /\ TlsRecords /\ Chain => RecordsFinished /\ RecordsIntact /\ NothingLeftInside
  BY ChainFinishes DEF TlsSafe, TlsRecords, LoopsBusy, RecordsIntact, NothingLeftInside
<1> QED BY <1>1, <1>2, <1>3, PTL DEF TlsSpec

ClientSet == ToSet(Clients)
Somebody == ClientSet \cup {Nobody}
Operations == [op : {"Start", "Stop", "AddActiveSocket"}, on : Peers \cup {Server}]

In(x, s) == \E i \in DOMAIN s : s[i] = x
Distinct(s) == \A i, j \in DOMAIN s : s[i] = s[j] => i = j

TypeInv ==
    /\ conn \in [Peers -> {"away", "waiting", "open", "stopped", "revived", "closed", "kept"}]
    /\ client \in [Peers -> Somebody]
    /\ registered \subseteq Peers
    /\ backlog \in Seq(Peers)
    /\ clients \in Seq(ClientSet)
    /\ in_use \in Seq(Somebody)
    /\ ops \in Seq(Operations) /\ Len(ops) <= OpQueue
    /\ status \in Seq(ClientSet)
    /\ disp \in [at : {"idle", "get", "pop", "create"}, who : Somebody, peer : Peers \cup {Nobody}]
    /\ task \in [at : {"idle", "erase", "push"}, who : Somebody, peer : {Nobody}]
    /\ raced \in BOOLEAN /\ lostOps \in BOOLEAN

WasAccepted(p) == conn[p] \in {"open", "stopped", "revived", "closed", "kept"}

\* A connection waits in the backlog, once, or in the hands of the dispatcher.
Waiting ==
    /\ Distinct(backlog)
    /\ \A p \in Peers : In(p, backlog) => conn[p] = "waiting"
    /\ disp.at # "idle" =>
         disp.peer \in Peers /\ conn[disp.peer] = "waiting" /\ ~In(disp.peer, backlog)

\* The dispatcher deals with connections that were accepted, and these have a client
\* until they are closed.
Dealt ==
    /\ \A p \in Peers : conn[p] \in {"away", "waiting"} => client[p] = Nobody
    /\ \A p \in Peers : conn[p] \in {"open", "stopped", "revived"} => client[p] \in ClientSet
    /\ \A p \in registered : WasAccepted(p)
    /\ \A p \in Peers, kind \in {"Start", "Stop", "AddActiveSocket"} :
         In([op |-> kind, on |-> p], ops) => WasAccepted(p)
    /\ ~In([op |-> "AddActiveSocket", on |-> Server], ops)

\* Where the dispatcher and the task are with a client.
Hands ==
    /\ disp.at \in {"idle", "get"} <=> disp.who = Nobody
    /\ disp.at \in {"get", "pop"} => clients # <<>>
    /\ disp.at = "pop" => disp.who = Head(clients)
    /\ disp.at = "create" => ~In(disp.who, clients)
    /\ task.at = "idle" <=> task.who = Nobody
    /\ task.at = "erase" => in_use # <<>>
    /\ ~In(task.who, clients)
    /\ task.who # Nobody => disp.who # task.who
    /\ Distinct(clients)

\* A client that is free or handed over serves no connection.
Exclusive ==
    \A p \in Peers : client[p] # Nobody =>
        /\ ~In(client[p], clients)
        /\ client[p] # disp.who /\ client[p] # task.who

\* A client is told once of the end of its connection, and is still its client.
ToldOnce ==
    /\ Distinct(status)
    /\ \A c \in ClientSet : In(c, status) => \E p \in Peers : client[p] = c /\ conn[p] = "closed"

\* Before the race, a client is in one place, and the place that erase() frees is
\* the last one.
Counted ==
    ~raced =>
        /\ Distinct(in_use)
        /\ In(Nobody, in_use) <=> task.at = "erase"
        /\ task.at = "erase" => in_use[Len(in_use)] = Nobody
        /\ \A c \in ClientSet :
             /\ In(c, clients) \/ In(c, in_use) \/ c = task.who
             /\ In(c, in_use) => c # task.who /\ (In(c, clients) => disp.at = "pop" /\ disp.who = c)
             /\ disp.at = "pop" /\ disp.who = c => In(c, in_use)

\* ConnectionsKnown.
Known ==
    ~lostOps => \A p \in Peers :
        /\ conn[p] = "open" => p \in registered \/ In([op |-> "AddActiveSocket", on |-> p], ops)
        /\ conn[p] \in {"stopped", "revived"} => In(StopOf(p), ops)

ServerInv ==
    /\ TypeInv /\ Waiting /\ Dealt /\ Hands /\ Exclusive /\ OneConnectionEach /\ ToldOnce
    /\ Counted /\ Known

-----------------------------------------------------------------------------
(* Sequences.                                                              *)

LEMMA InEmpty == \A x : ~In(x, <<>>)
BY DEF In

LEMMA InSet ==
    ASSUME NEW S, NEW s \in Seq(S), NEW x
    PROVE  (In(x, s) => x \in S) /\ (In(x, s) <=> x \in ToSet(s))
<1>1. \A i \in DOMAIN s : s[i] \in S
  BY LenProperties, ElementOfSeq
<1> QED BY <1>1 DEF In, ToSet

LEMMA InTail ==
    ASSUME NEW S, NEW s \in Seq(S), s # <<>>
    PROVE  /\ Head(s) \in S /\ Tail(s) \in Seq(S) /\ In(Head(s), s)
           /\ Len(Tail(s)) = Len(s) - 1 /\ Len(s) \in Nat \ {0}
           /\ \A x : In(x, s) <=> x = Head(s) \/ In(x, Tail(s))
           /\ Distinct(s) => Distinct(Tail(s)) /\ ~In(Head(s), Tail(s))
<1> DEFINE t == Tail(s)
<1>1. /\ Head(s) \in S /\ t \in Seq(S) /\ Len(t) = Len(s) - 1 /\ Len(s) \in Nat \ {0}
      /\ \A i \in 1..Len(t) : t[i] = s[i + 1]
  BY HeadTailProperties, EmptySeq
<1>2. Head(s) = s[1] /\ DOMAIN s = 1..Len(s) /\ DOMAIN t = 1..(Len(s) - 1)
  BY <1>1, LenProperties
<1> HIDE DEF t
<1>3. \A i \in DOMAIN t : i + 1 \in DOMAIN s /\ t[i] = s[i + 1]
  BY <1>1, <1>2
<1>4. \A i \in DOMAIN s : i = 1 \/ (i - 1 \in DOMAIN t /\ t[i - 1] = s[i])
  BY <1>1, <1>2
<1>5. 1 \in DOMAIN s
  BY <1>1, <1>2
<1>6. ASSUME NEW x PROVE In(x, s) <=> x = Head(s) \/ In(x, t)
  <2>1. ASSUME In(x, s) PROVE x = Head(s) \/ In(x, t)
    <3>1. PICK i \in DOMAIN s : s[i] = x
      BY <2>1 DEF In
    <3> QED BY <1>2, <1>4, <3>1 DEF In
  <2>2. ASSUME x = Head(s) \/ In(x, t) PROVE In(x, s)
    BY <1>2, <1>3, <1>5, <2>2 DEF In
  <2> QED BY <2>1, <2>2
<1>7. ASSUME Distinct(s) PROVE Distinct(t) /\ ~In(Head(s), t)
  <2>1. ASSUME NEW i \in DOMAIN t, NEW j \in DOMAIN t, t[i] = t[j] PROVE i = j
    <3>1. i + 1 = j + 1
      BY <1>3, <1>7, <2>1 DEF Distinct
    <3> QED BY <1>1, <1>2, <3>1
  <2>2. ASSUME NEW i \in DOMAIN t, t[i] = Head(s) PROVE FALSE
    <3>1. i + 1 = 1
      BY <1>2, <1>3, <1>5, <1>7, <2>2 DEF Distinct
    <3> QED BY <1>1, <1>2, <3>1
  <2> QED BY <2>1, <2>2 DEF Distinct, In
<1> QED BY <1>1, <1>2, <1>5, <1>6, <1>7 DEF In, t

LEMMA InAppend ==
    ASSUME NEW S, NEW s \in Seq(S), NEW e \in S
    PROVE  /\ Append(s, e) \in Seq(S) /\ Append(s, e) # <<>> /\ Len(Append(s, e)) = Len(s) + 1
           /\ \A x : In(x, Append(s, e)) <=> x = e \/ In(x, s)
           /\ Distinct(s) /\ ~In(e, s) => Distinct(Append(s, e))
           /\ s # <<>> => Head(Append(s, e)) = Head(s)
           /\ Append(s, e)[Len(s) + 1] = e
<1> DEFINE t == Append(s, e)
<1>1. /\ t \in Seq(S) /\ Len(t) = Len(s) + 1 /\ Len(s) \in Nat
      /\ t[Len(s) + 1] = e
      /\ \A i \in 1..Len(s) : t[i] = s[i]
  OBVIOUS
<1>2. DOMAIN s = 1..Len(s) /\ DOMAIN t = 1..(Len(s) + 1)
  BY <1>1, LenProperties
<1>3. t # <<>>
  <2>1. Len(<<>>) = 0
    OBVIOUS
  <2> HIDE DEF t
  <2> QED BY <1>1, <2>1
<1>4. s # <<>> => Head(t) = Head(s)
  <2> SUFFICES ASSUME s # <<>> PROVE Head(t) = Head(s)
    OBVIOUS
  <2>1. Len(s) \in Nat \ {0}
    BY EmptySeq
  <2>2. Head(s) = s[1]
    OBVIOUS
  <2>3. Head(t) = t[1]
    BY <1>1, <1>3
  <2> HIDE DEF t
  <2> QED BY <1>1, <2>1, <2>2, <2>3
<1> HIDE DEF t
<1>5. \A i \in DOMAIN s : i \in DOMAIN t /\ t[i] = s[i]
  BY <1>1, <1>2
<1>6. \A i \in DOMAIN t : (i \in DOMAIN s /\ t[i] = s[i]) \/ (i = Len(s) + 1 /\ t[i] = e)
  BY <1>1, <1>2
<1>7. Len(s) + 1 \in DOMAIN t
  BY <1>1, <1>2
<1>8. \A x : In(x, t) <=> x = e \/ In(x, s)
  BY <1>1, <1>5, <1>6, <1>7 DEF In
<1>9. Distinct(s) /\ ~In(e, s) => Distinct(t)
  BY <1>6 DEF Distinct, In
<1> QED BY <1>1, <1>3, <1>4, <1>8, <1>9 DEF t

(* The vector without its last place.                                        *)
LEMMA InFront ==
    ASSUME NEW S, NEW s \in Seq(S), s # <<>>
    PROVE  LET t == SubSeq(s, 1, Len(s) - 1) IN
           /\ t \in Seq(S)
           /\ \A x : In(x, t) => In(x, s)
           /\ Distinct(s) => /\ Distinct(t)
                             /\ \A x : In(x, t) <=> In(x, s) /\ x # s[Len(s)]
<1> DEFINE t == SubSeq(s, 1, Len(s) - 1)
<1>1. Len(s) \in Nat \ {0} /\ DOMAIN s = 1..Len(s)
  BY EmptySeq, LenProperties
<1>2. t \in Seq(S) /\ Len(t) = Len(s) - 1 /\ \A i \in 1..(Len(s) - 1) : t[i] = s[i]
  BY <1>1
<1>3. DOMAIN t = 1..(Len(s) - 1)
  BY <1>1, <1>2, LenProperties
<1> HIDE DEF t
<1>4. \A i \in DOMAIN t : i \in DOMAIN s /\ t[i] = s[i] /\ i # Len(s)
  BY <1>1, <1>2, <1>3
<1>5. \A i \in DOMAIN s : i = Len(s) \/ (i \in DOMAIN t /\ t[i] = s[i])
  BY <1>1, <1>2, <1>3
<1>6. Len(s) \in DOMAIN s
  BY <1>1
<1>7. \A x : In(x, t) => In(x, s)
  BY <1>4 DEF In
<1>8. Distinct(s) => Distinct(t)
  BY <1>4 DEF Distinct
<1>9. ASSUME Distinct(s), NEW x PROVE In(x, t) <=> In(x, s) /\ x # s[Len(s)]
  <2>1. ASSUME In(x, t) PROVE x # s[Len(s)]
    <3>1. PICK i \in DOMAIN t : t[i] = x
      BY <2>1 DEF In
    <3> QED BY <1>4, <1>6, <1>9, <3>1 DEF Distinct
  <2>2. ASSUME In(x, s), x # s[Len(s)] PROVE In(x, t)
    BY <1>5, <2>2 DEF In
  <2> QED BY <1>7, <2>1, <2>2
<1> QED BY <1>2, <1>7, <1>8, <1>9 DEF t

(* The first step of erase(): a place becomes free at the end.               *)
LEMMA InShifted ==
    ASSUME NEW S, NEW s \in Seq(S), Nobody \in S, NEW c, In(c, s)
    PROVE  /\ Shifted(s, c) \in Seq(S) /\ Shifted(s, c) # <<>>
           /\ Distinct(s) /\ ~In(Nobody, s) =>
                /\ Distinct(Shifted(s, c))
                /\ \A x : In(x, Shifted(s, c)) <=> x = Nobody \/ (In(x, s) /\ x # c)
                /\ Shifted(s, c)[Len(Shifted(s, c))] = Nobody
<1> DEFINE n == Len(s)
           k == CHOOSE k \in DOMAIN s : s[k] = c
           t == [i \in DOMAIN s |-> IF i < k THEN s[i] ELSE IF i < n THEN s[i + 1] ELSE Nobody]
<1>1. Shifted(s, c) = t
  BY DEF Shifted
<1>2. k \in DOMAIN s /\ s[k] = c
  BY DEF In
<1>3. n \in Nat /\ DOMAIN s = 1..n /\ \A i \in 1..n : s[i] \in S
  BY LenProperties, ElementOfSeq
<1> HIDE DEF k
<1>4. \A i \in 1..n : t[i] \in S
  BY <1>2, <1>3
<1>5. t \in [1..n -> S]
  BY <1>3, <1>4
<1>6. t \in Seq(S) /\ Len(t) = n /\ DOMAIN t = 1..n
  BY <1>3, <1>5
<1>7. \A i \in 1..n : t[i] = IF i < k THEN s[i] ELSE IF i < n THEN s[i + 1] ELSE Nobody
  BY <1>3
<1> HIDE DEF t, n
<1>8. n > 0
  BY <1>2, <1>3
<1>9. t # <<>>
  <2>1. Len(<<>>) = 0
    OBVIOUS
  <2> QED BY <1>6, <1>8, <2>1
<1>10. t[n] = Nobody
  BY <1>2, <1>3, <1>7, <1>8
<1>11. ASSUME Distinct(s), ~In(Nobody, s)
       PROVE  Distinct(t) /\ \A x : In(x, t) <=> x = Nobody \/ (In(x, s) /\ x # c)
  <2>1. \A i \in 1..n : s[i] # Nobody
    BY <1>3, <1>11 DEF In
  <2>2. \A i, j \in 1..n : s[i] = s[j] => i = j
    BY <1>3, <1>11 DEF Distinct
  <2>3. ASSUME NEW i \in 1..n
        PROVE  \/ i = n /\ t[i] = Nobody
               \/ i < n /\ i < k /\ t[i] = s[i]
               \/ i < n /\ i >= k /\ i + 1 \in 1..n /\ t[i] = s[i + 1]
    BY <1>2, <1>3, <1>7
  <2>4. ASSUME NEW i \in 1..n, NEW j \in 1..n, t[i] = t[j] PROVE i = j
    <3>0. k \in 1..n
      BY <1>2, <1>3
    <3>1. CASE i = n \/ j = n
      BY <1>3, <2>1, <2>3, <2>4, <3>1
    <3>2. CASE i < n /\ j < n
      <4>1. CASE i < k /\ j < k
        BY <1>3, <2>2, <2>3, <2>4, <3>0, <3>2, <4>1
      <4>2. CASE i >= k /\ j >= k
        <5>1. i + 1 \in 1..n /\ j + 1 \in 1..n /\ s[i + 1] = s[j + 1]
          BY <1>3, <2>3, <2>4, <3>0, <3>2, <4>2
        <5>2. i + 1 = j + 1
          BY <2>2, <5>1
        <5> QED BY <1>3, <5>2
      <4>3. CASE i < k /\ j >= k
        <5>1. j + 1 \in 1..n /\ s[i] = s[j + 1]
          BY <1>3, <2>3, <2>4, <3>0, <3>2, <4>3
        <5>2. i = j + 1
          BY <2>2, <5>1
        <5> QED BY <1>3, <3>0, <4>3, <5>2
      <4>4. CASE i >= k /\ j < k
        <5>1. i + 1 \in 1..n /\ s[i + 1] = s[j]
          BY <1>3, <2>3, <2>4, <3>0, <3>2, <4>4
        <5>2. i + 1 = j
          BY <2>2, <5>1
        <5> QED BY <1>3, <3>0, <4>4, <5>2
      <4> QED BY <1>3, <3>0, <4>1, <4>2, <4>3, <4>4
    <3> QED BY <1>3, <3>1, <3>2
  <2>5. ASSUME NEW x, In(x, t) PROVE x = Nobody \/ (In(x, s) /\ x # c)
    <3>0. k \in 1..n
      BY <1>2, <1>3
    <3>1. PICK i \in 1..n : t[i] = x
      BY <1>6, <2>5 DEF In
    <3>2. CASE i = n
      BY <1>10, <3>1, <3>2
    <3>3. CASE i < n /\ i < k
      <4>1. x = s[i] /\ s[i] # s[k]
        BY <1>3, <2>2, <2>3, <3>0, <3>1, <3>3
      <4> QED BY <1>2, <1>3, <4>1 DEF In
    <3>4. CASE i < n /\ i >= k
      <4>1. i + 1 \in 1..n /\ x = s[i + 1] /\ i + 1 # k
        BY <1>3, <2>3, <3>0, <3>1, <3>4
      <4>2. s[i + 1] # s[k]
        BY <2>2, <3>0, <4>1
      <4> QED BY <1>2, <1>3, <4>1, <4>2 DEF In
    <3> QED BY <1>3, <3>0, <3>2, <3>3, <3>4
  <2>6. ASSUME NEW x, x = Nobody \/ (In(x, s) /\ x # c) PROVE In(x, t)
    <3>0. k \in 1..n /\ n \in 1..n
      BY <1>2, <1>3, <1>8
    <3>1. CASE x = Nobody
      BY <1>6, <1>10, <3>0, <3>1 DEF In
    <3>2. CASE In(x, s) /\ x # c
      <4>1. PICK i \in 1..n : s[i] = x
        BY <1>3, <3>2 DEF In
      <4>2. i # k
        BY <1>2, <3>2, <4>1
      <4>3. CASE i < k
        <5>1. t[i] = s[i]
          BY <1>3, <1>7, <4>3
        <5> QED BY <1>6, <4>1, <5>1 DEF In
      <4>4. CASE i > k
        <5> DEFINE j == i - 1
        <5>1. j \in 1..n /\ j < n /\ ~(j < k) /\ j + 1 = i
          BY <1>3, <3>0, <4>4
        <5> HIDE DEF j
        <5>2. t[j] = s[i]
          BY <1>7, <5>1
        <5> QED BY <1>6, <4>1, <5>1, <5>2 DEF In
      <4> QED BY <1>3, <3>0, <4>2, <4>3, <4>4
    <3> QED BY <2>6, <3>1, <3>2
  <2> QED BY <1>6, <2>4, <2>5, <2>6 DEF Distinct
<1> QED BY <1>1, <1>6, <1>9, <1>10, <1>11

-----------------------------------------------------------------------------
(* The queue of the dispatcher.                                            *)

\* A step takes the operations gone out of the queue, which may be there more than
\* once, and puts the operations new in, as far as there is room.
Queued(gone, new) ==
    /\ ops' \in Seq(Operations) /\ Len(ops') <= OpQueue
    /\ lostOps' \in BOOLEAN /\ (lostOps => lostOps')
    /\ \A x : In(x, ops) /\ x \notin gone => In(x, ops')
    /\ \A x : In(x, ops') => In(x, ops) \/ x \in new
    /\ ~lostOps' => \A x \in new : In(x, ops')

\* perform_op().
LEMMA Performed ==
    ASSUME OpQueue \in Nat, lostOps \in BOOLEAN,
           NEW q \in Seq(Operations), NEW s \in Seq(Operations), Len(q) <= OpQueue,
           PerformOps(q, s)
    PROVE  /\ ops' \in Seq(Operations) /\ Len(ops') <= OpQueue
           /\ lostOps' \in BOOLEAN /\ (lostOps => lostOps')
           /\ \A x : In(x, q) => In(x, ops')
           /\ \A x : In(x, ops') => In(x, q) \/ In(x, s)
           /\ ~lostOps' => \A x : In(x, s) => In(x, ops')
<1> DEFINE n == IF Len(q) + Len(s) > OpQueue THEN OpQueue - Len(q) ELSE Len(s)
           u == SubSeq(s, 1, n)
<1>1. ops' = q \o u /\ lostOps' = (lostOps \/ n < Len(s))
  BY DEF PerformOps
<1>2. Len(q) \in Nat /\ Len(s) \in Nat /\ DOMAIN q = 1..Len(q) /\ DOMAIN s = 1..Len(s)
  BY LenProperties
<1>3. n \in 0..Len(s) /\ Len(q) + n <= OpQueue
  BY <1>2
<1> HIDE DEF n
<1>4. u \in Seq(Operations) /\ Len(u) = n /\ \A i \in 1..n : u[i] = s[i]
  BY <1>2, <1>3
<1> HIDE DEF u
<1>5. DOMAIN u = 1..n
  BY <1>4, LenProperties
<1>6. /\ q \o u \in Seq(Operations) /\ Len(q \o u) = Len(q) + n
      /\ \A i \in 1..(Len(q) + n) : (q \o u)[i] = IF i <= Len(q) THEN q[i] ELSE u[i - Len(q)]
  BY <1>4, ConcatProperties
<1>7. DOMAIN (q \o u) = 1..(Len(q) + n)
  BY <1>6, LenProperties
<1> DEFINE t == q \o u
<1> HIDE DEF t
<1>8. \A i \in DOMAIN q : i \in DOMAIN t /\ t[i] = q[i]
  BY <1>2, <1>3, <1>6, <1>7 DEF t
<1>9. \A i \in DOMAIN u : i + Len(q) \in DOMAIN t /\ t[i + Len(q)] = u[i]
  BY <1>2, <1>3, <1>5, <1>6, <1>7 DEF t
<1>10. \A i \in DOMAIN t : \/ i \in DOMAIN q /\ t[i] = q[i]
                           \/ i - Len(q) \in DOMAIN u /\ t[i] = u[i - Len(q)]
  BY <1>2, <1>3, <1>5, <1>6, <1>7 DEF t
<1>11. \A x : In(x, q) => In(x, t)
  BY <1>8 DEF In
<1>12. \A x : In(x, u) => In(x, s) /\ In(x, t)
  BY <1>2, <1>3, <1>4, <1>5, <1>9 DEF In
<1>13. \A x : In(x, t) => In(x, q) \/ In(x, u)
  BY <1>10 DEF In
<1>14. lostOps' \in BOOLEAN /\ (lostOps => lostOps')
  BY <1>1
<1>15. ASSUME ~lostOps', NEW x, In(x, s) PROVE In(x, t)
  <2>0. ~(n < Len(s))
    BY <1>1, <1>15
  <2>1. \A a, b \in Nat : a \in 0..b /\ ~(a < b) => a = b
    OBVIOUS
  <2>2. n \in Nat /\ n \in 0..Len(s)
    BY <1>2, <1>3
  <2>3. n = Len(s)
    BY <1>2, <2>0, <2>1, <2>2
  <2>4. In(x, u)
    BY <1>2, <1>4, <1>5, <1>15, <2>3 DEF In
  <2> QED BY <1>12, <2>4
<1>16. ops' = t
  BY <1>1 DEF t
<1>17. ops' \in Seq(Operations) /\ Len(ops') <= OpQueue
  BY <1>1, <1>2, <1>3, <1>6
<1>18. \A x : In(x, t) => In(x, q) \/ In(x, s)
  BY <1>12, <1>13
<1> QED BY <1>11, <1>14, <1>15, <1>16, <1>17, <1>18

LEMMA PerformOne ==
    ASSUME OpQueue \in Nat, TypeInv, NEW o \in Operations, PerformOps(ops, <<o>>)
    PROVE  Queued({}, {o})
<1>1. <<o>> \in Seq(Operations) /\ \A x : In(x, <<o>>) <=> x = o
  BY DEF In
<1>2. ops \in Seq(Operations) /\ Len(ops) <= OpQueue /\ lostOps \in BOOLEAN
  BY DEF TypeInv
<1>3. /\ ops' \in Seq(Operations) /\ Len(ops') <= OpQueue
      /\ lostOps' \in BOOLEAN /\ (lostOps => lostOps')
      /\ \A x : In(x, ops) => In(x, ops')
      /\ \A x : In(x, ops') => In(x, ops) \/ In(x, <<o>>)
      /\ ~lostOps' => \A x : In(x, <<o>>) => In(x, ops')
  BY <1>1, <1>2, Performed
<1> QED BY <1>1, <1>3 DEF Queued

\* The first operation is taken.
LEMMA TakeOne ==
    ASSUME OpQueue \in Nat, TypeInv, ops # <<>>, ops' = Tail(ops), lostOps' = lostOps
    PROVE  Queued({Head(ops)}, {})
<1>1. ops \in Seq(Operations) /\ Len(ops) <= OpQueue /\ lostOps \in BOOLEAN
  BY DEF TypeInv
<1>2. /\ Tail(ops) \in Seq(Operations) /\ Len(Tail(ops)) = Len(ops) - 1 /\ Len(ops) \in Nat
      /\ \A x : In(x, ops) <=> x = Head(ops) \/ In(x, Tail(ops))
  BY <1>1, InTail
<1>3. Len(ops') <= OpQueue
  BY <1>1, <1>2
<1> QED BY <1>1, <1>2, <1>3 DEF Queued

\* The first operation is taken and others are asked for.
LEMMA TakeAndPerform ==
    ASSUME OpQueue \in Nat, TypeInv, ops # <<>>, NEW s \in Seq(Operations),
           PerformOps(Tail(ops), s)
    PROVE  Queued({Head(ops)}, ToSet(s))
<1>1. ops \in Seq(Operations) /\ Len(ops) <= OpQueue /\ lostOps \in BOOLEAN
  BY DEF TypeInv
<1>2. /\ Tail(ops) \in Seq(Operations) /\ Len(Tail(ops)) = Len(ops) - 1 /\ Len(ops) \in Nat
      /\ \A x : In(x, ops) <=> x = Head(ops) \/ In(x, Tail(ops))
  BY <1>1, InTail
<1>3. Len(Tail(ops)) <= OpQueue
  BY <1>1, <1>2
<1>4. /\ ops' \in Seq(Operations) /\ Len(ops') <= OpQueue
      /\ lostOps' \in BOOLEAN /\ (lostOps => lostOps')
      /\ \A x : In(x, Tail(ops)) => In(x, ops')
      /\ \A x : In(x, ops') => In(x, Tail(ops)) \/ In(x, s)
      /\ ~lostOps' => \A x : In(x, s) => In(x, ops')
  BY <1>1, <1>2, <1>3, Performed
<1>5. \A x : In(x, s) <=> x \in ToSet(s)
  BY DEF In, ToSet
<1> QED BY <1>2, <1>4, <1>5 DEF Queued

LEMMA PerformMore ==
    ASSUME OpQueue \in Nat, TypeInv, NEW s \in Seq(Operations), PerformOps(ops, s)
    PROVE  Queued({}, ToSet(s))
<1>1. ops \in Seq(Operations) /\ Len(ops) <= OpQueue /\ lostOps \in BOOLEAN
  BY DEF TypeInv
<1>2. /\ ops' \in Seq(Operations) /\ Len(ops') <= OpQueue
      /\ lostOps' \in BOOLEAN /\ (lostOps => lostOps')
      /\ \A x : In(x, ops) => In(x, ops')
      /\ \A x : In(x, ops') => In(x, ops) \/ In(x, s)
      /\ ~lostOps' => \A x : In(x, s) => In(x, ops')
  BY <1>1, Performed
<1>3. \A x : In(x, s) <=> x \in ToSet(s)
  BY DEF In, ToSet
<1> QED BY <1>2, <1>3 DEF Queued

(* What the steps do to the queue that do nothing else to clients and        *)
(* connections: StartSocket, RestartInactive, NetworkEvent and BackOffEnds.  *)
Quiet == UNCHANGED <<backlog, clients, in_use, disp, task, conn, client, registered, status, raced>>
Starts == {[op |-> "Start", on |-> x] : x \in Peers \cup {Server}}
Stops == {StopOf(x) : x \in registered \cup {Server}}

LEMMA QuietSteps ==
    ASSUME TypeInv,
           \/ \E ok \in BOOLEAN : StartSocket(ok) \/ RestartInactive(ok)
           \/ NetworkEvent \/ BackOffEnds
    PROVE  Quiet /\ \E gone \in SUBSET Starts, new \in SUBSET Stops : Queued(gone, new)
<1> USE DEF pool, history
<1>0. OpQueue \in Nat /\ ops \in Seq(Operations) /\ Len(ops) <= OpQueue /\ lostOps \in BOOLEAN
  BY ServerAssumption DEF TypeInv
<1>1. StopOf(Server) \in Operations /\ StopOf(Server) \in Stops
  BY DEF StopOf, Operations, Stops
<1>2. /\ <<StopOf(Server)>> \in Seq(Operations) /\ ToSet(<<StopOf(Server)>>) \subseteq Stops
      /\ <<StopOf(Server), StopOf(Server)>> \in Seq(Operations)
      /\ ToSet(<<StopOf(Server), StopOf(Server)>>) \subseteq Stops
  BY <1>1 DEF ToSet
<1>3. CASE UNCHANGED <<ops, lostOps>> /\ Quiet
  <2>1. Queued({}, {})
    BY <1>0, <1>3 DEF Queued
  <2>2. {} \in SUBSET Starts /\ {} \in SUBSET Stops
    OBVIOUS
  <2> QED BY <1>3, <2>1, <2>2
<1>4. ASSUME NEW ok \in BOOLEAN, StartSocket(ok) 
      PROVE  Quiet /\ \E gone \in SUBSET Starts, new \in SUBSET Stops : Queued(gone, new)
  <2>1. Quiet /\ ops # <<>> /\ Head(ops).op = "Start"
    BY <1>4 DEF StartSocket, Quiet
  <2>2. Head(ops) \in Operations
    BY <1>0, <2>1, InTail
  <2>3. {Head(ops)} \in SUBSET Starts
    BY <2>1, <2>2 DEF Operations, Starts
  <2>4. CASE ops' = Tail(ops) /\ UNCHANGED lostOps
    BY <1>0, <2>1, <2>3, <2>4, TakeOne
  <2>5. CASE PerformOps(Tail(ops), <<StopOf(Server)>>)
    BY <1>0, <1>2, <2>1, <2>3, <2>5, TakeAndPerform
  <2> QED BY <1>4, <2>4, <2>5 DEF StartSocket, InternalStart
<1>5. ASSUME NEW ok \in BOOLEAN, RestartInactive(ok)
      PROVE  Quiet /\ \E gone \in SUBSET Starts, new \in SUBSET Stops : Queued(gone, new)
  <2>1. Quiet
    BY <1>5 DEF RestartInactive, Quiet
  <2>2. CASE ops' = ops /\ UNCHANGED lostOps
    BY <1>3, <2>1, <2>2
  <2>3. CASE PerformOps(ops, <<StopOf(Server), StopOf(Server)>>)
    <3>1. Queued({}, ToSet(<<StopOf(Server), StopOf(Server)>>))
      BY <1>0, <1>2, <2>3, PerformMore
    <3>2. {} \in SUBSET Starts
      OBVIOUS
    <3> QED BY <1>2, <2>1, <3>1, <3>2
  <2> QED BY <1>5, <2>2, <2>3 DEF RestartInactive, InternalStart
<1>6. CASE NetworkEvent
  <2> DEFINE active == registered \cup (IF place = "active" THEN {Server} ELSE {})
  <2>1. Quiet
    BY <1>6 DEF NetworkEvent, Quiet
  <2>2. PICK order \in SetToSeqs(active) : PerformOps(ops, [i \in DOMAIN order |-> StopOf(order[i])])
    BY <1>6 DEF NetworkEvent
  <2>3. Cardinality(active) \in Nat
    <3>1. IsFiniteSet(registered)
      BY FS_Subset, ServerAssumption DEF TypeInv
    <3>2. IsFiniteSet(active)
      BY <3>1, FS_AddElement
    <3> QED BY <3>2, FS_CardinalityType
  <2>4. order \in [1..Cardinality(active) -> active]
    BY <2>2 DEF SetToSeqs
  <2> DEFINE s == [i \in DOMAIN order |-> StopOf(order[i])]
  <2>5. active \subseteq registered \cup {Server}
    OBVIOUS
  <2>6. \A x \in active : StopOf(x) \in Stops /\ StopOf(x) \in Operations
    BY <2>5 DEF Stops, StopOf, Operations, TypeInv
  <2> HIDE DEF active
  <2>7. s \in [1..Cardinality(active) -> Operations]
    BY <2>4, <2>6
  <2>8. s \in Seq(Operations)
    BY <2>3, <2>7
  <2>9. ToSet(s) \subseteq Stops
    BY <2>4, <2>6 DEF ToSet
  <2> HIDE DEF s
  <2>10. Queued({}, ToSet(s))
    BY <1>0, <2>2, <2>8, PerformMore DEF s
  <2>11. {} \in SUBSET Starts
    OBVIOUS
  <2> QED BY <2>1, <2>9, <2>10, <2>11
<1>7. CASE BackOffEnds
  BY <1>3, <1>7 DEF BackOffEnds, Quiet
<1> QED BY <1>4, <1>5, <1>6, <1>7

-----------------------------------------------------------------------------
(* The initial state and the steps, one lemma each.                          *)

LEMMA ServerStart == ASSUME ServerInit PROVE ServerInv
<1>1. \A x : ~In(x, <<>>)
  BY InEmpty
<1>2. Clients \in Seq(ClientSet) /\ Distinct(Clients) /\ Nobody \notin ClientSet
  BY ServerAssumption DEF ClientSet, Distinct
<1>3. /\ clients = Clients /\ in_use = <<>> /\ status = <<>> /\ backlog = <<>> /\ registered = {}
      /\ disp = [at |-> "idle", who |-> Nobody, peer |-> Nobody]
      /\ task = [at |-> "idle", who |-> Nobody, peer |-> Nobody]
      /\ conn = [p \in Peers |-> "away"] /\ client = [p \in Peers |-> Nobody]
      /\ ops = <<[op |-> "Start", on |-> Server]>> /\ raced = FALSE /\ lostOps = FALSE
  BY DEF ServerInit, AtRest
<1>4. OpQueue \in Nat \ {0} /\ Server \notin Peers
  BY ServerAssumption
<1>5. ops \in Seq(Operations) /\ Len(ops) <= OpQueue
      /\ \A x : In(x, ops) <=> x = [op |-> "Start", on |-> Server]
  BY <1>3, <1>4 DEF Operations, In
<1>6. TypeInv
  <2>1. conn \in [Peers -> {"away", "waiting", "open", "stopped", "revived", "closed", "kept"}]
        /\ client \in [Peers -> Somebody]
    BY <1>3 DEF Somebody
  <2>2. <<>> \in Seq(Peers) /\ <<>> \in Seq(Somebody) /\ <<>> \in Seq(ClientSet)
    BY EmptySeq
  <2>3. /\ disp \in [at : {"idle", "get", "pop", "create"}, who : Somebody, peer : Peers \cup {Nobody}]
        /\ task \in [at : {"idle", "erase", "push"}, who : Somebody, peer : {Nobody}]
    BY <1>3 DEF Somebody
  <2> QED BY <1>2, <1>3, <1>5, <2>1, <2>2, <2>3 DEF TypeInv
<1>7. Distinct(<<>>)
  BY DEF Distinct
<1>8. Waiting /\ Exclusive /\ OneConnectionEach /\ ToldOnce
  BY <1>1, <1>3, <1>7 DEF Waiting, Exclusive, OneConnectionEach, ToldOnce
<1>9. ~In(Nobody, Clients)
  BY <1>2, InSet
<1>10. Hands
  BY <1>2, <1>3, <1>9 DEF Hands
<1>11. \A c \in ClientSet : In(c, Clients)
  BY DEF ClientSet, ToSet, In
<1>12. Counted
  BY <1>1, <1>2, <1>3, <1>7, <1>11 DEF Counted
<1>13. Dealt
  BY <1>3, <1>4, <1>5 DEF Dealt
<1>14. Known
  BY <1>3 DEF Known
<1> QED BY <1>6, <1>8, <1>10, <1>12, <1>13, <1>14 DEF ServerInv

\* The server socket is started or fails to, and the network comes and goes.
LEMMA QuietKeeps ==
    ASSUME ServerInv,
           \/ \E ok \in BOOLEAN : StartSocket(ok) \/ RestartInactive(ok)
           \/ NetworkEvent \/ BackOffEnds
    PROVE  ServerInv'
<1>1. TypeInv
  BY DEF ServerInv
<1>2. PICK gone \in SUBSET Starts, new \in SUBSET Stops : Queued(gone, new)
  BY <1>1, QuietSteps
<1>3. Quiet
  BY <1>1, QuietSteps
<1>4. TypeInv'
  BY <1>1, <1>2, <1>3 DEF TypeInv, Quiet, Queued
<1>5. (Waiting /\ Hands /\ Exclusive /\ OneConnectionEach /\ ToldOnce /\ Counted)'
  BY <1>3 DEF ServerInv, Quiet, Waiting, Hands, Exclusive, OneConnectionEach, ToldOnce, Counted
<1>6. \A p \in Peers : WasAccepted(p)' = WasAccepted(p)
  BY <1>3 DEF Quiet, WasAccepted
<1>7. \A x \in Stops : \E y \in registered \cup {Server} : x.op = "Stop" /\ x.on = y
  BY DEF Stops, StopOf
<1>8. ASSUME NEW p \in Peers, NEW kind, [op |-> kind, on |-> p] \in Stops PROVE p \in registered
  BY <1>7, <1>8, ServerAssumption
<1>9. ASSUME NEW p \in Peers, NEW kind \in {"Start", "Stop", "AddActiveSocket"},
             In([op |-> kind, on |-> p], ops')
      PROVE  WasAccepted(p)'
  <2>1. In([op |-> kind, on |-> p], ops) \/ [op |-> kind, on |-> p] \in new
    BY <1>2, <1>9 DEF Queued
  <2>2. In([op |-> kind, on |-> p], ops) \/ p \in registered
    BY <1>8, <2>1
  <2> QED BY <1>6, <2>2 DEF ServerInv, Dealt
<1>10. ~In([op |-> "AddActiveSocket", on |-> Server], ops')
  <2>1. [op |-> "AddActiveSocket", on |-> Server] \notin Stops
    BY <1>7
  <2> QED BY <1>2, <2>1 DEF Queued, ServerInv, Dealt
<1>11. Dealt'
  <2>1. \A p \in registered' : WasAccepted(p)'
    BY <1>3, <1>6 DEF Dealt, ServerInv, Quiet, TypeInv
  <2>2. \A p \in Peers : /\ conn'[p] \in {"away", "waiting"} => client'[p] = Nobody
                         /\ conn'[p] \in {"open", "stopped", "revived"} => client'[p] \in ClientSet
    BY <1>3 DEF Dealt, ServerInv, Quiet
  <2> QED BY <1>9, <1>10, <2>1, <2>2 DEF Dealt
<1>12. \A p \in Peers : [op |-> "AddActiveSocket", on |-> p] \notin Starts /\ StopOf(p) \notin Starts
  BY DEF Starts, StopOf
<1>13. \A p \in Peers :
         /\ In([op |-> "AddActiveSocket", on |-> p], ops) => In([op |-> "AddActiveSocket", on |-> p], ops')
         /\ In(StopOf(p), ops) => In(StopOf(p), ops')
  BY <1>2, <1>12 DEF Queued
<1>14. lostOps => lostOps'
  BY <1>2 DEF Queued
<1>15. Known'
  BY <1>3, <1>13, <1>14 DEF Known, ServerInv, Quiet, StopOf
<1> QED BY <1>4, <1>5, <1>11, <1>15 DEF ServerInv

LEMMA ConnectKeeps ==
    ASSUME ServerInv, NEW p \in Peers, Connect(p) PROVE ServerInv'
<1>1. /\ conn[p] = "away" /\ conn' = [conn EXCEPT ![p] = "waiting"] /\ backlog' = Append(backlog, p)
      /\ UNCHANGED <<clients, in_use, disp, task, client, registered, ops, status, raced, lostOps>>
  BY DEF Connect, pool, history
<1>2. TypeInv /\ backlog \in Seq(Peers)
  BY DEF ServerInv, TypeInv
<1>3. ~In(p, backlog)
  BY <1>1 DEF ServerInv, Waiting
<1>4. /\ backlog' \in Seq(Peers) /\ (Distinct(backlog) => Distinct(backlog'))
      /\ \A x : In(x, backlog') <=> x = p \/ In(x, backlog)
  BY <1>1, <1>2, <1>3, InAppend
<1>5. TypeInv'
  BY <1>1, <1>2, <1>4 DEF TypeInv
<1>6. conn'[p] = "waiting" /\ \A q \in Peers : q # p => conn'[q] = conn[q]
  BY <1>1, <1>2 DEF TypeInv
<1>7. Waiting'
  BY <1>1, <1>4, <1>6 DEF Waiting, ServerInv
<1>8. (Hands /\ Exclusive /\ OneConnectionEach /\ Counted)'
  BY <1>1 DEF ServerInv, Hands, Exclusive, OneConnectionEach, Counted
<1>9. ToldOnce'
  BY <1>1, <1>6 DEF ServerInv, ToldOnce
<1>10. Dealt'
  BY <1>1, <1>6 DEF ServerInv, Dealt, WasAccepted
<1>11. Known'
  BY <1>1, <1>6 DEF ServerInv, Known, StopOf
<1> QED BY <1>5, <1>7, <1>8, <1>9, <1>10, <1>11 DEF ServerInv

LEMMA AcceptRequestKeeps ==
    ASSUME ServerInv, AcceptRequest PROVE ServerInv'
<1>1. /\ disp.at = "idle" /\ backlog # <<>>
      /\ UNCHANGED <<clients, in_use, task, conn, client, registered, ops, status, raced, lostOps>>
  BY DEF AcceptRequest, pool, history
<1>2. CASE UNCHANGED <<disp, backlog>>
  BY <1>1, <1>2 DEF ServerInv, TypeInv, Waiting, Dealt, WasAccepted, Hands, Exclusive,
     OneConnectionEach, ToldOnce, Counted, Known, StopOf
<1>3. CASE /\ clients # <<>> /\ disp' = [at |-> "get", who |-> Nobody, peer |-> Head(backlog)]
           /\ backlog' = Tail(backlog)
  <2>1. backlog \in Seq(Peers) /\ TypeInv
    BY DEF ServerInv, TypeInv
  <2>2. /\ Head(backlog) \in Peers /\ backlog' \in Seq(Peers) /\ In(Head(backlog), backlog)
        /\ \A x : In(x, backlog) <=> x = Head(backlog) \/ In(x, backlog')
        /\ Distinct(backlog) => Distinct(backlog') /\ ~In(Head(backlog), backlog')
    BY <1>1, <1>3, <2>1, InTail
  <2>3. disp'.at = "get" /\ disp'.who = Nobody /\ disp'.peer = Head(backlog)
    BY <1>3
  <2>4. TypeInv'
    BY <1>1, <1>3, <2>1, <2>2 DEF TypeInv, Somebody
  <2>5. Waiting'
    BY <1>1, <2>2, <2>3 DEF ServerInv, Waiting
  <2>6. Hands'
    BY <1>1, <1>3, <2>3 DEF ServerInv, Hands
  <2>7. (Exclusive /\ OneConnectionEach /\ ToldOnce /\ Counted)'
    BY <1>1, <2>3 DEF ServerInv, Exclusive, OneConnectionEach, ToldOnce, Counted
  <2>8. (Dealt /\ Known)'
    BY <1>1 DEF ServerInv, Dealt, WasAccepted, Known, StopOf
  <2> QED BY <2>4, <2>5, <2>6, <2>7, <2>8 DEF ServerInv
<1> QED BY <1>2, <1>3 DEF AcceptRequest

\* ClientPool::get(), where the race begins.
LEMMA GetFrontKeeps ==
    ASSUME ServerInv, GetFront PROVE ServerInv'
<1> DEFINE c == Head(clients)
<1>1. /\ disp.at = "get" /\ disp' = [disp EXCEPT !.at = "pop", !.who = c]
      /\ in_use' = Append(in_use, c) /\ raced' = (raced \/ task.at = "erase")
      /\ UNCHANGED <<backlog, clients, task, conn, client, registered, ops, status, lostOps>>
  BY DEF GetFront
<1>2. TypeInv /\ clients \in Seq(ClientSet) /\ in_use \in Seq(Somebody)
  BY DEF ServerInv, TypeInv
<1>3. clients # <<>>
  BY <1>1 DEF ServerInv, Hands
<1>4. c \in ClientSet /\ In(c, clients)
  BY <1>2, <1>3, InTail
<1>5. c \in Somebody /\ c # Nobody
  BY <1>4, ServerAssumption DEF Somebody, ClientSet
<1> HIDE DEF c
<1>6. /\ in_use' \in Seq(Somebody) /\ in_use' # <<>>
      /\ \A x : In(x, in_use') <=> x = c \/ In(x, in_use)
      /\ Distinct(in_use) /\ ~In(c, in_use) => Distinct(in_use')
  BY <1>1, <1>2, <1>5, InAppend
<1>7. disp'.at = "pop" /\ disp'.who = c /\ disp'.peer = disp.peer
  BY <1>1, <1>2 DEF TypeInv
<1>8. raced' \in BOOLEAN /\ (~raced' => ~raced /\ task.at # "erase")
  BY <1>1
<1>9. disp' \in [at : {"idle", "get", "pop", "create"}, who : Somebody, peer : Peers \cup {Nobody}]
  BY <1>1, <1>2, <1>5 DEF TypeInv
<1>10. TypeInv'
  BY <1>1, <1>2, <1>6, <1>8, <1>9 DEF TypeInv
<1>11. Waiting'
  BY <1>1, <1>7 DEF ServerInv, Waiting
<1>12. Hands'
  BY <1>1, <1>3, <1>4, <1>5, <1>6, <1>7 DEF ServerInv, Hands, c
<1>13. Exclusive'
  BY <1>1, <1>4, <1>7 DEF ServerInv, Exclusive
<1>14. (OneConnectionEach /\ ToldOnce /\ Dealt /\ Known)'
  BY <1>1 DEF ServerInv, OneConnectionEach, ToldOnce, Dealt, WasAccepted, Known, StopOf
<1>15. Counted'
  <2> SUFFICES ASSUME ~raced' 
               PROVE  /\ Distinct(in_use')
                      /\ In(Nobody, in_use') <=> task'.at = "erase"
                      /\ task'.at = "erase" => in_use'[Len(in_use')] = Nobody
                      /\ \A x \in ClientSet :
                           /\ In(x, clients') \/ In(x, in_use') \/ x = task'.who
                           /\ In(x, in_use') => /\ x # task'.who
                                                /\ In(x, clients') => disp'.at = "pop" /\ disp'.who = x
                           /\ disp'.at = "pop" /\ disp'.who = x => In(x, in_use')
    BY DEF Counted
  <2>1. ~raced /\ task.at # "erase"
    BY <1>8
  <2>2. ~In(c, in_use) /\ c # task.who
    BY <1>1, <1>4, <2>1 DEF ServerInv, Counted, Hands
  <2> QED BY <1>1, <1>4, <1>5, <1>6, <1>7, <2>1, <2>2 DEF ServerInv, Counted
<1> QED BY <1>10, <1>11, <1>12, <1>13, <1>14, <1>15 DEF ServerInv

LEMMA PopFrontKeeps ==
    ASSUME ServerInv, PopFront PROVE ServerInv'
<1>1. /\ disp.at = "pop" /\ disp' = [disp EXCEPT !.at = "create"] /\ clients' = Tail(clients)
      /\ UNCHANGED <<backlog, in_use, task, conn, client, registered, ops, status, raced, lostOps>>
  BY DEF PopFront, history
<1>2. TypeInv /\ clients \in Seq(ClientSet)
  BY DEF ServerInv, TypeInv
<1>3. clients # <<>> /\ disp.who = Head(clients) /\ Distinct(clients)
  BY <1>1 DEF ServerInv, Hands
<1>4. /\ clients' \in Seq(ClientSet) /\ Distinct(clients') /\ ~In(disp.who, clients')
      /\ \A x : In(x, clients) <=> x = disp.who \/ In(x, clients')
  BY <1>1, <1>2, <1>3, InTail
<1>5. disp'.at = "create" /\ disp'.who = disp.who /\ disp'.peer = disp.peer
  BY <1>1, <1>2 DEF TypeInv
<1>6. TypeInv'
  BY <1>1, <1>2, <1>4 DEF TypeInv
<1>7. Waiting'
  BY <1>1, <1>5 DEF ServerInv, Waiting
<1>8. Hands'
  BY <1>1, <1>4, <1>5 DEF ServerInv, Hands
<1>9. Exclusive'
  BY <1>1, <1>4, <1>5 DEF ServerInv, Exclusive
<1>10. (OneConnectionEach /\ ToldOnce /\ Dealt /\ Known)'
  BY <1>1 DEF ServerInv, OneConnectionEach, ToldOnce, Dealt, WasAccepted, Known, StopOf
<1>11. Counted'
  BY <1>1, <1>4, <1>5 DEF ServerInv, Counted
<1> QED BY <1>6, <1>7, <1>8, <1>9, <1>10, <1>11 DEF ServerInv

LEMMA SetExistingSocketKeeps ==
    ASSUME ServerInv, SetExistingSocket PROVE ServerInv'
<1> DEFINE c == disp.who
           p == disp.peer
           o == [op |-> "AddActiveSocket", on |-> p]
<1>1. /\ disp.at = "create" /\ disp' = AtRest
      /\ conn' = [conn EXCEPT ![p] = "open"] /\ client' = [client EXCEPT ![p] = c]
      /\ PerformOps(ops, <<o>>)
      /\ UNCHANGED <<backlog, clients, in_use, task, registered, status, raced>>
  BY DEF SetExistingSocket, pool
<1>2. TypeInv /\ OpQueue \in Nat /\ Server \notin Peers /\ Nobody \notin ClientSet
  BY ServerAssumption DEF ServerInv, ClientSet
<1>3. p \in Peers /\ conn[p] = "waiting" /\ ~In(p, backlog) /\ client[p] = Nobody
  BY <1>1 DEF ServerInv, Waiting, Dealt
<1>4. c \in ClientSet /\ ~In(c, clients) /\ c # task.who
  BY <1>1, <1>2 DEF ServerInv, Hands, TypeInv, Somebody
<1>5. o \in Operations
  BY <1>3 DEF Operations
<1>6. Queued({}, {o})
  BY <1>1, <1>2, <1>5, PerformOne
<1> HIDE DEF c, p
<1>7. /\ conn'[p] = "open" /\ client'[p] = c
      /\ \A q \in Peers : q # p => conn'[q] = conn[q] /\ client'[q] = client[q]
  BY <1>1, <1>2, <1>3 DEF TypeInv
<1>8. disp'.at = "idle" /\ disp'.who = Nobody
      /\ disp' \in [at : {"idle", "get", "pop", "create"}, who : Somebody, peer : Peers \cup {Nobody}]
  BY <1>1 DEF AtRest, Somebody
<1>9. TypeInv'
  <2>1. conn' \in [Peers -> {"away", "waiting", "open", "stopped", "revived", "closed", "kept"}]
        /\ client' \in [Peers -> Somebody]
    BY <1>1, <1>2, <1>4 DEF TypeInv, Somebody
  <2> QED BY <1>1, <1>2, <1>6, <1>8, <2>1 DEF TypeInv, Queued
<1>10. Waiting'
  BY <1>1, <1>3, <1>7, <1>8 DEF ServerInv, Waiting
<1>11. Hands'
  BY <1>1, <1>8 DEF ServerInv, Hands
<1>12. Exclusive'
  BY <1>1, <1>2, <1>4, <1>7, <1>8 DEF ServerInv, Exclusive
<1>13. OneConnectionEach'
  <2>1. \A q \in Peers : client[q] # Nobody => client[q] # c
    BY DEF ServerInv, Exclusive, c
  <2> QED BY <1>2, <1>4, <1>7, <2>1 DEF ServerInv, OneConnectionEach
<1>14. ToldOnce'
  BY <1>1, <1>3, <1>7 DEF ServerInv, ToldOnce
<1>15. Counted'
  BY <1>1, <1>8 DEF ServerInv, Counted
<1>16. Dealt'
  <2>1. \A q \in Peers : WasAccepted(q) => WasAccepted(q)'
    BY <1>3, <1>7 DEF WasAccepted
  <2>2. \A q \in Peers : q = p => WasAccepted(q)'
    BY <1>7 DEF WasAccepted
  <2>3. ASSUME NEW q \in Peers, NEW kind \in {"Start", "Stop", "AddActiveSocket"},
               In([op |-> kind, on |-> q], ops')
        PROVE  WasAccepted(q)'
    <3>1. In([op |-> kind, on |-> q], ops) \/ q = p
      BY <1>6, <2>3 DEF Queued
    <3> QED BY <2>1, <2>2, <3>1 DEF ServerInv, Dealt
  <2>4. ~In([op |-> "AddActiveSocket", on |-> Server], ops')
    BY <1>2, <1>3, <1>6 DEF Queued, ServerInv, Dealt
  <2>5. \A q \in registered' : WasAccepted(q)'
    BY <1>1, <1>2, <2>1 DEF ServerInv, Dealt, TypeInv
  <2>6. \A q \in Peers : /\ conn'[q] \in {"away", "waiting"} => client'[q] = Nobody
                         /\ conn'[q] \in {"open", "stopped", "revived"} => client'[q] \in ClientSet
    BY <1>4, <1>7 DEF ServerInv, Dealt
  <2> QED BY <2>3, <2>4, <2>5, <2>6 DEF Dealt
<1>17. Known'
  <2>1. lostOps => lostOps'
    BY <1>6 DEF Queued
  <2>2. \A x : In(x, ops) => In(x, ops')
    BY <1>6 DEF Queued
  <2>3. ~lostOps' => In([op |-> "AddActiveSocket", on |-> p], ops')
    BY <1>6 DEF Queued
  <2> QED BY <1>1, <1>7, <2>1, <2>2, <2>3 DEF ServerInv, Known, StopOf
<1> QED BY <1>9, <1>10, <1>11, <1>12, <1>13, <1>14, <1>15, <1>16, <1>17 DEF ServerInv

LEMMA AddActiveSocketKeeps ==
    ASSUME ServerInv, AddActiveSocket PROVE ServerInv'
<1> DEFINE o == Head(ops)
           p == o.on
<1>1. /\ ops # <<>> /\ o.op = "AddActiveSocket"
      /\ registered' = registered \cup {p} /\ ops' = Tail(ops) /\ lostOps' = lostOps
      /\ UNCHANGED <<backlog, clients, in_use, disp, task, conn, client, status, raced>>
  BY DEF AddActiveSocket, pool, history
<1>2. TypeInv /\ OpQueue \in Nat /\ ops \in Seq(Operations)
  BY ServerAssumption DEF ServerInv, TypeInv
<1>3. o \in Operations /\ In(o, ops)
  BY <1>1, <1>2, InTail
<1>4. Queued({o}, {})
  BY <1>1, <1>2, TakeOne
<1> HIDE DEF o
<1>5. o = [op |-> "AddActiveSocket", on |-> p] /\ p \in Peers \cup {Server}
  BY <1>1, <1>3 DEF Operations
<1>6. p \in Peers /\ WasAccepted(p)
  BY <1>3, <1>5 DEF ServerInv, Dealt
<1> HIDE DEF p
<1>7. TypeInv'
  BY <1>1, <1>2, <1>4, <1>6 DEF TypeInv, Queued
<1>8. (Waiting /\ Hands /\ Exclusive /\ OneConnectionEach /\ ToldOnce /\ Counted)'
  BY <1>1 DEF ServerInv, Waiting, Hands, Exclusive, OneConnectionEach, ToldOnce, Counted
<1>9. \A x : In(x, ops') => In(x, ops)
  BY <1>4 DEF Queued
<1>10. Dealt'
  <2>1. \A q \in registered' : WasAccepted(q)'
    BY <1>1, <1>6 DEF ServerInv, Dealt, WasAccepted
  <2> QED BY <1>1, <1>9, <2>1 DEF ServerInv, Dealt, WasAccepted
<1>11. Known'
  <2>1. \A x : In(x, ops) /\ x # o => In(x, ops')
    BY <1>4 DEF Queued
  <2>2. \A q \in Peers : StopOf(q) # o
    BY <1>5 DEF StopOf
  <2>3. \A q \in Peers : q # p => [op |-> "AddActiveSocket", on |-> q] # o
    BY <1>5
  <2> QED BY <1>1, <2>1, <2>2, <2>3 DEF ServerInv, Known, StopOf
<1> QED BY <1>7, <1>8, <1>10, <1>11 DEF ServerInv

\* A Stop of the server socket.
LEMMA ShutdownServerKeeps ==
    ASSUME ServerInv, ShutdownSocket, Head(ops).on = Server PROVE ServerInv'
<1> DEFINE o == Head(ops)
<1>1. /\ disp.at = "idle" /\ ops # <<>> /\ o.op = "Stop" /\ o.on = Server
      /\ ops' = Tail(ops) /\ lostOps' = lostOps /\ backlog' = <<>>
      /\ conn' = [p \in Peers |-> IF conn[p] = "waiting" THEN "closed" ELSE conn[p]]
      /\ UNCHANGED <<clients, in_use, disp, task, client, registered, status, raced>>
  BY DEF ShutdownSocket, ShutdownServer, pool
<1>2. TypeInv /\ OpQueue \in Nat /\ ops \in Seq(Operations) /\ Server \notin Peers
  BY ServerAssumption DEF ServerInv, TypeInv
<1>3. Queued({o}, {})
  BY <1>1, <1>2, TakeOne
<1> HIDE DEF o
<1>4. \A p \in Peers : conn'[p] = IF conn[p] = "waiting" THEN "closed" ELSE conn[p]
  BY <1>1
<1>5. TypeInv'
  <2>1. conn' \in [Peers -> {"away", "waiting", "open", "stopped", "revived", "closed", "kept"}]
    BY <1>1, <1>2 DEF TypeInv
  <2>2. <<>> \in Seq(Peers)
    BY EmptySeq
  <2> QED BY <1>1, <1>2, <1>3, <2>1, <2>2 DEF TypeInv, Queued
<1>6. Waiting'
  BY <1>1, InEmpty DEF Waiting, Distinct
<1>7. (Hands /\ Exclusive /\ OneConnectionEach /\ Counted)'
  BY <1>1 DEF ServerInv, Hands, Exclusive, OneConnectionEach, Counted
<1>8. ToldOnce'
  BY <1>1, <1>4 DEF ServerInv, ToldOnce
<1>9. \A x : In(x, ops') => In(x, ops)
  BY <1>3 DEF Queued
<1>10. Dealt'
  <2>1. \A p \in Peers : WasAccepted(p) => WasAccepted(p)'
    BY <1>4 DEF WasAccepted
  <2>2. \A p \in registered' : WasAccepted(p)'
    BY <1>1, <1>2, <2>1 DEF ServerInv, Dealt, TypeInv
  <2>3. \A p \in Peers : /\ conn'[p] \in {"away", "waiting"} => client'[p] = Nobody
                         /\ conn'[p] \in {"open", "stopped", "revived"} => client'[p] \in ClientSet
    BY <1>1, <1>4 DEF ServerInv, Dealt
  <2>4. \A p \in Peers, kind \in {"Start", "Stop", "AddActiveSocket"} :
          In([op |-> kind, on |-> p], ops') => WasAccepted(p)'
    BY <1>9, <2>1 DEF ServerInv, Dealt
  <2> QED BY <1>9, <2>2, <2>3, <2>4 DEF ServerInv, Dealt
<1>11. Known'
  <2>1. \A x : In(x, ops) /\ x # o => In(x, ops')
    BY <1>3 DEF Queued
  <2>2. \A p \in Peers : StopOf(p) # o /\ [op |-> "AddActiveSocket", on |-> p] # o
    BY <1>1, <1>2 DEF StopOf
  <2> QED BY <1>1, <1>4, <2>1, <2>2 DEF ServerInv, Known, StopOf
<1> QED BY <1>5, <1>6, <1>7, <1>8, <1>10, <1>11 DEF ServerInv

\* A Stop of a connection, whose client is told if it still exists.
LEMMA ShutdownConnectionKeeps ==
    ASSUME ServerInv, ShutdownSocket, Head(ops).on # Server PROVE ServerInv'
<1> DEFINE o == Head(ops)
           p == o.on
<1>1. /\ disp.at = "idle" /\ ops # <<>> /\ o.op = "Stop" /\ p # Server
      /\ registered' = registered \ {p}
      /\ conn' = [conn EXCEPT ![p] = IF conn[p] \in {"revived", "kept"} THEN "kept" ELSE "closed"]
      /\ UNCHANGED <<backlog, clients, in_use, disp, task, client, raced>>
      /\ \/ ops' = Tail(ops) /\ lostOps' = lostOps /\ status' = status
         \/ /\ ops' = Tail(ops) /\ lostOps' = lostOps
            /\ conn[p] \notin {"closed", "revived", "kept"} /\ status' = Append(status, client[p])
         \/ PerformOps(Tail(ops), <<StopOf(p)>>) /\ status' = status
  BY DEF ShutdownSocket, ShutdownConnection, pool
<1>2. TypeInv /\ OpQueue \in Nat /\ ops \in Seq(Operations) /\ Nobody \notin ClientSet
  BY ServerAssumption DEF ServerInv, TypeInv, ClientSet
<1>3. o \in Operations /\ In(o, ops)
  BY <1>1, <1>2, InTail
<1>4. o = [op |-> "Stop", on |-> p] /\ p \in Peers /\ StopOf(p) = o
  BY <1>1, <1>3 DEF Operations, StopOf
<1>5. WasAccepted(p)
  BY <1>3, <1>4 DEF ServerInv, Dealt
<1>6. Queued({o}, {}) \/ Queued({o}, {o})
  <2>1. CASE ops' = Tail(ops) /\ lostOps' = lostOps
    BY <1>1, <1>2, <2>1, TakeOne
  <2>2. CASE PerformOps(Tail(ops), <<StopOf(p)>>)
    <3>1. <<StopOf(p)>> \in Seq(Operations) /\ ToSet(<<StopOf(p)>>) = {o}
      BY <1>3, <1>4 DEF ToSet
    <3> QED BY <1>1, <1>2, <2>2, <3>1, TakeAndPerform
  <2> QED BY <1>1, <2>1, <2>2
<1> HIDE DEF o, p
<1>7. /\ \A x : In(x, ops) /\ x # o => In(x, ops')
      /\ \A x : In(x, ops') => In(x, ops)
      /\ lostOps => lostOps'
      /\ ops' \in Seq(Operations) /\ Len(ops') <= OpQueue /\ lostOps' \in BOOLEAN
  BY <1>3, <1>6 DEF Queued
<1>8. /\ conn'[p] \in {"closed", "kept"} /\ (conn[p] \notin {"revived", "kept"} => conn'[p] = "closed")
      /\ \A q \in Peers : q # p => conn'[q] = conn[q]
  BY <1>1, <1>2, <1>4 DEF TypeInv
<1>9. ASSUME conn[p] \notin {"closed", "revived", "kept"}
      PROVE  client[p] \in ClientSet /\ ~In(client[p], status)
  <2>1. client[p] \in ClientSet
    BY <1>4, <1>5, <1>9 DEF WasAccepted, ServerInv, Dealt
  <2>2. ASSUME In(client[p], status) PROVE FALSE
    <3>1. PICK q \in Peers : client[q] = client[p] /\ conn[q] = "closed"
      BY <2>1, <2>2 DEF ServerInv, ToldOnce
    <3>2. q # p
      BY <1>9, <3>1
    <3> QED BY <1>2, <1>4, <2>1, <3>1, <3>2 DEF ServerInv, OneConnectionEach
  <2> QED BY <2>1, <2>2
<1>10. /\ status' \in Seq(ClientSet) /\ Distinct(status')
       /\ \A c \in ClientSet : In(c, status') =>
            In(c, status) \/ (c = client[p] /\ conn[p] \notin {"closed", "revived", "kept"})
  <2>1. status \in Seq(ClientSet) /\ Distinct(status)
    BY DEF ServerInv, TypeInv, ToldOnce
  <2>2. CASE status' = status
    BY <2>1, <2>2
  <2>3. CASE conn[p] \notin {"closed", "revived", "kept"} /\ status' = Append(status, client[p])
    BY <1>9, <2>1, <2>3, InAppend
  <2> QED BY <1>1, <2>2, <2>3
<1>11. TypeInv'
  <2>1. conn' \in [Peers -> {"away", "waiting", "open", "stopped", "revived", "closed", "kept"}]
    BY <1>1, <1>2 DEF TypeInv
  <2> QED BY <1>1, <1>2, <1>7, <1>10, <2>1 DEF TypeInv
<1>12. Waiting'
  BY <1>1, <1>4, <1>5, <1>8 DEF ServerInv, Waiting, WasAccepted
<1>13. (Hands /\ Exclusive /\ OneConnectionEach /\ Counted)'
  BY <1>1 DEF ServerInv, Hands, Exclusive, OneConnectionEach, Counted
<1>14. ToldOnce'
  <2>1. \A c \in ClientSet : In(c, status) => \E q \in Peers : client'[q] = c /\ conn'[q] = "closed"
    BY <1>1, <1>8 DEF ServerInv, ToldOnce
  <2>2. \A c \in ClientSet : In(c, status') => \E q \in Peers : client'[q] = c /\ conn'[q] = "closed"
    BY <1>1, <1>4, <1>8, <1>10, <2>1
  <2> QED BY <1>10, <2>2 DEF ToldOnce
<1>15. Dealt'
  <2>1. \A q \in Peers : WasAccepted(q) => WasAccepted(q)'
    BY <1>8 DEF WasAccepted
  <2>2. \A q \in registered' : WasAccepted(q)'
    BY <1>1, <1>2, <2>1 DEF ServerInv, Dealt, TypeInv
  <2>3. \A q \in Peers : /\ conn'[q] \in {"away", "waiting"} => client'[q] = Nobody
                         /\ conn'[q] \in {"open", "stopped", "revived"} => client'[q] \in ClientSet
    BY <1>1, <1>8 DEF ServerInv, Dealt
  <2>4. \A q \in Peers, kind \in {"Start", "Stop", "AddActiveSocket"} :
          In([op |-> kind, on |-> q], ops') => WasAccepted(q)'
    BY <1>7, <2>1 DEF ServerInv, Dealt
  <2> QED BY <1>7, <2>2, <2>3, <2>4 DEF ServerInv, Dealt
<1>16. Known'
  <2>1. \A q \in Peers : [op |-> "AddActiveSocket", on |-> q] # o /\ (q # p => StopOf(q) # o)
    BY <1>4 DEF StopOf
  <2> QED BY <1>1, <1>7, <1>8, <2>1 DEF ServerInv, Known, StopOf
<1> QED BY <1>11, <1>12, <1>13, <1>14, <1>15, <1>16 DEF ServerInv

\* The dispatcher finds a connection at its end, or its client closes it.
LEMMA StopKeeps ==
    ASSUME ServerInv, NEW p \in Peers,
           StopConnection(p) \/ Close(p) \/ \E sendFails \in BOOLEAN : CloseDuringWritable(p, sendFails)
    PROVE  ServerInv'
<1>1. /\ p \in registered /\ conn[p] = "open"
      /\ \E to \in {"stopped", "revived"} : conn' = [conn EXCEPT ![p] = to]
      /\ PerformOps(ops, <<StopOf(p)>>) \/ PerformOps(ops, <<StopOf(p), StopOf(p)>>)
      /\ UNCHANGED <<backlog, clients, in_use, disp, task, client, registered, status, raced>>
  BY DEF StopConnection, Close, CloseDuringWritable, pool
<1>2. TypeInv /\ OpQueue \in Nat /\ Server \notin Peers
  BY ServerAssumption DEF ServerInv
<1>3. StopOf(p) \in Operations
  BY DEF StopOf, Operations
<1>4. Queued({}, {StopOf(p)})
  <2>1. CASE PerformOps(ops, <<StopOf(p)>>)
    BY <1>2, <1>3, <2>1, PerformOne
  <2>2. CASE PerformOps(ops, <<StopOf(p), StopOf(p)>>)
    <3>1. <<StopOf(p), StopOf(p)>> \in Seq(Operations) /\ ToSet(<<StopOf(p), StopOf(p)>>) = {StopOf(p)}
      BY <1>3 DEF ToSet
    <3> QED BY <1>2, <2>2, <3>1, PerformMore
  <2> QED BY <1>1, <2>1, <2>2
<1>5. conn'[p] \in {"stopped", "revived"} /\ \A q \in Peers : q # p => conn'[q] = conn[q]
  BY <1>1, <1>2 DEF TypeInv
<1>6. TypeInv'
  <2>1. conn' \in [Peers -> {"away", "waiting", "open", "stopped", "revived", "closed", "kept"}]
    BY <1>1, <1>2 DEF TypeInv
  <2> QED BY <1>1, <1>2, <1>4, <2>1 DEF TypeInv, Queued
<1>7. Waiting'
  BY <1>1, <1>5 DEF ServerInv, Waiting
<1>8. (Hands /\ Exclusive /\ OneConnectionEach /\ Counted)'
  BY <1>1 DEF ServerInv, Hands, Exclusive, OneConnectionEach, Counted
<1>9. ToldOnce'
  BY <1>1, <1>5 DEF ServerInv, ToldOnce
<1>10. Dealt'
  <2>1. \A q \in Peers : (WasAccepted(q) \/ q = p) => WasAccepted(q)'
    BY <1>5 DEF WasAccepted
  <2>2. \A q \in registered' : WasAccepted(q)'
    BY <1>1, <1>2, <2>1 DEF ServerInv, Dealt, TypeInv
  <2>3. \A q \in Peers : /\ conn'[q] \in {"away", "waiting"} => client'[q] = Nobody
                         /\ conn'[q] \in {"open", "stopped", "revived"} => client'[q] \in ClientSet
    BY <1>1, <1>5 DEF ServerInv, Dealt
  <2>4. ASSUME NEW q \in Peers, NEW kind \in {"Start", "Stop", "AddActiveSocket"},
               In([op |-> kind, on |-> q], ops')
        PROVE  WasAccepted(q)'
    <3>1. In([op |-> kind, on |-> q], ops) \/ q = p
      BY <1>4, <2>4 DEF Queued, StopOf
    <3> QED BY <2>1, <3>1 DEF ServerInv, Dealt
  <2>5. ~In([op |-> "AddActiveSocket", on |-> Server], ops')
    BY <1>4 DEF Queued, ServerInv, Dealt, StopOf
  <2> QED BY <2>2, <2>3, <2>4, <2>5 DEF Dealt
<1>11. Known'
  <2>1. /\ lostOps => lostOps'
        /\ \A x : In(x, ops) => In(x, ops')
        /\ ~lostOps' => In(StopOf(p), ops')
    BY <1>4 DEF Queued
  <2> QED BY <1>1, <1>5, <2>1 DEF ServerInv, Known, StopOf
<1> QED BY <1>6, <1>7, <1>8, <1>9, <1>10, <1>11 DEF ServerInv

\* A client is told of a disconnect.
LEMMA ReturnClientKeeps ==
    ASSUME ServerInv, ReturnClient PROVE ServerInv'
<1> DEFINE c == Head(status)
           found == \E i \in DOMAIN in_use : in_use[i] = c
<1>1. /\ task.at = "idle" /\ status # <<>> /\ status' = Tail(status)
      /\ UNCHANGED <<backlog, clients, disp, conn, registered, ops, raced, lostOps>>
  BY DEF ReturnClient, history
<1>2. /\ TypeInv /\ status \in Seq(ClientSet) /\ in_use \in Seq(Somebody)
      /\ Nobody \notin ClientSet /\ Nobody \in Somebody /\ Distinct(status)
  BY ServerAssumption DEF ServerInv, TypeInv, ClientSet, Somebody, ToldOnce
<1>3. /\ c \in ClientSet /\ status' \in Seq(ClientSet) /\ Distinct(status')
      /\ In(c, status) /\ ~In(c, status')
      /\ \A x : In(x, status') => In(x, status)
  BY <1>1, <1>2, InTail
<1>4. task.who = Nobody
  BY <1>1 DEF ServerInv, Hands
<1>5. CASE UNCHANGED <<task, client, in_use>>
  <2>1. TypeInv'
    BY <1>1, <1>2, <1>3, <1>5 DEF TypeInv
  <2>2. (Waiting /\ Hands /\ Exclusive /\ OneConnectionEach /\ Counted /\ Dealt /\ Known)'
    BY <1>1, <1>5 DEF ServerInv, Waiting, Hands, Exclusive, OneConnectionEach, Counted,
       Dealt, WasAccepted, Known, StopOf
  <2>3. ToldOnce'
    BY <1>1, <1>3, <1>5 DEF ServerInv, ToldOnce
  <2> QED BY <2>1, <2>2, <2>3 DEF ServerInv
<1>6. CASE /\ client' = [p \in Peers |-> IF client[p] = c THEN Nobody ELSE client[p]]
           /\ in_use' = IF found THEN Shifted(in_use, c) ELSE in_use
           /\ task' = [AtRest EXCEPT !.at = IF found THEN "erase" ELSE "push", !.who = c]
  <2> HIDE DEF c
  <2>1. PICK p0 \in Peers : client[p0] = c /\ conn[p0] = "closed"
    BY <1>3 DEF ServerInv, ToldOnce
  <2>2. \A p \in Peers : client[p] = c => p = p0
    BY <1>2, <1>3, <2>1 DEF ServerInv, OneConnectionEach
  <2>3. ~In(c, clients) /\ c # disp.who
    BY <1>2, <1>3, <2>1 DEF ServerInv, Exclusive
  <2>4. /\ task'.at = (IF found THEN "erase" ELSE "push") /\ task'.who = c
        /\ task' \in [at : {"idle", "erase", "push"}, who : Somebody, peer : {Nobody}]
    BY <1>3, <1>6 DEF AtRest, Somebody
  <2>5. \A p \in Peers : client'[p] = IF client[p] = c THEN Nobody ELSE client[p]
    BY <1>6
  <2>6. found <=> In(c, in_use)
    BY DEF In
  <2> HIDE DEF found
  <2>7. /\ in_use' \in Seq(Somebody)
        /\ found => in_use' # <<>>
        /\ found /\ Distinct(in_use) /\ ~In(Nobody, in_use) =>
             /\ Distinct(in_use')
             /\ \A x : In(x, in_use') <=> x = Nobody \/ (In(x, in_use) /\ x # c)
             /\ in_use'[Len(in_use')] = Nobody
        /\ ~found => in_use' = in_use
    <3>1. CASE found
      BY <1>2, <1>6, <2>6, <3>1, InShifted
    <3>2. CASE ~found
      BY <1>2, <1>6, <3>2
    <3> QED BY <3>1, <3>2
  <2>8. TypeInv'
    <3>1. client' \in [Peers -> Somebody]
      BY <1>2, <1>6 DEF TypeInv
    <3> QED BY <1>1, <1>2, <1>3, <2>4, <2>7, <3>1 DEF TypeInv
  <2>9. (Waiting /\ Known)'
    BY <1>1 DEF ServerInv, Waiting, Known, StopOf
  <2>10. Hands'
    BY <1>1, <1>2, <1>3, <2>3, <2>4, <2>7 DEF ServerInv, Hands
  <2>11. Exclusive'
    BY <1>1, <2>4, <2>5 DEF ServerInv, Exclusive
  <2>12. OneConnectionEach'
    BY <2>5 DEF ServerInv, OneConnectionEach
  <2>13. ToldOnce'
    <3>1. ASSUME NEW x \in ClientSet, In(x, status')
          PROVE  \E p \in Peers : client'[p] = x /\ conn'[p] = "closed"
      <4>1. In(x, status) /\ x # c
        BY <1>3, <3>1
      <4>2. PICK p \in Peers : client[p] = x /\ conn[p] = "closed"
        BY <4>1 DEF ServerInv, ToldOnce
      <4> QED BY <1>1, <2>5, <4>1, <4>2
    <3> QED BY <1>3, <3>1 DEF ToldOnce
  <2>14. Dealt'
    <3>1. \A p \in Peers : /\ conn'[p] \in {"away", "waiting"} => client'[p] = Nobody
                           /\ conn'[p] \in {"open", "stopped", "revived"} => client'[p] \in ClientSet
      BY <1>1, <2>1, <2>2, <2>5 DEF ServerInv, Dealt
    <3> QED BY <1>1, <3>1 DEF ServerInv, Dealt, WasAccepted
  <2>15. Counted'
    <3> SUFFICES ASSUME ~raced
                 PROVE  /\ Distinct(in_use')
                        /\ In(Nobody, in_use') <=> task'.at = "erase"
                        /\ task'.at = "erase" => in_use'[Len(in_use')] = Nobody
                        /\ \A x \in ClientSet :
                             /\ In(x, clients') \/ In(x, in_use') \/ x = task'.who
                             /\ In(x, in_use') => /\ x # task'.who
                                                  /\ In(x, clients') => disp'.at = "pop" /\ disp'.who = x
                             /\ disp'.at = "pop" /\ disp'.who = x => In(x, in_use')
      BY <1>1 DEF Counted
    <3>1. Distinct(in_use) /\ ~In(Nobody, in_use)
      BY <1>1 DEF ServerInv, Counted
    <3>2. \A x \in ClientSet :
             /\ In(x, clients) \/ In(x, in_use)
             /\ In(x, in_use) => (In(x, clients) => disp.at = "pop" /\ disp.who = x)
             /\ disp.at = "pop" /\ disp.who = x => In(x, in_use)
      BY <1>2, <1>4 DEF ServerInv, Counted
    <3>3. CASE found
      <4>1. \A x : In(x, in_use') <=> x = Nobody \/ (In(x, in_use) /\ x # c)
        BY <2>7, <3>1, <3>3
      <4> QED BY <1>1, <1>2, <2>3, <2>4, <2>7, <3>1, <3>2, <3>3, <4>1
    <3>4. CASE ~found
      BY <1>1, <2>3, <2>4, <2>6, <2>7, <3>1, <3>2, <3>4
    <3> QED BY <3>3, <3>4
  <2> QED BY <2>8, <2>9, <2>10, <2>11, <2>12, <2>13, <2>14, <2>15 DEF ServerInv
<1> QED BY <1>5, <1>6 DEF ReturnClient

LEMMA EraseKeeps ==
    ASSUME ServerInv, EraseEnd PROVE ServerInv'
<1>1. /\ task.at = "erase" /\ task' = [task EXCEPT !.at = "push"]
      /\ in_use' = SubSeq(in_use, 1, Len(in_use) - 1)
      /\ UNCHANGED <<backlog, clients, disp, conn, client, registered, ops, status, raced, lostOps>>
  BY DEF EraseEnd, history
<1>2. TypeInv /\ in_use \in Seq(Somebody) /\ in_use # <<>>
  BY <1>1 DEF ServerInv, TypeInv, Hands
<1>3. /\ in_use' \in Seq(Somebody)
      /\ Distinct(in_use) => /\ Distinct(in_use')
                             /\ \A x : In(x, in_use') <=> In(x, in_use) /\ x # in_use[Len(in_use)]
  BY <1>1, <1>2, InFront
<1>4. task'.at = "push" /\ task'.who = task.who
      /\ task' \in [at : {"idle", "erase", "push"}, who : Somebody, peer : {Nobody}]
  BY <1>1, <1>2 DEF TypeInv
<1>5. TypeInv'
  BY <1>1, <1>2, <1>3, <1>4 DEF TypeInv
<1>6. (Waiting /\ OneConnectionEach /\ ToldOnce /\ Dealt /\ Known)'
  BY <1>1 DEF ServerInv, Waiting, OneConnectionEach, ToldOnce, Dealt, WasAccepted, Known, StopOf
<1>7. (Hands /\ Exclusive)'
  BY <1>1, <1>4 DEF ServerInv, Hands, Exclusive
<1>8. Nobody \notin ClientSet
  BY ServerAssumption DEF ClientSet
<1>9. Counted'
  BY <1>1, <1>3, <1>4, <1>8 DEF ServerInv, Counted
<1> QED BY <1>5, <1>6, <1>7, <1>9 DEF ServerInv

LEMMA PushBackKeeps ==
    ASSUME ServerInv, PushBack PROVE ServerInv'
<1> DEFINE c == task.who
<1>1. /\ task.at = "push" /\ task' = AtRest /\ clients' = Append(clients, c)
      /\ UNCHANGED <<backlog, in_use, disp, conn, client, registered, ops, status, raced, lostOps>>
  BY DEF PushBack, history
<1>2. TypeInv /\ clients \in Seq(ClientSet) /\ Nobody \notin ClientSet
  BY ServerAssumption DEF ServerInv, TypeInv, ClientSet
<1>3. c \in ClientSet /\ ~In(c, clients) /\ disp.who # c
  BY <1>1, <1>2 DEF ServerInv, Hands, TypeInv, Somebody
<1>4. /\ clients' \in Seq(ClientSet) /\ clients' # <<>>
      /\ \A x : In(x, clients') <=> x = c \/ In(x, clients)
      /\ Distinct(clients) => Distinct(clients')
      /\ clients # <<>> => Head(clients') = Head(clients)
  BY <1>1, <1>2, <1>3, InAppend
<1>5. task'.at = "idle" /\ task'.who = Nobody
      /\ task' \in [at : {"idle", "erase", "push"}, who : Somebody, peer : {Nobody}]
  BY <1>1 DEF AtRest, Somebody
<1>6. TypeInv'
  BY <1>1, <1>2, <1>4, <1>5 DEF TypeInv
<1>7. (Waiting /\ OneConnectionEach /\ ToldOnce /\ Dealt /\ Known)'
  BY <1>1 DEF ServerInv, Waiting, OneConnectionEach, ToldOnce, Dealt, WasAccepted, Known, StopOf
<1>8. ~In(Nobody, clients')
  BY <1>2, <1>4, InSet
<1>9. Hands'
  BY <1>1, <1>3, <1>4, <1>5, <1>8 DEF ServerInv, Hands
<1>10. Exclusive'
  BY <1>1, <1>4, <1>5 DEF ServerInv, Exclusive
<1>11. Counted'
  BY <1>1, <1>2, <1>3, <1>4, <1>5 DEF ServerInv, Counted
<1> QED BY <1>6, <1>7, <1>9, <1>10, <1>11 DEF ServerInv

-----------------------------------------------------------------------------

LEMMA ServerStep == ASSUME ServerInv, [ServerNext]_serverVars PROVE ServerInv'
<1>1. CASE UNCHANGED serverVars
  BY <1>1 DEF serverVars, ServerInv, TypeInv, Waiting, Dealt, WasAccepted, Hands, Exclusive,
     OneConnectionEach, ToldOnce, Counted, Known, StopOf
<1>2. CASE ShutdownSocket
  BY <1>2, ShutdownServerKeeps, ShutdownConnectionKeeps
<1>3. CASE \/ \E p \in Peers : Connect(p) \/ StopConnection(p) \/ Close(p)
           \/ \E p \in Peers, sendFails \in BOOLEAN : CloseDuringWritable(p, sendFails)
  BY <1>3, ConnectKeeps, StopKeeps
<1>4. CASE Readable \/ Task
  BY <1>4, GetFrontKeeps, PopFrontKeeps, SetExistingSocketKeeps, ReturnClientKeeps,
     EraseKeeps, PushBackKeeps DEF Readable, Task
<1>5. CASE AcceptRequest \/ AddActiveSocket
  BY <1>5, AcceptRequestKeeps, AddActiveSocketKeeps
<1>6. CASE \/ \E ok \in BOOLEAN : StartSocket(ok) \/ RestartInactive(ok)
           \/ NetworkEvent \/ BackOffEnds
  BY <1>6, QuietKeeps
<1> QED BY <1>1, <1>2, <1>3, <1>4, <1>5, <1>6 DEF ServerNext, HandleOp, Restart

\* Times counts what Distinct allows once.
LEMMA TimesOnce ==
    ASSUME NEW x, NEW s, Distinct(s)
    PROVE  Times(x, s) = IF In(x, s) THEN 1 ELSE 0
<1> DEFINE places == {i \in DOMAIN s : s[i] = x}
<1>1. CASE In(x, s)
  <2>1. PICK i \in DOMAIN s : s[i] = x
    BY <1>1 DEF In
  <2>2. places = {i}
    BY <2>1 DEF Distinct
  <2> QED BY <1>1, <2>2, FS_Singleton DEF Times
<1>2. CASE ~In(x, s)
  <2>1. places = {}
    BY <1>2 DEF In
  <2> QED BY <1>2, <2>1, FS_EmptySet DEF Times
<1> QED BY <1>1, <1>2

(* Clients and connections are conserved: every client of the pool is free,  *)
(* in use or on its way, once, until the two threads meet in ClientPool;     *)
(* none ever serves two connections; and the dispatcher knows every open     *)
(* connection and will close every stopped one, unless its queue was full.   *)
THEOREM ServerConserves == ServerSpec => []ClientsConserved
<1>1. ServerInit => ServerInv
  BY ServerStart
<1>2. ServerInv /\ [ServerNext]_serverVars => ServerInv'
  BY ServerStep
<1>3. ASSUME ServerInv PROVE ClientsConserved
  <2>1. OneConnectionEach
    BY <1>3 DEF ServerInv
  <2>2. ConnectionsKnown
    <3>1. \A x : In(x, ops) <=> x \in ToSet(ops)
      BY DEF In, ToSet
    <3> QED BY <1>3, <3>1 DEF ServerInv, Known, ConnectionsKnown
  <2>3. PoolConserved
    <3> SUFFICES ASSUME ~raced
                 PROVE  /\ \A i \in DOMAIN Clients :
                             Times(Clients[i], clients) + Times(Clients[i], in_use)
                               + (IF task.who = Clients[i] THEN 1 ELSE 0)
                             = (IF disp.at = "pop" /\ disp.who = Clients[i] THEN 2 ELSE 1)
                        /\ Times(Nobody, in_use) = (IF task.at = "erase" THEN 1 ELSE 0)
      BY DEF PoolConserved
    <3>1. Distinct(clients) /\ Distinct(in_use)
      BY <1>3 DEF ServerInv, Hands, Counted
    <3>2. \A x : Times(x, clients) = (IF In(x, clients) THEN 1 ELSE 0)
      BY <3>1, TimesOnce
    <3>3. \A x : Times(x, in_use) = (IF In(x, in_use) THEN 1 ELSE 0)
      BY <3>1, TimesOnce
    <3>4. Times(Nobody, in_use) = (IF task.at = "erase" THEN 1 ELSE 0)
      BY <1>3, <3>3 DEF ServerInv, Counted
    <3>5. ASSUME NEW c \in ClientSet
          PROVE  Times(c, clients) + Times(c, in_use) + (IF task.who = c THEN 1 ELSE 0)
                 = (IF disp.at = "pop" /\ disp.who = c THEN 2 ELSE 1)
      <4>1. c # Nobody
        BY <3>5, ServerAssumption DEF ClientSet
      <4>2. CASE task.who = c
        <5>1. ~In(c, clients) /\ ~In(c, in_use) /\ ~(disp.at = "pop" /\ disp.who = c)
          BY <1>3, <4>1, <4>2 DEF ServerInv, Counted, Hands
        <5> QED BY <3>2, <3>3, <4>2, <5>1
      <4>3. CASE task.who # c /\ disp.at = "pop" /\ disp.who = c
        <5>1. In(c, clients) /\ In(c, in_use)
          <6>1. clients # <<>> /\ c = Head(clients) /\ clients \in Seq(ClientSet)
            BY <1>3, <4>3 DEF ServerInv, Hands, TypeInv
          <6>2. In(c, clients)
            BY <6>1, InTail
          <6> QED BY <1>3, <4>3, <6>2 DEF ServerInv, Counted
        <5> QED BY <3>2, <3>3, <4>3, <5>1
      <4>4. CASE task.who # c /\ ~(disp.at = "pop" /\ disp.who = c)
        <5>1. (In(c, clients) /\ ~In(c, in_use)) \/ (~In(c, clients) /\ In(c, in_use))
          BY <1>3, <4>4 DEF ServerInv, Counted
        <5> QED BY <3>2, <3>3, <4>4, <5>1
      <4> QED BY <4>2, <4>3, <4>4
    <3>6. \A i \in DOMAIN Clients : Clients[i] \in ClientSet
      BY DEF ClientSet, ToSet
    <3> QED BY <3>4, <3>5, <3>6
  <2> QED BY <2>1, <2>2, <2>3 DEF ClientsConserved
<1> QED BY <1>1, <1>2, <1>3, PTL DEF ServerSpec
=============================================================================
