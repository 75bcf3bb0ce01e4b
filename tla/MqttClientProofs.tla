-------------------------- MODULE MqttClientProofs --------------------------
(***************************************************************************)
(* Proofs about the MQTT client.                                           *)
(***************************************************************************)
EXTENDS MqttClient, FiniteSetTheorems, SequenceTheorems, TLAPS

-----------------------------------------------------------------------------
(* Types.                                                                  *)

States == {"startup", "idle", "connect", "run", "disconnect"}
Qualities == 0..2

Publishes == [type : {"PUBLISH"}, id : Nat, m : Messages, qos : Qualities, dup : BOOLEAN]
\* What the broker keeps of a message that it has sent.
Held == [type : {"PUBLISH", "PUBREL"}, id : Nat, m : Messages, qos : Qualities, dup : BOOLEAN]
Subscribes == [type : {"SUBSCRIBE"}, id : Nat, topic : Topics, qos : Qualities]
Unsubscribes == [type : {"UNSUBSCRIBE"}, id : Nat, topic : Topics]

\* Packets of which only the identifier matters.
ClientSignals == [type : {"PUBREL", "PUBREC", "PUBACK", "PUBCOMP", "PINGREQ", "DISCONNECT"}, id : Nat]
BrokerSignals == [type : {"PUBREL", "PUBREC", "PUBACK", "PUBCOMP", "SUBACK", "UNSUBACK"}, id : Nat]

ToBroker == Publishes \cup Subscribes \cup Unsubscribes \cup ClientSignals \cup [type : {"CONNECT"}, clean : BOOLEAN]
ToClient == Held \cup BrokerSignals \cup [type : {"CONNACK"}, accepted : BOOLEAN]
Events == [ev : {"CONNECT", "DISCONNECT", "RECONNECT", "GOT_IP", "up", "down"}] \cup [ev : {"data"}, p : ToClient]

Waits == {Reserved, "PUBACK", "PUBREC", "PUBCOMP", "PUBREL", "SUBACK", "UNSUBACK"}
Timers == {"short", "long", "running"}
Flights(P) == [packet : P, wait : Waits, timer : Timers]
Outgoing == Flights(Publishes)

\* A message waits for the answers of its quality only.
Apt(f) == /\ f.packet.qos = 0 => f.wait = Reserved
          /\ f.packet.qos = 1 => f.wait \in {Reserved, "PUBACK"}
          /\ f.packet.qos = 2 => f.wait \in {Reserved, "PUBREC", "PUBCOMP"}
          /\ f.packet.qos = QoSOf[f.packet.m]

QueueType(q) == q \in Seq(Outgoing) /\ Len(q) <= MaxOutgoing /\ \A j \in 1..Len(q) : Apt(q[j])

\* What is offered to the queue of the application.
Offers == [m : Messages, taken : BOOLEAN]

Worlds == [tx : Seq(ToBroker), state : States, app : Seq(Offers)]
WorldType(w) == w \in Worlds /\ Len(w.tx) <= TxSize

SubType(s) ==
    /\ s = [subscribing |-> s.subscribing, unsubscribing |-> s.unsubscribing,
            active |-> s.active, receiving |-> s.receiving]
    /\ s.subscribing \in Seq(Flights(Subscribes)) /\ s.unsubscribing \in Seq(Flights(Unsubscribes))
    /\ IsFiniteSet(DOMAIN s.active) /\ DOMAIN s.active \subseteq Topics
    /\ \A t \in DOMAIN s.active : s.active[t] \in Qualities
    /\ DOMAIN s.receiving \subseteq Nat
    /\ \A id \in DOMAIN s.receiving : s.receiving[id] \in Flights(Publishes)

BrokerType(b) ==
    /\ b = [up |-> b.up, subs |-> b.subs, in |-> b.in, out |-> b.out, next |-> b.next]
    /\ b.up \in BOOLEAN /\ b.next \in Nat
    /\ DOMAIN b.in \subseteq Nat
    /\ IsFiniteSet(DOMAIN b.out)
    /\ \A id \in DOMAIN b.out : b.out[id] \in Held

TypeInv ==
    /\ plan \in Plans /\ calls \in Seq(AppCalls)
    /\ state \in States
    /\ QueueType(in_progress) /\ SubType(sub)
    /\ packet_id \in 0..(IdRange - 1)
    /\ inbox \in Seq(Events)
    /\ tx \in Seq(ToBroker) /\ Len(tx) <= TxSize
    /\ net \in Seq(ToClient) /\ BrokerType(broker)
    /\ sock \in {"none", "connecting", "up", "stopping"}
    /\ app \in Seq(Offers) /\ delivered \in Seq(Messages) /\ accepted \in Seq(Messages)

-----------------------------------------------------------------------------
(* Sequences.                                                              *)

\* What HandleConnect and HandleDisconnect keep of the events.
LEMMA KeptType ==
    ASSUME NEW S, NEW s \in Seq(S), NEW K, K \subseteq 1..Len(s), NEW t \in Kept(s, K)
    PROVE  /\ t \in Seq(S)
           /\ \A i \in 1..Len(t) : \E j \in K : t[i] = s[j]
<1>1. PICK f \in Walks(K) : t = [i \in 1..Cardinality(K) |-> s[f[i]]]
    BY DEF Kept
<1>2. IsFiniteSet(K)
    <2>1. IsFiniteSet(1..Len(s))
        BY FS_Interval
    <2> QED
        BY <2>1, FS_Subset
<1>3. Cardinality(K) \in Nat
    BY <1>2, FS_CardinalityType
<1>4. f \in [1..Cardinality(K) -> K]
    BY <1>1 DEF Walks
<1>5. ASSUME NEW i \in 1..Cardinality(K) PROVE f[i] \in K /\ s[f[i]] \in S
    <2>1. f[i] \in K
        BY <1>4
    <2>2. f[i] \in 1..Len(s)
        BY <2>1
    <2> QED
        BY <2>1, <2>2
<1>6. t \in Seq(S) /\ Len(t) = Cardinality(K)
    BY <1>1, <1>3, <1>5
<1> QED
    BY <1>1, <1>5, <1>6

LEMMA FirstType ==
    ASSUME NEW S, NEW q \in Seq(S), q # <<>>, NEW f \in S
    PROVE  /\ First(q, f) \in Seq(S) /\ Len(First(q, f)) = Len(q) /\ First(q, f) # <<>>
           /\ First(q, f)[1] = f
           /\ \A j \in 1..Len(q) : j # 1 => First(q, f)[j] = q[j]
<1>1. Len(q) \in Nat /\ 1 \in 1..Len(q)
    OBVIOUS
<1>2. DOMAIN q = 1..Len(q)
    OBVIOUS
<1>3. First(q, f) = [j \in 1..Len(q) |-> IF j = 1 THEN f ELSE q[j]]
    BY <1>1, <1>2 DEF First
<1>4. First(q, f) \in Seq(S) /\ Len(First(q, f)) = Len(q)
    BY <1>1, <1>3
<1> QED
    BY <1>1, <1>3, <1>4

-----------------------------------------------------------------------------
(* The send buffer.                                                        *)

\* The packets of Publication.
OfPublication(p) == p.type \in {"PUBLISH", "PUBREL"}

\* t is s and packets that are not of Publication.
Extends(s, t) ==
    /\ Len(s) <= Len(t)
    /\ \A i \in 1..Len(s) : t[i] = s[i]
    /\ \A i \in 1..Len(t) : i > Len(s) => ~OfPublication(t[i])

LEMMA ExtendsSelf ==
    ASSUME NEW s \in Seq(ToBroker) PROVE Extends(s, s)
BY DEF Extends

LEMMA ExtendsTwice ==
    ASSUME NEW s \in Seq(ToBroker), NEW t \in Seq(ToBroker), NEW u \in Seq(ToBroker),
           Extends(s, t), Extends(t, u)
    PROVE  Extends(s, u)
<1>1. Len(s) \in Nat /\ Len(t) \in Nat /\ Len(u) \in Nat /\ Len(s) <= Len(t) /\ Len(t) <= Len(u)
    BY DEF Extends
<1>2. ASSUME NEW i \in 1..Len(s) PROVE u[i] = s[i]
    <2>1. i \in 1..Len(t)
        BY <1>1
    <2> QED
        BY <2>1 DEF Extends
<1>3. ASSUME NEW i \in 1..Len(u), i > Len(s) PROVE ~OfPublication(u[i])
    <2>1. CASE i \in 1..Len(t)
        BY <1>3, <2>1 DEF Extends
    <2>2. CASE i > Len(t)
        BY <2>2 DEF Extends
    <2> QED
        BY <1>1, <2>1, <2>2
<1> QED
    BY <1>1, <1>2, <1>3 DEF Extends

LEMMA AppendFacts ==
    ASSUME NEW S, NEW s \in Seq(S), NEW x \in S
    PROVE  /\ Append(s, x) \in Seq(S) /\ Len(Append(s, x)) = Len(s) + 1 /\ Len(s) \in Nat
           /\ Append(s, x)[Len(s) + 1] = x
           /\ \A i \in 1..Len(s) : Append(s, x)[i] = s[i]
OBVIOUS

LEMMA TailFacts ==
    ASSUME NEW S, NEW s \in Seq(S), s # <<>>
    PROVE  /\ Tail(s) \in Seq(S) /\ Len(Tail(s)) = Len(s) - 1 /\ Len(s) \in Nat /\ Len(s) >= 1
           /\ Head(s) = s[1] /\ s[1] \in S
           /\ \A i \in 1..(Len(s) - 1) : Tail(s)[i] = s[i + 1]
OBVIOUS

LEMMA SendFacts ==
    ASSUME NEW w, WorldType(w), NEW p \in ToBroker
    PROVE  /\ WorldType(Send(w, p))
           /\ Send(w, p).state = w.state /\ Send(w, p).app = w.app
           /\ HasRoom(w) => Send(w, p).tx = Append(w.tx, p)
           /\ ~HasRoom(w) => Send(w, p) = w
           /\ ~OfPublication(p) => Extends(w.tx, Send(w, p).tx)
<1>1. /\ w \in Worlds /\ w.tx \in Seq(ToBroker) /\ w.state \in States /\ w.app \in Seq(Offers)
      /\ Len(w.tx) <= TxSize /\ TxSize \in Nat
    BY MqttAssumption DEF WorldType, Worlds
<1>2. CASE HasRoom(w)
    <2>1. Send(w, p) = [w EXCEPT !.tx = Append(w.tx, p)]
        BY <1>2 DEF Send
    <2>2. /\ Append(w.tx, p) \in Seq(ToBroker) /\ Len(Append(w.tx, p)) = Len(w.tx) + 1
          /\ Len(w.tx) \in Nat /\ Append(w.tx, p)[Len(w.tx) + 1] = p
          /\ \A i \in 1..Len(w.tx) : Append(w.tx, p)[i] = w.tx[i]
        BY <1>1, AppendFacts
    <2>3. /\ Send(w, p) \in Worlds /\ Send(w, p).tx = Append(w.tx, p)
          /\ Send(w, p).state = w.state /\ Send(w, p).app = w.app
        BY <1>1, <2>1, <2>2 DEF Worlds
    <2>4. Len(w.tx) < TxSize
        BY <1>2 DEF HasRoom
    <2>5. Len(Send(w, p).tx) <= TxSize
        BY <1>1, <2>2, <2>3, <2>4
    <2>6. ~OfPublication(p) => Extends(w.tx, Append(w.tx, p))
        <3>1. \A i \in 1..(Len(w.tx) + 1) : i > Len(w.tx) => i = Len(w.tx) + 1
            BY <2>2
        <3> QED
            BY <2>2, <3>1 DEF Extends
    <2> QED
        BY <1>2, <2>3, <2>5, <2>6 DEF WorldType
<1>3. CASE ~HasRoom(w)
    <2>1. Send(w, p) = w
        BY <1>3 DEF Send
    <2> QED
        BY <1>1, <1>3, <2>1, ExtendsSelf
<1> QED
    BY <1>2, <1>3

LEMMA ForceFacts ==
    ASSUME NEW w, WorldType(w)
    PROVE  /\ WorldType(ForceDisconnect(w)) /\ Extends(w.tx, ForceDisconnect(w).tx)
           /\ ForceDisconnect(w).app = w.app
<1>1. w \in Worlds
    BY DEF WorldType
<1>2. PICK v : v = [w EXCEPT !.state = "disconnect"]
    OBVIOUS
<1>3. v \in Worlds /\ v.tx = w.tx /\ v.app = w.app
    BY <1>1, <1>2 DEF Worlds, States
<1>4. WorldType(v)
    BY <1>3 DEF WorldType
<1>5. PICK p : p = Packet("DISCONNECT", 0)
    OBVIOUS
<1>6. p \in ClientSignals /\ p.type = "DISCONNECT"
    BY <1>5 DEF Packet, ClientSignals
<1>7. p \in ToBroker /\ ~OfPublication(p)
    BY <1>6 DEF ToBroker, OfPublication
<1>8. ForceDisconnect(w) = Send(v, p)
    BY <1>2, <1>5 DEF ForceDisconnect, DisconnectEnter
<1> QED
    BY <1>3, <1>4, <1>7, <1>8, SendFacts

-----------------------------------------------------------------------------
(* What the operations of Publication do.                                  *)

\* The same message under the same identifier.
Alike(f, g) ==
    f.packet.id = g.packet.id /\ f.packet.m = g.packet.m /\ f.packet.qos = g.packet.qos

\* q after its first flight has changed to f.
Changed(q, f, r) == q # <<>> /\ f \in Outgoing /\ Apt(f) /\ Alike(f, q[1]) /\ r = First(q, f)

LEMMA ChangedFacts ==
    ASSUME NEW q, QueueType(q), NEW f, NEW r, Changed(q, f, r)
    PROVE  /\ QueueType(r) /\ Len(r) = Len(q) /\ Len(q) \in Nat /\ Len(q) >= 1 /\ r # <<>> /\ r[1] = f
           /\ \A j \in 1..Len(q) : j # 1 => r[j] = q[j]
           /\ \A j \in 1..Len(q) : Alike(r[j], q[j])
<1>1. q \in Seq(Outgoing) /\ q # <<>> /\ f \in Outgoing /\ Apt(f) /\ Alike(f, q[1]) /\ r = First(q, f)
      /\ \A j \in 1..Len(q) : Apt(q[j])
      /\ Len(q) <= MaxOutgoing
    BY DEF QueueType, Changed
<1>2. /\ r \in Seq(Outgoing) /\ Len(r) = Len(q) /\ r # <<>> /\ r[1] = f
      /\ \A j \in 1..Len(q) : j # 1 => r[j] = q[j]
    <2>1. /\ First(q, f) \in Seq(Outgoing) /\ Len(First(q, f)) = Len(q) /\ First(q, f) # <<>>
          /\ First(q, f)[1] = f
          /\ \A j \in 1..Len(q) : j # 1 => First(q, f)[j] = q[j]
        <3>1. q \in Seq(Outgoing) /\ q # <<>> /\ f \in Outgoing
            BY <1>1
        <3> QED
            BY ONLY <3>1, FirstType
    <2> QED
        BY <1>1, <2>1
<1>3. Len(q) \in Nat /\ Len(q) >= 1
    BY <1>1
<1>4. \A j \in 1..Len(q) : Apt(r[j])
    BY <1>1, <1>2
<1>5. \A j \in 1..Len(q) : Alike(r[j], q[j])
    BY <1>1, <1>2 DEF Alike
<1>6. QueueType(r)
    BY <1>1, <1>2, <1>4 DEF QueueType
<1> QED
    BY <1>2, <1>3, <1>5, <1>6

LEMMA TailType ==
    ASSUME NEW q, QueueType(q), q # <<>>
    PROVE  /\ QueueType(Tail(q)) /\ Len(Tail(q)) = Len(q) - 1 /\ Len(q) \in Nat /\ Len(q) >= 1
           /\ Head(q) = q[1] /\ q[1] \in Outgoing /\ Apt(q[1])
           /\ \A j \in 1..(Len(q) - 1) : Tail(q)[j] = q[j + 1]
<1>1. q \in Seq(Outgoing) /\ Len(q) <= MaxOutgoing /\ \A j \in 1..Len(q) : Apt(q[j])
    BY DEF QueueType
<1>2. /\ Tail(q) \in Seq(Outgoing) /\ Len(Tail(q)) = Len(q) - 1 /\ Len(q) \in Nat /\ Len(q) >= 1
      /\ Head(q) = q[1] /\ q[1] \in Outgoing
      /\ \A i \in 1..(Len(q) - 1) : Tail(q)[i] = q[i + 1]
    BY <1>1, TailFacts
<1>3. \A j \in 1..(Len(q) - 1) : j + 1 \in 1..Len(q)
    BY <1>2
<1>4. \A j \in 1..Len(Tail(q)) : Apt(Tail(q)[j])
    BY <1>1, <1>2, <1>3
<1>5. Len(Tail(q)) <= MaxOutgoing
    BY <1>1, <1>2, MqttAssumption
<1>6. 1 \in 1..Len(q)
    BY <1>2
<1> QED
    BY <1>1, <1>2, <1>4, <1>5, <1>6 DEF QueueType

\* The fields of a flight after its operations.
LEMMA FlightFacts ==
    ASSUME NEW f \in Outgoing, NEW type \in Waits, NEW m \in Measured
    PROVE  /\ WaitFor(f, type) = [packet |-> f.packet, wait |-> type, timer |-> f.timer]
           /\ StopTimer(f, m) = [packet |-> f.packet, wait |-> f.wait, timer |-> m]
           /\ ZeroTimer(f, m) = [packet |-> f.packet, wait |-> f.wait, timer |-> m]
           /\ StartTimer(f) = [packet |-> f.packet, wait |-> f.wait, timer |-> "running"]
BY DEF Outgoing, Flights, WaitFor, StopTimer, ZeroTimer, StartTimer

LEMMA FieldTypes ==
    ASSUME NEW f \in Outgoing
    PROVE  f.packet \in Publishes /\ f.wait \in Waits /\ f.timer \in Timers
BY DEF Outgoing, Flights

LEMMA FlightType ==
    ASSUME NEW p \in Publishes, NEW type \in Waits, NEW x \in Timers
    PROVE  [packet |-> p, wait |-> type, timer |-> x] \in Outgoing
BY DEF Outgoing, Flights

\* Publication::handle_disconnect()
LEMMA DisconnectFacts ==
    ASSUME NEW q, QueueType(q), NEW m \in Measured
    PROVE  \/ PubHandleDisconnect(q, m) = q
           \/ \E f : Changed(q, f, PubHandleDisconnect(q, m)) /\ f.wait = q[1].wait
<1>1. CASE q = <<>>
    BY <1>1 DEF PubHandleDisconnect
<1>2. CASE q # <<>>
    <2>1. Head(q) = q[1] /\ q[1] \in Outgoing /\ Apt(q[1])
        BY <1>2, TailType
    <2>2. PICK f : f = [packet |-> q[1].packet, wait |-> q[1].wait, timer |-> m]
        OBVIOUS
    <2>3. ZeroTimer(q[1], m) = f
        BY <2>1, <2>2, FlightFacts DEF Waits
    <2>4. m \in Timers
        BY DEF Timers, Measured
    <2>5. f \in Outgoing
        <3>1. q[1].packet \in Publishes /\ q[1].wait \in Waits
            BY <2>1, FieldTypes
        <3> QED
            BY <2>2, <2>4, <3>1, FlightType
    <2>6. f.packet = q[1].packet /\ f.wait = q[1].wait
        BY <2>2
    <2>7. Apt(f) /\ Alike(f, q[1])
        BY <2>1, <2>6 DEF Apt, Alike
    <2>8. PubHandleDisconnect(q, m) = First(q, f)
        BY <1>2, <2>1, <2>3 DEF PubHandleDisconnect
    <2> QED
        BY <1>2, <2>5, <2>6, <2>7, <2>8 DEF Changed
<1> QED
    BY <1>1, <1>2

\* Publication::resend_outstanding_control_packet()
LEMMA ResendFacts ==
    ASSUME NEW q, QueueType(q), NEW w, WorldType(w), NEW clean \in BOOLEAN, NEW m \in Measured,
           NEW r, r = PubResend(q, w, clean, m)
    PROVE  \/ r.q = q /\ r.w = w
           \/ clean /\ q # <<>> /\ r.q = Tail(q) /\ r.w = w
           \/ /\ ~clean /\ q # <<>> /\ q[1].wait # "PUBCOMP" /\ r.w = w
              /\ \E f : Changed(q, f, r.q) /\ f.wait = Reserved
           \/ /\ ~clean /\ q # <<>> /\ q[1].wait = "PUBCOMP"
              /\ r.q = q /\ r.w = Send(w, Packet("PUBREL", q[1].packet.id))
<1>1. CASE q = <<>> \/ (clean /\ Head(q).wait = Reserved)
    <2>1. r = [q |-> q, w |-> w]
        BY <1>1 DEF PubResend
    <2> QED
        BY <2>1
<1>2. CASE q # <<>> /\ clean /\ Head(q).wait # Reserved
    <2>1. r = [q |-> Tail(q), w |-> w]
        BY <1>2 DEF PubResend
    <2>2. r.q = Tail(q) /\ r.w = w
        BY <2>1
    <2> QED
        BY <1>2, <2>2
<1>3. CASE q # <<>> /\ ~clean
    <2>1. Head(q) = q[1] /\ q[1] \in Outgoing /\ Apt(q[1])
        BY <1>3, TailType
    <2>2. PICK f : f = q[1]
        OBVIOUS
    <2>3. /\ f \in Outgoing /\ f.packet \in Publishes /\ f.wait \in Waits /\ f.timer \in Timers
        BY <2>1, <2>2, FieldTypes
    <2>4. PICK p : p = Dup(f.packet)
        OBVIOUS
    <2>5. p \in Publishes /\ p.id = f.packet.id /\ p.m = f.packet.m /\ p.qos = f.packet.qos
        BY <2>3, <2>4 DEF Publishes, Dup
    <2>6. PICK again : again = [packet |-> f.packet, wait |-> Reserved, timer |-> f.timer]
        OBVIOUS
    <2>7. PICK dup : dup = [packet |-> p, wait |-> Reserved, timer |-> f.timer]
        OBVIOUS
    <2>8. WaitFor(f, Reserved) = again
        BY <2>3, <2>6 DEF WaitFor, Outgoing, Flights
    <2>9. SetDup(again) = dup
        <3>1. again.packet = f.packet
            BY <2>6
        <3> QED
            BY <2>4, <2>6, <2>7, <3>1 DEF SetDup
    <2>10. again \in Outgoing /\ dup \in Outgoing
        <3>1. Reserved \in Waits
            BY DEF Waits
        <3> QED
            BY <2>3, <2>5, <2>6, <2>7, <3>1, FlightType
    <2>11. /\ again.wait = Reserved /\ dup.wait = Reserved /\ again.packet = f.packet /\ dup.packet = p
        BY <2>6, <2>7
    <2>12. ASSUME NEW g \in {again, dup}, NEW x \in Timers
           PROVE  LET k == [packet |-> g.packet, wait |-> g.wait, timer |-> x] IN
                  k \in Outgoing /\ Apt(k) /\ Alike(k, q[1]) /\ k.wait = Reserved
        <3>1. PICK k : k = [packet |-> g.packet, wait |-> g.wait, timer |-> x]
            OBVIOUS
        <3>2. g.packet \in Publishes /\ g.wait \in Waits /\ g.wait = Reserved
            BY <2>3, <2>5, <2>10, <2>11, FieldTypes
        <3>3. k \in Outgoing
            BY <3>1, <3>2, FlightType
        <3>4. k.packet.id = f.packet.id /\ k.packet.m = f.packet.m /\ k.packet.qos = f.packet.qos /\ k.wait = Reserved
            BY <2>5, <2>11, <3>1
        <3>5. Apt(k)
            BY <2>1, <2>2, <3>4 DEF Apt
        <3>6. Alike(k, q[1])
            BY <2>2, <3>4 DEF Alike
        <3> QED
            BY <3>1, <3>3, <3>4, <3>5, <3>6
    <2>13. CASE f.wait = "PUBACK"
        <3>1. r = [q |-> First(q, ZeroTimer(dup, m)), w |-> w]
            BY <1>3, <2>1, <2>2, <2>8, <2>9, <2>13 DEF PubResend, Reserved
        <3>2. ZeroTimer(dup, m) = [packet |-> dup.packet, wait |-> dup.wait, timer |-> m] /\ m \in Timers
            BY <2>7 DEF ZeroTimer, StopTimer, Timers, Measured
        <3> QED
            BY <1>3, <2>2, <2>12, <2>13, <3>1, <3>2 DEF Changed
    <2>14. CASE f.wait = "PUBREC"
        <3>1. r = [q |-> First(q, ZeroTimer(again, m)), w |-> w]
            BY <1>3, <2>1, <2>2, <2>8, <2>9, <2>14 DEF PubResend, Reserved
        <3>2. ZeroTimer(again, m) = [packet |-> again.packet, wait |-> again.wait, timer |-> m] /\ m \in Timers
            BY <2>6 DEF ZeroTimer, StopTimer, Timers, Measured
        <3> QED
            BY <1>3, <2>2, <2>12, <2>14, <3>1, <3>2 DEF Changed
    <2>15. CASE f.wait = Reserved
        <3>1. r = [q |-> First(q, StartTimer(dup)), w |-> w]
            BY <1>3, <2>1, <2>2, <2>8, <2>9, <2>15 DEF PubResend, Reserved
        <3>2. StartTimer(dup) = [packet |-> dup.packet, wait |-> dup.wait, timer |-> "running"] /\ "running" \in Timers
            BY <2>7 DEF StartTimer, Timers
        <3>3. f.wait # "PUBCOMP"
            BY <2>15 DEF Reserved
        <3> QED
            BY <1>3, <2>2, <2>12, <3>1, <3>2, <3>3 DEF Changed
    <2>16. CASE f.wait = "PUBCOMP"
        <3>1. r = [q |-> q, w |-> Send(w, Packet("PUBREL", f.packet.id))]
            BY <1>3, <2>1, <2>2, <2>16 DEF PubResend, Reserved
        <3> QED
            BY <1>3, <2>2, <2>16, <3>1
    <2>17. f.wait \in {"PUBACK", "PUBREC", "PUBCOMP", Reserved}
        <3>1. f.packet.qos \in 0..2
            BY <2>3 DEF Publishes, Qualities
        <3>2. f.packet.qos = 0 \/ f.packet.qos = 1 \/ f.packet.qos = 2
            BY <3>1
        <3> QED
            BY <2>1, <2>2, <3>2 DEF Apt
    <2> QED
        BY <2>13, <2>14, <2>15, <2>16, <2>17
<1> QED
    BY <1>1, <1>2, <1>3

\* Publication::publish_next()
LEMMA NextFacts ==
    ASSUME NEW q, QueueType(q), NEW w, WorldType(w), NEW slow \in BOOLEAN,
           NEW r, r = PubNext(q, w, slow)
    PROVE  \/ r.q = q /\ r.w = w
           \/ /\ q # <<>> /\ HasRoom(w) /\ q[1].wait = Reserved /\ q[1].packet.qos = 0
              /\ r.q = Tail(q) /\ r.w = Send(w, q[1].packet)
           \/ /\ q # <<>> /\ HasRoom(w) /\ q[1].wait = Reserved /\ q[1].packet.qos > 0
              /\ \E f : Changed(q, f, r.q) /\ f.wait \in {"PUBACK", "PUBREC"}
              /\ r.w = Send(w, q[1].packet)
           \/ /\ \E f : Changed(q, f, r.q) /\ f.wait = q[1].wait
              /\ r.w = ForceDisconnect(w)
<1>1. CASE q = <<>>
    <2>1. r = [q |-> q, w |-> w]
        BY <1>1 DEF PubNext
    <2> QED
        BY <2>1
<1>2. CASE q # <<>>
    <2>1. Head(q) = q[1] /\ q[1] \in Outgoing /\ Apt(q[1])
        BY <1>2, TailType
    <2>2. PICK f : f = q[1]
        OBVIOUS
    <2>3. f \in Outgoing /\ f.packet \in Publishes /\ f.wait \in Waits
        BY <2>1, <2>2, FieldTypes
    <2>4. f.packet.qos \in 0..2 /\ (f.packet.qos = 0 => f.wait = Reserved)
        BY <2>1, <2>2, <2>3 DEF Publishes, Qualities, Apt
    <2>5. CASE HasRoom(w) /\ f.wait = Reserved
        <3>1. CASE f.packet.qos = 0
            <4>1. r = [q |-> Tail(q), w |-> Send(w, f.packet)]
                BY <1>2, <2>1, <2>2, <2>5, <3>1 DEF PubNext
            <4> QED
                BY <1>2, <2>2, <2>5, <3>1, <4>1
        <3>2. CASE f.packet.qos > 0
            <4>1. PICK answer : answer = IF f.packet.qos = 1 THEN "PUBACK" ELSE "PUBREC"
                OBVIOUS
            <4>2. PICK g : g = [packet |-> f.packet, wait |-> answer, timer |-> "running"]
                OBVIOUS
            <4>3. WaitFor(StartTimer(f), answer) = g
                <5>1. StartTimer(f) = [packet |-> f.packet, wait |-> f.wait, timer |-> "running"]
                    BY <2>3 DEF StartTimer, Outgoing, Flights
                <5> QED
                    BY <4>2, <5>1 DEF WaitFor
            <4>4. answer \in {"PUBACK", "PUBREC"} /\ answer \in Waits /\ "running" \in Timers
                BY <4>1 DEF Waits, Timers
            <4>5. g \in Outgoing
                BY <2>3, <4>2, <4>4, FlightType
            <4>6. g.packet = f.packet /\ g.wait = answer
                BY <4>2
            <4>7. Apt(g)
                <5>1. f.packet.qos = QoSOf[f.packet.m]
                    BY <2>1, <2>2 DEF Apt
                <5>2. f.packet.qos # 0 /\ (f.packet.qos = 1 => answer = "PUBACK") /\ (f.packet.qos = 2 => answer = "PUBREC")
                    BY <2>4, <3>2, <4>1
                <5> QED
                    BY <4>6, <5>1, <5>2 DEF Apt
            <4>8. Changed(q, g, First(q, g))
                BY <1>2, <2>2, <4>5, <4>6, <4>7 DEF Changed, Alike
            <4>9. f.packet.qos # 0
                BY <2>4, <3>2
            <4>10. r = [q |-> First(q, g), w |-> Send(w, f.packet)]
                BY <1>2, <2>1, <2>2, <2>5, <4>1, <4>3, <4>9 DEF PubNext
            <4> QED
                BY <1>2, <2>2, <2>5, <3>2, <4>4, <4>6, <4>8, <4>10
        <3> QED
            BY <2>4, <3>1, <3>2
    <2>6. CASE ~(HasRoom(w) /\ f.wait = Reserved)
        <3>1. ~(HasRoom(w) /\ (f.packet.qos = 0 \/ f.wait = Reserved))
            BY <2>4, <2>6
        <3>2. CASE f.packet.qos > 0 /\ f.wait # Reserved /\ Elapsed(f, slow)
            <4>1. r = [q |-> First(q, StopTimer(f, "long")), w |-> ForceDisconnect(w)]
                BY <1>2, <2>1, <2>2, <3>1, <3>2 DEF PubNext
            <4>2. PICK g : g = [packet |-> f.packet, wait |-> f.wait, timer |-> "long"]
                OBVIOUS
            <4>3. StopTimer(f, "long") = g
                BY <2>3, <4>2 DEF StopTimer, Outgoing, Flights
            <4>4. g \in Outgoing
                BY <2>3, <4>2, FlightType DEF Timers
            <4>5. g.packet = f.packet /\ g.wait = f.wait
                BY <4>2
            <4>6. Apt(g) /\ Alike(g, q[1])
                BY <2>1, <2>2, <4>5 DEF Apt, Alike
            <4>7. Changed(q, g, First(q, g))
                BY <1>2, <4>4, <4>6 DEF Changed
            <4> QED
                BY <2>2, <4>1, <4>3, <4>5, <4>7
        <3>3. CASE ~(f.packet.qos > 0 /\ f.wait # Reserved /\ Elapsed(f, slow))
            <4>1. r = [q |-> q, w |-> w]
                BY <2>1, <2>2, <3>1, <3>3 DEF PubNext
            <4> QED
                BY <4>1
        <3> QED
            BY <3>2, <3>3
    <2> QED
        BY <2>5, <2>6
<1> QED
    BY <1>1, <1>2

\* Publication::receive(PubRec)
LEMMA RecFacts ==
    ASSUME NEW q, QueueType(q), NEW w, WorldType(w), NEW id, NEW r, r = PubRecReceived(q, w, id)
    PROVE  \/ r.q = q /\ r.w = w
           \/ /\ q # <<>> /\ q[1].packet.id = id /\ q[1].wait = "PUBREC"
              /\ \E f : /\ Changed(q, f, r.q)
                        /\ f.wait = IF HasRoom(w) THEN "PUBCOMP" ELSE "PUBREC"
              /\ r.w = Send(w, Packet("PUBREL", id))
<1>1. CASE ~(Answers(q, id) /\ Head(q).wait = "PUBREC")
    <2>1. r = [q |-> q, w |-> w]
        BY <1>1 DEF PubRecReceived
    <2> QED
        BY <2>1
<1>2. CASE Answers(q, id) /\ Head(q).wait = "PUBREC"
    <2>0. q # <<>>
        BY <1>2 DEF Answers
    <2>1. Head(q) = q[1] /\ q[1] \in Outgoing /\ Apt(q[1])
        BY <2>0, TailType
    <2>2. PICK f : f = q[1]
        OBVIOUS
    <2>3. f \in Outgoing /\ f.packet \in Publishes
        BY <2>1, <2>2, FieldTypes
    <2>4. PICK next : next = IF HasRoom(w) THEN "PUBCOMP" ELSE "PUBREC"
        OBVIOUS
    <2>5. PICK g : g = [packet |-> f.packet, wait |-> next, timer |-> "running"]
        OBVIOUS
    <2>6. WaitFor(StartTimer(f), next) = g
        <3>1. StartTimer(f) = [packet |-> f.packet, wait |-> f.wait, timer |-> "running"]
            BY <2>3 DEF StartTimer, Outgoing, Flights
        <3> QED
            BY <2>5, <3>1 DEF WaitFor
    <2>7. next \in {"PUBCOMP", "PUBREC"} /\ next \in Waits /\ "running" \in Timers
        BY <2>4 DEF Waits, Timers
    <2>8. g \in Outgoing
        BY <2>3, <2>5, <2>7, FlightType
    <2>9. g.packet = f.packet /\ g.wait = next
        BY <2>5
    <2>10. f.packet.qos = 2
        <3>1. f.packet.qos \in 0..2
            BY <2>3 DEF Publishes, Qualities
        <3>2. f.packet.qos = 0 \/ f.packet.qos = 1 \/ f.packet.qos = 2
            BY <3>1
        <3> QED
            BY <1>2, <2>1, <2>2, <3>2 DEF Apt, Reserved
    <2>11. Apt(g) /\ Alike(g, q[1])
        <3>1. f.packet.qos = QoSOf[f.packet.m]
            BY <2>1, <2>2 DEF Apt
        <3> QED
            BY <2>2, <2>7, <2>9, <2>10, <3>1 DEF Apt, Alike
    <2>12. Changed(q, g, First(q, g))
        BY <2>0, <2>8, <2>11 DEF Changed
    <2>13. r = [q |-> First(q, g), w |-> Send(w, Packet("PUBREL", id))]
        BY <1>2, <2>1, <2>2, <2>4, <2>6 DEF PubRecReceived
    <2>14. q[1].packet.id = id /\ q[1].wait = "PUBREC"
        BY <1>2, <2>1 DEF Answers
    <2> QED
        BY <2>0, <2>4, <2>9, <2>12, <2>13, <2>14
<1> QED
    BY <1>1, <1>2

\* Publication::publish()
LEMMA PublishFacts ==
    ASSUME NEW q, QueueType(q), Accepts(q), NEW p \in Publishes, p.qos = QoSOf[p.m],
           NEW r, r = PubPublish(q, p)
    PROVE  /\ QueueType(r) /\ Len(r) = Len(q) + 1 /\ Len(q) \in Nat
           /\ r[Len(q) + 1].packet = p /\ r[Len(q) + 1].wait = Reserved
           /\ \A j \in 1..Len(q) : r[j] = q[j]
<1>1. PICK f : f = NewFlight(p)
    OBVIOUS
<1>2. f = [packet |-> p, wait |-> Reserved, timer |-> "short"]
    BY <1>1 DEF NewFlight
<1>3. f \in Outgoing
    BY <1>2, FlightType DEF Waits, Timers
<1>4. f.packet = p /\ f.wait = Reserved
    BY <1>2
<1>5. Apt(f)
    BY <1>4 DEF Apt
<1>6. q \in Seq(Outgoing) /\ Len(q) < MaxOutgoing /\ \A j \in 1..Len(q) : Apt(q[j])
    BY DEF QueueType, Accepts
<1>7. r = Append(q, f)
    BY <1>1 DEF PubPublish
<1>8. /\ r \in Seq(Outgoing) /\ Len(r) = Len(q) + 1 /\ Len(q) \in Nat
      /\ r[Len(q) + 1] = f
      /\ \A i \in 1..Len(q) : r[i] = q[i]
    BY <1>3, <1>6, <1>7, AppendFacts
<1>9. \A j \in 1..Len(r) : Apt(r[j])
    <2>1. \A j \in 1..Len(r) : j \in 1..Len(q) \/ j = Len(q) + 1
        BY <1>8
    <2> QED
        BY <1>5, <1>6, <1>8, <2>1
<1>10. Len(r) <= MaxOutgoing
    BY <1>6, <1>8, MqttAssumption
<1> QED
    BY <1>4, <1>8, <1>9, <1>10 DEF QueueType

\* Publication::receive(PubAck), receive(PubComp)
LEMMA AckFacts ==
    ASSUME NEW q, QueueType(q), NEW id, NEW r, r \in {PubAckReceived(q, id), PubCompReceived(q, id)}
    PROVE  r = q \/ (q # <<>> /\ q[1].packet.id = id /\ r = Tail(q))
<1>1. CASE Answers(q, id)
    <2>1. q # <<>> /\ Head(q).packet.id = id
        BY <1>1 DEF Answers
    <2>2. Head(q) = q[1]
        BY <2>1, TailType
    <2> QED
        BY <2>1, <2>2 DEF PubAckReceived, PubCompReceived
<1>2. CASE ~Answers(q, id)
    BY <1>2 DEF PubAckReceived, PubCompReceived
<1> QED
    BY <1>1, <1>2

-----------------------------------------------------------------------------
(* What the operations of Subscription do.                                 *)

LEMMA RequestType ==
    ASSUME NEW P, NEW p \in P, NEW type \in Waits, NEW x \in Timers
    PROVE  [packet |-> p, wait |-> type, timer |-> x] \in Flights(P)
BY DEF Flights

LEMMA RequestFields ==
    ASSUME NEW P, NEW f \in Flights(P), NEW type \in Waits, NEW x \in Timers
    PROVE  /\ f.packet \in P
           /\ [f EXCEPT !.wait = type] \in Flights(P) /\ [f EXCEPT !.timer = x] \in Flights(P)
BY DEF Flights

\* A change of the requests.
LEMMA RequestsType ==
    ASSUME NEW s, SubType(s), NEW a \in Seq(Flights(Subscribes)), NEW b \in Seq(Flights(Unsubscribes))
    PROVE  SubType([s EXCEPT !.subscribing = a, !.unsubscribing = b])
<1>1. PICK r : r = [s EXCEPT !.subscribing = a, !.unsubscribing = b]
    OBVIOUS
<1>2. r = [subscribing |-> a, unsubscribing |-> b, active |-> s.active, receiving |-> s.receiving]
    BY <1>1 DEF SubType
<1>3. r.subscribing = a /\ r.unsubscribing = b /\ r.active = s.active /\ r.receiving = s.receiving
    BY <1>2
<1>4. SubType(r)
    BY <1>2, <1>3 DEF SubType
<1> QED
    BY <1>1, <1>4

\* Subscription::send_control_packet()
LEMMA ControlFacts ==
    ASSUME NEW P, P \subseteq ToBroker, \A p \in P : ~OfPublication(p),
           NEW q \in Seq(Flights(P)), NEW answer \in Waits, NEW w, WorldType(w), NEW slow \in BOOLEAN,
           NEW r, r = SendControlPacket(q, answer, w, slow)
    PROVE  r.q \in Seq(Flights(P)) /\ WorldType(r.w) /\ Extends(w.tx, r.w.tx)
<1>0. w.tx \in Seq(ToBroker)
    BY DEF WorldType, Worlds
<1>1. CASE q # <<>> /\ Head(q).wait = Reserved /\ HasRoom(w)
    <2>1. PICK f : f = Head(q)
        OBVIOUS
    <2>2. f \in Flights(P)
        BY <1>1, <2>1
    <2>3. StartTimer(f) \in Flights(P) /\ f.packet \in P
        BY <2>2, RequestFields DEF StartTimer, Timers
    <2>4. WaitFor(StartTimer(f), answer) \in Flights(P)
        BY <2>3, RequestFields DEF WaitFor, Timers
    <2>5. PICK g : g = WaitFor(StartTimer(f), answer)
        OBVIOUS
    <2>6. First(q, g) \in Seq(Flights(P))
        <3>1. g \in Flights(P) /\ q # <<>>
            BY <1>1, <2>4, <2>5
        <3> QED
            BY <3>1, FirstType
    <2>7. r = [q |-> First(q, g), w |-> Send(w, f.packet), ok |-> TRUE]
        BY <1>1, <2>1, <2>5 DEF SendControlPacket
    <2>8. r.q = First(q, g) /\ r.w = Send(w, f.packet)
        BY <2>7
    <2>9. f.packet \in ToBroker /\ ~OfPublication(f.packet)
        BY <2>3
    <2>10. WorldType(Send(w, f.packet)) /\ Extends(w.tx, Send(w, f.packet).tx)
        BY <2>9, SendFacts
    <2> QED
        BY <2>6, <2>8, <2>10
<1>2. CASE ~(q # <<>> /\ Head(q).wait = Reserved /\ HasRoom(w))
    <2>1. CASE q # <<>> /\ Head(q).wait # Reserved /\ Elapsed(Head(q), slow)
        <3>1. PICK g : g = StopTimer(Head(q), "long")
            OBVIOUS
        <3>2. Head(q) \in Flights(P)
            BY <2>1
        <3>3. g \in Flights(P) /\ q # <<>>
            BY <2>1, <3>1, <3>2, RequestFields DEF StopTimer, Timers, Waits
        <3>4. First(q, g) \in Seq(Flights(P))
            BY <3>3, FirstType
        <3>5. r = [q |-> First(q, g), w |-> ForceDisconnect(w), ok |-> FALSE]
            BY <1>2, <2>1, <3>1 DEF SendControlPacket
        <3>6. r.q = First(q, g) /\ r.w = ForceDisconnect(w)
            BY <3>5
        <3> QED
            BY <3>4, <3>6, ForceFacts
    <2>2. CASE ~(q # <<>> /\ Head(q).wait # Reserved /\ Elapsed(Head(q), slow))
        <3>1. r = [q |-> q, w |-> w, ok |-> TRUE]
            BY <1>2, <2>2 DEF SendControlPacket
        <3>2. r.q = q /\ r.w = w
            BY <3>1
        <3> QED
            BY <1>0, <3>2, ExtendsSelf
    <2> QED
        BY <2>1, <2>2
<1> QED
    BY <1>1, <1>2

LEMMA SubscribesSent ==
    /\ Subscribes \subseteq ToBroker /\ \A p \in Subscribes : ~OfPublication(p)
    /\ Unsubscribes \subseteq ToBroker /\ \A p \in Unsubscribes : ~OfPublication(p)
BY DEF ToBroker, Subscribes, Unsubscribes, OfPublication

LEMMA SignalSent ==
    ASSUME NEW type \in {"PUBREC", "PUBACK", "PUBCOMP", "PINGREQ", "DISCONNECT"}, NEW id \in Nat
    PROVE  Packet(type, id) \in ToBroker /\ ~OfPublication(Packet(type, id))
<1>1. PICK p : p = Packet(type, id)
    OBVIOUS
<1>2. p \in ClientSignals /\ p.type = type
    BY <1>1 DEF Packet, ClientSignals
<1>3. p \in ToBroker
    BY <1>2 DEF ToBroker
<1> QED
    BY <1>1, <1>2, <1>3 DEF OfPublication

\* A change of the messages that come in.
LEMMA ReceivingType ==
    ASSUME NEW s, SubType(s), NEW f, DOMAIN f \subseteq Nat, \A id \in DOMAIN f : f[id] \in Flights(Publishes)
    PROVE  SubType([s EXCEPT !.receiving = f])
<1>1. PICK r : r = [s EXCEPT !.receiving = f]
    OBVIOUS
<1>2. r = [subscribing |-> s.subscribing, unsubscribing |-> s.unsubscribing, active |-> s.active, receiving |-> f]
    BY <1>1 DEF SubType
<1>3. r.subscribing = s.subscribing /\ r.unsubscribing = s.unsubscribing /\ r.active = s.active /\ r.receiving = f
    BY <1>2
<1>4. SubType(r)
    BY <1>2, <1>3 DEF SubType
<1> QED
    BY <1>1, <1>4

\* A change of the active subscriptions and of the requests.
LEMMA ActiveType ==
    ASSUME NEW s, SubType(s), NEW f, IsFiniteSet(DOMAIN f), DOMAIN f \subseteq Topics,
           \A t \in DOMAIN f : f[t] \in Qualities,
           NEW a \in Seq(Flights(Subscribes)), NEW b \in Seq(Flights(Unsubscribes)),
           NEW r, r = [subscribing |-> a, unsubscribing |-> b, active |-> f, receiving |-> s.receiving]
    PROVE  SubType(r)
<1>1. r.subscribing = a /\ r.unsubscribing = b /\ r.active = f /\ r.receiving = s.receiving
    OBVIOUS
<1> QED
    BY <1>1 DEF SubType

LEMMA ResendFactsOfReceiving ==
    ASSUME NEW s, SubType(s), NEW w, WorldType(w), NEW id, NEW slow \in BOOLEAN,
           NEW r, r = ResendPubRec(s, w, id, slow)
    PROVE  SubType(r.s) /\ WorldType(r.w) /\ Extends(w.tx, r.w.tx)
<1>0. w.tx \in Seq(ToBroker)
    BY DEF WorldType, Worlds
<1>1. CASE id \in DOMAIN s.receiving /\ Elapsed(s.receiving[id], slow)
    <2>1. id \in Nat /\ s.receiving[id] \in Flights(Publishes) /\ DOMAIN s.receiving \subseteq Nat
          /\ \A x \in DOMAIN s.receiving : s.receiving[x] \in Flights(Publishes)
        BY <1>1 DEF SubType
    <2>2. PICK g : g = StartTimer(s.receiving[id])
        OBVIOUS
    <2>3. g \in Flights(Publishes)
        BY <2>1, <2>2, RequestFields DEF StartTimer, Timers, Waits
    <2>4. PICK f : f = [s.receiving EXCEPT ![id] = g]
        OBVIOUS
    <2>5. DOMAIN f = DOMAIN s.receiving /\ \A x \in DOMAIN s.receiving : f[x] = IF x = id THEN g ELSE s.receiving[x]
        BY <2>4
    <2>6. DOMAIN f \subseteq Nat /\ \A x \in DOMAIN f : f[x] \in Flights(Publishes)
        BY <2>1, <2>3, <2>5
    <2>7. SubType([s EXCEPT !.receiving = f])
        BY <2>6, ReceivingType
    <2>8. r = [s |-> IF HasRoom(w) THEN [s EXCEPT !.receiving = f] ELSE s, w |-> Send(w, Packet("PUBREC", id))]
        <3>1. Restarted(s.receiving, id) = f
            BY <2>2, <2>4 DEF Restarted
        <3> QED
            BY <1>1, <3>1 DEF ResendPubRec
    <2>9. SubType(r.s) /\ r.w = Send(w, Packet("PUBREC", id))
        BY <2>7, <2>8
    <2>10. Packet("PUBREC", id) \in ToBroker /\ ~OfPublication(Packet("PUBREC", id))
        BY <2>1, SignalSent
    <2> QED
        BY <2>9, <2>10, SendFacts
<1>2. CASE ~(id \in DOMAIN s.receiving /\ Elapsed(s.receiving[id], slow))
    <2>1. r = [s |-> s, w |-> w]
        BY <1>2 DEF ResendPubRec
    <2>2. r.s = s /\ r.w = w
        BY <2>1
    <2> QED
        BY <1>0, <2>2, ExtendsSelf
<1> QED
    BY <1>1, <1>2

\* Subscription::subscribe_next()
LEMMA SubscribeNextFacts ==
    ASSUME NEW s, SubType(s), NEW w, WorldType(w), NEW id, NEW slow \in BOOLEAN,
           NEW r, r = SubscribeNext(s, w, slow, id)
    PROVE  SubType(r.s) /\ WorldType(r.w) /\ Extends(w.tx, r.w.tx)
<1>1. PICK a : a = SendControlPacket(s.subscribing, "SUBACK", w, slow)
    OBVIOUS
<1>2. s.subscribing \in Seq(Flights(Subscribes)) /\ s.unsubscribing \in Seq(Flights(Unsubscribes))
    BY DEF SubType
<1>3. a.q \in Seq(Flights(Subscribes)) /\ WorldType(a.w) /\ Extends(w.tx, a.w.tx)
    <2>1. "SUBACK" \in Waits
        BY DEF Waits
    <2> QED
        BY <1>1, <1>2, <2>1, SubscribesSent, ControlFacts
<1>4. PICK b : b = IF a.ok THEN SendControlPacket(s.unsubscribing, "UNSUBACK", a.w, slow)
                   ELSE [q |-> s.unsubscribing, w |-> a.w, ok |-> FALSE]
    OBVIOUS
<1>5. a.w.tx \in Seq(ToBroker) /\ w.tx \in Seq(ToBroker)
    BY <1>3 DEF WorldType, Worlds
<1>6. b.q \in Seq(Flights(Unsubscribes)) /\ WorldType(b.w) /\ Extends(a.w.tx, b.w.tx)
    <2>1. CASE a.ok
        <3>1. "UNSUBACK" \in Waits
            BY DEF Waits
        <3>2. b = SendControlPacket(s.unsubscribing, "UNSUBACK", a.w, slow)
            BY <1>4, <2>1
        <3> QED
            BY <1>2, <1>3, <3>1, <3>2, SubscribesSent, ControlFacts
    <2>2. CASE ~a.ok
        <3>1. b.q = s.unsubscribing /\ b.w = a.w
            BY <1>4, <2>2
        <3> QED
            BY <1>2, <1>3, <1>5, <3>1, ExtendsSelf
    <2> QED
        BY <2>1, <2>2
<1>7. b.w.tx \in Seq(ToBroker)
    BY <1>6 DEF WorldType, Worlds
<1>8. Extends(w.tx, b.w.tx)
    BY <1>3, <1>5, <1>6, <1>7, ExtendsTwice
<1>9. PICK n : n = [s EXCEPT !.subscribing = a.q, !.unsubscribing = b.q]
    OBVIOUS
<1>10. SubType(n)
    BY <1>3, <1>6, <1>9, RequestsType
<1>11. r = IF b.ok THEN ResendPubRec(n, b.w, id, slow) ELSE [s |-> n, w |-> b.w]
    BY <1>1, <1>4, <1>9 DEF SubscribeNext
<1>12. CASE b.ok
    <2>1. SubType(r.s) /\ WorldType(r.w) /\ Extends(b.w.tx, r.w.tx)
        BY <1>6, <1>10, <1>11, <1>12, ResendFactsOfReceiving
    <2>2. r.w.tx \in Seq(ToBroker)
        BY <2>1 DEF WorldType, Worlds
    <2>3. Extends(w.tx, r.w.tx)
        BY <1>5, <1>7, <1>8, <2>1, <2>2, ExtendsTwice
    <2> QED
        BY <2>1, <2>3
<1>13. CASE ~b.ok
    <2>1. r.s = n /\ r.w = b.w
        BY <1>11, <1>13
    <2> QED
        BY <1>6, <1>8, <1>10, <2>1
<1> QED
    BY <1>12, <1>13

\* Subscription::reset_control_packet()
LEMMA ResetType ==
    ASSUME NEW P, NEW q \in Seq(Flights(P)), NEW m \in Measured
    PROVE  ResetControlPacket(q, m) \in Seq(Flights(P))
<1>1. CASE q = <<>>
    BY <1>1 DEF ResetControlPacket
<1>2. CASE q # <<>>
    <2>1. Head(q) \in Flights(P)
        BY <1>2
    <2>2. WaitFor(Head(q), Reserved) \in Flights(P)
        BY <2>1, RequestFields DEF WaitFor, Waits, Timers
    <2>3. PICK f : f = StopTimer(WaitFor(Head(q), Reserved), m)
        OBVIOUS
    <2>4. m \in Timers /\ Reserved \in Waits
        BY DEF Measured, Timers, Waits
    <2>5. f \in Flights(P)
        BY <2>2, <2>3, <2>4, RequestFields DEF StopTimer
    <2>6. First(q, f) \in Seq(Flights(P))
        BY <1>2, <2>5, FirstType
    <2> QED
        BY <1>2, <2>3, <2>6 DEF ResetControlPacket
<1> QED
    BY <1>1, <1>2

LEMMA SubscribeFlightType ==
    ASSUME NEW t \in Topics, NEW qos \in Qualities, NEW id \in Nat
    PROVE  SubscribeFlight(t, qos, id) \in Flights(Subscribes)
<1>1. PICK p : p = [type |-> "SUBSCRIBE", id |-> id, topic |-> t, qos |-> qos]
    OBVIOUS
<1>2. p \in Subscribes
    BY <1>1 DEF Subscribes
<1>3. SubscribeFlight(t, qos, id) = [packet |-> p, wait |-> Reserved, timer |-> "short"]
    BY <1>1 DEF SubscribeFlight, NewFlight
<1> QED
    BY <1>2, <1>3, RequestType DEF Waits, Timers

\* Subscription::handle_disconnect()
LEMMA SubDisconnectType ==
    ASSUME NEW s, SubType(s), NEW order \in SetToSeqs(DOMAIN s.active), NEW m \in Measured,
           NEW ids, \A i \in DOMAIN order : ids[i] \in Nat
    PROVE  SubType(SubHandleDisconnect(s, order, ids, m)) /\ Len(order) \in Nat
<1>1. /\ s.subscribing \in Seq(Flights(Subscribes)) /\ s.unsubscribing \in Seq(Flights(Unsubscribes))
      /\ IsFiniteSet(DOMAIN s.active) /\ DOMAIN s.active \subseteq Topics
      /\ \A t \in DOMAIN s.active : s.active[t] \in Qualities
    BY DEF SubType
<1>2. PICK n \in Nat : n = Cardinality(DOMAIN s.active)
    BY <1>1, FS_CardinalityType
<1>3. order \in [1..n -> DOMAIN s.active]
    BY <1>2 DEF SetToSeqs
<1>4. order \in Seq(DOMAIN s.active) /\ Len(order) = n /\ DOMAIN order = 1..n
    BY <1>3
<1>5. PICK again : again = [i \in DOMAIN order |-> SubscribeFlight(order[i], s.active[order[i]], ids[i])]
    OBVIOUS
<1>6. ASSUME NEW i \in 1..n PROVE SubscribeFlight(order[i], s.active[order[i]], ids[i]) \in Flights(Subscribes)
    <2>1. order[i] \in DOMAIN s.active /\ ids[i] \in Nat
        BY <1>3, <1>4, <1>6
    <2>2. order[i] \in Topics /\ s.active[order[i]] \in Qualities
        BY <1>1, <2>1
    <2> QED
        BY <2>1, <2>2, SubscribeFlightType
<1>7. again \in Seq(Flights(Subscribes))
    BY <1>4, <1>5, <1>6
<1>8. PICK a : a = ResetControlPacket(s.subscribing, m) \o again
    OBVIOUS
<1>9. a \in Seq(Flights(Subscribes))
    <2>1. ResetControlPacket(s.subscribing, m) \in Seq(Flights(Subscribes))
        BY <1>1, ResetType
    <2> QED
        BY <1>7, <1>8, <2>1
<1>10. PICK b : b = ResetControlPacket(s.unsubscribing, m)
    OBVIOUS
<1>11. b \in Seq(Flights(Unsubscribes))
    BY <1>1, <1>10, ResetType
<1>12. PICK r : r = SubHandleDisconnect(s, order, ids, m)
    OBVIOUS
<1>13. r = [s EXCEPT !.subscribing = a, !.active = <<>>, !.unsubscribing = b]
    BY <1>5, <1>8, <1>10, <1>12 DEF SubHandleDisconnect
<1>14. r = [subscribing |-> a, unsubscribing |-> b, active |-> <<>>, receiving |-> s.receiving]
    BY <1>13 DEF SubType
<1>15. DOMAIN <<>> = {}
    OBVIOUS
<1>16. IsFiniteSet({})
    BY FS_EmptySet
<1>17. SubType(r)
    <2>1. PICK f : f = <<>>
        OBVIOUS
    <2>2. DOMAIN f = {}
        BY <1>15, <2>1
    <2> QED
        BY <1>9, <1>11, <1>14, <1>16, <2>1, <2>2, ActiveType
<1> QED
    BY <1>4, <1>12, <1>17

\* Subscription::receive(SubAck)
LEMMA SubAckType ==
    ASSUME NEW s, SubType(s), NEW id
    PROVE  SubType(SubAckReceived(s, id))
<1>1. PICK f : f = Head(s.subscribing)
    OBVIOUS
<1>2. CASE Answers(s.subscribing, id) /\ f.wait = "SUBACK"
    <2>1. /\ s.subscribing \in Seq(Flights(Subscribes)) /\ s.unsubscribing \in Seq(Flights(Unsubscribes))
          /\ IsFiniteSet(DOMAIN s.active) /\ DOMAIN s.active \subseteq Topics
          /\ \A t \in DOMAIN s.active : s.active[t] \in Qualities
        BY DEF SubType
    <2>2. s.subscribing # <<>>
        BY <1>2 DEF Answers
    <2>3. f \in Flights(Subscribes) /\ Tail(s.subscribing) \in Seq(Flights(Subscribes))
        BY <1>1, <2>1, <2>2
    <2>4. f.packet \in Subscribes
        BY <2>3 DEF Flights
    <2>5. f.packet.topic \in Topics /\ f.packet.qos \in Qualities
        BY <2>4 DEF Subscribes
    <2>6. PICK a : a = Emplace(s.active, f.packet.topic, f.packet.qos)
        OBVIOUS
    <2>7. /\ DOMAIN a = DOMAIN s.active \cup {f.packet.topic} /\ DOMAIN a \subseteq Topics
          /\ \A x \in DOMAIN a : a[x] \in Qualities
        <3>1. PICK c, k, v : c = s.active /\ k = f.packet.topic /\ v = f.packet.qos
            OBVIOUS
        <3>2. /\ DOMAIN c \subseteq Topics /\ k \in Topics /\ v \in Qualities
              /\ \A x \in DOMAIN c : c[x] \in Qualities
              /\ a = Emplace(c, k, v)
            BY <2>1, <2>5, <2>6, <3>1
        <3>3. DOMAIN a = DOMAIN c \cup {k} /\ DOMAIN a \subseteq Topics /\ \A x \in DOMAIN a : a[x] \in Qualities
            <4>1. /\ DOMAIN a = DOMAIN c \cup {k}
                  /\ \A x \in DOMAIN c \cup {k} : a[x] = IF x \in DOMAIN c THEN c[x] ELSE v
                <5>1. CASE k \in DOMAIN c
                    BY <3>2, <5>1 DEF Emplace
                <5>2. CASE k \notin DOMAIN c
                    BY <3>2, <5>2 DEF Emplace
                <5> QED
                    BY <5>1, <5>2
            <4> QED
                BY <3>2, <4>1
        <3> QED
            BY <3>1, <3>3
    <2>8. IsFiniteSet(DOMAIN a)
        BY <2>1, <2>7, FS_AddElement
    <2>9. PICK r : r = SubAckReceived(s, id)
        OBVIOUS
    <2>10. r = [s EXCEPT !.active = a, !.subscribing = Tail(s.subscribing)]
        BY <1>1, <1>2, <2>6, <2>9 DEF SubAckReceived
    <2>11. r = [subscribing |-> Tail(s.subscribing), unsubscribing |-> s.unsubscribing, active |-> a,
                receiving |-> s.receiving]
        BY <2>10 DEF SubType
    <2>12. SubType(r)
        BY <2>1, <2>3, <2>7, <2>8, <2>11, ActiveType
    <2> QED
        BY <2>9, <2>12
<1>3. CASE ~(Answers(s.subscribing, id) /\ f.wait = "SUBACK")
    BY <1>1, <1>3 DEF SubAckReceived
<1> QED
    BY <1>2, <1>3

\* Subscription::receive(UnsubAck)
LEMMA UnsubAckType ==
    ASSUME NEW s, SubType(s), NEW id
    PROVE  SubType(UnsubAckReceived(s, id))
<1>1. CASE Answers(s.unsubscribing, id)
    <2>1. /\ s.subscribing \in Seq(Flights(Subscribes)) /\ s.unsubscribing \in Seq(Flights(Unsubscribes))
          /\ IsFiniteSet(DOMAIN s.active) /\ DOMAIN s.active \subseteq Topics
          /\ \A t \in DOMAIN s.active : s.active[t] \in Qualities
        BY DEF SubType
    <2>2. s.unsubscribing # <<>>
        BY <1>1 DEF Answers
    <2>3. Tail(s.unsubscribing) \in Seq(Flights(Unsubscribes))
        BY <2>1, <2>2
    <2>4. PICK a : a = Erase(s.active, Head(s.unsubscribing).packet.topic)
        OBVIOUS
    <2>5. /\ DOMAIN a = DOMAIN s.active \ {Head(s.unsubscribing).packet.topic}
          /\ \A x \in DOMAIN a : a[x] = s.active[x]
        <3>1. PICK c, k : c = s.active /\ k = Head(s.unsubscribing).packet.topic
            OBVIOUS
        <3>2. a = Erase(c, k)
            BY <2>4, <3>1
        <3>3. DOMAIN a = DOMAIN c \ {k} /\ \A x \in DOMAIN a : a[x] = c[x]
            BY ONLY <3>2 DEF Erase, Restrict
        <3> QED
            BY <3>1, <3>3
    <2>6. IsFiniteSet(DOMAIN a)
        BY <2>1, <2>5, FS_RemoveElement
    <2>7. PICK r : r = UnsubAckReceived(s, id)
        OBVIOUS
    <2>8. r = [s EXCEPT !.active = a, !.unsubscribing = Tail(s.unsubscribing)]
        BY <1>1, <2>4, <2>7 DEF UnsubAckReceived
    <2>9. r = [subscribing |-> s.subscribing, unsubscribing |-> Tail(s.unsubscribing), active |-> a,
               receiving |-> s.receiving]
        BY <2>8 DEF SubType
    <2>10. DOMAIN a \subseteq Topics /\ \A x \in DOMAIN a : a[x] \in Qualities
        BY <2>1, <2>5
    <2>11. SubType(r)
        BY <2>1, <2>3, <2>6, <2>9, <2>10, ActiveType
    <2> QED
        BY <2>7, <2>11
<1>2. CASE ~Answers(s.unsubscribing, id)
    BY <1>2 DEF UnsubAckReceived
<1> QED
    BY <1>1, <1>2

LEMMA ForwardType ==
    ASSUME NEW w, WorldType(w), NEW m \in Messages, NEW taken \in BOOLEAN
    PROVE  /\ WorldType(ForwardToApplication(w, m, taken))
           /\ ForwardToApplication(w, m, taken).tx = w.tx
<1>1. w \in Worlds /\ w.app \in Seq(Offers)
    BY DEF WorldType, Worlds
<1>2. Append(w.app, [m |-> m, taken |-> taken]) \in Seq(Offers)
    BY <1>1 DEF Offers
<1>3. PICK v : v = [w EXCEPT !.app = Append(w.app, [m |-> m, taken |-> taken])]
    OBVIOUS
<1>4. v \in Worlds /\ v.tx = w.tx
    BY <1>1, <1>2, <1>3 DEF Worlds
<1>5. ForwardToApplication(w, m, taken) = v
    BY <1>3 DEF ForwardToApplication
<1> QED
    BY <1>4, <1>5 DEF WorldType

\* Subscription::receive(Publish)
LEMMA PublishReceivedFacts ==
    ASSUME NEW s, SubType(s), NEW w, WorldType(w), NEW p \in Publishes,
           NEW taken \in BOOLEAN, NEW r, r = PublishReceived(s, w, p, taken)
    PROVE  SubType(r.s) /\ WorldType(r.w) /\ Extends(w.tx, r.w.tx)
<1>0. w.tx \in Seq(ToBroker)
    BY DEF WorldType, Worlds
<1>1. p.id \in Nat /\ p.m \in Messages /\ p.qos \in 0..2
    BY DEF Publishes, Qualities
<1>2. CASE p.qos = 0
    <2>1. r = [s |-> s, w |-> ForwardToApplication(w, p.m, taken)]
        BY <1>2 DEF PublishReceived
    <2>2. r.s = s /\ r.w = ForwardToApplication(w, p.m, taken)
        BY <2>1
    <2> QED
        BY <1>0, <1>1, <2>2, ForwardType, ExtendsSelf
<1>3. CASE p.qos = 1
    <2>1. PICK v : v = Send(w, Packet("PUBACK", p.id))
        OBVIOUS
    <2>2. WorldType(v) /\ Extends(w.tx, v.tx)
        <3>1. Packet("PUBACK", p.id) \in ToBroker /\ ~OfPublication(Packet("PUBACK", p.id))
            BY <1>1, SignalSent
        <3> QED
            BY <2>1, <3>1, SendFacts
    <2>3. r = [s |-> s, w |-> ForwardToApplication(v, p.m, taken)]
        BY <1>3, <2>1 DEF PublishReceived
    <2>4. r.s = s /\ r.w = ForwardToApplication(v, p.m, taken)
        BY <2>3
    <2> QED
        BY <1>1, <2>2, <2>4, ForwardType
<1>4. CASE p.qos = 2
    <2>1. PICK f : f = StartTimer(WaitFor(NewFlight(p), "PUBREL"))
        OBVIOUS
    <2>2. NewFlight(p) \in Flights(Publishes)
        BY RequestType DEF NewFlight, Waits, Timers
    <2>3. WaitFor(NewFlight(p), "PUBREL") \in Flights(Publishes)
        BY <2>2, RequestFields DEF WaitFor, Waits, Timers
    <2>4. f \in Flights(Publishes)
        BY <2>1, <2>3, RequestFields DEF StartTimer, Timers, Waits
    <2>5. PICK a : a = Emplace(s.receiving, p.id, f)
        OBVIOUS
    <2>6. DOMAIN a \subseteq Nat /\ \A x \in DOMAIN a : a[x] \in Flights(Publishes)
        <3>1. DOMAIN s.receiving \subseteq Nat /\ \A id \in DOMAIN s.receiving : s.receiving[id] \in Flights(Publishes)
            BY DEF SubType
        <3>2. PICK c, k : c = s.receiving /\ k = p.id
            OBVIOUS
        <3>3. /\ DOMAIN c \subseteq Nat /\ k \in Nat /\ f \in Flights(Publishes)
              /\ \A x \in DOMAIN c : c[x] \in Flights(Publishes)
              /\ a = Emplace(c, k, f)
            BY <1>1, <2>4, <2>5, <3>1, <3>2
        <3>4. /\ DOMAIN a = DOMAIN c \cup {k}
              /\ \A x \in DOMAIN c \cup {k} : a[x] = IF x \in DOMAIN c THEN c[x] ELSE f
            <4>1. CASE k \in DOMAIN c
                BY <3>3, <4>1 DEF Emplace
            <4>2. CASE k \notin DOMAIN c
                BY <3>3, <4>2 DEF Emplace
            <4> QED
                BY <4>1, <4>2
        <3> QED
            BY <3>3, <3>4
    <2>7. SubType([s EXCEPT !.receiving = a])
        BY <2>6, ReceivingType
    <2>8. r = [s |-> [s EXCEPT !.receiving = a], w |-> Send(w, Packet("PUBREC", p.id))]
        BY <1>4, <2>1, <2>5 DEF PublishReceived
    <2>9. r.s = [s EXCEPT !.receiving = a] /\ r.w = Send(w, Packet("PUBREC", p.id))
        BY <2>8
    <2>10. Packet("PUBREC", p.id) \in ToBroker /\ ~OfPublication(Packet("PUBREC", p.id))
        BY <1>1, SignalSent
    <2> QED
        BY <2>7, <2>9, <2>10, SendFacts
<1> QED
    BY <1>1, <1>2, <1>3, <1>4

\* Subscription::receive(PubRel)
LEMMA PubRelFacts ==
    ASSUME NEW s, SubType(s), NEW w, WorldType(w), NEW id \in Nat,
           NEW taken \in BOOLEAN, NEW r, r = PubRelReceived(s, w, id, taken)
    PROVE  SubType(r.s) /\ WorldType(r.w) /\ Extends(w.tx, r.w.tx)
<1>1. PICK v : v = Send(w, Packet("PUBCOMP", id))
    OBVIOUS
<1>2. WorldType(v) /\ Extends(w.tx, v.tx)
    <2>1. Packet("PUBCOMP", id) \in ToBroker /\ ~OfPublication(Packet("PUBCOMP", id))
        BY SignalSent
    <2> QED
        BY <1>1, <2>1, SendFacts
<1>3. CASE id \in DOMAIN s.receiving
    <2>1. DOMAIN s.receiving \subseteq Nat /\ \A x \in DOMAIN s.receiving : s.receiving[x] \in Flights(Publishes)
        BY DEF SubType
    <2>2. s.receiving[id].packet \in Publishes
        BY <1>3, <2>1 DEF Flights
    <2>3. s.receiving[id].packet.m \in Messages
        BY <2>2 DEF Publishes
    <2>4. PICK a : a = Erase(s.receiving, id)
        OBVIOUS
    <2>5. DOMAIN a = DOMAIN s.receiving \ {id} /\ \A x \in DOMAIN a : a[x] = s.receiving[x]
        <3>1. PICK c : c = s.receiving
            OBVIOUS
        <3>2. a = Erase(c, id)
            BY <2>4, <3>1
        <3>3. DOMAIN a = DOMAIN c \ {id} /\ \A x \in DOMAIN a : a[x] = c[x]
            BY ONLY <3>2 DEF Erase, Restrict
        <3> QED
            BY <3>1, <3>3
    <2>6. DOMAIN a \subseteq Nat /\ \A x \in DOMAIN a : a[x] \in Flights(Publishes)
        BY <2>1, <2>5
    <2>7. SubType([s EXCEPT !.receiving = a])
        BY <2>6, ReceivingType
    <2>8. r = [s |-> [s EXCEPT !.receiving = a], w |-> ForwardToApplication(v, s.receiving[id].packet.m, taken)]
        BY <1>1, <1>3, <2>4 DEF PubRelReceived
    <2>9. r.s = [s EXCEPT !.receiving = a] /\ r.w = ForwardToApplication(v, s.receiving[id].packet.m, taken)
        BY <2>8
    <2> QED
        BY <1>2, <2>3, <2>7, <2>9, ForwardType
<1>4. CASE id \notin DOMAIN s.receiving
    <2>1. r = [s |-> s, w |-> v]
        BY <1>1, <1>4 DEF PubRelReceived
    <2>2. r.s = s /\ r.w = v
        BY <2>1
    <2> QED
        BY <1>2, <2>2
<1> QED
    BY <1>3, <1>4

\* Subscription::internal_subscribe(), unsubscribe()
LEMMA AskFacts ==
    ASSUME NEW s, SubType(s), NEW t \in Topics, NEW qos \in Qualities, NEW id \in Nat
    PROVE  SubType(InternalSubscribe(s, t, qos, id)) /\ SubType(Unsubscribe(s, t, id))
<1>1. s.subscribing \in Seq(Flights(Subscribes)) /\ s.unsubscribing \in Seq(Flights(Unsubscribes))
    BY DEF SubType
<1>2. SubType(InternalSubscribe(s, t, qos, id))
    <2>1. CASE t \in DOMAIN s.active /\ s.active[t] = qos
        BY <2>1 DEF InternalSubscribe
    <2>2. CASE ~(t \in DOMAIN s.active /\ s.active[t] = qos)
        <3>1. PICK a : a = Append(s.subscribing, SubscribeFlight(t, qos, id))
            OBVIOUS
        <3>2. a \in Seq(Flights(Subscribes))
            <4>1. SubscribeFlight(t, qos, id) \in Flights(Subscribes)
                BY SubscribeFlightType
            <4> QED
                BY <1>1, <3>1, <4>1
        <3>3. InternalSubscribe(s, t, qos, id) = [s EXCEPT !.subscribing = a]
            BY <2>2, <3>1 DEF InternalSubscribe
        <3>4. [s EXCEPT !.subscribing = a] = [s EXCEPT !.subscribing = a, !.unsubscribing = s.unsubscribing]
            BY DEF SubType
        <3>5. PICK b : b = s.unsubscribing
            OBVIOUS
        <3>6. b \in Seq(Flights(Unsubscribes))
            BY <1>1, <3>5
        <3>7. SubType([s EXCEPT !.subscribing = a, !.unsubscribing = b])
            BY <3>2, <3>6, RequestsType
        <3> QED
            BY <3>3, <3>4, <3>5, <3>7
    <2> QED
        BY <2>1, <2>2
<1>3. SubType(Unsubscribe(s, t, id))
    <2>1. PICK p : p = [type |-> "UNSUBSCRIBE", id |-> id, topic |-> t]
        OBVIOUS
    <2>2. p \in Unsubscribes
        BY <2>1 DEF Unsubscribes
    <2>3. NewFlight(p) \in Flights(Unsubscribes)
        BY <2>2, RequestType DEF NewFlight, Waits, Timers
    <2>4. PICK b : b = Append(s.unsubscribing, NewFlight(p))
        OBVIOUS
    <2>5. b \in Seq(Flights(Unsubscribes))
        BY <1>1, <2>3, <2>4
    <2>6. Unsubscribe(s, t, id) = [s EXCEPT !.unsubscribing = b]
        BY <2>1, <2>4 DEF Unsubscribe
    <2>7. [s EXCEPT !.unsubscribing = b] = [s EXCEPT !.subscribing = s.subscribing, !.unsubscribing = b]
        BY DEF SubType
    <2>8. PICK a : a = s.subscribing
        OBVIOUS
    <2>9. a \in Seq(Flights(Subscribes))
        BY <1>1, <2>8
    <2>10. SubType([s EXCEPT !.subscribing = a, !.unsubscribing = b])
        BY <2>5, <2>9, RequestsType
    <2> QED
        BY <2>6, <2>7, <2>8, <2>10
<1> QED
    BY <1>2, <1>3

-----------------------------------------------------------------------------
(* Every step keeps the types.                                             *)

LEMMA WorldHasType ==
    ASSUME TypeInv
    PROVE  WorldType(World) /\ World.tx = tx /\ World.state = state /\ World.app = app
<1>1. World \in Worlds /\ World.tx = tx /\ World.state = state /\ World.app = app
    BY DEF TypeInv, World, Worlds
<1> QED
    BY <1>1 DEF TypeInv, WorldType

LEMMA NextIdType ==
    ASSUME TypeInv
    PROVE  NextId(packet_id) \in 0..(IdRange - 1) /\ NextId(packet_id) \in Nat
<1>1. packet_id \in Nat /\ IdRange \in Nat /\ IdRange # 0
    BY MqttAssumption DEF TypeInv
<1>2. NextId(packet_id) = (packet_id + 1) % IdRange
    BY DEF NextId
<1> QED
    BY <1>1, <1>2

LEMMA CallType ==
    ASSUME TypeInv, calls # <<>>
    PROVE  /\ Tail(calls) \in Seq(AppCalls)
           /\ Head(calls).op = "publish" => Head(calls).m \in Messages
           /\ Head(calls).op = "subscribe" => Head(calls).topic \in Topics /\ Head(calls).qos \in Qualities
           /\ Head(calls).op = "unsubscribe" => Head(calls).topic \in Topics
<1>1. Head(calls) \in AppCalls /\ Tail(calls) \in Seq(AppCalls)
    BY DEF TypeInv
<1> QED
    BY <1>1 DEF AppCalls, Qualities

LEMMA EventTypes ==
    /\ \A e \in {"CONNECT", "DISCONNECT", "RECONNECT", "GOT_IP", "up", "down"} :
           Event(e) \in Events /\ ~IsData(Event(e))
    /\ \A p \in ToClient : Data(p) \in Events /\ IsData(Data(p)) /\ Data(p).p = p
    /\ \A e \in Events : IsData(e) => e.p \in ToClient
BY DEF Event, Data, Events, IsData

\* What an application asks for.
LEMMA ApplicationTypes ==
    ASSUME TypeInv, Application
    PROVE  TypeInv'
<1>0. inbox \in Seq(Events) /\ Event("CONNECT") \in Events /\ Event("DISCONNECT") \in Events
    BY EventTypes DEF TypeInv
<1>1. CASE ConnectTo
    <2>1. calls' \in Seq(AppCalls) /\ inbox' \in Seq(Events)
        BY <1>0, <1>1, CallType DEF ConnectTo, Calls, Post
    <2> QED
        BY <1>1, <2>1 DEF ConnectTo, TypeInv, timerVars, socketVars, brokerVars, historyVars
<1>2. CASE Disconnect
    <2>1. calls' \in Seq(AppCalls) /\ inbox' \in Seq(Events)
        BY <1>0, <1>2, CallType DEF Disconnect, Calls, Post
    <2> QED
        BY <1>2, <2>1 DEF Disconnect, TypeInv, clientVars, timerVars, socketVars, brokerVars, historyVars
<1>3. CASE Publish
    <2>1. PICK m : m = Head(calls).m
        OBVIOUS
    <2>2. calls # <<>> /\ Head(calls).op = "publish" /\ calls' = Tail(calls)
        BY <1>3 DEF Publish, Calls
    <2>3. m \in Messages /\ calls' \in Seq(AppCalls)
        BY <2>1, <2>2, CallType
    <2>4. QoSOf[m] \in 0..2
        BY <2>3, MqttAssumption
    <2>5. PICK id : id = IF QoSOf[m] > 0 THEN NextId(packet_id) ELSE 0
        OBVIOUS
    <2>6. id \in Nat /\ (QoSOf[m] > 0 => id \in 0..(IdRange - 1))
        BY <2>5, NextIdType
    <2>7. PICK p : p = [type |-> "PUBLISH", id |-> id, m |-> m, qos |-> QoSOf[m], dup |-> FALSE]
        OBVIOUS
    <2>8. p \in Publishes /\ p.qos = QoSOf[p.m]
        BY <2>3, <2>4, <2>6, <2>7 DEF Publishes, Qualities
    <2>9. CASE Accepts(in_progress)
        <3>1. /\ in_progress' = PubPublish(in_progress, p)
              /\ packet_id' = IF QoSOf[m] > 0 THEN id ELSE packet_id
              /\ accepted' = Append(accepted, m)
            BY <1>3, <2>1, <2>5, <2>7, <2>9 DEF Publish, Identify
        <3>2. QueueType(in_progress)
            BY DEF TypeInv
        <3>3. QueueType(in_progress')
            BY <2>8, <2>9, <3>1, <3>2, PublishFacts
        <3>4. packet_id' \in 0..(IdRange - 1)
            BY <2>6, <3>1 DEF TypeInv
        <3>5. accepted' \in Seq(Messages)
            BY <2>3, <3>1 DEF TypeInv
        <3>6. QueueType(in_progress)'
            BY <3>3 DEF QueueType
        <3> QED
            BY <1>3, <2>3, <3>4, <3>5, <3>6 DEF Publish, TypeInv, timerVars, socketVars, brokerVars
    <2>10. CASE ~Accepts(in_progress)
        <3>1. UNCHANGED <<in_progress, packet_id, accepted>>
            BY <1>3, <2>10 DEF Publish
        <3>2. QueueType(in_progress)'
            BY <3>1 DEF TypeInv, QueueType
        <3> QED
            BY <1>3, <2>3, <3>1, <3>2 DEF Publish, TypeInv, timerVars, socketVars, brokerVars
    <2> QED
        BY <2>9, <2>10
<1>4. CASE Subscribe
    <2>1. PICK c : c = Head(calls)
        OBVIOUS
    <2>2. calls # <<>> /\ c.op = "subscribe" /\ calls' = Tail(calls)
        BY <1>4, <2>1 DEF Subscribe, Calls
    <2>3. c.topic \in Topics /\ c.qos \in Qualities /\ calls' \in Seq(AppCalls)
        BY <2>1, <2>2, CallType
    <2>4. sub' = InternalSubscribe(sub, c.topic, c.qos, NextId(packet_id))
        BY <1>4, <2>1 DEF Subscribe
    <2>5. packet_id' = packet_id \/ packet_id' = NextId(packet_id)
        BY <1>4 DEF Subscribe, Identify
    <2>6. packet_id' \in 0..(IdRange - 1)
        BY <2>5, NextIdType DEF TypeInv
    <2>7. SubType(InternalSubscribe(sub, c.topic, c.qos, NextId(packet_id)))
        BY <2>3, NextIdType, AskFacts DEF TypeInv
    <2>8. SubType(sub)'
        BY <2>4, <2>7
    <2> QED
        BY <1>4, <2>3, <2>6, <2>8 DEF Subscribe, TypeInv, timerVars, socketVars, brokerVars
<1>5. CASE UnsubscribeFrom
    <2>1. PICK t : t = Head(calls).topic
        OBVIOUS
    <2>2. calls # <<>> /\ Head(calls).op = "unsubscribe" /\ calls' = Tail(calls)
        BY <1>5 DEF UnsubscribeFrom, Calls
    <2>3. t \in Topics /\ calls' \in Seq(AppCalls)
        BY <2>1, <2>2, CallType
    <2>4. sub' = Unsubscribe(sub, t, NextId(packet_id)) /\ packet_id' = NextId(packet_id)
        BY <1>5, <2>1 DEF UnsubscribeFrom, Identify
    <2>5. packet_id' \in 0..(IdRange - 1)
        BY <2>4, NextIdType
    <2>6. SubType(Unsubscribe(sub, t, NextId(packet_id)))
        <3>1. 0 \in Qualities /\ SubType(sub)
            BY DEF Qualities, TypeInv
        <3> QED
            BY <2>3, <3>1, NextIdType, AskFacts
    <2>7. SubType(sub)'
        BY <2>4, <2>6
    <2> QED
        BY <1>5, <2>3, <2>5, <2>7 DEF UnsubscribeFrom, TypeInv, timerVars, socketVars, brokerVars
<1> QED
    BY <1>1, <1>2, <1>3, <1>4, <1>5 DEF Application

\* DisconnectedState::enter_state()
LEMMA IdleFacts ==
    ASSUME TypeInv, EnterIdle
    PROVE  /\ state' \in States /\ SubType(sub)' /\ QueueType(in_progress)'
           /\ packet_id' \in 0..(IdRange - 1) /\ wrapped' = (wrapped \/ packet_id' < packet_id)
           /\ \/ in_progress' = in_progress
              \/ \E f : Changed(in_progress, f, in_progress') /\ f.wait = in_progress[1].wait
<1>1. PICK m \in Measured, order \in SetToSeqs(DOMAIN sub.active) :
        /\ in_progress' = PubHandleDisconnect(in_progress, m)
        /\ sub' = SubHandleDisconnect(sub, order, [i \in DOMAIN order |-> (packet_id + i) % IdRange], m)
        /\ packet_id' = (packet_id + Len(order)) % IdRange
        /\ wrapped' = (wrapped \/ packet_id' < packet_id)
    BY DEF EnterIdle, Identify
<1>2. PICK ids : ids = [i \in DOMAIN order |-> (packet_id + i) % IdRange]
    OBVIOUS
<1>3. packet_id \in Nat /\ IdRange \in Nat /\ IdRange > 0 /\ SubType(sub) /\ QueueType(in_progress)
    BY MqttAssumption DEF TypeInv
<1>4. DOMAIN order \subseteq Nat
    <2>1. IsFiniteSet(DOMAIN sub.active)
        BY <1>3 DEF SubType
    <2>2. Cardinality(DOMAIN sub.active) \in Nat
        BY <2>1, FS_CardinalityType
    <2>3. order \in [1..Cardinality(DOMAIN sub.active) -> DOMAIN sub.active]
        BY DEF SetToSeqs
    <2> QED
        BY <2>2, <2>3
<1>5. \A i \in DOMAIN order : ids[i] \in Nat
    BY <1>2, <1>3, <1>4
<1>6. SubType(SubHandleDisconnect(sub, order, ids, m)) /\ Len(order) \in Nat
    BY <1>3, <1>5, SubDisconnectType
<1>7. SubType(sub)'
    BY <1>1, <1>2, <1>6
<1>8. packet_id' \in 0..(IdRange - 1)
    BY <1>1, <1>3, <1>6
<1>9. \/ in_progress' = in_progress
      \/ \E f : Changed(in_progress, f, in_progress') /\ f.wait = in_progress[1].wait
    BY <1>1, <1>3, DisconnectFacts
<1>10. QueueType(in_progress')
    BY <1>3, <1>9, ChangedFacts
<1>11. QueueType(in_progress)'
    BY <1>10 DEF QueueType
<1>12. state' \in States
    BY DEF EnterIdle, States
<1> QED
    BY <1>1, <1>7, <1>8, <1>9, <1>11, <1>12

LEMMA TakenType ==
    ASSUME TypeInv, inbox # <<>>
    PROVE  /\ Tail(inbox) \in Seq(Events)
           /\ Head(inbox).ev = "data" => Head(inbox).p \in ToClient
<1>1. Head(inbox) \in Events /\ Tail(inbox) \in Seq(Events)
    BY DEF TypeInv
<1>2. IsData(Head(inbox)) => Head(inbox).p \in ToClient
    BY <1>1, EventTypes
<1> QED
    BY <1>1, <1>2 DEF IsData

LEMMA ToClientFields ==
    ASSUME NEW p \in ToClient
    PROVE  /\ p.type # "CONNACK" => p.id \in Nat
           /\ p.type = "PUBLISH" => p \in Publishes
<1>1. CASE p \in Held
    BY <1>1 DEF Held, Publishes
<1>2. CASE p \in BrokerSignals
    BY <1>2 DEF BrokerSignals
<1>3. CASE p \in [type : {"CONNACK"}, accepted : BOOLEAN]
    BY <1>3
<1> QED
    BY <1>1, <1>2, <1>3 DEF ToClient

LEMMA RelSent ==
    ASSUME NEW id \in Nat
    PROVE  /\ Packet("PUBREL", id) \in ToBroker
           /\ Packet("PUBREL", id).type = "PUBREL" /\ Packet("PUBREL", id).id = id
<1>1. PICK p : p = Packet("PUBREL", id)
    OBVIOUS
<1>2. p \in ClientSignals /\ p.type = "PUBREL" /\ p.id = id
    BY <1>1 DEF Packet, ClientSignals
<1>3. p \in ToBroker
    BY <1>2 DEF ToBroker
<1> QED
    BY <1>1, <1>2, <1>3

\* What Becomes(w) leaves.
LEMMA BecomesType ==
    ASSUME NEW w, WorldType(w), Becomes(w)
    PROVE  tx' \in Seq(ToBroker) /\ Len(tx') <= TxSize /\ state' \in States /\ app' \in Seq(Offers)
<1>1. w.tx \in Seq(ToBroker) /\ Len(w.tx) <= TxSize /\ w.state \in States /\ w.app \in Seq(Offers)
    BY DEF WorldType, Worlds
<1> QED
    BY <1>1 DEF Becomes

\* The answers to the publications.
LEMMA AnswerTypes ==
    ASSUME TypeInv, HandleAnswer
    PROVE  TypeInv'
<1>1. inbox # <<>> /\ Head(inbox).ev = "data" /\ inbox' = Tail(inbox)
    BY DEF HandleAnswer, Takes
<1>2. inbox' \in Seq(Events) /\ Head(inbox).p \in ToClient
    BY <1>1, TakenType
<1>3. PICK p : p = Head(inbox).p
    OBVIOUS
<1>4. PICK rec : rec = PubRecReceived(in_progress, World, p.id)
    OBVIOUS
<1>5. \/ p.type = "PUBACK" /\ in_progress' = PubAckReceived(in_progress, p.id) /\ Becomes(World)
      \/ p.type = "PUBREC" /\ in_progress' = rec.q /\ Becomes(rec.w)
      \/ p.type = "PUBCOMP" /\ in_progress' = PubCompReceived(in_progress, p.id) /\ Becomes(World)
    BY <1>3, <1>4 DEF HandleAnswer
<1>6. p.type \in {"PUBACK", "PUBREC", "PUBCOMP"} => p.id \in Nat
    BY <1>2, <1>3, ToClientFields
<1>7. WorldType(World) /\ QueueType(in_progress)
    BY WorldHasType DEF TypeInv
<1>8. QueueType(rec.q) /\ (p.type = "PUBREC" => WorldType(rec.w))
    <2>1. CASE rec.q = in_progress /\ rec.w = World
        BY <1>7, <2>1
    <2>2. CASE /\ \E f : Changed(in_progress, f, rec.q)
               /\ rec.w = Send(World, Packet("PUBREL", p.id))
        <3>1. QueueType(rec.q)
            BY <1>7, <2>2, ChangedFacts
        <3>2. p.type = "PUBREC" => WorldType(Send(World, Packet("PUBREL", p.id)))
            BY <1>6, <1>7, RelSent, SendFacts
        <3> QED
            BY <2>2, <3>1, <3>2
    <2> QED
        BY <1>4, <1>7, <2>1, <2>2, RecFacts
<1>9. QueueType(in_progress')
    <2>1. CASE in_progress' \in {PubAckReceived(in_progress, p.id), PubCompReceived(in_progress, p.id)}
        <3>1. PICK q : q = in_progress'
            OBVIOUS
        <3>2. q = in_progress \/ (in_progress # <<>> /\ q = Tail(in_progress))
            BY <1>7, <2>1, <3>1, AckFacts
        <3> QED
            BY <1>7, <3>1, <3>2, TailType
    <2> QED
        BY <1>5, <1>8, <2>1
<1>10. tx' \in Seq(ToBroker) /\ Len(tx') <= TxSize /\ state' \in States /\ app' \in Seq(Offers)
    BY <1>5, <1>7, <1>8, BecomesType
<1>11. QueueType(in_progress)'
    BY <1>9 DEF QueueType
<1>12. SubType(sub)' /\ BrokerType(broker)'
    BY DEF HandleAnswer, TypeInv, brokerVars, SubType, BrokerType
<1> QED
    BY <1>2, <1>10, <1>11, <1>12, <1>1 DEF HandleAnswer, TypeInv, timerVars, socketVars, brokerVars, historyVars

\* The other events of the client.
LEMMA IncomingTypes ==
    ASSUME TypeInv, HandleIncoming
    PROVE  TypeInv'
<1>1. inbox # <<>> /\ Head(inbox).ev = "data" /\ inbox' = Tail(inbox)
    BY DEF HandleIncoming, Takes
<1>2. inbox' \in Seq(Events) /\ Head(inbox).p \in ToClient
    BY <1>1, TakenType
<1>3. PICK p : p = Head(inbox).p
    OBVIOUS
<1>0. PICK taken \in BOOLEAN :
        LET q == Head(inbox).p
            a == PublishReceived(sub, World, q, taken)
            b == PubRelReceived(sub, World, q.id, taken)
        IN  \/ q.type = "SUBACK" /\ sub' = SubAckReceived(sub, q.id) /\ Becomes(World)
            \/ q.type = "UNSUBACK" /\ sub' = UnsubAckReceived(sub, q.id) /\ Becomes(World)
            \/ q.type = "PUBLISH" /\ sub' = a.s /\ Becomes(a.w)
            \/ q.type = "PUBREL" /\ sub' = b.s /\ Becomes(b.w)
    BY DEF HandleIncoming
<1>4. PICK pub : pub = PublishReceived(sub, World, p, taken)
    OBVIOUS
<1>5. PICK rel : rel = PubRelReceived(sub, World, p.id, taken)
    OBVIOUS
<1>6. \/ p.type = "SUBACK" /\ sub' = SubAckReceived(sub, p.id) /\ Becomes(World)
      \/ p.type = "UNSUBACK" /\ sub' = UnsubAckReceived(sub, p.id) /\ Becomes(World)
      \/ p.type = "PUBLISH" /\ sub' = pub.s /\ Becomes(pub.w)
      \/ p.type = "PUBREL" /\ sub' = rel.s /\ Becomes(rel.w)
    BY <1>0, <1>3, <1>4, <1>5
<1>7. WorldType(World) /\ SubType(sub)
    BY WorldHasType DEF TypeInv
<1>8. p.type = "PUBLISH" => SubType(pub.s) /\ WorldType(pub.w)
    BY <1>0, <1>2, <1>3, <1>4, <1>7, ToClientFields, PublishReceivedFacts
<1>9. p.type = "PUBREL" => SubType(rel.s) /\ WorldType(rel.w)
    BY <1>0, <1>2, <1>3, <1>5, <1>7, ToClientFields, PubRelFacts
<1>10. SubType(sub')
    BY <1>6, <1>7, <1>8, <1>9, SubAckType, UnsubAckType
<1>11. tx' \in Seq(ToBroker) /\ Len(tx') <= TxSize /\ state' \in States /\ app' \in Seq(Offers)
    BY <1>6, <1>7, <1>8, <1>9, BecomesType
<1>12. SubType(sub)'
    BY <1>10 DEF SubType
<1>13. QueueType(in_progress)' /\ BrokerType(broker)'
    BY DEF HandleIncoming, TypeInv, brokerVars, QueueType, BrokerType
<1> QED
    BY <1>1, <1>2, <1>11, <1>12, <1>13 DEF HandleIncoming, TypeInv, timerVars, socketVars, brokerVars, historyVars

LEMMA ConnectPacketType ==
    ASSUME TypeInv
    PROVE  /\ [type |-> "CONNECT", clean |-> plan.clean] \in ToBroker
           /\ ~OfPublication([type |-> "CONNECT", clean |-> plan.clean])
<1>1. plan.clean \in BOOLEAN
    BY MqttAssumption DEF TypeInv
<1>2. PICK p : p = [type |-> "CONNECT", clean |-> plan.clean]
    OBVIOUS
<1>3. p \in [type : {"CONNECT"}, clean : BOOLEAN] /\ p.type = "CONNECT"
    BY <1>1, <1>2
<1>4. p \in ToBroker
    BY <1>3 DEF ToBroker
<1> QED
    BY <1>2, <1>3, <1>4 DEF OfPublication

LEMMA ClientTypes ==
    ASSUME TypeInv, Client
    PROVE  TypeInv'
<1>0. inbox \in Seq(Events) /\ Event("CONNECT") \in Events
    BY EventTypes DEF TypeInv
<1>1. CASE HandleUp
    <2>1. inbox' \in Seq(Events)
        BY <1>1, TakenType DEF HandleUp, Takes
    <2>2. PICK p : p = [type |-> "CONNECT", clean |-> plan.clean]
        OBVIOUS
    <2>3. p \in ToBroker
        BY <2>2, ConnectPacketType
    <2>4. PICK w : w = Send(World, p)
        OBVIOUS
    <2>5. WorldType(w)
        BY <2>3, <2>4, WorldHasType, SendFacts
    <2>6. w.tx \in Seq(ToBroker) /\ Len(w.tx) <= TxSize
        BY <2>5 DEF WorldType, Worlds
    <2>7. (tx' = tx /\ state' = state) \/ (tx' = w.tx /\ state' = "connect")
        BY <1>1, <2>2, <2>4 DEF HandleUp
    <2>8. tx' \in Seq(ToBroker) /\ Len(tx') <= TxSize /\ state' \in States
        BY <2>6, <2>7 DEF TypeInv, States
    <2>9. QueueType(in_progress)' /\ SubType(sub)' /\ BrokerType(broker)'
        BY <1>1 DEF HandleUp, TypeInv, brokerVars, QueueType, SubType, BrokerType
    <2> QED
        BY <1>1, <2>1, <2>8, <2>9 DEF HandleUp, TypeInv, socketVars, brokerVars, historyVars
<1>2. CASE HandleDown
    <2>1. inbox' \in Seq(Events)
        BY <1>2, TakenType DEF HandleDown, Takes
    <2>2. state' \in States /\ SubType(sub)' /\ QueueType(in_progress)' /\ packet_id' \in 0..(IdRange - 1)
        <3>1. CASE EnterIdle
            BY <3>1, IdleFacts
        <3>2. CASE UNCHANGED <<state, in_progress, sub, packet_id>>
            BY <3>2 DEF TypeInv, SubType, QueueType
        <3> QED
            BY <1>2, <3>1, <3>2 DEF HandleDown
    <2>3. BrokerType(broker)'
        BY <1>2 DEF HandleDown, TypeInv, brokerVars, BrokerType
    <2> QED
        BY <1>2, <2>1, <2>2, <2>3 DEF HandleDown, TypeInv, socketVars, brokerVars
<1>3. CASE HandleReconnect \/ HandleGotIp
    <2>1. Tail(inbox) \in Seq(Events)
        BY <1>3, TakenType DEF HandleReconnect, HandleGotIp, Takes
    <2>2. inbox' = Tail(inbox) \o <<Event("CONNECT")>> \/ inbox' = Tail(inbox) \o <<>>
        BY <1>3 DEF HandleReconnect, HandleGotIp
    <2>3. <<Event("CONNECT")>> \in Seq(Events) /\ <<>> \in Seq(Events)
        BY <1>0
    <2>4. inbox' \in Seq(Events)
        <3>1. PICK rest \in Seq(Events) : rest = Tail(inbox)
            BY <2>1
        <3>2. PICK more \in Seq(Events) : inbox' = rest \o more
            BY <2>2, <2>3, <3>1
        <3>3. rest \o more \in Seq(Events)
            OBVIOUS
        <3> QED
            BY <3>2, <3>3
    <2>5. UNCHANGED <<plan, calls, clientVars, timerVars, tx, socketVars, brokerVars, app, historyVars>>
        BY <1>3 DEF HandleReconnect, HandleGotIp
    <2>6. QueueType(in_progress)' /\ SubType(sub)' /\ BrokerType(broker)'
        BY <2>5 DEF TypeInv, clientVars, brokerVars, QueueType, SubType, BrokerType
    <2> QED
        BY <2>4, <2>5, <2>6 DEF TypeInv, clientVars, socketVars, brokerVars, historyVars
<1>4. CASE HandleConnect \/ HandleDisconnect
    <2>1. PICK rest : rest = Tail(inbox)
        OBVIOUS
    <2>2. rest \in Seq(Events)
        BY <1>4, <2>1, TakenType DEF HandleConnect, HandleDisconnect, Takes
    <2>3. PICK K : K \subseteq 1..Len(rest) /\ inbox' \in Kept(rest, K)
        <3>1. CASE HandleConnect
            BY <2>1, <3>1 DEF HandleConnect
        <3>2. CASE HandleDisconnect
            BY <2>1, <3>2 DEF HandleDisconnect
        <3> QED
            BY <1>4, <3>1, <3>2
    <2>4. inbox' \in Seq(Events)
        BY <2>2, <2>3, KeptType
    <2>5. tx' = <<>>
        BY <1>4 DEF HandleConnect, HandleDisconnect
    <2>6. tx' \in Seq(ToBroker) /\ Len(tx') <= TxSize
        <3>1. Len(<<>>) = 0
            OBVIOUS
        <3> QED
            BY <2>5, <3>1, MqttAssumption
    <2>7. sock' \in {"none", "connecting", "up", "stopping"}
        BY <1>4 DEF HandleConnect, HandleDisconnect, StopSocket, TypeInv
    <2>8. UNCHANGED <<plan, calls, clientVars, net, brokerVars, app, accepted>>
        BY <1>4 DEF HandleConnect, HandleDisconnect, historyVars
    <2>9. QueueType(in_progress)' /\ SubType(sub)' /\ BrokerType(broker)'
        BY <2>8 DEF TypeInv, clientVars, brokerVars, QueueType, SubType, BrokerType
    <2> QED
        BY <2>4, <2>6, <2>7, <2>8, <2>9 DEF TypeInv, clientVars, brokerVars
<1>5. CASE HandleConnAck
    <2>1. inbox' \in Seq(Events)
        BY <1>5, TakenType DEF HandleConnAck, Takes
    <2>2. state' \in States /\ SubType(sub)' /\ QueueType(in_progress)' /\ packet_id' \in 0..(IdRange - 1)
        <3>1. CASE EnterIdle
            BY <3>1, IdleFacts
        <3>2. CASE state' = "run" /\ UNCHANGED <<in_progress, sub, packet_id>>
            BY <3>2 DEF TypeInv, SubType, QueueType, States
        <3> QED
            BY <1>5, <3>1, <3>2 DEF HandleConnAck
    <2>3. BrokerType(broker)'
        BY <1>5 DEF HandleConnAck, TypeInv, brokerVars, BrokerType
    <2> QED
        BY <1>5, <2>1, <2>2, <2>3 DEF HandleConnAck, TypeInv, socketVars, brokerVars
<1>6. CASE IgnoreData
    <2>1. inbox' \in Seq(Events)
        BY <1>6, TakenType DEF IgnoreData, Takes
    <2>2. QueueType(in_progress)' /\ SubType(sub)' /\ BrokerType(broker)'
        BY <1>6 DEF IgnoreData, TypeInv, clientVars, brokerVars, QueueType, SubType, BrokerType
    <2> QED
        BY <1>6, <2>1, <2>2 DEF IgnoreData, TypeInv, clientVars, socketVars, brokerVars, historyVars
<1> QED
    BY <1>1, <1>2, <1>3, <1>4, <1>5, <1>6, AnswerTypes, IncomingTypes DEF Client

\* RunState::tick()
LEMMA FirstTickTypes ==
    ASSUME TypeInv, FirstTick
    PROVE  TypeInv'
<1>1. PICK m \in Measured : LET r == PubResend(in_progress, World, plan.clean, m) IN
                               in_progress' = r.q /\ Becomes(r.w)
    BY DEF FirstTick
<1>2. PICK r : r = PubResend(in_progress, World, plan.clean, m)
    OBVIOUS
<1>3. in_progress' = r.q /\ Becomes(r.w)
    BY <1>1, <1>2
<1>4. WorldType(World) /\ QueueType(in_progress) /\ plan.clean \in BOOLEAN
    BY WorldHasType, MqttAssumption DEF TypeInv
<1>5. \/ r.q = in_progress /\ r.w = World
      \/ in_progress # <<>> /\ r.q = Tail(in_progress) /\ r.w = World
      \/ (\E f : Changed(in_progress, f, r.q)) /\ r.w = World
      \/ in_progress # <<>> /\ r.q = in_progress /\ r.w = Send(World, Packet("PUBREL", in_progress[1].packet.id))
    BY <1>2, <1>4, ResendFacts
<1>6. in_progress # <<>> => in_progress[1].packet.id \in Nat
    <2>1. in_progress # <<>> => in_progress[1] \in Outgoing
        BY <1>4, TailType
    <2>2. in_progress # <<>> => in_progress[1].packet \in Publishes
        BY <2>1, FieldTypes
    <2> QED
        BY <2>2 DEF Publishes
<1>7. QueueType(r.q) /\ WorldType(r.w)
    <2>1. CASE in_progress # <<>> /\ r.q = Tail(in_progress) /\ r.w = World
        BY <1>4, <2>1, TailType
    <2>2. CASE (\E f : Changed(in_progress, f, r.q)) /\ r.w = World
        BY <1>4, <2>2, ChangedFacts
    <2>3. CASE in_progress # <<>> /\ r.q = in_progress /\ r.w = Send(World, Packet("PUBREL", in_progress[1].packet.id))
        BY <1>4, <1>6, <2>3, RelSent, SendFacts
    <2> QED
        BY <1>4, <1>5, <2>1, <2>2, <2>3
<1>8. tx' \in Seq(ToBroker) /\ Len(tx') <= TxSize /\ state' \in States /\ app' \in Seq(Offers)
    BY <1>3, <1>7, BecomesType
<1>9. QueueType(in_progress)'
    BY <1>3, <1>7 DEF QueueType
<1>10. SubType(sub)' /\ BrokerType(broker)'
    BY DEF FirstTick, TypeInv, brokerVars, SubType, BrokerType
<1> QED
    BY <1>8, <1>9, <1>10 DEF FirstTick, TypeInv, socketVars, brokerVars

LEMMA RunTickTypes ==
    ASSUME TypeInv, RunTick
    PROVE  TypeInv'
<1>1. PICK slow \in SUBSET {"publication", "subscription"}, id \in DOMAIN sub.receiving \cup {0} :
        LET pub == PubNext(in_progress, World, "publication" \in slow)
            next == SubscribeNext(sub, pub.w, "subscription" \in slow, id)
        IN  in_progress' = pub.q /\ sub' = next.s /\ Becomes(next.w)
    BY DEF RunTick
<1>2. PICK pub : pub = PubNext(in_progress, World, "publication" \in slow)
    OBVIOUS
<1>3. PICK next : next = SubscribeNext(sub, pub.w, "subscription" \in slow, id)
    OBVIOUS
<1>4. in_progress' = pub.q /\ sub' = next.s /\ Becomes(next.w)
    BY <1>1, <1>2, <1>3
<1>5. WorldType(World) /\ QueueType(in_progress) /\ SubType(sub)
    BY WorldHasType DEF TypeInv
<1>6. PICK late : late = ("publication" \in slow)
    OBVIOUS
<1>7. late \in BOOLEAN /\ pub = PubNext(in_progress, World, late)
    BY <1>2, <1>6
<1>8. \/ pub.q = in_progress /\ pub.w = World
      \/ in_progress # <<>> /\ pub.q = Tail(in_progress) /\ pub.w = Send(World, in_progress[1].packet)
      \/ in_progress # <<>> /\ (\E f : Changed(in_progress, f, pub.q)) /\ pub.w = Send(World, in_progress[1].packet)
      \/ (\E f : Changed(in_progress, f, pub.q)) /\ pub.w = ForceDisconnect(World)
    BY <1>5, <1>7, NextFacts
<1>9. in_progress # <<>> => in_progress[1].packet \in ToBroker
    <2>1. in_progress # <<>> => in_progress[1] \in Outgoing
        BY <1>5, TailType
    <2>2. in_progress # <<>> => in_progress[1].packet \in Publishes
        BY <2>1, FieldTypes
    <2> QED
        BY <2>2 DEF ToBroker
<1>10. QueueType(pub.q) /\ WorldType(pub.w)
    <2>1. CASE in_progress # <<>> /\ pub.q = Tail(in_progress) /\ pub.w = Send(World, in_progress[1].packet)
        BY <1>5, <1>9, <2>1, TailType, SendFacts
    <2>2. CASE in_progress # <<>> /\ (\E f : Changed(in_progress, f, pub.q)) /\ pub.w = Send(World, in_progress[1].packet)
        BY <1>5, <1>9, <2>2, ChangedFacts, SendFacts
    <2>3. CASE (\E f : Changed(in_progress, f, pub.q)) /\ pub.w = ForceDisconnect(World)
        BY <1>5, <2>3, ChangedFacts, ForceFacts
    <2> QED
        BY <1>5, <1>8, <2>1, <2>2, <2>3
<1>11. SubType(next.s) /\ WorldType(next.w)
    <2>1. PICK tardy : tardy = ("subscription" \in slow)
        OBVIOUS
    <2>2. tardy \in BOOLEAN /\ next = SubscribeNext(sub, pub.w, tardy, id)
        BY <1>3, <2>1
    <2> QED
        BY <1>5, <1>10, <2>2, SubscribeNextFacts
<1>12. tx' \in Seq(ToBroker) /\ Len(tx') <= TxSize /\ state' \in States /\ app' \in Seq(Offers)
    BY <1>4, <1>11, BecomesType
<1>13. QueueType(in_progress)'
    BY <1>4, <1>10 DEF QueueType
<1>14. SubType(sub)'
    BY <1>4, <1>11 DEF SubType
<1>15. BrokerType(broker)'
    BY DEF RunTick, TypeInv, brokerVars, BrokerType
<1> QED
    BY <1>12, <1>13, <1>14, <1>15 DEF RunTick, TypeInv, socketVars, brokerVars, historyVars

LEMMA LostTypes ==
    ASSUME TypeInv, Lost
    PROVE  net' \in Seq(ToClient) /\ BrokerType(broker)'
<1>1. net' \in Seq(ToClient)
    BY DEF Lost
<1>2. BrokerType(broker) /\ broker' = [broker EXCEPT !.up = FALSE]
    BY DEF Lost, TypeInv
<1>3. broker' = [up |-> FALSE, subs |-> broker.subs, in |-> broker.in, out |-> broker.out, next |-> broker.next]
    BY <1>2 DEF BrokerType
<1>4. /\ broker'.up = FALSE /\ broker'.subs = broker.subs /\ broker'.in = broker.in /\ broker'.out = broker.out
      /\ broker'.next = broker.next
    BY <1>3
<1>5. BrokerType(broker)'
    BY <1>2, <1>3, <1>4 DEF BrokerType
<1> QED
    BY <1>1, <1>5

LEMMA ClosedTypes ==
    ASSUME TypeInv, Closed
    PROVE  TypeInv'
<1>1. inbox \in Seq(Events) /\ Event("down") \in Events
    BY EventTypes DEF TypeInv
<1>2. inbox' \in Seq(Events) /\ net' \in Seq(ToClient) /\ BrokerType(broker)'
    BY <1>1, LostTypes DEF Closed, Post
<1>3. QueueType(in_progress)' /\ SubType(sub)'
    BY DEF Closed, TypeInv, clientVars, QueueType, SubType
<1> QED
    BY <1>2, <1>3 DEF Closed, TypeInv, clientVars, historyVars

\* Timers and the socket.
LEMMA SocketTypes ==
    ASSUME TypeInv,
           DisconnectDone \/ ReconnectExpires \/ KeepAlive \/ Dispatch \/ Connects \/ Drop \/ GotIp \/ Receive
    PROVE  TypeInv'
<1>0. /\ inbox \in Seq(Events) /\ Event("RECONNECT") \in Events /\ Event("GOT_IP") \in Events
      /\ Event("up") \in Events /\ Event("down") \in Events
    BY EventTypes DEF TypeInv
<1>1. CASE DisconnectDone
    <2>1. state' \in States /\ SubType(sub)' /\ QueueType(in_progress)' /\ packet_id' \in 0..(IdRange - 1)
        BY <1>1, IdleFacts DEF DisconnectDone
    <2>2. BrokerType(broker)'
        BY <1>1 DEF DisconnectDone, TypeInv, brokerVars, BrokerType
    <2> QED
        BY <1>1, <2>1, <2>2 DEF DisconnectDone, TypeInv, socketVars, brokerVars
<1>2. CASE ReconnectExpires \/ GotIp
    <2>1. inbox' \in Seq(Events)
        BY <1>0, <1>2 DEF ReconnectExpires, GotIp, Post
    <2>2. UNCHANGED <<plan, calls, clientVars, tx, socketVars, brokerVars, app, historyVars>>
        BY <1>2 DEF ReconnectExpires, GotIp
    <2>3. QueueType(in_progress)' /\ SubType(sub)' /\ BrokerType(broker)'
        BY <2>2 DEF TypeInv, clientVars, brokerVars, QueueType, SubType, BrokerType
    <2> QED
        BY <2>1, <2>2, <2>3 DEF TypeInv, clientVars, socketVars, brokerVars, historyVars
<1>3. CASE KeepAlive
    <2>1. PICK p : p = Packet("PINGREQ", 0)
        OBVIOUS
    <2>2. p \in ToBroker /\ tx' = Append(tx, p) /\ Len(tx) < TxSize
        BY <1>3, <2>1, SignalSent, WorldHasType DEF KeepAlive, HasRoom
    <2>3. tx' \in Seq(ToBroker) /\ Len(tx') = Len(tx) + 1 /\ Len(tx) \in Nat
        BY <2>2, AppendFacts DEF TypeInv
    <2>4. Len(tx') <= TxSize
        BY <2>2, <2>3, MqttAssumption
    <2>5. QueueType(in_progress)' /\ SubType(sub)' /\ BrokerType(broker)'
        BY <1>3 DEF KeepAlive, TypeInv, clientVars, brokerVars, QueueType, SubType, BrokerType
    <2> QED
        BY <1>3, <2>3, <2>4, <2>5 DEF KeepAlive, TypeInv, clientVars, socketVars, brokerVars, historyVars
<1>5. CASE Dispatch
    <2>1. sock' \in {"none", "connecting", "up", "stopping"} /\ inbox' \in Seq(Events)
        <3>1. inbox' = inbox \/ inbox' = Append(inbox, Event("down"))
            BY <1>5 DEF Dispatch, Post
        <3>2. inbox' \in Seq(Events)
            BY <1>0, <3>1
        <3>3. sock' = sock \/ sock' = "none" \/ sock' = "connecting"
            BY <1>5 DEF Dispatch
        <3> QED
            BY <3>2, <3>3 DEF TypeInv
    <2>2. net' \in Seq(ToClient) /\ BrokerType(broker)'
        <3>1. CASE Lost
            BY <3>1, LostTypes
        <3>2. CASE UNCHANGED <<net, broker>>
            BY <3>2 DEF TypeInv, BrokerType
        <3> QED
            BY <1>5, <3>1, <3>2 DEF Dispatch
    <2>3. QueueType(in_progress)' /\ SubType(sub)'
        BY <1>5 DEF Dispatch, TypeInv, clientVars, QueueType, SubType
    <2> QED
        BY <1>5, <2>1, <2>2, <2>3 DEF Dispatch, TypeInv, clientVars, historyVars
<1>6. CASE Connects
    <2>1. inbox' \in Seq(Events)
        BY <1>0, <1>6 DEF Connects, Post
    <2>2. QueueType(in_progress)' /\ SubType(sub)' /\ BrokerType(broker)'
        BY <1>6 DEF Connects, TypeInv, clientVars, brokerVars, QueueType, SubType, BrokerType
    <2> QED
        BY <1>6, <2>1, <2>2 DEF Connects, TypeInv, clientVars, brokerVars, historyVars
<1>7. CASE Drop
    BY <1>7, ClosedTypes DEF Drop
<1>8. CASE Receive
    <2>1. net # <<>> /\ net' = Tail(net) /\ inbox' = Append(inbox, Data(Head(net)))
        BY <1>8 DEF Receive, Post
    <2>2. Head(net) \in ToClient /\ net' \in Seq(ToClient)
        BY <2>1 DEF TypeInv
    <2>3. Data(Head(net)) \in Events
        BY <2>2, EventTypes
    <2>4. inbox' \in Seq(Events)
        BY <1>0, <2>1, <2>3
    <2>5. QueueType(in_progress)' /\ SubType(sub)' /\ BrokerType(broker)'
        BY <1>8 DEF Receive, TypeInv, clientVars, brokerVars, QueueType, SubType, BrokerType
    <2> QED
        BY <1>8, <2>2, <2>4, <2>5 DEF Receive, TypeInv, clientVars, brokerVars, historyVars
<1> QED
    BY <1>1, <1>2, <1>3, <1>5, <1>6, <1>7, <1>8

\* A change of what the broker keeps.
LEMMA BrokerInType ==
    ASSUME NEW b, BrokerType(b), NEW f, DOMAIN f \subseteq Nat, NEW c, c = [b EXCEPT !.in = f]
    PROVE  BrokerType(c) /\ c.in = f
<1>1. c = [up |-> b.up, subs |-> b.subs, in |-> f, out |-> b.out, next |-> b.next]
    BY DEF BrokerType
<1>2. c.up = b.up /\ c.subs = b.subs /\ c.in = f /\ c.out = b.out /\ c.next = b.next
    BY <1>1
<1> QED
    BY <1>1, <1>2 DEF BrokerType

LEMMA BrokerSubsType ==
    ASSUME NEW b, BrokerType(b), NEW f, NEW c, c = [b EXCEPT !.subs = f]
    PROVE  BrokerType(c) /\ c.in = b.in
<1>1. c = [up |-> b.up, subs |-> f, in |-> b.in, out |-> b.out, next |-> b.next]
    BY DEF BrokerType
<1>2. c.up = b.up /\ c.subs = f /\ c.in = b.in /\ c.out = b.out /\ c.next = b.next
    BY <1>1
<1> QED
    BY <1>1, <1>2 DEF BrokerType

\* Without the answers of the broker to the packets of Publication.
AnswerTypes3 == {"PUBACK", "PUBREC", "PUBCOMP"}

LEMMA BrokerSignalType ==
    ASSUME NEW type \in {"PUBREL", "PUBREC", "PUBACK", "PUBCOMP", "SUBACK", "UNSUBACK"}, NEW id \in Nat
    PROVE  /\ Packet(type, id) \in ToClient
           /\ Packet(type, id).type = type /\ Packet(type, id).id = id
<1>1. PICK p : p = Packet(type, id)
    OBVIOUS
<1>2. p \in BrokerSignals /\ p.type = type /\ p.id = id
    BY <1>1 DEF Packet, BrokerSignals
<1>3. p \in ToClient
    BY <1>2 DEF ToClient
<1> QED
    BY <1>1, <1>2, <1>3

LEMMA ToBrokerFields ==
    ASSUME NEW p \in ToBroker
    PROVE  /\ p.type # "CONNECT" => p.id \in Nat
           /\ p.type = "PUBLISH" => p \in Publishes
<1>1. CASE p \in Publishes
    BY <1>1 DEF Publishes
<1>2. CASE p \in Subscribes
    BY <1>2 DEF Subscribes
<1>3. CASE p \in Unsubscribes
    BY <1>3 DEF Unsubscribes
<1>4. CASE p \in ClientSignals
    BY <1>4 DEF ClientSignals
<1>5. CASE p \in [type : {"CONNECT"}, clean : BOOLEAN]
    BY <1>5
<1> QED
    BY <1>1, <1>2, <1>3, <1>4, <1>5 DEF ToBroker

LEMMA TxTail ==
    ASSUME TypeInv, tx # <<>>
    PROVE  /\ Tail(tx) \in Seq(ToBroker) /\ Len(Tail(tx)) <= TxSize /\ Len(Tail(tx)) = Len(tx) - 1
           /\ Len(tx) \in Nat /\ Len(tx) >= 1 /\ Head(tx) = tx[1] /\ tx[1] \in ToBroker
           /\ \A i \in 1..(Len(tx) - 1) : Tail(tx)[i] = tx[i + 1]
<1>1. tx \in Seq(ToBroker) /\ Len(tx) <= TxSize
    BY DEF TypeInv
<1>2. /\ Tail(tx) \in Seq(ToBroker) /\ Len(Tail(tx)) = Len(tx) - 1 /\ Len(tx) \in Nat /\ Len(tx) >= 1
      /\ Head(tx) = tx[1] /\ tx[1] \in ToBroker
      /\ \A i \in 1..(Len(tx) - 1) : Tail(tx)[i] = tx[i + 1]
    BY <1>1, TailFacts
<1>3. Len(Tail(tx)) <= TxSize
    BY <1>1, <1>2, MqttAssumption
<1> QED
    BY <1>2, <1>3

\* The effect of the broker on what it keeps and sends.
Quiet(s, t) ==
    /\ Len(s) <= Len(t)
    /\ \A i \in 1..Len(s) : t[i] = s[i]
    /\ \A i \in 1..Len(t) : i > Len(s) => t[i].type \notin AnswerTypes3

LEMMA QuietSelf ==
    ASSUME NEW s \in Seq(ToClient) PROVE Quiet(s, s)
BY DEF Quiet

LEMMA QuietAppend ==
    ASSUME NEW s \in Seq(ToClient), NEW u \in Seq(ToClient), \A i \in 1..Len(u) : u[i].type \notin AnswerTypes3
    PROVE  s \o u \in Seq(ToClient) /\ Quiet(s, s \o u)
<1>1. /\ s \o u \in Seq(ToClient) /\ Len(s) \in Nat /\ Len(u) \in Nat /\ Len(s \o u) = Len(s) + Len(u)
      /\ \A i \in 1..Len(s) : (s \o u)[i] = s[i]
    OBVIOUS
<1>2. ASSUME NEW i \in 1..Len(s \o u), i > Len(s) PROVE (s \o u)[i].type \notin AnswerTypes3
    <2>1. i - Len(s) \in 1..Len(u)
        BY <1>1, <1>2
    <2>2. (s \o u)[i] = u[i - Len(s)]
        BY <1>1, <1>2
    <2> QED
        BY <2>1, <2>2
<1> QED
    BY <1>1, <1>2 DEF Quiet

\* The broker accepts a connection, with a session that it keeps or a new one.
LEMMA AcceptsFacts ==
    ASSUME TypeInv, BrokerAccepts
    PROVE  /\ net' \in Seq(ToClient) /\ Quiet(net, net')
           /\ BrokerType(broker)' /\ DOMAIN broker'.in \subseteq DOMAIN broker.in
           /\ ~plan.clean => broker'.in = broker.in
           /\ tx # <<>> /\ tx' = Tail(tx) /\ ~OfPublication(tx[1])
<1>1. PICK ok \in BOOLEAN, ids \in SetToSeqs(DOMAIN broker.out) :
        /\ broker' = IF ~ok THEN broker
                     ELSE [(IF plan.clean THEN FreshSession ELSE broker) EXCEPT !.up = TRUE]
        /\ net' = net \o <<[type |-> "CONNACK", accepted |-> ok]>> \o
              (IF ok /\ ~plan.clean THEN [i \in 1..Len(ids) |-> broker.out[ids[i]]] ELSE <<>>)
    BY DEF BrokerAccepts
<1>2. BrokerType(broker) /\ net \in Seq(ToClient)
    BY DEF TypeInv
<1>3. tx # <<>> /\ tx' = Tail(tx) /\ ~OfPublication(tx[1])
    <2>1. tx # <<>> /\ tx' = Tail(tx) /\ Head(tx).type = "CONNECT"
        BY DEF BrokerAccepts, FromClient
    <2>2. Head(tx) = tx[1]
        BY <2>1, TxTail
    <2> QED
        BY <2>1, <2>2 DEF OfPublication
<1>4. BrokerType(FreshSession) /\ DOMAIN FreshSession.in = {}
    <2>1. PICK f : f = FreshSession
        OBVIOUS
    <2>2. f = [up |-> FALSE, subs |-> {}, in |-> <<>>, out |-> <<>>, next |-> 1]
        BY <2>1 DEF FreshSession
    <2>3. f.up = FALSE /\ f.subs = {} /\ f.in = <<>> /\ f.out = <<>> /\ f.next = 1
        BY <2>2
    <2>4. DOMAIN f.in = {} /\ DOMAIN f.out = {}
        BY <2>3
    <2>5. IsFiniteSet({})
        BY FS_EmptySet
    <2>6. BrokerType(f)
        BY <2>2, <2>3, <2>4, <2>5 DEF BrokerType
    <2> QED
        BY <2>1, <2>4, <2>6
<1>5. ASSUME NEW b, BrokerType(b) PROVE BrokerType([b EXCEPT !.up = TRUE]) /\ [b EXCEPT !.up = TRUE].in = b.in
    <2>1. PICK c : c = [b EXCEPT !.up = TRUE]
        OBVIOUS
    <2>2. c = [up |-> TRUE, subs |-> b.subs, in |-> b.in, out |-> b.out, next |-> b.next]
        BY <1>5, <2>1 DEF BrokerType
    <2>3. c.up = TRUE /\ c.subs = b.subs /\ c.in = b.in /\ c.out = b.out /\ c.next = b.next
        BY <2>2
    <2>4. BrokerType(c)
        BY <1>5, <2>2, <2>3 DEF BrokerType
    <2> QED
        BY <2>1, <2>3, <2>4
<1>6. /\ BrokerType(broker') /\ DOMAIN broker'.in \subseteq DOMAIN broker.in
      /\ ~plan.clean => broker'.in = broker.in
    <2>1. CASE ~ok
        BY <1>1, <1>2, <2>1
    <2>2. CASE ok /\ plan.clean
        <3>1. broker' = [FreshSession EXCEPT !.up = TRUE]
            BY <1>1, <2>2
        <3> QED
            BY <1>4, <1>5, <2>2, <3>1
    <2>3. CASE ok /\ ~plan.clean
        <3>1. broker' = [broker EXCEPT !.up = TRUE]
            BY <1>1, <2>3
        <3> QED
            BY <1>2, <1>5, <3>1
    <2> QED
        BY <2>1, <2>2, <2>3
<1>7. PICK u : u = IF ok /\ ~plan.clean THEN [i \in 1..Len(ids) |-> broker.out[ids[i]]] ELSE <<>>
    OBVIOUS
<1>8. u \in Seq(ToClient) /\ \A i \in 1..Len(u) : u[i].type \notin AnswerTypes3
    <2>1. IsFiniteSet(DOMAIN broker.out) /\ \A id \in DOMAIN broker.out : broker.out[id] \in Held
        BY <1>2 DEF BrokerType
    <2>2. PICK n \in Nat : n = Cardinality(DOMAIN broker.out)
        BY <2>1, FS_CardinalityType
    <2>3. ids \in [1..n -> DOMAIN broker.out]
        BY <2>2 DEF SetToSeqs
    <2>4. Len(ids) = n
        BY <2>3
    <2>5. \A i \in 1..n : broker.out[ids[i]] \in Held
        BY <2>1, <2>3
    <2>6. Held \subseteq ToClient /\ \A p \in Held : p.type \notin AnswerTypes3
        BY DEF Held, ToClient, AnswerTypes3
    <2>7. CASE ok /\ ~plan.clean
        <3>1. u = [i \in 1..n |-> broker.out[ids[i]]]
            BY <1>7, <2>4, <2>7
        <3>2. u \in Seq(Held) /\ Len(u) = n
            BY <2>5, <3>1
        <3>3. \A i \in 1..Len(u) : u[i] \in Held
            BY <3>2
        <3>4. u \in Seq(ToClient)
            BY <2>6, <3>2, <3>3
        <3> QED
            BY <2>6, <3>3, <3>4
    <2>8. CASE ~(ok /\ ~plan.clean)
        <3>1. u = <<>>
            BY <1>7, <2>8
        <3> QED
            BY <3>1
    <2> QED
        BY <2>7, <2>8
<1>9. PICK c : c = <<[type |-> "CONNACK", accepted |-> ok]>>
    OBVIOUS
<1>10. c \in Seq(ToClient) /\ \A i \in 1..Len(c) : c[i].type \notin AnswerTypes3
    <2>1. PICK p : p = [type |-> "CONNACK", accepted |-> ok]
        OBVIOUS
    <2>2. p \in [type : {"CONNACK"}, accepted : BOOLEAN] /\ p.type = "CONNACK"
        BY <2>1
    <2>3. p \in ToClient /\ p.type \notin AnswerTypes3
        BY <2>2 DEF ToClient, AnswerTypes3
    <2>4. c = <<p>>
        BY <1>9, <2>1
    <2>5. c \in Seq(ToClient) /\ Len(c) = 1 /\ c[1] = p
        BY <2>3, <2>4
    <2> QED
        BY <2>3, <2>5
<1>11. net' = (net \o c) \o u
    BY <1>1, <1>7, <1>9
<1>12. net \o c \in Seq(ToClient) /\ Quiet(net, net \o c)
    BY <1>2, <1>10, QuietAppend
<1>13. (net \o c) \o u \in Seq(ToClient) /\ Quiet(net \o c, (net \o c) \o u)
    BY <1>8, <1>12, QuietAppend
<1>14. Quiet(net, (net \o c) \o u)
    <2>1. PICK s, t : s = net \o c /\ t = (net \o c) \o u
        OBVIOUS
    <2>2. s \in Seq(ToClient) /\ t \in Seq(ToClient) /\ Quiet(net, s) /\ Quiet(s, t)
        BY <1>12, <1>13, <2>1
    <2>3. Len(net) \in Nat /\ Len(s) \in Nat /\ Len(t) \in Nat /\ Len(net) <= Len(s) /\ Len(s) <= Len(t)
        BY <1>2, <2>2 DEF Quiet
    <2>4. ASSUME NEW i \in 1..Len(net) PROVE t[i] = net[i]
        <3>1. i \in 1..Len(s)
            BY <2>3
        <3> QED
            BY <2>2, <3>1 DEF Quiet
    <2>5. ASSUME NEW i \in 1..Len(t), i > Len(net) PROVE t[i].type \notin AnswerTypes3
        <3>1. CASE i \in 1..Len(s)
            BY <2>2, <2>5, <3>1 DEF Quiet
        <3>2. CASE i > Len(s)
            BY <2>2, <3>2 DEF Quiet
        <3> QED
            BY <2>3, <3>1, <3>2
    <2>6. Quiet(net, t)
        BY <2>3, <2>4, <2>5 DEF Quiet
    <2> QED
        BY <2>1, <2>6
<1>15. BrokerType(broker)'
    BY <1>6 DEF BrokerType
<1> QED
    BY <1>3, <1>6, <1>11, <1>13, <1>14, <1>15

\* The broker takes a message.
LEMMA TakesFacts ==
    ASSUME TypeInv, BrokerTakes, NEW p, p = tx[1]
    PROVE  /\ tx # <<>> /\ tx' = Tail(tx) /\ p \in Publishes /\ p.type = "PUBLISH"
           /\ net' \in Seq(ToClient)
           /\ p.qos = 0 => net' = net
           /\ p.qos > 0 => \E type \in AnswerTypes3 : net' = Append(net, Packet(type, p.id))
           /\ BrokerType(broker)'
           /\ DOMAIN broker'.in = IF p.qos = 2 THEN DOMAIN broker.in \cup {p.id} ELSE DOMAIN broker.in
           /\ delivered' = IF p.qos = 2 /\ p.id \in DOMAIN broker.in THEN delivered ELSE Append(delivered, p.m)
<1>1. tx # <<>> /\ tx' = Tail(tx) /\ Head(tx).type = "PUBLISH"
    BY DEF BrokerTakes, Session, FromClient
<1>2. p = Head(tx) /\ p \in ToBroker
    BY <1>1, TxTail
<1>3. p \in Publishes /\ p.type = "PUBLISH"
    BY <1>1, <1>2, ToBrokerFields
<1>4. p.qos \in 0..2 /\ p.id \in Nat
    BY <1>3 DEF Publishes, Qualities
<1>5. /\ net' = net \o (CASE p.qos = 0 -> <<>>
                          [] p.qos = 1 -> <<Packet("PUBACK", p.id)>>
                          [] p.qos = 2 -> <<Packet("PUBREC", p.id)>>)
      /\ broker' = IF p.qos = 2 THEN [broker EXCEPT !.in = Emplace(@, p.id, p.m)] ELSE broker
      /\ delivered' = IF p.qos = 2 /\ p.id \in DOMAIN broker.in THEN delivered ELSE Append(delivered, p.m)
    BY <1>2 DEF BrokerTakes
<1>6. net \in Seq(ToClient) /\ BrokerType(broker)
    BY DEF TypeInv
<1>7. p.qos = 0 => net' = net
    BY <1>5, <1>6
<1>8. p.qos = 1 => net' = Append(net, Packet("PUBACK", p.id))
    <2>1. p.qos = 1 => net' = net \o <<Packet("PUBACK", p.id)>>
        BY <1>5
    <2> QED
        BY <1>6, <2>1
<1>9. p.qos = 2 => net' = Append(net, Packet("PUBREC", p.id))
    <2>1. p.qos = 2 => net' = net \o <<Packet("PUBREC", p.id)>>
        BY <1>5
    <2> QED
        BY <1>6, <2>1
<1>10. Packet("PUBACK", p.id) \in ToClient /\ Packet("PUBREC", p.id) \in ToClient
    BY <1>4, BrokerSignalType
<1>11. net' \in Seq(ToClient)
    BY <1>4, <1>6, <1>7, <1>8, <1>9, <1>10
<1>12. p.qos > 0 => \E type \in AnswerTypes3 : net' = Append(net, Packet(type, p.id))
    BY <1>4, <1>8, <1>9 DEF AnswerTypes3
<1>13. /\ BrokerType(broker')
       /\ DOMAIN broker'.in = IF p.qos = 2 THEN DOMAIN broker.in \cup {p.id} ELSE DOMAIN broker.in
    <2>1. CASE p.qos = 2
        <3>1. PICK f : f = Emplace(broker.in, p.id, p.m)
            OBVIOUS
        <3>2. DOMAIN f = DOMAIN broker.in \cup {p.id}
            <4>1. CASE p.id \in DOMAIN broker.in
                BY <3>1, <4>1 DEF Emplace
            <4>2. CASE p.id \notin DOMAIN broker.in
                BY <3>1, <4>2 DEF Emplace
            <4> QED
                BY <4>1, <4>2
        <3>3. DOMAIN f \subseteq Nat
            BY <1>4, <1>6, <3>2 DEF BrokerType
        <3>4. broker' = [broker EXCEPT !.in = f]
            BY <1>5, <2>1, <3>1
        <3>5. BrokerType(broker') /\ broker'.in = f
            BY <1>6, <3>3, <3>4, BrokerInType
        <3> QED
            BY <2>1, <3>2, <3>5
    <2>2. CASE p.qos # 2
        BY <1>5, <1>6, <2>2
    <2> QED
        BY <2>1, <2>2
<1>14. BrokerType(broker)'
    BY <1>13 DEF BrokerType
<1> QED
    BY <1>1, <1>3, <1>5, <1>7, <1>11, <1>12, <1>13, <1>14

LEMMA ReleaseType ==
    ASSUME NEW out, \A i \in DOMAIN out : out[i] \in Held, NEW id \in DOMAIN out, NEW r, r = Release(out, id)
    PROVE  DOMAIN r = DOMAIN out /\ \A i \in DOMAIN r : r[i] \in Held
<1>1. PICK h : h = Released(out[id])
    OBVIOUS
<1>2. h \in Held
    <2>1. out[id] \in Held
        OBVIOUS
    <2> QED
        BY <1>1, <2>1 DEF Released, Held
<1>3. r = [out EXCEPT ![id] = h]
    BY <1>1 DEF Release
<1> QED
    BY <1>2, <1>3

\* The broker ends the exchange of a message, or answers another packet.
LEMMA AnswersFacts ==
    ASSUME TypeInv, BrokerAnswers, NEW p, p = tx[1]
    PROVE  /\ tx # <<>> /\ tx' = Tail(tx)
           /\ net' \in Seq(ToClient) /\ BrokerType(broker)'
           /\ \/ /\ p.type = "PUBREL" /\ p.id \in Nat
                 /\ net' = Append(net, Packet("PUBCOMP", p.id))
                 /\ DOMAIN broker'.in = DOMAIN broker.in \ {p.id}
              \/ ~OfPublication(p) /\ Quiet(net, net') /\ broker'.in = broker.in
<1>1. PICK type \in {"PUBREL", "SUBSCRIBE", "UNSUBSCRIBE", "PUBREC", "PINGREQ"} :
        /\ Session(type)
        /\ \/ /\ type = "PUBREL" /\ Replies(Packet("PUBCOMP", Head(tx).id))
              /\ broker' = [broker EXCEPT !.in = Erase(@, Head(tx).id)]
           \/ /\ type = "SUBSCRIBE" /\ Replies(Packet("SUBACK", Head(tx).id))
              /\ broker' = [broker EXCEPT !.subs = @ \cup {Head(tx).topic}]
           \/ /\ type = "UNSUBSCRIBE" /\ Replies(Packet("UNSUBACK", Head(tx).id))
              /\ broker' = [broker EXCEPT !.subs = @ \ {Head(tx).topic}]
           \/ /\ type = "PUBREC" /\ Replies(Packet("PUBREL", Head(tx).id))
              /\ broker' = IF Head(tx).id \in DOMAIN broker.out
                           THEN [broker EXCEPT !.out = Release(@, Head(tx).id)]
                           ELSE broker
           \/ type = "PINGREQ" /\ UNCHANGED <<net, broker>>
    BY DEF BrokerAnswers
<1>2. tx # <<>> /\ tx' = Tail(tx) /\ Head(tx).type = type
    BY <1>1 DEF Session, FromClient
<1>3. p = Head(tx) /\ p \in ToBroker /\ p.type = type
    BY <1>2, TxTail
<1>4. p.id \in Nat
    BY <1>3, ToBrokerFields
<1>5. BrokerType(broker) /\ net \in Seq(ToClient)
    BY DEF TypeInv
<1>6. type # "PUBREL" => ~OfPublication(p)
    BY <1>3 DEF OfPublication
<1>7. ASSUME NEW answer \in {"PUBREL", "SUBACK", "UNSUBACK", "PUBCOMP"}, Replies(Packet(answer, p.id))
      PROVE  /\ net' \in Seq(ToClient) /\ net' = Append(net, Packet(answer, p.id))
             /\ answer # "PUBCOMP" => Quiet(net, net')
    <2>1. PICK a : a = Packet(answer, p.id)
        OBVIOUS
    <2>2. a \in ToClient /\ a.type = answer
        BY <1>4, <2>1, BrokerSignalType
    <2>3. net' = Append(net, a)
        BY <1>7, <2>1 DEF Replies
    <2>4. /\ net' \in Seq(ToClient) /\ Len(net') = Len(net) + 1 /\ Len(net) \in Nat
          /\ net'[Len(net) + 1] = a /\ \A i \in 1..Len(net) : net'[i] = net[i]
        BY <1>5, <2>2, <2>3
    <2>5. \A i \in 1..(Len(net) + 1) : i > Len(net) => i = Len(net) + 1
        BY <2>4
    <2>6. answer # "PUBCOMP" => a.type \notin AnswerTypes3
        BY <2>2 DEF AnswerTypes3
    <2>7. answer # "PUBCOMP" => Quiet(net, net')
        BY <2>4, <2>5, <2>6 DEF Quiet
    <2> QED
        BY <2>1, <2>3, <2>4, <2>7
<1>8. CASE type = "PUBREL"
    <2>1. Replies(Packet("PUBCOMP", p.id)) /\ broker' = [broker EXCEPT !.in = Erase(broker.in, p.id)]
        BY <1>1, <1>3, <1>8
    <2>2. PICK f : f = Erase(broker.in, p.id)
        OBVIOUS
    <2>3. DOMAIN f = DOMAIN broker.in \ {p.id}
        BY <2>2 DEF Erase, Restrict
    <2>4. DOMAIN f \subseteq Nat
        BY <1>5, <2>3 DEF BrokerType
    <2>5. broker' = [broker EXCEPT !.in = f]
        BY <2>1, <2>2
    <2>6. BrokerType(broker') /\ broker'.in = f
        BY <1>5, <2>4, <2>5, BrokerInType
    <2>7. BrokerType(broker)'
        BY <2>6 DEF BrokerType
    <2>8. net' \in Seq(ToClient) /\ net' = Append(net, Packet("PUBCOMP", p.id))
        BY <1>7, <2>1
    <2> QED
        BY <1>2, <1>3, <1>4, <1>8, <2>3, <2>6, <2>7, <2>8
<1>9. CASE type \in {"SUBSCRIBE", "UNSUBSCRIBE"}
    <2>1. \/ Replies(Packet("SUBACK", p.id)) /\ broker' = [broker EXCEPT !.subs = broker.subs \cup {p.topic}]
          \/ Replies(Packet("UNSUBACK", p.id)) /\ broker' = [broker EXCEPT !.subs = broker.subs \ {p.topic}]
        BY <1>1, <1>3, <1>9
    <2>2. net' \in Seq(ToClient) /\ Quiet(net, net')
        BY <1>7, <2>1
    <2>3. PICK f : broker' = [broker EXCEPT !.subs = f]
        BY <2>1
    <2>4. BrokerType(broker') /\ broker'.in = broker.in
        BY <1>5, <2>3, BrokerSubsType
    <2>5. BrokerType(broker)'
        BY <2>4 DEF BrokerType
    <2> QED
        BY <1>2, <1>6, <1>9, <2>2, <2>4, <2>5
<1>10. CASE type = "PUBREC"
    <2>1. /\ Replies(Packet("PUBREL", p.id))
          /\ broker' = IF p.id \in DOMAIN broker.out THEN [broker EXCEPT !.out = Release(broker.out, p.id)]
                       ELSE broker
        BY <1>1, <1>3, <1>10
    <2>2. net' \in Seq(ToClient) /\ Quiet(net, net')
        BY <1>7, <2>1
    <2>3. BrokerType(broker') /\ broker'.in = broker.in
        <3>1. CASE p.id \in DOMAIN broker.out
            <4>1. PICK f : f = Release(broker.out, p.id)
                OBVIOUS
            <4>2. IsFiniteSet(DOMAIN broker.out) /\ \A i \in DOMAIN broker.out : broker.out[i] \in Held
                BY <1>5 DEF BrokerType
            <4>3. DOMAIN f = DOMAIN broker.out /\ \A i \in DOMAIN f : f[i] \in Held
                BY <3>1, <4>1, <4>2, ReleaseType
            <4>4. broker.next \in Nat /\ broker' = [broker EXCEPT !.out = f]
                BY <1>5, <2>1, <3>1, <4>1 DEF BrokerType
            <4>5. broker' = [broker EXCEPT !.out = f, !.next = broker.next]
                BY <1>5, <4>4 DEF BrokerType
            <4>6. IsFiniteSet(DOMAIN f)
                BY <4>2, <4>3
            <4>7. PICK n \in Nat : n = broker.next
                BY <4>4
            <4>10. PICK c : c = broker'
                OBVIOUS
            <4>8. c = [broker EXCEPT !.out = f, !.next = n]
                BY <4>5, <4>7, <4>10
            <4>9. BrokerType(c) /\ c.in = broker.in
                <5>1. c = [up |-> broker.up, subs |-> broker.subs, in |-> broker.in, out |-> f, next |-> n]
                    BY <1>5, <4>8 DEF BrokerType
                <5>2. c.up = broker.up /\ c.subs = broker.subs /\ c.in = broker.in /\ c.out = f /\ c.next = n
                    BY <5>1
                <5> QED
                    BY <1>5, <4>3, <4>6, <5>1, <5>2 DEF BrokerType
            <4> QED
                BY <4>9, <4>10
        <3>2. CASE p.id \notin DOMAIN broker.out
            BY <1>5, <2>1, <3>2
        <3> QED
            BY <3>1, <3>2
    <2>4. BrokerType(broker)'
        BY <2>3 DEF BrokerType
    <2> QED
        BY <1>2, <1>6, <1>10, <2>2, <2>3, <2>4
<1>11. CASE type = "PINGREQ"
    <2>1. net' = net /\ broker' = broker
        BY <1>1, <1>11
    <2>2. BrokerType(broker)' /\ Quiet(net, net')
        BY <1>5, <2>1, QuietSelf
    <2> QED
        BY <1>2, <1>5, <1>6, <1>11, <2>1, <2>2
<1> QED
    BY <1>8, <1>9, <1>10, <1>11

\* The broker hears that a message has arrived.
LEMMA CompletesFacts ==
    ASSUME TypeInv, BrokerCompletes
    PROVE  /\ tx # <<>> /\ tx' = Tail(tx) /\ ~OfPublication(tx[1])
           /\ net' = net /\ BrokerType(broker)' /\ broker'.in = broker.in
<1>1. tx # <<>> /\ tx' = Tail(tx) /\ Head(tx).type \in {"PUBACK", "PUBCOMP"}
    BY DEF BrokerCompletes, Session, FromClient
<1>2. Head(tx) = tx[1]
    BY <1>1, TxTail
<1>3. ~OfPublication(tx[1])
    BY <1>1, <1>2 DEF OfPublication
<1>4. PICK id : id = Head(tx).id
    OBVIOUS
<1>5. broker' = [broker EXCEPT !.out = Erase(broker.out, id)] /\ net' = net
    BY <1>4 DEF BrokerCompletes
<1>6. BrokerType(broker)
    BY DEF TypeInv
<1>7. IsFiniteSet(DOMAIN broker.out) /\ broker.next \in Nat /\ \A i \in DOMAIN broker.out : broker.out[i] \in Held
    BY <1>6 DEF BrokerType
<1>8. PICK f : f = Erase(broker.out, id)
    OBVIOUS
<1>9. DOMAIN f = DOMAIN broker.out \ {id} /\ \A i \in DOMAIN f : f[i] = broker.out[i]
    BY <1>8 DEF Erase, Restrict
<1>10. IsFiniteSet(DOMAIN f) /\ \A i \in DOMAIN f : f[i] \in Held
    <2>1. IsFiniteSet(DOMAIN broker.out \ {id})
        BY <1>7, FS_RemoveElement
    <2> QED
        BY <1>7, <1>9, <2>1
<1>17. PICK n \in Nat : n = broker.next
    BY <1>7
<1>11. PICK c : c = broker'
    OBVIOUS
<1>12. c = [broker EXCEPT !.out = f, !.next = n]
    BY <1>5, <1>6, <1>8, <1>11, <1>17 DEF BrokerType
<1>13. BrokerType(c) /\ c.in = broker.in
    <2>1. c = [up |-> broker.up, subs |-> broker.subs, in |-> broker.in, out |-> f, next |-> n]
        BY <1>6, <1>12 DEF BrokerType
    <2>2. c.up = broker.up /\ c.subs = broker.subs /\ c.in = broker.in /\ c.out = f /\ c.next = n
        BY <2>1
    <2> QED
        BY <1>6, <1>10, <2>1, <2>2 DEF BrokerType
<1>14. BrokerType(broker') /\ broker'.in = broker.in
    BY <1>11, <1>13
<1>15. BrokerType(broker)'
    BY <1>14 DEF BrokerType
<1> QED
    BY <1>1, <1>3, <1>5, <1>14, <1>15

\* The broker sends a message of its own.
LEMMA PublishesFacts ==
    ASSUME TypeInv, NEW m \in plan.incoming, BrokerPublishes(m)
    PROVE  /\ tx' = tx /\ net' \in Seq(ToClient) /\ Quiet(net, net')
           /\ BrokerType(broker)' /\ broker'.in = broker.in
<1>1. m \in Messages /\ QoSOf[m] \in Qualities
    <2>1. plan \in Plans
        BY DEF TypeInv
    <2>2. plan.incoming \subseteq Messages
        BY <2>1, MqttAssumption
    <2> QED
        BY <2>2, MqttAssumption DEF Qualities
<1>2. BrokerType(broker) /\ net \in Seq(ToClient)
    BY DEF TypeInv
<1>3. /\ IsFiniteSet(DOMAIN broker.out) /\ broker.next \in Nat
      /\ \A i \in DOMAIN broker.out : broker.out[i] \in Held
    BY <1>2 DEF BrokerType
<1>4. PICK k \in Nat : k = broker.next
    BY <1>3
<1>5. PICK p : p = [type |-> "PUBLISH", id |-> k, m |-> m, qos |-> QoSOf[m], dup |-> FALSE]
    OBVIOUS
<1>6. p \in Held /\ p.type = "PUBLISH" /\ p.id = k
    BY <1>1, <1>5 DEF Held
<1>7. p \in ToClient /\ p.type \notin AnswerTypes3
    BY <1>6 DEF ToClient, AnswerTypes3
<1>8. PICK f : f = IF QoSOf[m] > 0 THEN Emplace(broker.out, p.id, p) ELSE broker.out
    OBVIOUS
<1>9. /\ net' = Append(net, p) /\ tx' = tx
      /\ broker' = [broker EXCEPT !.out = f, !.next = k + 1]
    BY <1>4, <1>5, <1>8 DEF BrokerPublishes, Replies
<1>10. IsFiniteSet(DOMAIN f) /\ \A i \in DOMAIN f : f[i] \in Held
    <2>1. CASE QoSOf[m] > 0 /\ k \notin DOMAIN broker.out
        <3>1. f = [x \in DOMAIN broker.out \cup {k} |-> IF x = k THEN p ELSE broker.out[x]]
            BY <1>6, <1>8, <2>1 DEF Emplace
        <3>2. IsFiniteSet(DOMAIN broker.out \cup {k})
            BY <1>3, FS_AddElement
        <3> QED
            BY <1>3, <1>6, <3>1, <3>2
    <2>2. CASE ~(QoSOf[m] > 0 /\ k \notin DOMAIN broker.out)
        <3>1. f = broker.out
            BY <1>6, <1>8, <2>2 DEF Emplace
        <3> QED
            BY <1>3, <3>1
    <2> QED
        BY <2>1, <2>2
<1>19. PICK n \in Nat : n = k + 1
    OBVIOUS
<1>11. PICK c : c = broker'
    OBVIOUS
<1>12. c = [broker EXCEPT !.out = f, !.next = n]
    BY <1>9, <1>11, <1>19
<1>13. BrokerType(c) /\ c.in = broker.in
    <2>1. c = [up |-> broker.up, subs |-> broker.subs, in |-> broker.in, out |-> f, next |-> n]
        BY <1>2, <1>12 DEF BrokerType
    <2>2. c.up = broker.up /\ c.subs = broker.subs /\ c.in = broker.in /\ c.out = f /\ c.next = n
        BY <2>1
    <2> QED
        BY <1>2, <1>10, <2>1, <2>2 DEF BrokerType
<1>14. BrokerType(broker') /\ broker'.in = broker.in
    BY <1>11, <1>13
<1>15. BrokerType(broker)'
    BY <1>14 DEF BrokerType
<1>16. /\ net' \in Seq(ToClient) /\ Len(net') = Len(net) + 1 /\ Len(net) \in Nat
       /\ net'[Len(net) + 1] = p /\ \A i \in 1..Len(net) : net'[i] = net[i]
    BY <1>2, <1>7, <1>9
<1>17. \A i \in 1..(Len(net) + 1) : i > Len(net) => i = Len(net) + 1
    BY <1>16
<1>18. Quiet(net, net')
    BY <1>7, <1>16, <1>17 DEF Quiet
<1> QED
    BY <1>9, <1>14, <1>15, <1>16, <1>18

\* The broker.
LEMMA BrokerTypes ==
    ASSUME TypeInv, Broker
    PROVE  TypeInv'
<1>1. CASE BrokerCloses
    BY <1>1, ClosedTypes DEF BrokerCloses
<1>2. ASSUME net' \in Seq(ToClient), BrokerType(broker)', tx' = tx \/ (tx # <<>> /\ tx' = Tail(tx)),
             delivered' \in Seq(Messages),
             UNCHANGED <<plan, calls, clientVars, inbox, sock, app, accepted>>
      PROVE  TypeInv'
    <2>1. tx' \in Seq(ToBroker) /\ Len(tx') <= TxSize
        BY <1>2, TxTail DEF TypeInv
    <2>2. QueueType(in_progress)' /\ SubType(sub)'
        BY <1>2 DEF TypeInv, clientVars, QueueType, SubType
    <2> QED
        BY <1>2, <2>1, <2>2 DEF TypeInv, clientVars
<1>3. delivered \in Seq(Messages)
    BY DEF TypeInv
<1>4. CASE BrokerAccepts
    <2>1. delivered' = delivered /\ UNCHANGED <<plan, calls, clientVars, inbox, sock, app, accepted>>
        BY <1>4 DEF BrokerAccepts
    <2> QED
        BY <1>2, <1>3, <1>4, <2>1, AcceptsFacts
<1>5. CASE BrokerTakes
    <2>1. UNCHANGED <<plan, calls, clientVars, inbox, sock, app, accepted>>
        BY <1>5 DEF BrokerTakes, BrokerFrame, historyVars
    <2>2. PICK p : p = tx[1]
        OBVIOUS
    <2>3. /\ tx # <<>> /\ tx' = Tail(tx) /\ p \in Publishes /\ net' \in Seq(ToClient) /\ BrokerType(broker)'
          /\ delivered' = IF p.qos = 2 /\ p.id \in DOMAIN broker.in THEN delivered ELSE Append(delivered, p.m)
        BY <1>5, <2>2, TakesFacts
    <2>4. p.m \in Messages
        BY <2>3 DEF Publishes
    <2>5. delivered' \in Seq(Messages)
        BY <1>3, <2>3, <2>4
    <2> QED
        BY <1>2, <2>1, <2>3, <2>5
<1>6. CASE BrokerAnswers
    <2>1. delivered' = delivered /\ UNCHANGED <<plan, calls, clientVars, inbox, sock, app, accepted>>
        BY <1>6 DEF BrokerAnswers, BrokerFrame, historyVars
    <2>2. PICK p : p = tx[1]
        OBVIOUS
    <2> QED
        BY <1>2, <1>3, <1>6, <2>1, <2>2, AnswersFacts
<1>7. CASE BrokerCompletes
    <2>1. delivered' = delivered /\ UNCHANGED <<plan, calls, clientVars, inbox, sock, app, accepted>>
        BY <1>7 DEF BrokerCompletes, BrokerFrame, historyVars
    <2>2. net' \in Seq(ToClient)
        BY <1>7, CompletesFacts DEF TypeInv
    <2> QED
        BY <1>2, <1>3, <1>7, <2>1, <2>2, CompletesFacts
<1>8. CASE \E m \in plan.incoming : BrokerPublishes(m)
    <2>1. PICK m \in plan.incoming : BrokerPublishes(m)
        BY <1>8
    <2>2. delivered' = delivered /\ UNCHANGED <<plan, calls, clientVars, inbox, sock, app, accepted>>
        BY <2>1 DEF BrokerPublishes, BrokerFrame, historyVars
    <2> QED
        BY <1>2, <1>3, <2>1, <2>2, PublishesFacts
<1> QED
    BY <1>1, <1>4, <1>5, <1>6, <1>7, <1>8 DEF Broker

LEMMA TypeStep ==
    ASSUME TypeInv, [Next]_vars
    PROVE  TypeInv'
<1>1. CASE Next
    BY <1>1, ApplicationTypes, ClientTypes, FirstTickTypes, RunTickTypes, SocketTypes, BrokerTypes DEF Next
<1>2. CASE UNCHANGED vars
    BY <1>2 DEF vars, clientVars, timerVars, socketVars, brokerVars, historyVars, TypeInv, QueueType, SubType, BrokerType
<1> QED
    BY <1>1, <1>2

LEMMA TypeInit ==
    ASSUME Init
    PROVE  TypeInv
<1>1. plan \in Plans /\ calls \in Seq(AppCalls)
    BY MqttAssumption DEF Init
<1>2. QueueType(in_progress)
    <2>1. in_progress = <<>>
        BY DEF Init
    <2>2. in_progress \in Seq(Outgoing) /\ Len(in_progress) = 0
        BY <2>1
    <2> QED
        BY <2>2, MqttAssumption DEF QueueType
<1>3. SubType(sub)
    <2>1. PICK s : s = NoSubscriptions
        OBVIOUS
    <2>2. s = [subscribing |-> <<>>, unsubscribing |-> <<>>, active |-> <<>>, receiving |-> <<>>]
        BY <2>1 DEF NoSubscriptions
    <2>3. s.subscribing = <<>> /\ s.unsubscribing = <<>> /\ s.active = <<>> /\ s.receiving = <<>>
        BY <2>2
    <2>4. DOMAIN s.active = {} /\ DOMAIN s.receiving = {}
        BY <2>3
    <2>5. IsFiniteSet({})
        BY FS_EmptySet
    <2>6. SubType(s)
        BY <2>2, <2>3, <2>4, <2>5 DEF SubType
    <2> QED
        BY <2>1, <2>6 DEF Init
<1>4. BrokerType(broker)
    <2>1. PICK f : f = FreshSession
        OBVIOUS
    <2>2. f = [up |-> FALSE, subs |-> {}, in |-> <<>>, out |-> <<>>, next |-> 1]
        BY <2>1 DEF FreshSession
    <2>3. f.up = FALSE /\ f.subs = {} /\ f.in = <<>> /\ f.out = <<>> /\ f.next = 1
        BY <2>2
    <2>4. DOMAIN f.in = {} /\ DOMAIN f.out = {}
        BY <2>3
    <2>5. IsFiniteSet({})
        BY FS_EmptySet
    <2>6. BrokerType(f)
        BY <2>2, <2>3, <2>4, <2>5 DEF BrokerType
    <2> QED
        BY <2>1, <2>6 DEF Init
<1>5. /\ state \in States /\ packet_id \in 0..(IdRange - 1) /\ sock \in {"none", "connecting", "up", "stopping"}
    BY MqttAssumption DEF Init, States
<1>6. /\ inbox \in Seq(Events) /\ tx \in Seq(ToBroker) /\ net \in Seq(ToClient) /\ app \in Seq(Offers)
      /\ delivered \in Seq(Messages) /\ accepted \in Seq(Messages)
    BY DEF Init
<1>7. Len(tx) <= TxSize
    <2>1. Len(tx) = 0
        BY DEF Init
    <2> QED
        BY <2>1, MqttAssumption
<1> QED
    BY <1>1, <1>2, <1>3, <1>4, <1>5, <1>6, <1>7 DEF TypeInv

-----------------------------------------------------------------------------
(* What a step does to the publications.  The invariants below are about   *)
(* the queue, the send buffer, the answers on their way, and what the      *)
(* broker knows; every step of the client is one of eight effects on them. *)

\* The identifiers of the answers on their way to Publication.
Answered ==
    {x \in Nat : \/ \E i \in 1..Len(net) : net[i].type \in AnswerTypes3 /\ net[i].id = x
                 \/ \E i \in 1..Len(inbox) :
                        IsData(inbox[i]) /\ inbox[i].p.type \in AnswerTypes3 /\ inbox[i].p.id = x}

\* The identifiers of the messages of quality 2 that the broker has taken.
TakenIds == DOMAIN broker.in

NetLess(s, t) == \A i \in 1..Len(t) : t[i].type \in AnswerTypes3 => \E j \in 1..Len(s) : s[j] = t[i]
InboxLess(s, t) == \A i \in 1..Len(t) : IsData(t[i]) => \E j \in 1..Len(s) : s[j] = t[i]

LEMMA FewerAnswers ==
    ASSUME NetLess(net, net'), InboxLess(inbox, inbox')
    PROVE  Answered' \subseteq Answered
<1>1. ASSUME NEW x \in Answered' PROVE x \in Answered
    <2>1. CASE \E i \in 1..Len(net') : net'[i].type \in AnswerTypes3 /\ net'[i].id = x
        BY <1>1, <2>1 DEF Answered, NetLess
    <2>2. CASE \E i \in 1..Len(inbox') :
                   IsData(inbox'[i]) /\ inbox'[i].p.type \in AnswerTypes3 /\ inbox'[i].p.id = x
        BY <1>1, <2>2 DEF Answered, InboxLess
    <2> QED
        BY <1>1, <2>1, <2>2 DEF Answered, IsData
<1> QED
    BY <1>1

LEMMA NetLessFacts ==
    ASSUME NEW s \in Seq(ToClient)
    PROVE  NetLess(s, s) /\ NetLess(s, <<>>)
<1>1. Len(<<>>) = 0
    OBVIOUS
<1> QED
    BY <1>1 DEF NetLess

LEMMA QuietLess ==
    ASSUME NEW s \in Seq(ToClient), NEW t \in Seq(ToClient), Quiet(s, t)
    PROVE  NetLess(s, t)
<1>1. ASSUME NEW i \in 1..Len(t), t[i].type \in AnswerTypes3 PROVE \E j \in 1..Len(s) : s[j] = t[i]
    <2>1. ~(i > Len(s))
        BY <1>1 DEF Quiet
    <2>2. i \in 1..Len(s)
        BY <2>1
    <2> QED
        BY <2>2 DEF Quiet
<1> QED
    BY <1>1 DEF NetLess

LEMMA InboxLessFacts ==
    ASSUME NEW s \in Seq(Events), NEW e \in Events, ~IsData(e)
    PROVE  /\ InboxLess(s, s) /\ InboxLess(s, Append(s, e))
           /\ s # <<>> => InboxLess(s, Tail(s)) /\ InboxLess(s, Tail(s) \o <<e>>) /\ InboxLess(s, Tail(s) \o <<>>)
<1>1. InboxLess(s, s)
    BY DEF InboxLess
<1>2. ASSUME NEW u \in Seq(Events), InboxLess(s, u) PROVE InboxLess(s, Append(u, e))
    <2>1. /\ Len(Append(u, e)) = Len(u) + 1 /\ Len(u) \in Nat /\ Append(u, e)[Len(u) + 1] = e
          /\ \A i \in 1..Len(u) : Append(u, e)[i] = u[i]
        OBVIOUS
    <2>2. ASSUME NEW i \in 1..(Len(u) + 1), IsData(Append(u, e)[i])
          PROVE  \E j \in 1..Len(s) : s[j] = Append(u, e)[i]
        <3>1. i # Len(u) + 1
            BY <2>1, <2>2
        <3>2. i \in 1..Len(u)
            BY <2>1, <3>1
        <3> QED
            BY <1>2, <2>1, <2>2, <3>2 DEF InboxLess
    <2> QED
        BY <2>1, <2>2 DEF InboxLess
<1>3. ASSUME s # <<>>
      PROVE  InboxLess(s, Tail(s)) /\ InboxLess(s, Tail(s) \o <<e>>) /\ InboxLess(s, Tail(s) \o <<>>)
    <2>1. /\ Tail(s) \in Seq(Events) /\ Len(Tail(s)) = Len(s) - 1 /\ Len(s) \in Nat
          /\ \A i \in 1..(Len(s) - 1) : Tail(s)[i] = s[i + 1]
        BY <1>3, TailFacts
    <2>2. \A i \in 1..(Len(s) - 1) : i + 1 \in 1..Len(s)
        BY <2>1
    <2>3. InboxLess(s, Tail(s))
        BY <2>1, <2>2 DEF InboxLess
    <2>4. Tail(s) \o <<e>> = Append(Tail(s), e) /\ Tail(s) \o <<>> = Tail(s)
        BY <2>1
    <2> QED
        BY <1>2, <2>1, <2>3, <2>4
<1> QED
    BY <1>1, <1>2, <1>3

LEMMA KeptLess ==
    ASSUME NEW s \in Seq(Events), s # <<>>, NEW K, K \subseteq 1..Len(Tail(s)), NEW t \in Kept(Tail(s), K)
    PROVE  InboxLess(s, t)
<1>1. PICK r \in Seq(Events) : r = Tail(s)
    BY TailFacts
<1>2. /\ Len(r) = Len(s) - 1 /\ Len(s) \in Nat
      /\ \A i \in 1..(Len(s) - 1) : r[i] = s[i + 1]
    BY <1>1, TailFacts
<1>3. K \subseteq 1..Len(r) /\ t \in Kept(r, K)
    BY <1>1
<1>4. \A i \in 1..Len(t) : \E j \in K : t[i] = r[j]
    <2>1. PICK f \in Walks(K) : t = [i \in 1..Cardinality(K) |-> r[f[i]]]
        BY <1>3 DEF Kept
    <2>2. IsFiniteSet(K)
        <3>1. IsFiniteSet(1..Len(r))
            BY FS_Interval
        <3> QED
            BY <1>3, <3>1, FS_Subset
    <2>3. Cardinality(K) \in Nat
        BY <2>2, FS_CardinalityType
    <2>4. f \in [1..Cardinality(K) -> K]
        BY <2>1 DEF Walks
    <2>5. Len(t) = Cardinality(K)
        BY <2>1, <2>3
    <2> QED
        BY <2>1, <2>4, <2>5
<1>5. \A j \in K : j + 1 \in 1..Len(s) /\ r[j] = s[j + 1]
    BY <1>2, <1>3
<1> QED
    BY <1>4, <1>5 DEF InboxLess

-----------------------------------------------------------------------------
(* The effects.                                                            *)

\* The identifiers only grow, until they begin anew.
Moves == ~wrapped' => ~wrapped /\ packet_id <= packet_id'

SameWait(q, r) == r = q \/ \E f : Changed(q, f, r) /\ f.wait = q[1].wait

\* Nothing of a publication changes but its stop watch.
Idles ==
    /\ SameWait(in_progress, in_progress')
    /\ \/ Extends(tx, tx') \/ tx' = <<>>
       \/ tx # <<>> /\ ~OfPublication(tx[1]) /\ tx' = Tail(tx)
    /\ Answered' \subseteq Answered
    /\ TakenIds' \subseteq TakenIds /\ (~plan.clean => TakenIds' = TakenIds)
    /\ plan' = plan /\ delivered' = delivered /\ accepted' = accepted /\ dropped' = dropped
    /\ Moves

\* A step of the client that leaves the broker and the application alone.
AtClient ==
    /\ Answered' \subseteq Answered
    /\ broker' = broker /\ plan' = plan /\ delivered' = delivered /\ accepted' = accepted
    /\ packet_id' = packet_id /\ wrapped' = wrapped

\* A message is accepted; one that is to be answered gets the next identifier.
Adds ==
    \E p \in Publishes :
        /\ p.qos = QoSOf[p.m]
        /\ Len(in_progress') = Len(in_progress) + 1
        /\ \A j \in 1..Len(in_progress) : in_progress'[j] = in_progress[j]
        /\ in_progress'[Len(in_progress) + 1].packet = p
        /\ in_progress'[Len(in_progress) + 1].wait = Reserved
        /\ p.qos > 0 /\ ~wrapped' => p.id = packet_id + 1 /\ packet_id' = p.id
        /\ Moves
        /\ accepted' = Append(accepted, p.m)
        /\ tx' = tx /\ Answered' = Answered /\ broker' = broker
        /\ plan' = plan /\ delivered' = delivered /\ dropped' = dropped

\* The first message is done with: answered, or dropped for a new session.
Pops ==
    /\ in_progress # <<>> /\ in_progress' = Tail(in_progress) /\ tx' = tx
    /\ \/ plan.clean /\ dropped' = dropped \cup {in_progress[1].packet.m}
       \/ in_progress[1].packet.id \in Answered /\ dropped' = dropped
    /\ AtClient

\* The first message is to be sent again to a session that is kept.
Repeats ==
    /\ ~plan.clean /\ in_progress # <<>> /\ in_progress[1].wait # "PUBCOMP"
    /\ \E f : Changed(in_progress, f, in_progress') /\ f.wait = Reserved
    /\ tx' = tx /\ dropped' = dropped /\ AtClient

\* A PUBREL is sent.
Releases ==
    /\ in_progress # <<>>
    /\ \/ in_progress[1].wait = "PUBCOMP" /\ in_progress' = in_progress
       \/ /\ in_progress[1].wait = "PUBREC" /\ in_progress[1].packet.id \in Answered
          /\ \E f : Changed(in_progress, f, in_progress') /\ f.wait = "PUBCOMP"
    /\ tx' = Append(tx, Packet("PUBREL", in_progress[1].packet.id))
    /\ dropped' = dropped /\ AtClient

\* The first message is sent.
Sends ==
    /\ in_progress # <<>> /\ in_progress[1].wait = Reserved
    /\ \/ in_progress[1].packet.qos = 0 /\ in_progress' = Tail(in_progress)
       \/ /\ in_progress[1].packet.qos > 0
          /\ \E f : Changed(in_progress, f, in_progress') /\ f.wait \in {"PUBACK", "PUBREC"}
    /\ Extends(Append(tx, in_progress[1].packet), tx')
    /\ dropped' = dropped /\ AtClient

\* The broker takes a message, and may hand it on.
Delivers ==
    \E p \in Publishes :
        /\ tx # <<>> /\ p = tx[1] /\ tx' = Tail(tx)
        /\ Answered' \subseteq Answered \cup (IF p.qos > 0 THEN {p.id} ELSE {})
        /\ TakenIds' = IF p.qos = 2 THEN TakenIds \cup {p.id} ELSE TakenIds
        /\ delivered' = IF p.qos = 2 /\ p.id \in TakenIds THEN delivered ELSE Append(delivered, p.m)
        /\ UNCHANGED <<plan, in_progress, accepted, dropped, packet_id, wrapped>>

\* The broker forgets the identifier of a message.
Ends ==
    /\ tx # <<>> /\ tx[1].type = "PUBREL" /\ tx[1].id \in Nat /\ tx' = Tail(tx)
    /\ Answered' \subseteq Answered \cup {tx[1].id}
    /\ TakenIds' = TakenIds \ {tx[1].id}
    /\ UNCHANGED <<plan, in_progress, delivered, accepted, dropped, packet_id, wrapped>>

Effect == Idles \/ Adds \/ Pops \/ Repeats \/ Releases \/ Sends \/ Delivers \/ Ends

LEMMA MovesFacts ==
    ASSUME TypeInv
    PROVE  /\ UNCHANGED <<packet_id, wrapped>> => Moves
           /\ TypeInv' /\ wrapped' = (wrapped \/ packet_id' < packet_id) => Moves
<1>1. packet_id \in Nat /\ packet_id <= packet_id
    BY MqttAssumption DEF TypeInv
<1>2. ASSUME UNCHANGED <<packet_id, wrapped>> PROVE Moves
    BY <1>1, <1>2 DEF Moves
<1>3. ASSUME TypeInv', wrapped' = (wrapped \/ packet_id' < packet_id) PROVE Moves
    <2>1. packet_id' \in Nat
        BY <1>3, MqttAssumption DEF TypeInv
    <2>2. ~(packet_id' < packet_id) => packet_id <= packet_id'
        BY <1>1, <2>1
    <2>3. ASSUME ~wrapped' PROVE ~wrapped /\ ~(packet_id' < packet_id)
        BY <1>3, <2>3
    <2> QED
        BY <2>2, <2>3 DEF Moves
<1> QED
    BY <1>2, <1>3

LEMMA IdleEffect ==
    ASSUME NetLess(net, net'), InboxLess(inbox, inbox'),
           SameWait(in_progress, in_progress'),
           \/ Extends(tx, tx') \/ tx' = <<>>
           \/ tx # <<>> /\ ~OfPublication(tx[1]) /\ tx' = Tail(tx),
           DOMAIN broker'.in \subseteq DOMAIN broker.in, ~plan.clean => DOMAIN broker'.in = DOMAIN broker.in,
           plan' = plan, delivered' = delivered, accepted' = accepted, dropped' = dropped,
           Moves
    PROVE  Effect
<1>1. Answered' \subseteq Answered
    BY FewerAnswers
<1> QED
    BY <1>1 DEF Effect, Idles, TakenIds

\* The usual case of it.
LEMMA StillEffect ==
    ASSUME TypeInv, net' = net \/ net' = <<>>, InboxLess(inbox, inbox'), tx' = tx \/ Extends(tx, tx') \/ tx' = <<>>,
           UNCHANGED <<plan, in_progress, delivered, accepted, dropped>>, broker'.in = broker.in, Moves
    PROVE  Effect
<1>1. NetLess(net, net')
    BY NetLessFacts DEF TypeInv
<1>2. Extends(tx, tx') \/ tx' = <<>>
    BY ExtendsSelf DEF TypeInv
<1>3. SameWait(in_progress, in_progress')
    BY DEF SameWait
<1>4. DOMAIN broker'.in = DOMAIN broker.in
    OBVIOUS
<1> QED
    BY <1>1, <1>2, <1>3, <1>4, IdleEffect

LEMMA ApplicationEffect ==
    ASSUME TypeInv, TypeInv', Application
    PROVE  Effect
<1>0. /\ inbox \in Seq(Events) /\ InboxLess(inbox, inbox)
      /\ \A e \in {"CONNECT", "DISCONNECT"} : InboxLess(inbox, Append(inbox, Event(e)))
    <2>1. inbox \in Seq(Events)
        BY DEF TypeInv
    <2>2. ASSUME NEW e \in {"CONNECT", "DISCONNECT"}
          PROVE  InboxLess(inbox, inbox) /\ InboxLess(inbox, Append(inbox, Event(e)))
        BY <2>1, EventTypes, InboxLessFacts
    <2> QED
        BY <2>1, <2>2
<1>1. CASE ConnectTo \/ Disconnect
    <2>1. InboxLess(inbox, inbox')
        BY <1>0, <1>1 DEF ConnectTo, Disconnect, Post
    <2>2. /\ UNCHANGED <<plan, in_progress, delivered, accepted, dropped, packet_id, wrapped, net, tx, broker>>
        BY <1>1 DEF ConnectTo, Disconnect, clientVars, socketVars, brokerVars, historyVars
    <2>3. Moves
        BY <2>2, MovesFacts
    <2> QED
        BY <2>1, <2>2, <2>3, StillEffect
<1>2. CASE Subscribe \/ UnsubscribeFrom
    <2>1. UNCHANGED <<plan, in_progress, inbox, delivered, accepted, dropped, net, tx, broker>>
        BY <1>2 DEF Subscribe, UnsubscribeFrom, socketVars, brokerVars
    <2>2. wrapped' = (wrapped \/ packet_id' < packet_id)
        BY <1>2 DEF Subscribe, UnsubscribeFrom, Identify
    <2>3. Moves
        BY <2>2, MovesFacts
    <2>4. InboxLess(inbox, inbox')
        BY <1>0, <2>1
    <2> QED
        BY <2>1, <2>3, <2>4, StillEffect
<1>3. CASE Publish
    <2>1. PICK m : m = Head(calls).m
        OBVIOUS
    <2>2. calls # <<>> /\ Head(calls).op = "publish"
        BY <1>3 DEF Publish, Calls
    <2>3. m \in Messages
        BY <2>1, <2>2, CallType
    <2>4. QoSOf[m] \in 0..2
        BY <2>3, MqttAssumption
    <2>5. PICK id : id = IF QoSOf[m] > 0 THEN NextId(packet_id) ELSE 0
        OBVIOUS
    <2>6. id \in Nat
        BY <2>5, NextIdType
    <2>7. PICK p : p = [type |-> "PUBLISH", id |-> id, m |-> m, qos |-> QoSOf[m], dup |-> FALSE]
        OBVIOUS
    <2>8. p \in Publishes /\ p.qos = QoSOf[m] /\ p.m = m /\ p.id = id
        BY <2>3, <2>4, <2>6, <2>7 DEF Publishes, Qualities
    <2>9. UNCHANGED <<plan, inbox, delivered, dropped, net, tx, broker>>
        BY <1>3 DEF Publish, socketVars, brokerVars
    <2>10. CASE Accepts(in_progress)
        <3>1. /\ in_progress' = PubPublish(in_progress, p)
              /\ packet_id' = (IF QoSOf[m] > 0 THEN id ELSE packet_id)
              /\ wrapped' = (wrapped \/ packet_id' < packet_id)
              /\ accepted' = Append(accepted, m)
            BY <1>3, <2>1, <2>5, <2>7, <2>10 DEF Publish, Identify
        <3>2. PICK r : r = in_progress'
            OBVIOUS
        <3>3. QueueType(in_progress) /\ p.qos = QoSOf[p.m] /\ r = PubPublish(in_progress, p)
            BY <2>8, <3>1, <3>2 DEF TypeInv
        <3>4. /\ Len(r) = Len(in_progress) + 1
              /\ r[Len(in_progress) + 1].packet = p /\ r[Len(in_progress) + 1].wait = Reserved
              /\ \A j \in 1..Len(in_progress) : r[j] = in_progress[j]
            BY <2>8, <2>10, <3>3, PublishFacts
        <3>5. Moves
            BY <3>1, MovesFacts
        <3>6. ASSUME p.qos > 0, ~wrapped' PROVE p.id = packet_id + 1 /\ packet_id' = p.id
            <4>1. packet_id' = id /\ id = NextId(packet_id) /\ p.id = id
                BY <2>5, <2>8, <3>1, <3>6
            <4>2. packet_id <= packet_id'
                BY <3>5, <3>6 DEF Moves
            <4>3. packet_id \in 0..(IdRange - 1) /\ IdRange \in Nat /\ IdRange > 1
                BY MqttAssumption DEF TypeInv
            <4>4. CASE packet_id + 1 < IdRange
                <5>1. (packet_id + 1) % IdRange = packet_id + 1
                    BY <4>3, <4>4
                <5> QED
                    BY <4>1, <5>1 DEF NextId
            <4>5. CASE packet_id + 1 = IdRange
                <5>1. IdRange % IdRange = 0
                    BY <4>3
                <5>2. packet_id' = 0
                    BY <4>1, <4>5, <5>1 DEF NextId
                <5> QED
                    BY <4>2, <4>3, <4>5, <5>2
            <4> QED
                BY <4>3, <4>4, <4>5
        <3>7. accepted' = Append(accepted, p.m)
            BY <2>8, <3>1
        <3>8. Answered' = Answered
            BY <2>9 DEF Answered
        <3> QED
            BY <2>8, <2>9, <3>2, <3>3, <3>4, <3>5, <3>6, <3>7, <3>8 DEF Effect, Adds
    <2>11. CASE ~Accepts(in_progress)
        <3>1. UNCHANGED <<in_progress, packet_id, wrapped, accepted>>
            BY <1>3, <2>11 DEF Publish
        <3>2. InboxLess(inbox, inbox')
            BY <1>0, <2>9
        <3> QED
            BY <2>9, <3>1, <3>2, StillEffect, MovesFacts
    <2> QED
        BY <2>10, <2>11
<1> QED
    BY <1>1, <1>2, <1>3 DEF Application

\* An answer that the client takes was on its way.
LEMMA TakenAnswer ==
    ASSUME TypeInv, inbox # <<>>, Head(inbox).ev = "data", NEW p, p = Head(inbox).p, p.type \in AnswerTypes3
    PROVE  p.id \in Answered
<1>1. Len(inbox) \in Nat /\ Len(inbox) >= 1 /\ Head(inbox) = inbox[1]
    BY TailFacts DEF TypeInv
<1>2. p.id \in Nat
    BY TakenType, ToClientFields DEF AnswerTypes3
<1>3. 1 \in 1..Len(inbox) /\ IsData(inbox[1]) /\ inbox[1].p = p
    BY <1>1 DEF IsData
<1> QED
    BY <1>2, <1>3 DEF Answered

LEMMA HeadFacts ==
    ASSUME TypeInv, in_progress # <<>>
    PROVE  /\ in_progress[1] \in Outgoing /\ Apt(in_progress[1]) /\ Head(in_progress) = in_progress[1]
           /\ in_progress[1].packet \in Publishes /\ in_progress[1].packet \in ToBroker
           /\ in_progress[1].packet.id \in Nat
<1>1. in_progress[1] \in Outgoing /\ Apt(in_progress[1]) /\ Head(in_progress) = in_progress[1]
    BY TailType DEF TypeInv
<1>2. in_progress[1].packet \in Publishes
    BY <1>1, FieldTypes
<1>3. in_progress[1].packet \in ToBroker
    BY <1>2 DEF ToBroker
<1> QED
    BY <1>1, <1>2, <1>3 DEF Publishes

LEMMA AnswerEffect ==
    ASSUME TypeInv, HandleAnswer
    PROVE  Effect
<1>1. inbox # <<>> /\ Head(inbox).ev = "data" /\ inbox' = Tail(inbox)
    BY DEF HandleAnswer, Takes
<1>2. PICK p : p = Head(inbox).p
    OBVIOUS
<1>3. PICK rec : rec = PubRecReceived(in_progress, World, p.id)
    OBVIOUS
<1>4. \/ p.type = "PUBACK" /\ in_progress' = PubAckReceived(in_progress, p.id) /\ Becomes(World)
      \/ p.type = "PUBREC" /\ in_progress' = rec.q /\ Becomes(rec.w)
      \/ p.type = "PUBCOMP" /\ in_progress' = PubCompReceived(in_progress, p.id) /\ Becomes(World)
    BY <1>2, <1>3 DEF HandleAnswer
<1>5. p.type \in AnswerTypes3
    BY <1>4 DEF AnswerTypes3
<1>6. p.id \in Answered
    BY <1>1, <1>2, <1>5, TakenAnswer
<1>7. UNCHANGED <<plan, broker, delivered, accepted, dropped, packet_id, wrapped, net>>
    BY DEF HandleAnswer, socketVars, brokerVars, historyVars
<1>8. InboxLess(inbox, inbox')
    BY <1>1, InboxLessFacts, EventTypes DEF TypeInv
<1>9. NetLess(net, net')
    BY <1>7, NetLessFacts DEF TypeInv
<1>10. AtClient
    BY <1>7, <1>8, <1>9, FewerAnswers DEF AtClient
<1>11. WorldType(World) /\ World.tx = tx /\ QueueType(in_progress)
    BY WorldHasType DEF TypeInv
<1>12. CASE in_progress' = in_progress /\ tx' = tx
    BY <1>7, <1>8, <1>12, StillEffect, MovesFacts
<1>13. CASE p.type # "PUBREC"
    <2>1. tx' = tx
        BY <1>4, <1>11, <1>13 DEF Becomes
    <2>2. PICK r : r = in_progress'
        OBVIOUS
    <2>3. r \in {PubAckReceived(in_progress, p.id), PubCompReceived(in_progress, p.id)}
        BY <1>4, <1>13, <2>2
    <2>4. r = in_progress \/ (in_progress # <<>> /\ in_progress[1].packet.id = p.id /\ r = Tail(in_progress))
        <3>1. in_progress # <<>> => Head(in_progress) = in_progress[1]
            BY <1>11, TailType
        <3> QED
            BY <2>3, <3>1 DEF PubAckReceived, PubCompReceived, Answers
    <2>5. CASE r = in_progress
        BY <1>12, <2>1, <2>2, <2>5
    <2>6. CASE in_progress # <<>> /\ in_progress[1].packet.id = p.id /\ r = Tail(in_progress)
        BY <1>6, <1>7, <1>10, <2>1, <2>2, <2>6 DEF Effect, Pops
    <2> QED
        BY <2>4, <2>5, <2>6
<1>14. CASE p.type = "PUBREC"
    <2>1. in_progress' = rec.q /\ tx' = rec.w.tx
        BY <1>4, <1>14 DEF Becomes
    <2>2. CASE rec.q = in_progress /\ rec.w = World
        BY <1>11, <1>12, <2>1, <2>2
    <2>3. CASE /\ in_progress # <<>> /\ in_progress[1].packet.id = p.id /\ in_progress[1].wait = "PUBREC"
               /\ \E f : /\ Changed(in_progress, f, rec.q)
                         /\ f.wait = IF HasRoom(World) THEN "PUBCOMP" ELSE "PUBREC"
               /\ rec.w = Send(World, Packet("PUBREL", p.id))
        <3>1. p.id \in Nat
            BY <1>6 DEF Answered
        <3>2. Packet("PUBREL", p.id) \in ToBroker
            BY <3>1, RelSent
        <3>3. PICK w : w = Send(World, Packet("PUBREL", p.id))
            OBVIOUS
        <3>4. /\ HasRoom(World) => w.tx = Append(World.tx, Packet("PUBREL", p.id))
              /\ ~HasRoom(World) => w = World
            BY <1>11, <3>2, <3>3, SendFacts
        <3>5. CASE HasRoom(World)
            <4>1. \E f : Changed(in_progress, f, in_progress') /\ f.wait = "PUBCOMP"
                BY <2>1, <2>3, <3>5
            <4>2. tx' = Append(tx, Packet("PUBREL", in_progress[1].packet.id))
                BY <1>11, <2>1, <2>3, <3>3, <3>4, <3>5
            <4> QED
                BY <1>6, <1>7, <1>10, <2>3, <4>1, <4>2 DEF Effect, Releases
        <3>6. CASE ~HasRoom(World)
            <4>1. SameWait(in_progress, in_progress')
                BY <2>1, <2>3, <3>6 DEF SameWait
            <4>2. tx' = tx
                BY <1>11, <2>1, <2>3, <3>3, <3>4, <3>6
            <4>3. Extends(tx, tx')
                BY <4>2, ExtendsSelf DEF TypeInv
            <4> QED
                BY <1>7, <1>8, <1>9, <4>1, <4>3, IdleEffect, MovesFacts
        <3> QED
            BY <3>5, <3>6
    <2> QED
        BY <1>3, <1>11, <2>2, <2>3, RecFacts
<1> QED
    BY <1>13, <1>14

LEMMA IncomingEffect ==
    ASSUME TypeInv, HandleIncoming
    PROVE  Effect
<1>1. inbox # <<>> /\ Head(inbox).ev = "data" /\ inbox' = Tail(inbox)
    BY DEF HandleIncoming, Takes
<1>2. Head(inbox).p \in ToClient
    BY <1>1, TakenType
<1>3. PICK p : p = Head(inbox).p
    OBVIOUS
<1>0. PICK taken \in BOOLEAN :
        LET q == Head(inbox).p
            a == PublishReceived(sub, World, q, taken)
            b == PubRelReceived(sub, World, q.id, taken)
        IN  \/ q.type = "SUBACK" /\ sub' = SubAckReceived(sub, q.id) /\ Becomes(World)
            \/ q.type = "UNSUBACK" /\ sub' = UnsubAckReceived(sub, q.id) /\ Becomes(World)
            \/ q.type = "PUBLISH" /\ sub' = a.s /\ Becomes(a.w)
            \/ q.type = "PUBREL" /\ sub' = b.s /\ Becomes(b.w)
    BY DEF HandleIncoming
<1>4. PICK pub : pub = PublishReceived(sub, World, p, taken)
    OBVIOUS
<1>5. PICK rel : rel = PubRelReceived(sub, World, p.id, taken)
    OBVIOUS
<1>6. \/ Becomes(World)
      \/ p.type = "PUBLISH" /\ Becomes(pub.w)
      \/ p.type = "PUBREL" /\ Becomes(rel.w)
    BY <1>0, <1>3, <1>4, <1>5
<1>7. WorldType(World) /\ World.tx = tx /\ SubType(sub)
    BY WorldHasType DEF TypeInv
<1>8. p.type = "PUBLISH" => Extends(World.tx, pub.w.tx)
    BY <1>0, <1>2, <1>3, <1>4, <1>7, ToClientFields, PublishReceivedFacts
<1>9. p.type = "PUBREL" => Extends(World.tx, rel.w.tx)
    BY <1>0, <1>2, <1>3, <1>5, <1>7, ToClientFields, PubRelFacts
<1>10. tx' = tx \/ Extends(tx, tx')
    BY <1>6, <1>7, <1>8, <1>9 DEF Becomes
<1>11. UNCHANGED <<plan, in_progress, broker, delivered, accepted, dropped, packet_id, wrapped, net>>
    BY DEF HandleIncoming, socketVars, brokerVars, historyVars
<1>12. InboxLess(inbox, inbox')
    BY <1>1, InboxLessFacts, EventTypes DEF TypeInv
<1> QED
    BY <1>10, <1>11, <1>12, StillEffect, MovesFacts

LEMMA ClientEffect ==
    ASSUME TypeInv, TypeInv', Client
    PROVE  Effect
<1>0. /\ inbox \in Seq(Events) /\ Event("CONNECT") \in Events /\ ~IsData(Event("CONNECT"))
    BY EventTypes DEF TypeInv
<1>1. /\ inbox # <<>> /\ inbox' = Tail(inbox) => InboxLess(inbox, inbox')
    BY <1>0, InboxLessFacts
<1>2. CASE HandleUp
    <2>1. PICK p : p = [type |-> "CONNECT", clean |-> plan.clean]
        OBVIOUS
    <2>2. p \in ToBroker /\ ~OfPublication(p)
        BY <2>1, ConnectPacketType
    <2>3. PICK w : w = Send(World, p)
        OBVIOUS
    <2>4. Extends(tx, w.tx)
        BY <2>2, <2>3, WorldHasType, SendFacts
    <2>5. tx' = tx \/ tx' = w.tx
        BY <1>2, <2>1, <2>3 DEF HandleUp
    <2>6. tx' = tx \/ Extends(tx, tx')
        BY <2>4, <2>5
    <2>7. UNCHANGED <<plan, in_progress, broker, delivered, accepted, dropped, packet_id, wrapped, net>>
        BY <1>2 DEF HandleUp, socketVars, brokerVars, historyVars
    <2>8. InboxLess(inbox, inbox')
        BY <1>1, <1>2 DEF HandleUp, Takes
    <2> QED
        BY <2>6, <2>7, <2>8, StillEffect, MovesFacts
<1>3. ASSUME HandleDown \/ HandleConnAck, EnterIdle
      PROVE  Effect
    <2>1. /\ wrapped' = (wrapped \/ packet_id' < packet_id)
          /\ \/ in_progress' = in_progress
             \/ \E f : Changed(in_progress, f, in_progress') /\ f.wait = in_progress[1].wait
        BY <1>3, IdleFacts
    <2>2. Moves
        BY <2>1, MovesFacts
    <2>3. SameWait(in_progress, in_progress')
        BY <2>1 DEF SameWait
    <2>4. UNCHANGED <<plan, broker, delivered, accepted, dropped, net, tx>>
        BY <1>3 DEF HandleDown, HandleConnAck, socketVars, brokerVars
    <2>5. InboxLess(inbox, inbox')
        BY <1>1, <1>3 DEF HandleDown, HandleConnAck, Takes
    <2>6. NetLess(net, net') /\ Extends(tx, tx')
        BY <2>4, NetLessFacts, ExtendsSelf DEF TypeInv
    <2> QED
        BY <2>2, <2>3, <2>4, <2>5, <2>6, IdleEffect
<1>4. CASE HandleDown \/ HandleConnAck
    <2>1. CASE ~EnterIdle
        <3>1. UNCHANGED <<in_progress, packet_id, wrapped>>
            BY <1>4, <2>1 DEF HandleDown, HandleConnAck
        <3>2. UNCHANGED <<plan, broker, delivered, accepted, dropped, net, tx>>
            BY <1>4 DEF HandleDown, HandleConnAck, socketVars, brokerVars
        <3>3. InboxLess(inbox, inbox')
            BY <1>1, <1>4 DEF HandleDown, HandleConnAck, Takes
        <3> QED
            BY <3>1, <3>2, <3>3, StillEffect, MovesFacts
    <2> QED
        BY <1>3, <1>4, <2>1
<1>5. CASE HandleReconnect \/ HandleGotIp
    <2>1. inbox # <<>> /\ (inbox' = Tail(inbox) \o <<Event("CONNECT")>> \/ inbox' = Tail(inbox) \o <<>>)
        BY <1>5 DEF HandleReconnect, HandleGotIp, Takes
    <2>2. InboxLess(inbox, inbox')
        BY <1>0, <2>1, InboxLessFacts
    <2>3. UNCHANGED <<plan, in_progress, broker, delivered, accepted, dropped, packet_id, wrapped, net, tx>>
        BY <1>5 DEF HandleReconnect, HandleGotIp, clientVars, socketVars, brokerVars, historyVars
    <2> QED
        BY <2>2, <2>3, StillEffect, MovesFacts
<1>6. CASE HandleConnect \/ HandleDisconnect
    <2>1. PICK K : K \subseteq 1..Len(Tail(inbox)) /\ inbox' \in Kept(Tail(inbox), K)
        <3>1. CASE HandleConnect
            BY <3>1 DEF HandleConnect
        <3>2. CASE HandleDisconnect
            BY <3>2 DEF HandleDisconnect
        <3> QED
            BY <1>6, <3>1, <3>2
    <2>2. inbox # <<>>
        BY <1>6 DEF HandleConnect, HandleDisconnect, Takes
    <2>3. InboxLess(inbox, inbox')
        BY <1>0, <2>1, <2>2, KeptLess
    <2>4. UNCHANGED <<plan, in_progress, broker, delivered, accepted, dropped, packet_id, wrapped, net>> /\ tx' = <<>>
        BY <1>6 DEF HandleConnect, HandleDisconnect, clientVars, brokerVars, historyVars
    <2> QED
        BY <2>3, <2>4, StillEffect, MovesFacts
<1>7. CASE IgnoreData
    <2>1. UNCHANGED <<plan, in_progress, broker, delivered, accepted, dropped, packet_id, wrapped, net, tx>>
        BY <1>7 DEF IgnoreData, clientVars, socketVars, brokerVars, historyVars
    <2>2. InboxLess(inbox, inbox')
        BY <1>1, <1>7 DEF IgnoreData, Takes
    <2> QED
        BY <2>1, <2>2, StillEffect, MovesFacts
<1> QED
    BY <1>2, <1>4, <1>5, <1>6, <1>7, AnswerEffect, IncomingEffect DEF Client

LEMMA FirstTickEffect ==
    ASSUME TypeInv, FirstTick
    PROVE  Effect
<1>1. PICK m \in Measured : LET r == PubResend(in_progress, World, plan.clean, m) IN
                /\ in_progress' = r.q /\ Becomes(r.w)
                /\ dropped' = dropped \cup (IF Len(r.q) < Len(in_progress) THEN {Head(in_progress).packet.m} ELSE {})
    BY DEF FirstTick
<1>2. PICK r : r = PubResend(in_progress, World, plan.clean, m)
    OBVIOUS
<1>3. /\ in_progress' = r.q /\ tx' = r.w.tx
      /\ dropped' = dropped \cup (IF Len(r.q) < Len(in_progress) THEN {Head(in_progress).packet.m} ELSE {})
    BY <1>1, <1>2 DEF Becomes
<1>4. WorldType(World) /\ World.tx = tx /\ QueueType(in_progress) /\ plan.clean \in BOOLEAN
    BY WorldHasType, MqttAssumption DEF TypeInv
<1>5. UNCHANGED <<plan, broker, delivered, accepted, packet_id, wrapped, net, inbox>>
    BY DEF FirstTick, socketVars, brokerVars
<1>6. InboxLess(inbox, inbox') /\ NetLess(net, net')
    <2>1. inbox \in Seq(Events) /\ Event("CONNECT") \in Events /\ ~IsData(Event("CONNECT"))
        BY EventTypes DEF TypeInv
    <2>2. InboxLess(inbox, inbox)
        BY <2>1, InboxLessFacts
    <2> QED
        BY <1>5, <2>2, NetLessFacts DEF TypeInv
<1>7. AtClient
    BY <1>5, <1>6, FewerAnswers DEF AtClient
<1>8. Len(in_progress) \in Nat
    BY <1>4 DEF QueueType
<1>9. Len(r.q) = Len(in_progress) => dropped' = dropped
    BY <1>3, <1>8
<1>10. CASE r.q = in_progress /\ r.w = World
    BY <1>3, <1>4, <1>5, <1>6, <1>9, <1>10, StillEffect, MovesFacts
<1>11. CASE plan.clean /\ in_progress # <<>> /\ r.q = Tail(in_progress) /\ r.w = World
    <2>1. Len(r.q) < Len(in_progress)
        <3>1. Len(Tail(in_progress)) = Len(in_progress) - 1
            BY <1>4, <1>11, TailType
        <3> QED
            BY <1>8, <1>11, <3>1
    <2>2. dropped' = dropped \cup {in_progress[1].packet.m}
        BY <1>3, <1>11, <2>1, HeadFacts
    <2> QED
        BY <1>3, <1>4, <1>7, <1>11, <2>2 DEF Effect, Pops
<1>12. CASE /\ ~plan.clean /\ in_progress # <<>> /\ in_progress[1].wait # "PUBCOMP" /\ r.w = World
            /\ \E f : Changed(in_progress, f, r.q) /\ f.wait = Reserved
    <2>1. Len(r.q) = Len(in_progress)
        BY <1>4, <1>12, ChangedFacts
    <2> QED
        BY <1>3, <1>4, <1>7, <1>9, <1>12, <2>1 DEF Effect, Repeats
<1>13. CASE /\ ~plan.clean /\ in_progress # <<>> /\ in_progress[1].wait = "PUBCOMP"
            /\ r.q = in_progress /\ r.w = Send(World, Packet("PUBREL", in_progress[1].packet.id))
    <2>1. PICK p : p = Packet("PUBREL", in_progress[1].packet.id)
        OBVIOUS
    <2>2. p \in ToBroker
        BY <1>13, <2>1, HeadFacts, RelSent
    <2>3. PICK w : w = Send(World, p)
        OBVIOUS
    <2>4. (HasRoom(World) => w.tx = Append(World.tx, p)) /\ (~HasRoom(World) => w = World)
        BY <1>4, <2>2, <2>3, SendFacts
    <2>5. tx' = Append(tx, p) \/ tx' = tx
        BY <1>3, <1>4, <1>13, <2>1, <2>3, <2>4
    <2>6. CASE tx' = Append(tx, p)
        BY <1>3, <1>7, <1>9, <1>13, <2>1, <2>6 DEF Effect, Releases
    <2>7. CASE tx' = tx
        BY <1>3, <1>5, <1>6, <1>9, <1>13, <2>7, StillEffect, MovesFacts
    <2> QED
        BY <2>5, <2>6, <2>7
<1> QED
    BY <1>2, <1>4, <1>10, <1>11, <1>12, <1>13, ResendFacts

LEMMA RunTickEffect ==
    ASSUME TypeInv, RunTick
    PROVE  Effect
<1>1. PICK slow \in SUBSET {"publication", "subscription"}, id \in DOMAIN sub.receiving \cup {0} :
        LET pub == PubNext(in_progress, World, "publication" \in slow)
            next == SubscribeNext(sub, pub.w, "subscription" \in slow, id)
        IN  in_progress' = pub.q /\ Becomes(next.w)
    BY DEF RunTick
<1>2. PICK late, tardy : late = ("publication" \in slow) /\ tardy = ("subscription" \in slow)
    OBVIOUS
<1>3. late \in BOOLEAN /\ tardy \in BOOLEAN
    BY <1>2
<1>4. PICK pub : pub = PubNext(in_progress, World, late)
    OBVIOUS
<1>5. PICK next : next = SubscribeNext(sub, pub.w, tardy, id)
    OBVIOUS
<1>6. in_progress' = pub.q /\ tx' = next.w.tx
    BY <1>1, <1>2, <1>4, <1>5 DEF Becomes
<1>7. WorldType(World) /\ World.tx = tx /\ tx \in Seq(ToBroker) /\ QueueType(in_progress) /\ SubType(sub)
    BY WorldHasType DEF TypeInv
<1>8. UNCHANGED <<plan, broker, delivered, accepted, dropped, packet_id, wrapped, net, inbox>>
    BY DEF RunTick, socketVars, brokerVars, historyVars
<1>9. InboxLess(inbox, inbox') /\ NetLess(net, net')
    <2>1. inbox \in Seq(Events) /\ Event("CONNECT") \in Events /\ ~IsData(Event("CONNECT"))
        BY EventTypes DEF TypeInv
    <2>2. InboxLess(inbox, inbox)
        BY <2>1, InboxLessFacts
    <2> QED
        BY <1>8, <2>2, NetLessFacts DEF TypeInv
<1>10. AtClient
    BY <1>8, <1>9, FewerAnswers DEF AtClient
<1>11. ASSUME WorldType(pub.w) PROVE Extends(pub.w.tx, tx') /\ pub.w.tx \in Seq(ToBroker) /\ tx' \in Seq(ToBroker)
    <2>1. WorldType(next.w) /\ Extends(pub.w.tx, next.w.tx)
        BY <1>3, <1>5, <1>7, <1>11, SubscribeNextFacts
    <2> QED
        BY <1>6, <1>11, <2>1 DEF WorldType, Worlds
<1>12. CASE pub.q = in_progress /\ pub.w = World
    <2>1. Extends(tx, tx')
        BY <1>7, <1>11, <1>12
    <2> QED
        BY <1>6, <1>8, <1>9, <1>12, <2>1, StillEffect, MovesFacts
<1>13. CASE (\E f : Changed(in_progress, f, pub.q) /\ f.wait = in_progress[1].wait) /\ pub.w = ForceDisconnect(World)
    <2>1. WorldType(pub.w) /\ Extends(tx, pub.w.tx)
        BY <1>7, <1>13, ForceFacts
    <2>2. Extends(tx, tx')
        BY <1>7, <1>11, <2>1, ExtendsTwice
    <2>3. SameWait(in_progress, in_progress')
        BY <1>6, <1>13 DEF SameWait
    <2> QED
        BY <1>8, <1>9, <2>2, <2>3, IdleEffect, MovesFacts
<1>14. CASE /\ in_progress # <<>> /\ HasRoom(World) /\ in_progress[1].wait = Reserved
            /\ \/ in_progress[1].packet.qos = 0 /\ pub.q = Tail(in_progress)
               \/ /\ in_progress[1].packet.qos > 0
                  /\ \E f : Changed(in_progress, f, pub.q) /\ f.wait \in {"PUBACK", "PUBREC"}
            /\ pub.w = Send(World, in_progress[1].packet)
    <2>1. PICK p \in ToBroker : p = in_progress[1].packet
        BY <1>14, HeadFacts
    <2>2. pub.w = Send(World, p)
        BY <1>14, <2>1
    <2>3. WorldType(pub.w) /\ pub.w.tx = Append(tx, p)
        <3>1. WorldType(Send(World, p)) /\ (HasRoom(World) => Send(World, p).tx = Append(World.tx, p))
            BY <1>7, SendFacts
        <3> QED
            BY <1>7, <1>14, <2>2, <3>1
    <2>4. Extends(Append(tx, in_progress[1].packet), tx')
        BY <1>11, <2>1, <2>3
    <2> QED
        BY <1>6, <1>8, <1>10, <1>14, <2>4 DEF Effect, Sends
<1> QED
    BY <1>3, <1>4, <1>7, <1>12, <1>13, <1>14, NextFacts

LEMMA SocketEffect ==
    ASSUME TypeInv, TypeInv',
           DisconnectDone \/ ReconnectExpires \/ KeepAlive \/ Dispatch \/ Connects \/ Drop \/ GotIp \/ Receive \/ Closed
    PROVE  Effect
<1>0. inbox \in Seq(Events) /\ net \in Seq(ToClient) /\ tx \in Seq(ToBroker)
    BY DEF TypeInv
<1>1. ASSUME NEW e \in {"RECONNECT", "GOT_IP", "up", "down"}
      PROVE  InboxLess(inbox, Append(inbox, Event(e))) /\ InboxLess(inbox, inbox)
    BY <1>0, InboxLessFacts, EventTypes
<1>2. CASE DisconnectDone
    <2>1. /\ wrapped' = (wrapped \/ packet_id' < packet_id)
          /\ \/ in_progress' = in_progress
             \/ \E f : Changed(in_progress, f, in_progress') /\ f.wait = in_progress[1].wait
        BY <1>2, IdleFacts DEF DisconnectDone
    <2>2. Moves
        BY <2>1, MovesFacts
    <2>3. SameWait(in_progress, in_progress')
        BY <2>1 DEF SameWait
    <2>4. UNCHANGED <<plan, broker, delivered, accepted, dropped, net, tx, inbox>>
        BY <1>2 DEF DisconnectDone, socketVars, brokerVars
    <2>5. InboxLess(inbox, inbox')
        BY <1>1, <2>4
    <2>6. NetLess(net, net') /\ Extends(tx, tx')
        BY <1>0, <2>4, NetLessFacts, ExtendsSelf
    <2> QED
        BY <2>2, <2>3, <2>4, <2>5, <2>6, IdleEffect
<1>3. CASE ReconnectExpires \/ Connects \/ GotIp
    <2>1. InboxLess(inbox, inbox')
        BY <1>1, <1>3 DEF ReconnectExpires, Connects, GotIp, Post
    <2>2. UNCHANGED <<plan, in_progress, broker, delivered, accepted, dropped, packet_id, wrapped, net, tx>>
        BY <1>3 DEF ReconnectExpires, Connects, GotIp, clientVars, socketVars, brokerVars, historyVars
    <2> QED
        BY <2>1, <2>2, StillEffect, MovesFacts
<1>4. CASE KeepAlive
    <2>1. UNCHANGED <<plan, in_progress, broker, delivered, accepted, dropped, packet_id, wrapped, net, inbox>>
        BY <1>4 DEF KeepAlive, clientVars, socketVars, brokerVars, historyVars
    <2>2. PICK p : p = Packet("PINGREQ", 0)
        OBVIOUS
    <2>3. p \in ToBroker /\ ~OfPublication(p)
        BY <2>2, SignalSent
    <2>4. tx' = Append(tx, p)
        BY <1>4, <2>2 DEF KeepAlive
    <2>5. /\ Len(tx') = Len(tx) + 1 /\ Len(tx) \in Nat /\ tx'[Len(tx) + 1] = p
          /\ \A i \in 1..Len(tx) : tx'[i] = tx[i]
        BY <1>0, <2>3, <2>4, AppendFacts
    <2>6. \A i \in 1..(Len(tx) + 1) : i > Len(tx) => i = Len(tx) + 1
        BY <2>5
    <2>7. Extends(tx, tx')
        BY <2>3, <2>5, <2>6 DEF Extends
    <2>8. InboxLess(inbox, inbox')
        BY <1>1, <2>1
    <2> QED
        BY <2>1, <2>7, <2>8, StillEffect, MovesFacts
<1>5. CASE Dispatch \/ Closed \/ Drop
    <2>1. InboxLess(inbox, inbox')
        <3>1. inbox' = inbox \/ inbox' = Append(inbox, Event("down"))
            BY <1>5 DEF Dispatch, Closed, Drop, Post
        <3> QED
            BY <1>1, <3>1
    <2>2. UNCHANGED <<plan, in_progress, delivered, accepted, dropped, packet_id, wrapped, tx>>
        BY <1>5 DEF Dispatch, Closed, Drop, clientVars, historyVars
    <2>3. Lost \/ UNCHANGED <<net, broker>>
        BY <1>5 DEF Dispatch, Closed, Drop
    <2>4. (net' = net \/ net' = <<>>) /\ broker'.in = broker.in
        <3>1. CASE Lost
            <4>1. BrokerType(broker)
                BY DEF TypeInv
            <4>2. broker' = [up |-> FALSE, subs |-> broker.subs, in |-> broker.in, out |-> broker.out, next |-> broker.next]
                BY <3>1, <4>1 DEF Lost, BrokerType
            <4>3. broker'.in = broker.in
                BY <4>2
            <4> QED
                BY <3>1, <4>3 DEF Lost
        <3> QED
            BY <2>3, <3>1
    <2> QED
        BY <2>1, <2>2, <2>4, StillEffect, MovesFacts
<1>6. CASE Receive
    <2>1. net # <<>> /\ net' = Tail(net) /\ inbox' = Append(inbox, Data(Head(net)))
        BY <1>6 DEF Receive, Post
    <2>2. PICK d : d = Data(Head(net))
        OBVIOUS
    <2>3. /\ Tail(net) \in Seq(ToClient) /\ Len(Tail(net)) = Len(net) - 1 /\ Len(net) \in Nat /\ Len(net) >= 1
          /\ Head(net) = net[1] /\ net[1] \in ToClient
          /\ \A i \in 1..(Len(net) - 1) : Tail(net)[i] = net[i + 1]
        BY <1>0, <2>1, TailFacts
    <2>4. d \in Events /\ IsData(d) /\ d.p = net[1]
        BY <2>2, <2>3, EventTypes
    <2>5. /\ Len(inbox') = Len(inbox) + 1 /\ Len(inbox) \in Nat /\ inbox'[Len(inbox) + 1] = d
          /\ \A i \in 1..Len(inbox) : inbox'[i] = inbox[i]
        BY <1>0, <2>1, <2>2, <2>4, AppendFacts
    <2>6. Answered' \subseteq Answered
        <3>1. ASSUME NEW x \in Answered' PROVE x \in Answered
            <4>0. x \in Nat
                BY <3>1 DEF Answered
            <4>1. CASE \E i \in 1..Len(net') : net'[i].type \in AnswerTypes3 /\ net'[i].id = x
                <5>1. PICK i \in 1..(Len(net) - 1) : net'[i].type \in AnswerTypes3 /\ net'[i].id = x
                    BY <2>1, <2>3, <4>1
                <5>2. i + 1 \in 1..Len(net) /\ net'[i] = net[i + 1]
                    BY <2>1, <2>3
                <5> QED
                    BY <4>0, <5>1, <5>2 DEF Answered
            <4>2. CASE \E i \in 1..Len(inbox') :
                           IsData(inbox'[i]) /\ inbox'[i].p.type \in AnswerTypes3 /\ inbox'[i].p.id = x
                <5>1. PICK i \in 1..(Len(inbox) + 1) :
                           IsData(inbox'[i]) /\ inbox'[i].p.type \in AnswerTypes3 /\ inbox'[i].p.id = x
                    BY <2>5, <4>2
                <5>2. CASE i = Len(inbox) + 1
                    <6>1. net[1].type \in AnswerTypes3 /\ net[1].id = x /\ 1 \in 1..Len(net)
                        BY <2>3, <2>4, <2>5, <5>1, <5>2
                    <6> QED
                        BY <4>0, <6>1 DEF Answered
                <5>3. CASE i \in 1..Len(inbox)
                    BY <2>5, <4>0, <5>1, <5>3 DEF Answered
                <5> QED
                    BY <2>5, <5>2, <5>3
            <4> QED
                BY <3>1, <4>1, <4>2 DEF Answered, IsData
        <3> QED
            BY <3>1
    <2>7. UNCHANGED <<plan, in_progress, broker, delivered, accepted, dropped, packet_id, wrapped, tx>>
        BY <1>6 DEF Receive, clientVars, brokerVars, historyVars
    <2>8. SameWait(in_progress, in_progress') /\ Extends(tx, tx') /\ Moves
        BY <1>0, <2>7, ExtendsSelf, MovesFacts DEF SameWait
    <2> QED
        BY <2>6, <2>7, <2>8 DEF Effect, Idles, TakenIds
<1> QED
    BY <1>2, <1>3, <1>4, <1>5, <1>6

\* An answer that the broker sends is on its way.
LEMMA SentAnswer ==
    ASSUME TypeInv, NEW type \in AnswerTypes3, NEW id \in Nat, net' = Append(net, Packet(type, id)), inbox' = inbox
    PROVE  Answered' \subseteq Answered \cup {id}
<1>0. net \in Seq(ToClient)
    BY DEF TypeInv
<1>1. PICK a : a = Packet(type, id)
    OBVIOUS
<1>2. a \in ToClient /\ a.id = id
    BY <1>1, BrokerSignalType DEF AnswerTypes3
<1>3. /\ Len(net') = Len(net) + 1 /\ Len(net) \in Nat /\ net'[Len(net) + 1] = a
      /\ \A i \in 1..Len(net) : net'[i] = net[i]
    BY <1>0, <1>1, <1>2, AppendFacts
<1>4. ASSUME NEW x \in Answered', x # id PROVE x \in Answered
    <2>1. x \in Nat
        BY <1>4 DEF Answered
    <2>2. CASE \E i \in 1..Len(net') : net'[i].type \in AnswerTypes3 /\ net'[i].id = x
        <3>1. PICK i \in 1..(Len(net) + 1) : net'[i].type \in AnswerTypes3 /\ net'[i].id = x
            BY <1>3, <2>2
        <3>2. i # Len(net) + 1
            BY <1>2, <1>3, <1>4, <3>1
        <3>3. i \in 1..Len(net)
            BY <1>3, <3>2
        <3> QED
            BY <1>3, <2>1, <3>1, <3>3 DEF Answered
    <2>3. CASE \E i \in 1..Len(inbox') :
                   IsData(inbox'[i]) /\ inbox'[i].p.type \in AnswerTypes3 /\ inbox'[i].p.id = x
        BY <2>1, <2>3 DEF Answered
    <2> QED
        BY <1>4, <2>2, <2>3 DEF Answered, IsData
<1> QED
    BY <1>4

LEMMA BrokerEffect ==
    ASSUME TypeInv, TypeInv', Broker
    PROVE  Effect
<1>0. inbox \in Seq(Events) /\ net \in Seq(ToClient) /\ net' \in Seq(ToClient) /\ InboxLess(inbox, inbox)
    <2>1. inbox \in Seq(Events) /\ Event("CONNECT") \in Events /\ ~IsData(Event("CONNECT"))
        BY EventTypes DEF TypeInv
    <2> QED
        BY <2>1, InboxLessFacts DEF TypeInv
<1>1. CASE BrokerCloses
    BY <1>1, SocketEffect DEF BrokerCloses
<1>2. ASSUME UNCHANGED <<plan, in_progress, inbox, delivered, accepted, dropped, packet_id, wrapped>>,
             Quiet(net, net') \/ net' = net,
             Extends(tx, tx') \/ (tx # <<>> /\ ~OfPublication(tx[1]) /\ tx' = Tail(tx)),
             DOMAIN broker'.in \subseteq DOMAIN broker.in, ~plan.clean => DOMAIN broker'.in = DOMAIN broker.in
      PROVE  Effect
    <2>1. NetLess(net, net') /\ InboxLess(inbox, inbox')
        BY <1>0, <1>2, QuietLess, NetLessFacts
    <2>2. SameWait(in_progress, in_progress') /\ Moves
        BY <1>2, MovesFacts DEF SameWait
    <2> QED
        BY <1>2, <2>1, <2>2, IdleEffect
<1>3. CASE BrokerAccepts
    <2>1. UNCHANGED <<plan, in_progress, inbox, delivered, accepted, dropped, packet_id, wrapped>>
        BY <1>3 DEF BrokerAccepts, clientVars
    <2>2. /\ Quiet(net, net') /\ DOMAIN broker'.in \subseteq DOMAIN broker.in
          /\ ~plan.clean => broker'.in = broker.in
          /\ tx # <<>> /\ tx' = Tail(tx) /\ ~OfPublication(tx[1])
        BY <1>3, AcceptsFacts
    <2> QED
        BY <1>2, <2>1, <2>2
<1>4. CASE BrokerTakes
    <2>1. UNCHANGED <<plan, in_progress, inbox, accepted, dropped, packet_id, wrapped>>
        BY <1>4 DEF BrokerTakes, BrokerFrame, clientVars, historyVars
    <2>2. PICK p : p = tx[1]
        OBVIOUS
    <2>3. /\ tx # <<>> /\ tx' = Tail(tx) /\ p \in Publishes
          /\ p.qos = 0 => net' = net
          /\ p.qos > 0 => \E type \in AnswerTypes3 : net' = Append(net, Packet(type, p.id))
          /\ DOMAIN broker'.in = IF p.qos = 2 THEN DOMAIN broker.in \cup {p.id} ELSE DOMAIN broker.in
          /\ delivered' = IF p.qos = 2 /\ p.id \in DOMAIN broker.in THEN delivered ELSE Append(delivered, p.m)
        BY <1>4, <2>2, TakesFacts
    <2>4. p.id \in Nat /\ p.qos \in 0..2
        BY <2>3 DEF Publishes, Qualities
    <2>5. Answered' \subseteq Answered \cup (IF p.qos > 0 THEN {p.id} ELSE {})
        <3>1. CASE p.qos > 0
            BY <2>1, <2>3, <2>4, <3>1, SentAnswer
        <3>2. CASE p.qos = 0
            <4>1. Answered' = Answered
                BY <2>1, <2>3, <3>2 DEF Answered
            <4> QED
                BY <4>1
        <3> QED
            BY <2>4, <3>1, <3>2
    <2> QED
        BY <2>1, <2>2, <2>3, <2>5 DEF Effect, Delivers, TakenIds
<1>5. CASE BrokerAnswers
    <2>1. UNCHANGED <<plan, in_progress, inbox, delivered, accepted, dropped, packet_id, wrapped>>
        BY <1>5 DEF BrokerAnswers, BrokerFrame, clientVars, historyVars
    <2>2. PICK p : p = tx[1]
        OBVIOUS
    <2>3. /\ tx # <<>> /\ tx' = Tail(tx)
          /\ \/ /\ p.type = "PUBREL" /\ p.id \in Nat
                /\ net' = Append(net, Packet("PUBCOMP", p.id))
                /\ DOMAIN broker'.in = DOMAIN broker.in \ {p.id}
             \/ ~OfPublication(p) /\ Quiet(net, net') /\ broker'.in = broker.in
        BY <1>5, <2>2, AnswersFacts
    <2>4. CASE ~OfPublication(p) /\ Quiet(net, net') /\ broker'.in = broker.in
        BY <1>2, <2>1, <2>2, <2>3, <2>4
    <2>5. CASE /\ p.type = "PUBREL" /\ p.id \in Nat
               /\ net' = Append(net, Packet("PUBCOMP", p.id))
               /\ DOMAIN broker'.in = DOMAIN broker.in \ {p.id}
        <3>1. "PUBCOMP" \in AnswerTypes3
            BY DEF AnswerTypes3
        <3>2. Answered' \subseteq Answered \cup {p.id}
            BY <2>1, <2>5, <3>1, SentAnswer
        <3> QED
            BY <2>1, <2>2, <2>3, <2>5, <3>2 DEF Effect, Ends, TakenIds
    <2> QED
        BY <2>3, <2>4, <2>5
<1>6. CASE BrokerCompletes
    <2>1. UNCHANGED <<plan, in_progress, inbox, delivered, accepted, dropped, packet_id, wrapped>>
        BY <1>6 DEF BrokerCompletes, BrokerFrame, clientVars, historyVars
    <2> QED
        BY <1>2, <1>6, <2>1, CompletesFacts
<1>7. CASE \E m \in plan.incoming : BrokerPublishes(m)
    <2>1. PICK m \in plan.incoming : BrokerPublishes(m)
        BY <1>7
    <2>2. UNCHANGED <<plan, in_progress, inbox, delivered, accepted, dropped, packet_id, wrapped>>
        BY <2>1 DEF BrokerPublishes, BrokerFrame, clientVars, historyVars
    <2>3. tx' = tx /\ Quiet(net, net') /\ broker'.in = broker.in
        BY <2>1, PublishesFacts
    <2>4. Extends(tx, tx')
        BY <2>3, ExtendsSelf DEF TypeInv
    <2> QED
        BY <1>2, <2>2, <2>3, <2>4
<1> QED
    BY <1>1, <1>3, <1>4, <1>5, <1>6, <1>7 DEF Broker

\* Every step has one of the effects.
LEMMA EffectStep ==
    ASSUME TypeInv, [Next]_vars
    PROVE  TypeInv' /\ Effect
<1>1. TypeInv'
    BY TypeStep
<1>2. CASE Next
    BY <1>1, <1>2, ApplicationEffect, ClientEffect, FirstTickEffect, RunTickEffect, SocketEffect, BrokerEffect DEF Next
<1>3. CASE UNCHANGED vars
    <2>1. UNCHANGED <<plan, in_progress, broker, delivered, accepted, dropped, packet_id, wrapped, net, tx, inbox>>
        BY <1>3 DEF vars, clientVars, socketVars, brokerVars, historyVars
    <2>2. inbox \in Seq(Events) /\ Event("CONNECT") \in Events /\ ~IsData(Event("CONNECT"))
        BY EventTypes DEF TypeInv
    <2>3. InboxLess(inbox, inbox')
        BY <2>1, <2>2, InboxLessFacts
    <2> QED
        BY <1>1, <2>1, <2>3, StillEffect, MovesFacts
<1> QED
    BY <1>1, <1>2, <1>3

-----------------------------------------------------------------------------
(* Identifiers.  As long as they do not begin anew, one identifier stands  *)
(* for one message: in the queue, in the send buffer, and in what the      *)
(* broker knows or answers.                                                *)

\* The flights of a queue have identifiers of their own, up to n.
Ids(q, n) ==
    /\ \A j \in 1..Len(q) : q[j].packet.qos > 0 => q[j].packet.id <= n
    /\ \A i, j \in 1..Len(q) :
           q[i].packet.qos > 0 /\ q[j].packet.qos > 0 /\ q[i].packet.id = q[j].packet.id => i = j

\* A packet on its way to the broker is of the message that has its identifier;
\* a PUBREL is of the first one, which waits for the end of its exchange.
Sound(p, q, n) ==
    /\ p.type = "PUBLISH" /\ p.qos > 0 =>
           /\ p.id <= n
           /\ \A j \in 1..Len(q) : q[j].packet.qos > 0 /\ q[j].packet.id = p.id => q[j].packet.m = p.m
    /\ p.type = "PUBREL" =>
           /\ p.id <= n
           /\ \A j \in 1..Len(q) :
                  q[j].packet.qos > 0 /\ q[j].packet.id = p.id => j = 1 /\ q[1].wait = "PUBCOMP"

\* A message whose identifier the broker knows has been handed on.
Known(x, q, n, d) ==
    /\ x <= n
    /\ \A j \in 1..Len(q) : q[j].packet.qos > 0 /\ q[j].packet.id = x => Contains(d, q[j].packet.m)

LEMMA PacketNumbers ==
    ASSUME NEW q, QueueType(q)
    PROVE  /\ Len(q) \in Nat
           /\ \A j \in 1..Len(q) : /\ q[j] \in Outgoing /\ Apt(q[j]) /\ q[j].packet \in Publishes
                                   /\ q[j].packet.id \in Nat /\ q[j].packet.qos \in 0..2
                                   /\ q[j].packet.m \in Messages
<1>1. Len(q) \in Nat /\ \A j \in 1..Len(q) : q[j] \in Outgoing /\ Apt(q[j])
    BY DEF QueueType
<1>2. \A j \in 1..Len(q) : q[j].packet \in Publishes
    BY <1>1, FieldTypes
<1>3. \A p \in Publishes : p.id \in Nat /\ p.qos \in 0..2 /\ p.m \in Messages
    BY DEF Publishes, Qualities
<1> QED
    BY <1>1, <1>2, <1>3

\* The flights change in what does not matter here.
LEMMA IdsOfSame ==
    ASSUME NEW q, QueueType(q), NEW r, Len(r) = Len(q), \A j \in 1..Len(q) : Alike(r[j], q[j]),
           NEW n \in Nat, NEW k \in Nat, n <= k, Ids(q, n)
    PROVE  Ids(r, k)
<1>1. \A j \in 1..Len(q) : /\ r[j].packet.id = q[j].packet.id /\ r[j].packet.qos = q[j].packet.qos
                           /\ q[j].packet.id \in Nat
    BY PacketNumbers DEF Alike
<1>2. ASSUME NEW j \in 1..Len(r), r[j].packet.qos > 0 PROVE r[j].packet.id <= k
    <2>1. q[j].packet.id <= n
        BY <1>1, <1>2 DEF Ids
    <2> QED
        BY <1>1, <2>1
<1>3. ASSUME NEW i \in 1..Len(r), NEW j \in 1..Len(r),
             r[i].packet.qos > 0, r[j].packet.qos > 0, r[i].packet.id = r[j].packet.id
      PROVE  i = j
    BY <1>1, <1>3 DEF Ids
<1> QED
    BY <1>2, <1>3 DEF Ids

LEMMA SoundOfSame ==
    ASSUME NEW q, QueueType(q), NEW r, Len(r) = Len(q), \A j \in 1..Len(q) : Alike(r[j], q[j]),
           Len(q) > 0 /\ q[1].wait = "PUBCOMP" => r[1].wait = "PUBCOMP",
           NEW n \in Nat, NEW k \in Nat, n <= k, NEW p \in ToBroker, Sound(p, q, n)
    PROVE  Sound(p, r, k)
<1>1. \A j \in 1..Len(q) : /\ r[j].packet.id = q[j].packet.id /\ r[j].packet.qos = q[j].packet.qos
                           /\ r[j].packet.m = q[j].packet.m
    BY DEF Alike
<1>2. ASSUME p.type = "PUBLISH", p.qos > 0
      PROVE  /\ p.id <= k
             /\ \A j \in 1..Len(r) : r[j].packet.qos > 0 /\ r[j].packet.id = p.id => r[j].packet.m = p.m
    <2>1. p.id \in Nat /\ p.id <= n
        BY <1>2, ToBrokerFields DEF Sound
    <2>2. \A j \in 1..Len(q) : q[j].packet.qos > 0 /\ q[j].packet.id = p.id => q[j].packet.m = p.m
        BY <1>2 DEF Sound
    <2>3. p.id <= k
        BY <2>1
    <2> QED
        BY <1>1, <2>2, <2>3
<1>3. ASSUME p.type = "PUBREL"
      PROVE  /\ p.id <= k
             /\ \A j \in 1..Len(r) :
                    r[j].packet.qos > 0 /\ r[j].packet.id = p.id => j = 1 /\ r[1].wait = "PUBCOMP"
    <2>1. p.id \in Nat /\ p.id <= n
        BY <1>3, ToBrokerFields DEF Sound
    <2>2. \A j \in 1..Len(q) :
              q[j].packet.qos > 0 /\ q[j].packet.id = p.id => j = 1 /\ q[1].wait = "PUBCOMP"
        BY <1>3 DEF Sound
    <2>3. p.id <= k
        BY <2>1
    <2>4. Len(q) \in Nat
        BY PacketNumbers
    <2>5. ASSUME NEW j \in 1..Len(r), r[j].packet.qos > 0, r[j].packet.id = p.id
          PROVE  j = 1 /\ r[1].wait = "PUBCOMP"
        BY <1>1, <2>2, <2>4, <2>5
    <2> QED
        BY <2>3, <2>5
<1> QED
    BY <1>2, <1>3 DEF Sound

LEMMA KnownOfSame ==
    ASSUME NEW q, QueueType(q), NEW r, Len(r) = Len(q), \A j \in 1..Len(q) : Alike(r[j], q[j]),
           NEW n \in Nat, NEW k \in Nat, n <= k, NEW x \in Nat, NEW d, NEW e, \A m : Contains(d, m) => Contains(e, m),
           Known(x, q, n, d)
    PROVE  Known(x, r, k, e)
<1>1. \A j \in 1..Len(q) : /\ r[j].packet.id = q[j].packet.id /\ r[j].packet.qos = q[j].packet.qos
                           /\ r[j].packet.m = q[j].packet.m
    BY DEF Alike
<1>2. x <= k
    BY DEF Known
<1>3. ASSUME NEW j \in 1..Len(r), r[j].packet.qos > 0, r[j].packet.id = x
      PROVE  Contains(e, r[j].packet.m)
    BY <1>1, <1>3 DEF Known
<1> QED
    BY <1>2, <1>3 DEF Known

\* The first flight is gone.
LEMMA TailKeeps ==
    ASSUME NEW q, QueueType(q), q # <<>>, NEW n \in Nat
    PROVE  /\ Ids(q, n) => Ids(Tail(q), n)
           /\ \A p : Sound(p, q, n) => Sound(p, Tail(q), n)
           /\ \A x, d : Known(x, q, n, d) => Known(x, Tail(q), n, d)
<1>1. PICK r : r = Tail(q)
    OBVIOUS
<1>2. /\ Len(r) = Len(q) - 1 /\ Len(q) \in Nat /\ Len(q) >= 1
      /\ \A j \in 1..(Len(q) - 1) : r[j] = q[j + 1]
    BY <1>1, TailType
<1>3. \A j \in 1..Len(r) : j \in Nat /\ j + 1 \in 1..Len(q) /\ r[j] = q[j + 1] /\ j + 1 # 1
    BY <1>2
<1>4. ASSUME Ids(q, n) PROVE Ids(r, n)
    <2>1. ASSUME NEW i \in 1..Len(r), NEW j \in 1..Len(r),
                 r[i].packet.qos > 0, r[j].packet.qos > 0, r[i].packet.id = r[j].packet.id
          PROVE  i = j
        <3>1. i + 1 = j + 1
            BY <1>3, <1>4, <2>1 DEF Ids
        <3> QED
            BY <1>3, <3>1
    <2> QED
        BY <1>3, <1>4, <2>1 DEF Ids
<1>5. ASSUME NEW p, Sound(p, q, n) PROVE Sound(p, r, n)
    BY <1>3, <1>5 DEF Sound
<1>6. ASSUME NEW x, NEW d, Known(x, q, n, d) PROVE Known(x, r, n, d)
    BY <1>3, <1>6 DEF Known
<1> QED
    BY <1>1, <1>4, <1>5, <1>6

\* A flight with a new identifier, or with none, is added.
LEMMA MoreKeeps ==
    ASSUME NEW q, QueueType(q), NEW r, Len(r) = Len(q) + 1, \A j \in 1..Len(q) : r[j] = q[j],
           NEW n \in Nat, NEW k \in Nat, n <= k,
           r[Len(q) + 1].packet.qos > 0 => r[Len(q) + 1].packet.id = n + 1 /\ k = n + 1
    PROVE  /\ Ids(q, n) => Ids(r, k)
           /\ \A p \in ToBroker : Sound(p, q, n) => Sound(p, r, k)
           /\ \A x \in Nat : \A d : Known(x, q, n, d) => Known(x, r, k, d)
<1>1. /\ Len(q) \in Nat
      /\ \A j \in 1..Len(q) : q[j].packet.id \in Nat
    BY PacketNumbers
<1>2. PICK l \in Nat : l = Len(q)
    BY <1>1
<1>3. \A j \in 1..Len(r) : j \in 1..l \/ j = l + 1
    BY <1>2
<1>4. ASSUME Ids(q, n) PROVE Ids(r, k)
    <2>1. \A j \in 1..l : r[j].packet.qos > 0 => r[j].packet.id <= n /\ r[j].packet.id \in Nat
        BY <1>1, <1>2, <1>4 DEF Ids
    <2>2. \A j \in 1..Len(r) : r[j].packet.qos > 0 => r[j].packet.id <= k
        BY <1>2, <1>3, <2>1
    <2>3. ASSUME NEW i \in 1..Len(r), NEW j \in 1..Len(r),
                 r[i].packet.qos > 0, r[j].packet.qos > 0, r[i].packet.id = r[j].packet.id
          PROVE  i = j
        <3>1. CASE i \in 1..l /\ j \in 1..l
            BY <1>2, <1>4, <2>3, <3>1 DEF Ids
        <3>2. CASE i = l + 1 /\ j \in 1..l
            BY <1>2, <2>1, <2>3, <3>2
        <3>3. CASE i \in 1..l /\ j = l + 1
            BY <1>2, <2>1, <2>3, <3>3
        <3> QED
            BY <1>3, <3>1, <3>2, <3>3
    <2> QED
        BY <2>2, <2>3 DEF Ids
<1>5. ASSUME NEW p \in ToBroker, Sound(p, q, n) PROVE Sound(p, r, k)
    <2>1. p.type \in {"PUBLISH", "PUBREL"} => p.id \in Nat
        BY ToBrokerFields
    <2>2. ASSUME p.type = "PUBLISH", p.qos > 0
          PROVE  /\ p.id <= k
                 /\ \A j \in 1..Len(r) : r[j].packet.qos > 0 /\ r[j].packet.id = p.id => r[j].packet.m = p.m
        <3>1. p.id <= n
            BY <1>5, <2>2 DEF Sound
        <3>2. ASSUME NEW j \in 1..Len(r), r[j].packet.qos > 0, r[j].packet.id = p.id PROVE r[j].packet.m = p.m
            <4>1. j # l + 1
                BY <1>2, <2>1, <2>2, <3>1, <3>2
            <4> QED
                BY <1>2, <1>3, <1>5, <2>2, <3>2, <4>1 DEF Sound
        <3> QED
            BY <2>1, <2>2, <3>1, <3>2
    <2>3. ASSUME p.type = "PUBREL"
          PROVE  /\ p.id <= k
                 /\ \A j \in 1..Len(r) :
                        r[j].packet.qos > 0 /\ r[j].packet.id = p.id => j = 1 /\ r[1].wait = "PUBCOMP"
        <3>1. p.id <= n
            BY <1>5, <2>3 DEF Sound
        <3>2. ASSUME NEW j \in 1..Len(r), r[j].packet.qos > 0, r[j].packet.id = p.id
              PROVE  j = 1 /\ r[1].wait = "PUBCOMP"
            <4>1. j # l + 1
                BY <1>2, <2>1, <2>3, <3>1, <3>2
            <4>2. j \in 1..Len(q) /\ 1 \in 1..Len(q)
                BY <1>2, <1>3, <4>1
            <4> QED
                BY <1>5, <2>3, <3>2, <4>2 DEF Sound
        <3> QED
            BY <2>1, <2>3, <3>1, <3>2
    <2> QED
        BY <2>2, <2>3 DEF Sound
<1>6. ASSUME NEW x \in Nat, NEW d, Known(x, q, n, d) PROVE Known(x, r, k, d)
    <2>1. x <= n /\ x <= k
        BY <1>6 DEF Known
    <2>2. ASSUME NEW j \in 1..Len(r), r[j].packet.qos > 0, r[j].packet.id = x PROVE Contains(d, r[j].packet.m)
        <3>1. j # l + 1
            BY <1>2, <2>1, <2>2
        <3> QED
            BY <1>2, <1>3, <1>6, <2>2, <3>1 DEF Known
    <2> QED
        BY <2>1, <2>2 DEF Known
<1> QED
    BY <1>4, <1>5, <1>6

-----------------------------------------------------------------------------
(* The queue is the end of what was accepted.                              *)

\* The number of the messages that have left the queue.
Base == Len(accepted) - Len(in_progress)

QueueInv ==
    /\ Len(in_progress) <= Len(accepted)
    /\ \A j \in 1..Len(in_progress) : accepted[Base + j] = in_progress[j].packet.m
    /\ \A j \in 1..Len(in_progress) : j # 1 => in_progress[j].wait = Reserved

SameQueue ==
    /\ Len(in_progress') = Len(in_progress)
    /\ \A j \in 1..Len(in_progress) : Alike(in_progress'[j], in_progress[j])
    /\ \A j \in 1..Len(in_progress) : j # 1 => in_progress'[j] = in_progress[j]
    /\ Len(in_progress) > 0 /\ in_progress[1].wait = "PUBCOMP" => in_progress'[1].wait = "PUBCOMP"
    /\ accepted' = accepted

ShorterQueue == in_progress # <<>> /\ in_progress' = Tail(in_progress) /\ accepted' = accepted

LEMMA SameFacts ==
    ASSUME NEW q, QueueType(q), NEW r, r = q \/ \E f : Changed(q, f, r)
    PROVE  /\ Len(r) = Len(q) /\ Len(q) \in Nat
           /\ \A j \in 1..Len(q) : Alike(r[j], q[j])
           /\ \A j \in 1..Len(q) : j # 1 => r[j] = q[j]
<1>1. CASE r = q
    <2>1. Len(q) \in Nat
        BY DEF QueueType
    <2> QED
        BY <1>1, <2>1 DEF Alike
<1>2. CASE \E f : Changed(q, f, r)
    BY <1>2, ChangedFacts
<1> QED
    BY <1>1, <1>2

LEMMA QueueShape ==
    ASSUME TypeInv, Effect
    PROVE  \/ (Idles \/ Repeats \/ Releases \/ Sends \/ Delivers \/ Ends) /\ SameQueue
           \/ (Pops \/ Sends) /\ ShorterQueue
           \/ Adds
<1>0. QueueType(in_progress)
    BY DEF TypeInv
<1>1. ASSUME in_progress' = in_progress \/ \E f : Changed(in_progress, f, in_progress'),
             Len(in_progress) > 0 /\ in_progress[1].wait = "PUBCOMP" => in_progress'[1].wait = "PUBCOMP",
             accepted' = accepted
      PROVE  SameQueue
    BY <1>0, <1>1, SameFacts DEF SameQueue
<1>2. ASSUME NEW f, Changed(in_progress, f, in_progress') PROVE in_progress'[1] = f
    BY <1>0, <1>2, ChangedFacts
<1>3. CASE Idles
    <2>1. SameWait(in_progress, in_progress') /\ accepted' = accepted
        BY <1>3 DEF Idles
    <2> QED
        BY <1>1, <1>2, <1>3, <2>1 DEF SameWait
<1>4. CASE Repeats
    <2>1. in_progress[1].wait # "PUBCOMP" /\ accepted' = accepted /\ \E f : Changed(in_progress, f, in_progress')
        BY <1>4 DEF Repeats, AtClient
    <2> QED
        BY <1>1, <1>4, <2>1
<1>5. CASE Releases
    <2>1. /\ accepted' = accepted
          /\ \/ in_progress' = in_progress
             \/ \E f : Changed(in_progress, f, in_progress') /\ f.wait = "PUBCOMP"
        BY <1>5 DEF Releases, AtClient
    <2> QED
        BY <1>1, <1>2, <1>5, <2>1
<1>6. CASE Sends
    <2>1. /\ accepted' = accepted /\ in_progress # <<>> /\ in_progress[1].wait = Reserved
          /\ \/ in_progress' = Tail(in_progress)
             \/ \E f : Changed(in_progress, f, in_progress')
        BY <1>6 DEF Sends, AtClient
    <2>2. in_progress[1].wait # "PUBCOMP"
        BY <2>1 DEF Reserved
    <2> QED
        BY <1>1, <1>6, <2>1, <2>2 DEF ShorterQueue
<1>7. CASE Delivers \/ Ends
    <2>1. accepted' = accepted /\ in_progress' = in_progress
        BY <1>7 DEF Delivers, Ends
    <2> QED
        BY <1>1, <1>7, <2>1
<1>8. CASE Pops
    BY <1>8 DEF Pops, AtClient, ShorterQueue
<1> QED
    BY <1>3, <1>4, <1>5, <1>6, <1>7, <1>8 DEF Effect

LEMMA BaseFacts ==
    ASSUME TypeInv, QueueInv
    PROVE  Base \in Nat /\ Len(in_progress) \in Nat /\ Len(accepted) \in Nat /\ Len(accepted) = Base + Len(in_progress)
<1>1. Len(in_progress) \in Nat /\ Len(accepted) \in Nat
    BY PacketNumbers DEF TypeInv
<1> QED
    BY <1>1 DEF QueueInv, Base

\* How many messages have left, after a step.
LEMMA BaseMoves ==
    ASSUME TypeInv, TypeInv', QueueInv, Effect
    PROVE  /\ SameQueue => Base' = Base
           /\ ShorterQueue => Base' = Base + 1
           /\ Adds => Base' = Base /\ Len(accepted') = Len(accepted) + 1 /\ Len(in_progress') = Len(in_progress) + 1
                      /\ \A i \in 1..Len(accepted) : accepted'[i] = accepted[i]
<1>1. Base \in Nat /\ Len(in_progress) \in Nat /\ Len(accepted) \in Nat /\ Len(accepted) = Base + Len(in_progress)
    BY BaseFacts
<1>2. SameQueue => Base' = Base
    BY <1>1 DEF SameQueue, Base
<1>3. ASSUME ShorterQueue PROVE Base' = Base + 1
    <2>1. Len(in_progress') = Len(in_progress) - 1
        BY <1>3, TailType DEF ShorterQueue, TypeInv
    <2>2. accepted' = accepted
        BY <1>3 DEF ShorterQueue
    <2> QED
        BY <1>1, <2>1, <2>2 DEF Base
<1>4. ASSUME Adds
      PROVE  Base' = Base /\ Len(accepted') = Len(accepted) + 1 /\ Len(in_progress') = Len(in_progress) + 1
             /\ \A i \in 1..Len(accepted) : accepted'[i] = accepted[i]
    <2>1. PICK m \in Messages : accepted' = Append(accepted, m) /\ Len(in_progress') = Len(in_progress) + 1
        BY <1>4 DEF Adds, Publishes
    <2>2. accepted \in Seq(Messages)
        BY DEF TypeInv
    <2>3. Len(accepted') = Len(accepted) + 1 /\ \A i \in 1..Len(accepted) : accepted'[i] = accepted[i]
        BY <2>1, <2>2, AppendFacts
    <2> QED
        BY <1>1, <2>1, <2>3 DEF Base
<1> QED
    BY <1>2, <1>3, <1>4

LEMMA QueueStep ==
    ASSUME TypeInv, TypeInv', QueueInv, Effect
    PROVE  QueueInv'
<1>1. Base \in Nat /\ Len(in_progress) \in Nat /\ Len(accepted) \in Nat /\ Len(accepted) = Base + Len(in_progress)
    BY BaseFacts
<1>2. CASE SameQueue
    <2>1. Base' = Base
        BY <1>2, BaseMoves
    <2>2. \A j \in 1..Len(in_progress) : accepted'[Base + j] = in_progress'[j].packet.m
        BY <1>2 DEF SameQueue, QueueInv, Alike
    <2>3. \A j \in 1..Len(in_progress) : j # 1 => in_progress'[j].wait = Reserved
        BY <1>2 DEF SameQueue, QueueInv
    <2>4. Len(in_progress') = Len(in_progress) /\ accepted' = accepted
        BY <1>2 DEF SameQueue
    <2> QED
        BY <1>1, <2>1, <2>2, <2>3, <2>4 DEF QueueInv
<1>3. CASE ShorterQueue
    <2>1. Base' = Base + 1 /\ accepted' = accepted
        BY <1>3, BaseMoves DEF ShorterQueue
    <2>2. /\ Len(in_progress') = Len(in_progress) - 1
          /\ \A j \in 1..(Len(in_progress) - 1) : in_progress'[j] = in_progress[j + 1]
        BY <1>3, TailType DEF ShorterQueue, TypeInv
    <2>3. ASSUME NEW j \in 1..Len(in_progress')
          PROVE  accepted'[Base' + j] = in_progress'[j].packet.m /\ in_progress'[j].wait = Reserved
        <3>1. j + 1 \in 1..Len(in_progress) /\ j + 1 # 1 /\ in_progress'[j] = in_progress[j + 1]
            BY <1>1, <2>2
        <3>2. Base' + j = Base + (j + 1)
            BY <1>1, <2>1
        <3> QED
            BY <2>1, <3>1, <3>2 DEF QueueInv
    <2>4. Len(in_progress') <= Len(accepted')
        BY <1>1, <2>1, <2>2
    <2> QED
        BY <2>3, <2>4 DEF QueueInv
<1>4. CASE Adds
    <2>1. PICK p \in Publishes :
            /\ \A j \in 1..Len(in_progress) : in_progress'[j] = in_progress[j]
            /\ in_progress'[Len(in_progress) + 1].packet = p
            /\ in_progress'[Len(in_progress) + 1].wait = Reserved
            /\ accepted' = Append(accepted, p.m)
        BY <1>4 DEF Adds
    <2>2. /\ Base' = Base /\ Len(accepted') = Len(accepted) + 1 /\ Len(in_progress') = Len(in_progress) + 1
          /\ \A i \in 1..Len(accepted) : accepted'[i] = accepted[i]
        BY <1>4, BaseMoves
    <2>3. accepted'[Len(accepted) + 1] = p.m
        BY <2>1, AppendFacts DEF TypeInv, Publishes
    <2>4. ASSUME NEW j \in 1..Len(in_progress')
          PROVE  accepted'[Base + j] = in_progress'[j].packet.m /\ (j # 1 => in_progress'[j].wait = Reserved)
        <3>1. CASE j \in 1..Len(in_progress)
            <4>1. Base + j \in 1..Len(accepted)
                BY <1>1, <3>1
            <4> QED
                BY <2>1, <2>2, <3>1, <4>1 DEF QueueInv
        <3>2. CASE j = Len(in_progress) + 1
            <4>1. Base + j = Len(accepted) + 1
                BY <1>1, <3>2
            <4> QED
                BY <2>1, <2>3, <3>2, <4>1
        <3> QED
            BY <1>1, <2>2, <3>1, <3>2
    <2>5. Len(in_progress') <= Len(accepted')
        BY <1>1, <2>2
    <2> QED
        BY <2>2, <2>4, <2>5 DEF QueueInv
<1> QED
    BY <1>2, <1>3, <1>4, QueueShape

-----------------------------------------------------------------------------
(* The invariant of the identifiers.                                       *)

IdInv ==
    ~wrapped =>
        /\ Ids(in_progress, packet_id)
        /\ \A t \in 1..Len(tx) : Sound(tx[t], in_progress, packet_id)
        /\ \A x \in Answered \cup TakenIds : Known(x, in_progress, packet_id, delivered)
        /\ Len(in_progress) > 0 /\ in_progress[1].wait = "PUBCOMP" => Contains(delivered, in_progress[1].packet.m)

LEMMA Unwrapped ==
    ASSUME TypeInv, TypeInv', Effect
    PROVE  /\ ~wrapped' => ~wrapped /\ packet_id <= packet_id'
           /\ packet_id \in Nat /\ packet_id' \in Nat /\ plan' = plan
<1>1. packet_id \in Nat /\ packet_id' \in Nat
    BY MqttAssumption DEF TypeInv
<1>2. Moves => (~wrapped' => ~wrapped /\ packet_id <= packet_id')
    BY DEF Moves
<1>3. UNCHANGED <<packet_id, wrapped>> => (~wrapped' => ~wrapped /\ packet_id <= packet_id')
    BY <1>1
<1>4. plan' = plan /\ (Moves \/ UNCHANGED <<packet_id, wrapped>>)
    BY DEF Effect, Idles, Adds, Pops, Repeats, Releases, Sends, Delivers, Ends, AtClient
<1> QED
    BY <1>1, <1>2, <1>3, <1>4

LEMMA DeliveredGrows ==
    ASSUME TypeInv, Effect
    PROVE  /\ \A m : Contains(delivered, m) => Contains(delivered', m)
           /\ \A p : Delivers /\ p = tx[1] /\ delivered' # delivered => Contains(delivered', p.m)
<1>1. delivered' = delivered \/ \E p \in Publishes : p = tx[1] /\ delivered' = Append(delivered, p.m)
    BY DEF Effect, Idles, Adds, Pops, Repeats, Releases, Sends, Delivers, Ends, AtClient
<1>2. CASE delivered' = delivered
    BY <1>2
<1>3. ASSUME NEW p \in Publishes, p = tx[1], delivered' = Append(delivered, p.m)
      PROVE  Contains(delivered', p.m) /\ \A m : Contains(delivered, m) => Contains(delivered', m)
    <2>1. delivered \in Seq(Messages) /\ p.m \in Messages
        BY DEF TypeInv, Publishes
    <2>2. PICK x \in Messages : x = p.m
        BY <2>1
    <2>3. /\ Len(delivered') = Len(delivered) + 1 /\ Len(delivered) \in Nat /\ delivered'[Len(delivered) + 1] = x
          /\ \A i \in 1..Len(delivered) : delivered'[i] = delivered[i]
        BY <1>3, <2>1, <2>2, AppendFacts
    <2>4. Len(delivered) + 1 \in 1..Len(delivered') /\ \A i \in 1..Len(delivered) : i \in 1..Len(delivered')
        BY <2>3
    <2> QED
        BY <2>2, <2>3, <2>4 DEF Contains
<1> QED
    BY <1>1, <1>2, <1>3

LEMMA TxSequences ==
    ASSUME TypeInv, TypeInv'
    PROVE  tx \in Seq(ToBroker) /\ Len(tx) \in Nat /\ tx' \in Seq(ToBroker) /\ Len(tx') \in Nat
<1>1. tx \in Seq(ToBroker) /\ tx' \in Seq(ToBroker)
    BY DEF TypeInv
<1> QED
    BY <1>1, LenProperties

\* Where a packet of Publication in the send buffer comes from.
LEMMA SendShape ==
    ASSUME TypeInv, TypeInv', Effect, NEW t \in 1..Len(tx')
    PROVE  \/ ~OfPublication(tx'[t])
           \/ \E s \in 1..Len(tx) : tx'[t] = tx[s]
           \/ Releases /\ tx'[t] = Packet("PUBREL", in_progress[1].packet.id)
           \/ Sends /\ tx'[t] = in_progress[1].packet
<1>0. tx \in Seq(ToBroker) /\ Len(tx) \in Nat /\ tx' \in Seq(ToBroker) /\ Len(tx') \in Nat
    BY TxSequences
<1>1. CASE Extends(tx, tx')
    <2>1. CASE t > Len(tx)
        BY <1>1, <2>1 DEF Extends
    <2>2. CASE t <= Len(tx)
        <3>1. t \in 1..Len(tx)
            BY <1>0, <2>2
        <3> QED
            BY <1>1, <3>1 DEF Extends
    <2> QED
        BY <1>0, <2>1, <2>2
<1>2. CASE tx' = <<>>
    <2>1. Len(<<>>) = 0
        OBVIOUS
    <2> QED
        BY <1>2, <2>1
<1>3. CASE tx # <<>> /\ tx' = Tail(tx)
    <2>1. t + 1 \in 1..Len(tx) /\ tx'[t] = tx[t + 1]
        BY <1>3, TxTail
    <2> QED
        BY <2>1
<1>4. CASE Releases
    <2>1. PICK p : p = Packet("PUBREL", in_progress[1].packet.id)
        OBVIOUS
    <2>2. p \in ToBroker
        BY <1>4, <2>1, HeadFacts, RelSent DEF Releases
    <2>3. /\ Len(tx') = Len(tx) + 1 /\ tx'[Len(tx) + 1] = p
          /\ \A i \in 1..Len(tx) : tx'[i] = tx[i]
        BY <1>0, <1>4, <2>1, <2>2, AppendFacts DEF Releases
    <2>4. t \in 1..Len(tx) \/ t = Len(tx) + 1
        BY <1>0, <2>3
    <2> QED
        BY <1>4, <2>1, <2>3, <2>4
<1>5. CASE Sends
    <2>1. PICK p \in ToBroker : p = in_progress[1].packet
        BY <1>5, HeadFacts DEF Sends
    <2>2. PICK u : u = Append(tx, p)
        OBVIOUS
    <2>3. /\ Len(u) = Len(tx) + 1 /\ u[Len(tx) + 1] = p
          /\ \A i \in 1..Len(tx) : u[i] = tx[i]
        BY <1>0, <2>2, AppendFacts
    <2>4. Extends(u, tx')
        BY <1>5, <2>1, <2>2 DEF Sends
    <2>5. t \in 1..Len(tx) \/ t = Len(tx) + 1 \/ t > Len(u)
        BY <1>0, <2>3
    <2>6. CASE t > Len(u)
        BY <2>4, <2>6 DEF Extends
    <2>7. CASE t \in 1..Len(tx) \/ t = Len(tx) + 1
        <3>1. t \in 1..Len(u)
            BY <1>0, <2>3, <2>7
        <3>2. tx'[t] = u[t]
            BY <2>4, <3>1 DEF Extends
        <3> QED
            BY <1>5, <2>1, <2>3, <2>7, <3>2
    <2> QED
        BY <2>5, <2>6, <2>7
<1>6. CASE tx' = tx
    BY <1>0, <1>6
<1> QED
    BY <1>1, <1>2, <1>3, <1>4, <1>5, <1>6 DEF Effect, Idles, Adds, Pops, Repeats, Delivers, Ends

\* What is known of an identifier stays true.
LEMMA IdsKeep ==
    ASSUME TypeInv, TypeInv', Effect, ~wrapped', \A m : Contains(delivered, m) => Contains(delivered', m)
    PROVE  /\ Ids(in_progress, packet_id) => Ids(in_progress', packet_id')
           /\ \A p \in ToBroker : Sound(p, in_progress, packet_id) => Sound(p, in_progress', packet_id')
           /\ \A x \in Nat : Known(x, in_progress, packet_id, delivered) => Known(x, in_progress', packet_id', delivered')
<1>a. PICK q, r : q = in_progress /\ r = in_progress'
    OBVIOUS
<1>b. PICK n \in Nat, k \in Nat : n = packet_id /\ k = packet_id'
    BY Unwrapped
<1>0. q = in_progress /\ r = in_progress' /\ n = packet_id /\ k = packet_id'
    BY <1>a, <1>b
<1>1. QueueType(q) /\ n <= k
    BY <1>0, Unwrapped DEF TypeInv
<1>2. CASE SameQueue
    <2>1. /\ Len(r) = Len(q) /\ \A j \in 1..Len(q) : Alike(r[j], q[j])
          /\ Len(q) > 0 /\ q[1].wait = "PUBCOMP" => r[1].wait = "PUBCOMP"
        BY <1>0, <1>2 DEF SameQueue
    <2>2. Ids(q, n) => Ids(r, k)
        BY <1>1, <2>1, IdsOfSame
    <2>3. \A p \in ToBroker : Sound(p, q, n) => Sound(p, r, k)
        BY <1>1, <2>1, SoundOfSame
    <2>4. \A x \in Nat : Known(x, q, n, delivered) => Known(x, r, k, delivered')
        BY <1>1, <2>1, KnownOfSame
    <2> QED
        BY <1>0, <2>2, <2>3, <2>4
<1>3. CASE (Pops \/ Sends) /\ ShorterQueue
    <2>1. q # <<>> /\ r = Tail(q)
        BY <1>0, <1>3 DEF ShorterQueue
    <2>2. k = n /\ delivered' = delivered
        BY <1>0, <1>3 DEF Pops, Sends, AtClient
    <2>3. /\ Ids(q, n) => Ids(r, n)
          /\ \A p : Sound(p, q, n) => Sound(p, r, n)
          /\ \A x, d : Known(x, q, n, d) => Known(x, r, n, d)
        BY <1>1, <2>1, TailKeeps
    <2> QED
        BY <1>0, <2>2, <2>3
<1>4. CASE Adds
    <2>1. PICK p \in Publishes :
            /\ Len(in_progress') = Len(in_progress) + 1
            /\ \A j \in 1..Len(in_progress) : in_progress'[j] = in_progress[j]
            /\ in_progress'[Len(in_progress) + 1].packet = p
            /\ p.qos > 0 /\ ~wrapped' => p.id = packet_id + 1 /\ packet_id' = p.id
            /\ delivered' = delivered
        BY <1>4 DEF Adds
    <2>2. /\ Len(r) = Len(q) + 1 /\ \A j \in 1..Len(q) : r[j] = q[j]
          /\ r[Len(q) + 1].packet.qos > 0 => r[Len(q) + 1].packet.id = n + 1 /\ k = n + 1
        BY <1>0, <2>1
    <2>3. /\ Ids(q, n) => Ids(r, k)
          /\ \A b \in ToBroker : Sound(b, q, n) => Sound(b, r, k)
          /\ \A x \in Nat : \A d : Known(x, q, n, d) => Known(x, r, k, d)
        BY <1>1, <2>2, MoreKeeps
    <2> QED
        BY <1>0, <2>1, <2>3
<1> QED
    BY <1>2, <1>3, <1>4, QueueShape

LEMMA IdStep ==
    ASSUME TypeInv, TypeInv', QueueInv, IdInv, Effect
    PROVE  IdInv'
<1> SUFFICES ASSUME ~wrapped' PROVE IdInv'
    BY DEF IdInv
<1>1. ~wrapped /\ packet_id <= packet_id' /\ packet_id \in Nat /\ packet_id' \in Nat
    BY Unwrapped
<1>2. /\ Ids(in_progress, packet_id)
      /\ \A t \in 1..Len(tx) : Sound(tx[t], in_progress, packet_id)
      /\ \A x \in Answered \cup TakenIds : Known(x, in_progress, packet_id, delivered)
      /\ Len(in_progress) > 0 /\ in_progress[1].wait = "PUBCOMP" => Contains(delivered, in_progress[1].packet.m)
    BY <1>1 DEF IdInv
<1>3. \A m : Contains(delivered, m) => Contains(delivered', m)
    BY DeliveredGrows
<1>4. /\ Ids(in_progress, packet_id) => Ids(in_progress', packet_id')
      /\ \A p \in ToBroker : Sound(p, in_progress, packet_id) => Sound(p, in_progress', packet_id')
      /\ \A x \in Nat : Known(x, in_progress, packet_id, delivered) => Known(x, in_progress', packet_id', delivered')
    BY <1>3, IdsKeep
<1>5. Ids(in_progress', packet_id')
    BY <1>2, <1>4
<1>6. QueueType(in_progress) /\ QueueType(in_progress')
    BY DEF TypeInv
<1>10. \A i \in 1..Len(tx) : tx[i] \in ToBroker
    <2>1. tx \in Seq(ToBroker)
        BY DEF TypeInv
    <2> QED
        BY <2>1
<1>7. ASSUME NEW t \in 1..Len(tx') PROVE Sound(tx'[t], in_progress', packet_id')
    <2>1. CASE ~OfPublication(tx'[t])
        BY <2>1 DEF OfPublication, Sound
    <2>2. CASE \E s \in 1..Len(tx) : tx'[t] = tx[s]
        <3>1. PICK s \in 1..Len(tx) : tx'[t] = tx[s]
            BY <2>2
        <3>2. tx[s] \in ToBroker
            BY <1>10
        <3> QED
            BY <1>2, <1>4, <3>1, <3>2
    <2>3. CASE Releases /\ tx'[t] = Packet("PUBREL", in_progress[1].packet.id)
        <3>1. /\ in_progress # <<>>
              /\ in_progress[1].wait \in {"PUBCOMP", "PUBREC"}
              /\ packet_id' = packet_id
              /\ \/ in_progress[1].wait = "PUBCOMP" /\ in_progress' = in_progress
                 \/ \E f : Changed(in_progress, f, in_progress') /\ f.wait = "PUBCOMP"
            BY <2>3 DEF Releases, AtClient
        <3>2. Len(in_progress) \in Nat /\ Len(in_progress) >= 1 /\ 1 \in 1..Len(in_progress)
            BY <1>6, <3>1, TailType
        <3>3. in_progress[1].packet.qos > 0 /\ in_progress[1].packet.id \in Nat
            <4>1. Apt(in_progress[1]) /\ in_progress[1].packet.qos \in 0..2 /\ in_progress[1].packet.id \in Nat
                BY <1>6, <3>2, PacketNumbers
            <4>2. in_progress[1].wait # Reserved
                BY <3>1 DEF Reserved
            <4> QED
                BY <4>1, <4>2 DEF Apt
        <3>4. in_progress[1].packet.id <= packet_id
            BY <1>2, <3>2, <3>3 DEF Ids
        <3>5. /\ in_progress'[1].wait = "PUBCOMP" /\ Len(in_progress') = Len(in_progress)
              /\ Alike(in_progress'[1], in_progress[1])
            <4>1. CASE in_progress[1].wait = "PUBCOMP" /\ in_progress' = in_progress
                BY <4>1 DEF Alike
            <4>2. CASE \E f : Changed(in_progress, f, in_progress') /\ f.wait = "PUBCOMP"
                <5>1. PICK f : Changed(in_progress, f, in_progress') /\ f.wait = "PUBCOMP"
                    BY <4>2
                <5>2. PICK q, r : q = in_progress /\ r = in_progress'
                    OBVIOUS
                <5>3. QueueType(q) /\ Changed(q, f, r)
                    BY <1>6, <5>1, <5>2
                <5>4. r[1] = f /\ Len(r) = Len(q) /\ \A j \in 1..Len(q) : Alike(r[j], q[j])
                    BY <5>3, ChangedFacts
                <5> QED
                    BY <3>2, <5>1, <5>2, <5>4
            <4> QED
                BY <3>1, <4>1, <4>2
        <3>6. in_progress'[1].packet.id = in_progress[1].packet.id /\ in_progress'[1].packet.qos > 0
            BY <3>3, <3>5 DEF Alike
        <3>7. ASSUME NEW j \in 1..Len(in_progress'), in_progress'[j].packet.qos > 0,
                     in_progress'[j].packet.id = in_progress[1].packet.id
              PROVE  j = 1
            <4>1. 1 \in 1..Len(in_progress')
                BY <3>2, <3>5
            <4> QED
                BY <1>5, <3>6, <3>7, <4>1 DEF Ids
        <3>8. PICK p : p = Packet("PUBREL", in_progress[1].packet.id)
            OBVIOUS
        <3>9. p.type = "PUBREL" /\ p.id = in_progress[1].packet.id
            BY <3>3, <3>8, RelSent
        <3>10. Sound(p, in_progress', packet_id')
            BY <3>1, <3>4, <3>5, <3>7, <3>9 DEF Sound
        <3> QED
            BY <2>3, <3>8, <3>10
    <2>4. CASE Sends /\ tx'[t] = in_progress[1].packet
        <3>1. in_progress # <<>>
            BY <2>4 DEF Sends
        <3>2. Len(in_progress) \in Nat /\ Len(in_progress) >= 1 /\ 1 \in 1..Len(in_progress)
            BY <1>6, <3>1, TailType
        <3>3. PICK p \in Publishes : p = in_progress[1].packet
            BY <3>1, HeadFacts
        <3>4. p.type = "PUBLISH" /\ p \in ToBroker
            BY DEF Publishes, ToBroker
        <3>5. ASSUME p.qos > 0
              PROVE  /\ p.id <= packet_id
                     /\ \A j \in 1..Len(in_progress) :
                            in_progress[j].packet.qos > 0 /\ in_progress[j].packet.id = p.id
                                => in_progress[j].packet.m = p.m
            BY <1>2, <3>2, <3>3, <3>5 DEF Ids
        <3>6. Sound(p, in_progress, packet_id)
            BY <3>4, <3>5 DEF Sound
        <3> QED
            BY <1>4, <2>4, <3>3, <3>4, <3>6
    <2> QED
        BY <2>1, <2>2, <2>3, <2>4, SendShape
<1>8. ASSUME NEW x \in Answered' \cup TakenIds' PROVE Known(x, in_progress', packet_id', delivered')
    <2>0. Answered \cup TakenIds \subseteq Nat
        BY DEF Answered, TakenIds, TypeInv, BrokerType
    <2>1. CASE x \in Answered \cup TakenIds
        BY <1>2, <1>4, <2>0, <2>1
    <2>2. CASE Delivers /\ x \notin Answered \cup TakenIds
        <3>1. PICK p \in Publishes :
                /\ tx # <<>> /\ p = tx[1]
                /\ Answered' \subseteq Answered \cup (IF p.qos > 0 THEN {p.id} ELSE {})
                /\ TakenIds' = IF p.qos = 2 THEN TakenIds \cup {p.id} ELSE TakenIds
                /\ delivered' = IF p.qos = 2 /\ p.id \in TakenIds THEN delivered ELSE Append(delivered, p.m)
                /\ UNCHANGED <<in_progress, packet_id>>
            BY <2>2 DEF Delivers
        <3>2. p.qos \in 0..2 /\ p.id \in Nat /\ p.m \in Messages /\ p.type = "PUBLISH"
            BY DEF Publishes, Qualities
        <3>3. x = p.id /\ p.qos > 0 /\ p.id \notin TakenIds
            BY <1>8, <2>2, <3>1, <3>2
        <3>4. Sound(p, in_progress, packet_id)
            <4>1. 1 \in 1..Len(tx)
                BY <3>1, TxTail
            <4> QED
                BY <1>2, <3>1, <4>1
        <3>5. delivered' = Append(delivered, p.m)
            BY <3>1, <3>3
        <3>6. Contains(delivered', p.m)
            <4>1. delivered \in Seq(Messages)
                BY DEF TypeInv
            <4>2. Len(delivered') = Len(delivered) + 1 /\ Len(delivered) \in Nat /\ delivered'[Len(delivered) + 1] = p.m
                BY <3>2, <3>5, <4>1, AppendFacts
            <4>3. Len(delivered) + 1 \in 1..Len(delivered')
                BY <4>2
            <4> QED
                BY <4>2, <4>3 DEF Contains
        <3> QED
            BY <3>1, <3>2, <3>3, <3>4, <3>6 DEF Known, Sound
    <2>3. CASE Ends /\ x \notin Answered \cup TakenIds
        <3>1. /\ tx # <<>> /\ tx[1].type = "PUBREL"
              /\ Answered' \subseteq Answered \cup {tx[1].id}
              /\ TakenIds' = TakenIds \ {tx[1].id}
              /\ UNCHANGED <<in_progress, packet_id, delivered>>
            BY <2>3 DEF Ends
        <3>2. x = tx[1].id
            BY <1>8, <2>3, <3>1
        <3>3. Sound(tx[1], in_progress, packet_id)
            <4>1. 1 \in 1..Len(tx)
                BY <3>1, TxTail
            <4> QED
                BY <1>2, <4>1
        <3>4. Len(in_progress) \in Nat
            BY <1>6, PacketNumbers
        <3>5. ASSUME NEW j \in 1..Len(in_progress), in_progress[j].packet.qos > 0, in_progress[j].packet.id = x
              PROVE  Contains(delivered, in_progress[j].packet.m)
            <4>1. j = 1 /\ in_progress[1].wait = "PUBCOMP"
                BY <3>1, <3>2, <3>3, <3>5 DEF Sound
            <4>2. Len(in_progress) > 0
                BY <3>4, <3>5
            <4> QED
                BY <1>2, <4>1, <4>2
        <3>6. x <= packet_id
            BY <3>1, <3>2, <3>3 DEF Sound
        <3> QED
            BY <3>1, <3>5, <3>6 DEF Known
    <2>4. ASSUME ~Delivers, ~Ends PROVE Answered' \subseteq Answered /\ TakenIds' \subseteq TakenIds
        BY <2>4 DEF Effect, Idles, Adds, Pops, Repeats, Releases, Sends, AtClient, TakenIds
    <2> QED
        BY <1>8, <2>1, <2>2, <2>3, <2>4
<1>9. ASSUME Len(in_progress') > 0, in_progress'[1].wait = "PUBCOMP"
      PROVE  Contains(delivered', in_progress'[1].packet.m)
    <2>1. CASE SameQueue /\ ~Releases
        <3>1. /\ Len(in_progress) = Len(in_progress') /\ Len(in_progress) \in Nat
              /\ Alike(in_progress'[1], in_progress[1])
            <4>1. Len(in_progress) = Len(in_progress') /\ Len(in_progress) \in Nat
                BY <1>6, <2>1, PacketNumbers DEF SameQueue
            <4>2. 1 \in 1..Len(in_progress)
                BY <1>9, <4>1
            <4> QED
                BY <2>1, <4>1, <4>2 DEF SameQueue
        <3>2. in_progress[1].wait = "PUBCOMP"
            <4>1. ASSUME NEW f, Changed(in_progress, f, in_progress') PROVE in_progress'[1] = f
                BY <1>6, <4>1, ChangedFacts
            <4>2. CASE Idles
                BY <1>9, <4>1, <4>2 DEF Idles, SameWait
            <4>3. CASE Repeats
                BY <1>9, <4>1, <4>3 DEF Repeats, Reserved
            <4>4. CASE Sends
                <5>1. CASE \E f : Changed(in_progress, f, in_progress') /\ f.wait \in {"PUBACK", "PUBREC"}
                    BY <1>9, <4>1, <5>1
                <5>2. CASE in_progress # <<>> /\ in_progress' = Tail(in_progress)
                    BY <1>6, <3>1, <5>2, TailType
                <5> QED
                    BY <4>4, <5>1, <5>2 DEF Sends
            <4>5. CASE Delivers \/ Ends
                BY <1>9, <4>5 DEF Delivers, Ends
            <4>6. CASE Adds
                BY <3>1, <4>6 DEF Adds
            <4>7. CASE Pops
                BY <1>6, <3>1, <4>7, TailType DEF Pops
            <4> QED
                BY <2>1, <4>2, <4>3, <4>4, <4>5, <4>6, <4>7 DEF Effect
        <3>3. Contains(delivered, in_progress[1].packet.m)
            BY <1>2, <1>9, <3>1, <3>2
        <3> QED
            BY <1>3, <3>1, <3>3 DEF Alike
    <2>2. CASE Releases
        <3>1. /\ in_progress # <<>>
              /\ \/ in_progress[1].wait = "PUBCOMP" /\ in_progress' = in_progress
                 \/ /\ in_progress[1].wait = "PUBREC" /\ in_progress[1].packet.id \in Answered
                    /\ \E f : Changed(in_progress, f, in_progress')
            BY <2>2 DEF Releases
        <3>2. CASE in_progress[1].wait = "PUBCOMP" /\ in_progress' = in_progress
            BY <1>2, <1>3, <1>9, <3>2
        <3>3. CASE /\ in_progress[1].wait = "PUBREC" /\ in_progress[1].packet.id \in Answered
                   /\ \E f : Changed(in_progress, f, in_progress')
            <4>1. 1 \in 1..Len(in_progress)
                BY <1>6, <3>1, TailType
            <4>2. in_progress[1].packet.qos > 0
                <5>1. Apt(in_progress[1]) /\ in_progress[1].packet.qos \in 0..2
                    BY <1>6, <4>1, PacketNumbers
                <5> QED
                    BY <3>3, <5>1 DEF Apt, Reserved
            <4>3. Contains(delivered, in_progress[1].packet.m)
                BY <1>2, <3>3, <4>1, <4>2 DEF Known
            <4>4. PICK f : Changed(in_progress, f, in_progress')
                BY <3>3
            <4>5. in_progress'[1].packet.m = in_progress[1].packet.m
                BY <4>1, <4>4, <1>6, ChangedFacts DEF Alike
            <4> QED
                BY <1>3, <4>3, <4>5
        <3> QED
            BY <3>1, <3>2, <3>3
    <2>3. CASE ShorterQueue
        <3>1. in_progress # <<>> /\ in_progress' = Tail(in_progress)
            BY <2>3 DEF ShorterQueue
        <3>2. /\ Len(in_progress') = Len(in_progress) - 1 /\ Len(in_progress) \in Nat
              /\ \A j \in 1..(Len(in_progress) - 1) : in_progress'[j] = in_progress[j + 1]
            BY <1>6, <3>1, TailType
        <3>3. in_progress'[1] = in_progress[2] /\ 2 \in 1..Len(in_progress)
            BY <1>9, <3>2
        <3>4. in_progress[2].wait = Reserved
            BY <3>3 DEF QueueInv
        <3> QED
            BY <1>9, <3>3, <3>4 DEF Reserved
    <2>4. CASE Adds
        <3>1. /\ \A j \in 1..Len(in_progress) : in_progress'[j] = in_progress[j]
              /\ in_progress'[Len(in_progress) + 1].wait = Reserved
              /\ Len(in_progress') = Len(in_progress) + 1
            BY <2>4 DEF Adds
        <3>2. Len(in_progress) \in Nat
            BY <1>6, PacketNumbers
        <3>3. Len(in_progress) # 0
            BY <1>9, <3>1 DEF Reserved
        <3>4. in_progress'[1] = in_progress[1] /\ Len(in_progress) > 0
            BY <3>1, <3>2, <3>3
        <3> QED
            BY <1>2, <1>3, <1>9, <3>4
    <2> QED
        BY <2>1, <2>2, <2>3, <2>4, QueueShape
<1> QED
    BY <1>5, <1>7, <1>8, <1>9 DEF IdInv

\* What has left the queue is accounted for.
AccountInv ==
    ~wrapped => \A i \in 1..Base :
                    QoSOf[accepted[i]] = 0 \/ accepted[i] \in dropped \/ Contains(delivered, accepted[i])

LEMMA AccountStep ==
    ASSUME TypeInv, TypeInv', QueueInv, IdInv, AccountInv, Effect
    PROVE  AccountInv'
<1> SUFFICES ASSUME ~wrapped', NEW i \in 1..Base'
             PROVE  QoSOf[accepted'[i]] = 0 \/ accepted'[i] \in dropped' \/ Contains(delivered', accepted'[i])
    BY DEF AccountInv
<1>1. ~wrapped
    BY Unwrapped
<1>2. Base \in Nat /\ Len(in_progress) \in Nat /\ Len(accepted) \in Nat /\ Len(accepted) = Base + Len(in_progress)
    BY BaseFacts
<1>3. \A m : Contains(delivered, m) => Contains(delivered', m)
    BY DeliveredGrows
<1>4. dropped \subseteq dropped'
    BY DEF Effect, Idles, Adds, Pops, Repeats, Releases, Sends, Delivers, Ends
<1>5. CASE i \in 1..Base
    <2>1. QoSOf[accepted[i]] = 0 \/ accepted[i] \in dropped \/ Contains(delivered, accepted[i])
        BY <1>1, <1>5 DEF AccountInv
    <2>2. accepted'[i] = accepted[i]
        <3>1. CASE Adds
            <4>1. i \in 1..Len(accepted)
                BY <1>2, <1>5
            <4> QED
                BY <3>1, <4>1, BaseMoves
        <3>2. CASE ~Adds
            BY <3>2, QueueShape DEF SameQueue, ShorterQueue
        <3> QED
            BY <3>1, <3>2
    <2> QED
        BY <1>3, <1>4, <2>1, <2>2
<1>6. CASE i \notin 1..Base
    <2>1. ShorterQueue /\ (Pops \/ Sends) /\ i = Base + 1
        <3>1. CASE SameQueue \/ Adds
            BY <1>6, <3>1, BaseMoves
        <3>2. CASE (Pops \/ Sends) /\ ShorterQueue
            BY <1>2, <1>6, <3>2, BaseMoves
        <3> QED
            BY <3>1, <3>2, QueueShape
    <2>2. in_progress # <<>> /\ accepted' = accepted
        BY <2>1 DEF ShorterQueue
    <2>3. 1 \in 1..Len(in_progress)
        BY <2>2, TailType DEF TypeInv
    <2>4. accepted[i] = in_progress[1].packet.m
        BY <2>1, <2>3 DEF QueueInv
    <2>5. /\ Apt(in_progress[1]) /\ in_progress[1].packet.qos \in 0..2
        BY <2>3, PacketNumbers DEF TypeInv
    <2>6. in_progress[1].packet.qos = QoSOf[accepted[i]]
        BY <2>4, <2>5 DEF Apt
    <2>7. CASE in_progress[1].packet.qos = 0
        BY <2>2, <2>6, <2>7
    <2>8. CASE in_progress[1].packet.qos > 0
        <3>1. CASE Sends
            <4>1. \E f : Changed(in_progress, f, in_progress')
                BY <2>8, <3>1 DEF Sends
            <4>2. Len(in_progress') = Len(in_progress)
                BY <4>1, ChangedFacts DEF TypeInv
            <4>3. Len(in_progress') = Len(in_progress) - 1
                BY <2>1, TailType DEF ShorterQueue, TypeInv
            <4> QED
                BY <1>2, <4>2, <4>3
        <3>2. CASE Pops
            <4>1. \/ dropped' = dropped \cup {in_progress[1].packet.m}
                  \/ in_progress[1].packet.id \in Answered
                BY <3>2 DEF Pops
            <4>2. CASE dropped' = dropped \cup {in_progress[1].packet.m}
                BY <2>2, <2>4, <4>2
            <4>3. CASE in_progress[1].packet.id \in Answered
                <5>1. Known(in_progress[1].packet.id, in_progress, packet_id, delivered)
                    BY <1>1, <4>3 DEF IdInv
                <5>2. Contains(delivered, in_progress[1].packet.m)
                    BY <2>3, <2>8, <5>1 DEF Known
                <5> QED
                    BY <1>3, <2>2, <2>4, <5>2
            <4> QED
                BY <4>1, <4>2, <4>3
        <3> QED
            BY <2>1, <3>1, <3>2
    <2> QED
        BY <2>5, <2>7, <2>8
<1> QED
    BY <1>5, <1>6

-----------------------------------------------------------------------------
(* The line: what the broker has handed on, and behind it the messages in  *)
(* the send buffer.  Every one of them has a place among the accepted      *)
(* messages, and the places never go down.                                 *)

Real(k) == /\ k \in 1..(Len(delivered) + Len(tx))
           /\ k > Len(delivered) => tx[k - Len(delivered)].type = "PUBLISH"
At(k) == tx[k - Len(delivered)]
Msg(k) == IF k <= Len(delivered) THEN delivered[k] ELSE At(k).m

\* The two parts of the line.
Handed(k) == k \in 1..Len(delivered)
Waiting(k) == Real(k) /\ k > Len(delivered)

Placed(w) == \A k \in Nat : Real(k) => w[k] \in 1..Len(accepted) /\ accepted[w[k]] = Msg(k) /\ w[k] <= Base + 1
Upward(w) == \A k, l \in Nat : Real(k) /\ Real(l) /\ k < l => w[k] <= w[l]
Strictly(w) == \A k, l \in Nat : Real(k) /\ Real(l) /\ k < l => w[k] < w[l]
Below(w) == \A k \in Nat : Real(k) => w[k] <= Base

\* A new line is part of the old one: its item k is the item e[k] of the old one.
Follows(e) ==
    /\ \A k \in Nat : Real(k)' =>
           /\ Real(e[k]) /\ Msg(k)' = Msg(e[k])
           /\ k > Len(delivered') => e[k] > Len(delivered) /\ At(k)' = At(e[k])
           /\ k <= Len(delivered') => e[k] = k /\ (k <= Len(delivered) \/ (Delivers /\ k = Len(delivered) + 1))
    /\ \A k, l \in Nat : Real(k)' /\ Real(l)' /\ k < l => e[k] < e[l]

LEMMA LineNumbers ==
    ASSUME TypeInv
    PROVE  Len(delivered) \in Nat /\ Len(tx) \in Nat /\ Len(accepted) \in Nat
BY DEF TypeInv

LEMMA FollowsSame ==
    ASSUME TypeInv, TypeInv', delivered' = delivered,
           \A t \in 1..Len(tx') : tx'[t].type = "PUBLISH" => t \in 1..Len(tx) /\ tx'[t] = tx[t]
    PROVE  \E e : Follows(e)
<1>1. Len(delivered) \in Nat /\ Len(tx) \in Nat /\ Len(tx') \in Nat
    BY LineNumbers DEF TypeInv
<1>2. PICK e : e = [k \in Nat |-> k]
    OBVIOUS
<1>3. ASSUME NEW k \in Nat, Real(k)'
      PROVE  /\ Real(e[k]) /\ Msg(k)' = Msg(e[k])
             /\ k > Len(delivered') => e[k] > Len(delivered) /\ At(k)' = At(e[k])
             /\ k <= Len(delivered') => e[k] = k /\ k <= Len(delivered)
    <2>1. e[k] = k
        BY <1>2
    <2>2. CASE k <= Len(delivered)
        <3>1. Real(k)
            BY <1>1, <1>3, <2>2 DEF Real
        <3>2. Msg(k)' = Msg(k)
            BY <2>2 DEF Msg
        <3> QED
            BY <1>1, <2>1, <2>2, <3>1, <3>2
    <2>3. CASE k > Len(delivered)
        <3>1. PICK t \in Nat : t = k - Len(delivered)
            BY <1>3, <1>1, <2>3
        <3>2. t \in 1..Len(tx') /\ tx'[t].type = "PUBLISH"
            BY <1>1, <1>3, <2>3, <3>1 DEF Real
        <3>3. t \in 1..Len(tx) /\ tx'[t] = tx[t]
            BY <3>2
        <3>4. At(k)' = tx'[t] /\ At(k) = tx[t]
            BY <3>1 DEF At
        <3>5. Real(k)
            BY <1>3, <1>1, <2>3, <3>1, <3>2, <3>3 DEF Real
        <3>6. ~(k <= Len(delivered))
            BY <1>1, <2>3
        <3>7. Msg(k)' = Msg(k)
            BY <3>3, <3>4, <3>6 DEF Msg
        <3> QED
            BY <2>1, <2>3, <3>3, <3>4, <3>5, <3>6, <3>7
    <2> QED
        BY <1>1, <2>2, <2>3
<1>4. \A k, l \in Nat : k < l => e[k] < e[l]
    BY <1>2
<1>5. Follows(e)
    BY <1>3, <1>4 DEF Follows
<1> QED
    BY <1>5

LEMMA FollowsTail ==
    ASSUME TypeInv, TypeInv', delivered' = delivered, tx # <<>>, tx' = Tail(tx)
    PROVE  \E e : Follows(e)
<1>1. Len(delivered) \in Nat
    BY LineNumbers
<1>2. /\ Len(tx') = Len(tx) - 1 /\ Len(tx) \in Nat /\ Len(tx) >= 1
      /\ \A i \in 1..(Len(tx) - 1) : tx'[i] = tx[i + 1]
    BY TxTail
<1>3. PICK e : e = [k \in Nat |-> IF k <= Len(delivered) THEN k ELSE k + 1]
    OBVIOUS
<1>4. ASSUME NEW k \in Nat, Real(k)'
      PROVE  /\ Real(e[k]) /\ Msg(k)' = Msg(e[k])
             /\ k > Len(delivered') => e[k] > Len(delivered) /\ At(k)' = At(e[k])
             /\ k <= Len(delivered') => e[k] = k /\ k <= Len(delivered)
    <2>1. CASE k <= Len(delivered)
        <3>1. e[k] = k
            BY <1>3, <2>1
        <3>2. Real(k)
            BY <1>1, <1>2, <1>4, <2>1 DEF Real
        <3>3. Msg(k)' = Msg(k)
            BY <2>1 DEF Msg
        <3> QED
            BY <1>1, <2>1, <3>1, <3>2, <3>3
    <2>2. CASE k > Len(delivered)
        <3>0. e[k] = k + 1
            BY <1>1, <1>3, <2>2
        <3>1. PICK t \in Nat : t = k - Len(delivered)
            BY <1>4, <1>1, <2>2
        <3>2. t \in 1..Len(tx') /\ tx'[t].type = "PUBLISH"
            BY <1>1, <1>2, <1>4, <2>2, <3>1 DEF Real
        <3>3. t + 1 \in 1..Len(tx) /\ tx'[t] = tx[t + 1] /\ k + 1 - Len(delivered) = t + 1
            BY <1>1, <1>2, <3>1, <3>2
        <3>4. At(k)' = tx'[t] /\ At(k + 1) = tx[t + 1]
            BY <3>1, <3>3 DEF At
        <3>5. Real(k + 1)
            <4>1. k + 1 \in 1..(Len(delivered) + Len(tx))
                BY <1>1, <1>2, <3>1, <3>3
            <4> QED
                BY <1>4, <3>2, <3>3, <4>1 DEF Real
        <3>6. ~(k <= Len(delivered)) /\ ~(k + 1 <= Len(delivered)) /\ k + 1 > Len(delivered)
            BY <1>4, <1>1, <2>2
        <3>7. Msg(k)' = Msg(k + 1)
            BY <3>3, <3>4, <3>6 DEF Msg
        <3> QED
            BY <2>2, <3>0, <3>3, <3>4, <3>5, <3>6, <3>7
    <2> QED
        BY <1>1, <2>1, <2>2
<1>5. \A k, l \in Nat : k < l => e[k] < e[l]
    BY <1>1, <1>3
<1>6. Follows(e)
    BY <1>4, <1>5 DEF Follows
<1> QED
    BY <1>6

\* The broker hands on the first message of the send buffer.
LEMMA FollowsDelivery ==
    ASSUME TypeInv, TypeInv', Delivers, delivered' # delivered
    PROVE  \E e : Follows(e)
<1>0. PICK p \in Publishes :
        /\ tx # <<>> /\ p = tx[1] /\ tx' = Tail(tx)
        /\ delivered' = IF p.qos = 2 /\ p.id \in TakenIds THEN delivered ELSE Append(delivered, p.m)
    BY DEF Delivers
<1>1. Len(delivered) \in Nat /\ delivered \in Seq(Messages) /\ p.m \in Messages /\ p.type = "PUBLISH"
    BY LineNumbers DEF TypeInv, Publishes
<1>2. /\ Len(tx') = Len(tx) - 1 /\ Len(tx) \in Nat /\ Len(tx) >= 1
      /\ \A i \in 1..(Len(tx) - 1) : tx'[i] = tx[i + 1]
    BY <1>0, TxTail
<1>3. delivered' = Append(delivered, p.m)
    BY <1>0
<1>4. /\ Len(delivered') = Len(delivered) + 1 /\ delivered'[Len(delivered) + 1] = p.m
      /\ \A i \in 1..Len(delivered) : delivered'[i] = delivered[i]
    BY <1>1, <1>3, AppendFacts
<1>5. PICK e : e = [k \in Nat |-> k]
    OBVIOUS
<1>6. ASSUME NEW k \in Nat, Real(k)'
      PROVE  /\ Real(e[k]) /\ Msg(k)' = Msg(e[k])
             /\ k > Len(delivered') => e[k] > Len(delivered) /\ At(k)' = At(e[k])
             /\ k <= Len(delivered') => e[k] = k /\ (k <= Len(delivered) \/ k = Len(delivered) + 1)
    <2>0. e[k] = k /\ k >= 1
        BY <1>1, <1>2, <1>4, <1>5, <1>6 DEF Real
    <2>1. CASE k <= Len(delivered)
        <3>1. Real(k)
            BY <1>6, <1>1, <1>2, <2>0, <2>1 DEF Real
        <3>2. k <= Len(delivered') /\ k \in 1..Len(delivered) /\ ~(k > Len(delivered'))
            BY <1>1, <1>4, <2>0, <2>1
        <3>3. Msg(k)' = Msg(k)
            BY <1>4, <2>1, <3>2 DEF Msg
        <3> QED
            BY <2>0, <2>1, <3>1, <3>2, <3>3
    <2>2. CASE k = Len(delivered) + 1
        <3>1. k - Len(delivered) = 1 /\ ~(k <= Len(delivered)) /\ k <= Len(delivered') /\ ~(k > Len(delivered'))
            BY <1>1, <1>4, <2>2
        <3>2. At(k) = p
            BY <1>0, <3>1 DEF At
        <3>3. k \in 1..(Len(delivered) + Len(tx)) /\ tx[k - Len(delivered)].type = "PUBLISH"
            BY <1>0, <1>1, <1>2, <2>2, <3>1
        <3>4. Real(k)
            BY <3>3 DEF Real
        <3>5. Msg(k)' = Msg(k)
            BY <1>4, <2>2, <3>1, <3>2 DEF Msg
        <3> QED
            BY <2>0, <2>2, <3>1, <3>4, <3>5
    <2>3. CASE k > Len(delivered) + 1
        <3>1. PICK t \in Nat : t = k - Len(delivered')
            <4>1. Len(delivered') \in Nat /\ k >= Len(delivered')
                BY <1>6, <1>1, <1>4, <2>3
            <4> QED
                BY <1>6, <4>1
        <3>2. t \in 1..Len(tx') /\ tx'[t].type = "PUBLISH" /\ k > Len(delivered')
            <4>1. k > Len(delivered') /\ t >= 1
                BY <1>1, <1>4, <2>3, <3>1
            <4>2. k \in 1..(Len(delivered') + Len(tx')) /\ tx'[t].type = "PUBLISH"
                BY <1>6, <3>1, <4>1 DEF Real
            <4>3. t <= Len(tx')
                BY <1>1, <1>2, <1>4, <3>1, <4>2
            <4> QED
                BY <1>2, <4>1, <4>2, <4>3
        <3>3. t + 1 \in 1..Len(tx) /\ tx'[t] = tx[t + 1] /\ k - Len(delivered) = t + 1
            BY <1>6, <1>1, <1>2, <1>4, <3>1, <3>2
        <3>4. At(k)' = tx'[t] /\ At(k) = tx[t + 1]
            BY <3>1, <3>3 DEF At
        <3>5. Real(k)
            <4>1. k \in 1..(Len(delivered) + Len(tx))
                BY <1>1, <1>2, <3>3
            <4> QED
                BY <3>2, <3>3, <4>1 DEF Real
        <3>6. ~(k <= Len(delivered)) /\ ~(k <= Len(delivered')) /\ k > Len(delivered)
            BY <1>6, <1>1, <1>4, <2>3
        <3>7. Msg(k)' = Msg(k)
            BY <3>3, <3>4, <3>6 DEF Msg
        <3> QED
            BY <2>0, <3>2, <3>3, <3>4, <3>5, <3>6, <3>7
    <2> QED
        BY <1>1, <2>1, <2>2, <2>3
<1>7. \A k, l \in Nat : k < l => e[k] < e[l]
    BY <1>5
<1>8. Follows(e)
    BY <1>6, <1>7 DEF Follows
<1> QED
    BY <1>8

LEMMA LineFollows ==
    ASSUME TypeInv, TypeInv', Effect, ~Sends
    PROVE  \E e : Follows(e)
<1>0. tx \in Seq(ToBroker) /\ tx' \in Seq(ToBroker) /\ Len(tx) \in Nat /\ Len(tx') \in Nat
    BY TxSequences
<1>1. CASE delivered' # delivered
    <2>1. Delivers
        BY <1>1 DEF Effect, Idles, Adds, Pops, Repeats, Releases, Ends, AtClient
    <2> QED
        BY <1>1, <2>1, FollowsDelivery
<1>2. CASE delivered' = delivered /\ tx # <<>> /\ tx' = Tail(tx)
    BY <1>2, FollowsTail
<1>3. CASE delivered' = delivered /\ Extends(tx, tx')
    <2>1. ASSUME NEW t \in 1..Len(tx'), tx'[t].type = "PUBLISH" PROVE t \in 1..Len(tx) /\ tx'[t] = tx[t]
        <3>1. ~(t > Len(tx))
            BY <1>3, <2>1 DEF Extends, OfPublication
        <3>2. t \in 1..Len(tx)
            BY <1>0, <3>1
        <3> QED
            BY <1>3, <3>2 DEF Extends
    <2> QED
        BY <1>3, <2>1, FollowsSame
<1>4. CASE delivered' = delivered /\ tx' = <<>>
    <2>1. Len(<<>>) = 0
        OBVIOUS
    <2> QED
        BY <1>4, <2>1, FollowsSame
<1>5. CASE delivered' = delivered /\ tx' = tx
    BY <1>0, <1>5, FollowsSame
<1>6. CASE Releases
    <2>1. delivered' = delivered /\ in_progress # <<>>
        BY <1>6 DEF Releases, AtClient
    <2>2. PICK p : p = Packet("PUBREL", in_progress[1].packet.id)
        OBVIOUS
    <2>3. p \in ToBroker /\ p.type = "PUBREL"
        BY <2>1, <2>2, HeadFacts, RelSent
    <2>4. /\ Len(tx') = Len(tx) + 1 /\ tx'[Len(tx) + 1] = p
          /\ \A i \in 1..Len(tx) : tx'[i] = tx[i]
        BY <1>0, <1>6, <2>2, <2>3, AppendFacts DEF Releases
    <2>5. ASSUME NEW t \in 1..Len(tx'), tx'[t].type = "PUBLISH" PROVE t \in 1..Len(tx) /\ tx'[t] = tx[t]
        <3>1. t # Len(tx) + 1
            BY <2>3, <2>4, <2>5
        <3> QED
            BY <1>0, <2>4, <3>1
    <2> QED
        BY <2>1, <2>5, FollowsSame
<1> QED
    BY <1>1, <1>2, <1>3, <1>4, <1>5, <1>6 DEF Effect, Idles, Adds, Pops, Repeats, Delivers, Ends, AtClient

LEMMA LineParts ==
    ASSUME TypeInv, NEW k \in Nat
    PROVE  /\ Real(k) <=> Handed(k) \/ Waiting(k)
           /\ Handed(k) => k <= Len(delivered) /\ Msg(k) = delivered[k]
           /\ Waiting(k) => k > Len(delivered) /\ Msg(k) = At(k).m
<1>1. Len(delivered) \in Nat /\ Len(tx) \in Nat
    BY LineNumbers
<1>2. ASSUME Handed(k) PROVE k <= Len(delivered) /\ Real(k) /\ Msg(k) = delivered[k]
    <2>1. k \in 1..Len(delivered)
        BY <1>2 DEF Handed
    <2>2. k <= Len(delivered) /\ ~(k > Len(delivered)) /\ k \in 1..(Len(delivered) + Len(tx))
        BY <1>1, <2>1
    <2> QED
        BY <2>2 DEF Real, Msg
<1>3. ASSUME Waiting(k) PROVE k > Len(delivered) /\ Real(k) /\ Msg(k) = At(k).m
    <2>1. k > Len(delivered) /\ Real(k)
        BY <1>3 DEF Waiting
    <2>2. ~(k <= Len(delivered))
        BY <1>1, <2>1
    <2> QED
        BY <2>1, <2>2 DEF Msg
<1>4. ASSUME Real(k) PROVE Handed(k) \/ Waiting(k)
    <2>1. k \in 1..(Len(delivered) + Len(tx))
        BY <1>4 DEF Real
    <2>2. k > Len(delivered) \/ k \in 1..Len(delivered)
        BY <1>1, <2>1
    <2> QED
        BY <1>4, <2>2 DEF Handed, Waiting
<1> QED
    BY <1>2, <1>3, <1>4

LEMMA LinePartsNext ==
    ASSUME TypeInv', NEW k \in Nat
    PROVE  /\ Real(k)' <=> Handed(k)' \/ Waiting(k)'
           /\ Handed(k)' => k <= Len(delivered') /\ Msg(k)' = delivered'[k]
           /\ Waiting(k)' => k > Len(delivered') /\ Msg(k)' = At(k)'.m
<1>1. Len(delivered') \in Nat /\ Len(tx') \in Nat
    BY DEF TypeInv
<1>2. ASSUME Handed(k)' PROVE k <= Len(delivered') /\ Real(k)' /\ Msg(k)' = delivered'[k]
    <2>1. k \in 1..Len(delivered')
        BY <1>2 DEF Handed
    <2>2. k <= Len(delivered') /\ ~(k > Len(delivered')) /\ k \in 1..(Len(delivered') + Len(tx'))
        BY <1>1, <2>1
    <2> QED
        BY <2>2 DEF Real, Msg
<1>3. ASSUME Waiting(k)' PROVE k > Len(delivered') /\ Real(k)' /\ Msg(k)' = At(k)'.m
    <2>1. k > Len(delivered') /\ Real(k)'
        BY <1>3 DEF Waiting
    <2>2. ~(k <= Len(delivered'))
        BY <1>1, <2>1
    <2> QED
        BY <2>1, <2>2 DEF Msg
<1>4. ASSUME Real(k)' PROVE Handed(k)' \/ Waiting(k)'
    <2>1. k \in 1..(Len(delivered') + Len(tx'))
        BY <1>4 DEF Real
    <2>2. k > Len(delivered') \/ k \in 1..Len(delivered')
        BY <1>1, <2>1
    <2> QED
        BY <1>4, <2>2 DEF Handed, Waiting
<1> QED
    BY <1>2, <1>3, <1>4

\* The broker hands on the message at the place k of the line.
Fresh(k) == Delivers /\ delivered' # delivered /\ k = Len(delivered) + 1

LEMMA FollowsParts ==
    ASSUME TypeInv, TypeInv', NEW e, Follows(e)
    PROVE  /\ \A k \in Nat : Real(k)' => e[k] \in Nat /\ Real(e[k]) /\ Msg(k)' = Msg(e[k])
           /\ \A k \in Nat : Waiting(k)' => Waiting(e[k]) /\ At(k)' = At(e[k])
           /\ \A k \in Nat : Handed(k)' => e[k] = k /\ (Handed(k) \/ Fresh(k))
           /\ \A k, l \in Nat : Real(k)' /\ Real(l)' /\ k < l => e[k] < e[l]
<1>1. Len(delivered) \in Nat /\ Len(tx) \in Nat
    BY LineNumbers
<1>2. ASSUME NEW k \in Nat, Real(k)' PROVE e[k] \in Nat /\ Real(e[k]) /\ Msg(k)' = Msg(e[k])
    <2>1. Real(e[k]) /\ Msg(k)' = Msg(e[k])
        BY <1>2 DEF Follows
    <2>2. e[k] \in 1..(Len(delivered) + Len(tx))
        BY <2>1 DEF Real
    <2> QED
        BY <1>1, <2>1, <2>2
<1>3. ASSUME NEW k \in Nat, Waiting(k)' PROVE Waiting(e[k]) /\ At(k)' = At(e[k])
    <2>1. Real(k)' /\ k > Len(delivered')
        BY <1>3 DEF Waiting
    <2> QED
        BY <1>3, <2>1 DEF Follows, Waiting
<1>4. ASSUME NEW k \in Nat, Handed(k)' PROVE e[k] = k /\ (Handed(k) \/ Fresh(k))
    <2>1. Real(k)' /\ k <= Len(delivered')
        BY <1>4, LinePartsNext
    <2>2. e[k] = k /\ (k <= Len(delivered) \/ (Delivers /\ k = Len(delivered) + 1))
        BY <1>4, <2>1 DEF Follows
    <2>3. k \in 1..Len(delivered')
        BY <1>4 DEF Handed
    <2>4. CASE k <= Len(delivered)
        <3>1. k \in 1..Len(delivered)
            BY <1>1, <2>3, <2>4
        <3> QED
            BY <2>2, <3>1 DEF Handed
    <2>5. CASE Delivers /\ k = Len(delivered) + 1
        <3>1. Len(delivered') # Len(delivered)
            BY <1>1, <2>3, <2>5
        <3> QED
            BY <2>2, <2>5, <3>1 DEF Fresh
    <2> QED
        BY <2>2, <2>4, <2>5
<1>5. \A k, l \in Nat : Real(k)' /\ Real(l)' /\ k < l => e[k] < e[l]
    BY DEF Follows
<1> QED
    BY <1>2, <1>3, <1>4, <1>5

\* What was accepted is not forgotten, and the messages leave one by one.
LEMMA AcceptedGrows ==
    ASSUME TypeInv, TypeInv', QueueInv, Effect
    PROVE  /\ Base \in Nat /\ Base' \in Nat /\ Base <= Base'
           /\ Len(accepted) \in Nat /\ Len(accepted') \in Nat /\ Len(accepted) <= Len(accepted')
           /\ \A i \in 1..Len(accepted) : accepted'[i] = accepted[i]
<1>1. Base \in Nat /\ Len(in_progress) \in Nat /\ Len(accepted) \in Nat /\ Len(accepted) = Base + Len(in_progress)
    BY BaseFacts
<1>2. /\ SameQueue => Base' = Base
      /\ ShorterQueue => Base' = Base + 1
      /\ Adds => Base' = Base /\ Len(accepted') = Len(accepted) + 1 /\ Len(in_progress') = Len(in_progress) + 1
                      /\ \A i \in 1..Len(accepted) : accepted'[i] = accepted[i]
    BY BaseMoves
<1>3. CASE Adds
    BY <1>1, <1>2, <1>3
<1>4. CASE SameQueue
    <2>1. accepted' = accepted
        BY <1>4 DEF SameQueue
    <2> QED
        BY <1>1, <1>2, <1>4, <2>1
<1>5. CASE ShorterQueue
    <2>1. accepted' = accepted
        BY <1>5 DEF ShorterQueue
    <2> QED
        BY <1>1, <1>2, <1>5, <2>1
<1> QED
    BY <1>3, <1>4, <1>5, QueueShape

\* A part of the line keeps its places.
LEMMA PlacesKeep ==
    ASSUME TypeInv, TypeInv', QueueInv, Effect, NEW w, Placed(w), Upward(w), NEW e, Follows(e),
           NEW v, \A k \in Nat : v[k] = w[e[k]]
    PROVE  Placed(v)' /\ Upward(v)' /\ (Strictly(w) => Strictly(v)')
<1>1. /\ \A k \in Nat : Real(k)' => e[k] \in Nat /\ Real(e[k]) /\ Msg(k)' = Msg(e[k])
      /\ \A k, l \in Nat : Real(k)' /\ Real(l)' /\ k < l => e[k] < e[l]
    BY FollowsParts
<1>2. /\ Base \in Nat /\ Base' \in Nat /\ Base <= Base'
      /\ Len(accepted) \in Nat /\ Len(accepted') \in Nat /\ Len(accepted) <= Len(accepted')
      /\ \A i \in 1..Len(accepted) : accepted'[i] = accepted[i]
    BY AcceptedGrows
<1>3. ASSUME NEW k \in Nat, Real(k)'
      PROVE  v[k] \in 1..Len(accepted') /\ accepted'[v[k]] = Msg(k)' /\ v[k] <= Base' + 1
    <2>1. PICK j \in Nat : j = e[k] /\ Real(j) /\ Msg(k)' = Msg(j)
        BY <1>1, <1>3
    <2>2. w[j] \in 1..Len(accepted) /\ accepted[w[j]] = Msg(j) /\ w[j] <= Base + 1
        BY <2>1 DEF Placed
    <2>3. v[k] = w[j]
        BY <1>3, <2>1
    <2>4. accepted'[w[j]] = accepted[w[j]] /\ w[j] \in 1..Len(accepted') /\ w[j] <= Base' + 1
        BY <1>2, <2>2
    <2> QED
        BY <2>1, <2>2, <2>3, <2>4
<1>4. ASSUME NEW k \in Nat, NEW l \in Nat, Real(k)', Real(l)', k < l
      PROVE  v[k] <= v[l] /\ (Strictly(w) => v[k] < v[l])
    <2>1. PICK i \in Nat : i = e[k] /\ Real(i)
        BY <1>1, <1>4
    <2>2. PICK j \in Nat : j = e[l] /\ Real(j)
        BY <1>1, <1>4
    <2>3. i < j
        BY <1>1, <1>4, <2>1, <2>2
    <2>4. v[k] = w[i] /\ v[l] = w[j]
        BY <1>4, <2>1, <2>2
    <2>5. w[i] <= w[j]
        BY <2>1, <2>2, <2>3 DEF Upward
    <2>6. Strictly(w) => w[i] < w[j]
        BY <2>1, <2>2, <2>3 DEF Strictly
    <2> QED
        BY <2>4, <2>5, <2>6
<1>5. Placed(v)'
    BY <1>3 DEF Placed
<1>6. Upward(v)'
    BY <1>4 DEF Upward
<1>7. Strictly(w) => Strictly(v)'
    BY <1>4 DEF Strictly
<1> QED
    BY <1>5, <1>6, <1>7

\* A place that is the first of the queue after a step was the first before.
LEMMA FirstPlace ==
    ASSUME TypeInv, TypeInv', QueueInv, Effect, Len(in_progress') > 0,
           NEW n \in 1..Len(accepted), n <= Base + 1, n = Base' + 1
    PROVE  /\ n = Base + 1 /\ Len(in_progress) > 0 /\ (SameQueue \/ Adds)
           /\ Alike(in_progress'[1], in_progress[1])
           /\ in_progress[1].wait = "PUBCOMP" => in_progress'[1].wait = "PUBCOMP"
           /\ Adds => in_progress'[1] = in_progress[1]
<1>1. Base \in Nat /\ Len(in_progress) \in Nat /\ Len(accepted) \in Nat /\ Len(accepted) = Base + Len(in_progress)
    BY BaseFacts
<1>2. /\ SameQueue => Base' = Base
      /\ ShorterQueue => Base' = Base + 1
      /\ Adds => Base' = Base
    BY BaseMoves
<1>3. ~ShorterQueue
    BY <1>1, <1>2
<1>4. SameQueue \/ Adds
    BY <1>3, QueueShape
<1>5. n = Base + 1 /\ Len(in_progress) > 0
    BY <1>1, <1>2, <1>4
<1>6. 1 \in 1..Len(in_progress)
    BY <1>1, <1>5
<1>7. Adds => in_progress'[1] = in_progress[1]
    BY <1>6 DEF Adds
<1>8. CASE Adds
    BY <1>4, <1>5, <1>7, <1>8 DEF Alike
<1>9. CASE SameQueue
    BY <1>4, <1>5, <1>6, <1>7, <1>9 DEF SameQueue
<1> QED
    BY <1>4, <1>8, <1>9

\* Nothing but Repeats makes a message wait to be sent again.
LEMMA StillReserved ==
    ASSUME TypeInv, TypeInv', Effect, ~Repeats, ~Sends, SameQueue,
           Len(in_progress) > 0, in_progress'[1].wait = Reserved
    PROVE  in_progress[1].wait = Reserved
<1>0. QueueType(in_progress) /\ Reserved # "PUBCOMP"
    BY DEF TypeInv, Reserved
<1>1. ASSUME NEW f, Changed(in_progress, f, in_progress') PROVE in_progress'[1] = f
    BY <1>0, <1>1, ChangedFacts
<1>2. CASE Idles
    <2>1. SameWait(in_progress, in_progress')
        BY <1>2 DEF Idles
    <2> QED
        BY <1>1, <2>1 DEF SameWait
<1>3. CASE Releases
    <2>1. \/ in_progress' = in_progress
          \/ \E f : Changed(in_progress, f, in_progress') /\ f.wait = "PUBCOMP"
        BY <1>3 DEF Releases
    <2> QED
        BY <1>0, <1>1, <2>1
<1>4. CASE Delivers \/ Ends
    BY <1>4 DEF Delivers, Ends
<1>5. CASE Adds
    <2>1. Len(in_progress') = Len(in_progress) + 1 /\ Len(in_progress') = Len(in_progress) /\ Len(in_progress) \in Nat
        BY <1>5, PacketNumbers DEF Adds, SameQueue, TypeInv
    <2> QED
        BY <2>1
<1>6. CASE Pops
    <2>1. Len(in_progress') = Len(in_progress) - 1 /\ Len(in_progress') = Len(in_progress) /\ Len(in_progress) \in Nat
        BY <1>6, TailType, PacketNumbers DEF Pops, SameQueue, TypeInv
    <2> QED
        BY <2>1
<1> QED
    BY <1>2, <1>3, <1>4, <1>5, <1>6 DEF Effect

\* In a session that is not kept a message that waits to be sent is behind the line.
ReservedBehind(w) ==
    Len(in_progress) > 0 /\ in_progress[1].wait = Reserved => Below(w)

LEMMA BehindKeeps ==
    ASSUME TypeInv, TypeInv', QueueInv, Effect, ~Sends, plan.clean,
           NEW w, Placed(w), ReservedBehind(w), NEW e, Follows(e),
           NEW v, \A k \in Nat : v[k] = w[e[k]]
    PROVE  ReservedBehind(v)'
<1> SUFFICES ASSUME Len(in_progress') > 0, in_progress'[1].wait = Reserved, NEW k \in Nat, Real(k)'
             PROVE  v[k] <= Base'
    BY DEF ReservedBehind, Below
<1>1. PICK j \in Nat : j = e[k] /\ Real(j)
    BY FollowsParts
<1>2. w[j] \in 1..Len(accepted) /\ w[j] <= Base + 1 /\ v[k] = w[j]
    BY <1>1 DEF Placed
<1>3. Base \in Nat /\ Base' \in Nat /\ Base <= Base'
    BY AcceptedGrows
<1>4. PICK n \in 1..Len(accepted) : n = w[j] /\ n <= Base + 1
    BY <1>2
<1>5. n \in Nat
    BY <1>4
<1>6. CASE n <= Base'
    BY <1>2, <1>4, <1>6
<1>7. CASE n > Base'
    <2>1. n = Base' + 1
        BY <1>3, <1>4, <1>5, <1>7
    <2>2. /\ n = Base + 1 /\ Len(in_progress) > 0 /\ (SameQueue \/ Adds)
          /\ Adds => in_progress'[1] = in_progress[1]
        BY <1>4, <2>1, FirstPlace
    <2>3. in_progress[1].wait = Reserved
        <3>1. CASE Adds
            BY <2>2, <3>1
        <3>2. CASE SameQueue
            <4>1. ~Repeats
                BY DEF Repeats
            <4> QED
                BY <2>2, <3>2, <4>1, StillReserved
        <3> QED
            BY <2>2, <3>1, <3>2
    <2>4. n <= Base
        BY <1>1, <1>4, <2>2, <2>3 DEF ReservedBehind, Below
    <2> QED
        BY <1>3, <1>5, <2>2, <2>4
<1> QED
    BY <1>3, <1>5, <1>6, <1>7

-----------------------------------------------------------------------------
(* The packets of the send buffer.                                         *)

\* A message is sent with the quality it has.
SentQuality == \A t \in 1..Len(tx) : tx[t].type = "PUBLISH" => tx[t].qos = QoSOf[tx[t].m]

\* No message of quality 2 is sent behind the PUBREL that ends its exchange.
ReleaseLast ==
    ~wrapped => \A s, t \in 1..Len(tx) :
                    tx[s].type = "PUBREL" /\ tx[t].type = "PUBLISH" /\ tx[t].qos = 2 /\ tx[s].id = tx[t].id => t < s

LEMMA SentQualityStep ==
    ASSUME TypeInv, TypeInv', SentQuality, Effect
    PROVE  SentQuality'
<1> SUFFICES ASSUME NEW t \in 1..Len(tx'), tx'[t].type = "PUBLISH" PROVE tx'[t].qos = QoSOf[tx'[t].m]
    BY DEF SentQuality
<1>1. CASE \E s \in 1..Len(tx) : tx'[t] = tx[s]
    BY <1>1 DEF SentQuality
<1>2. CASE Sends /\ tx'[t] = in_progress[1].packet
    <2>1. Apt(in_progress[1])
        BY <1>2, HeadFacts DEF Sends
    <2> QED
        BY <1>2, <2>1 DEF Apt
<1>3. OfPublication(tx'[t])
    BY DEF OfPublication
<1>4. ~(Releases /\ tx'[t] = Packet("PUBREL", in_progress[1].packet.id))
    BY DEF Packet
<1> QED
    BY <1>1, <1>2, <1>3, <1>4, SendShape

LEMMA ReleaseLastStep ==
    ASSUME TypeInv, TypeInv', IdInv, ReleaseLast, Effect
    PROVE  ReleaseLast'
<1>9. tx \in Seq(ToBroker) /\ Len(tx) \in Nat /\ tx' \in Seq(ToBroker) /\ Len(tx') \in Nat
    BY TxSequences
<1> SUFFICES ASSUME ~wrapped', NEW s \in 1..Len(tx'), NEW t \in 1..Len(tx'), tx'[s].type = "PUBREL",
                    tx'[t].type = "PUBLISH", tx'[t].qos = 2, tx'[s].id = tx'[t].id
             PROVE  t < s
    BY DEF ReleaseLast
<1>0. ~wrapped
    BY Unwrapped
<1>1. tx \in Seq(ToBroker) /\ Len(tx) \in Nat /\ tx' \in Seq(ToBroker) /\ Len(tx') \in Nat /\ s \in Nat /\ t \in Nat
    BY <1>9
<1>2. ASSUME s \in 1..Len(tx), t \in 1..Len(tx), tx'[s] = tx[s], tx'[t] = tx[t] PROVE t < s
    BY <1>0, <1>2 DEF ReleaseLast
<1>3. CASE Extends(tx, tx')
    <2>1. ASSUME NEW i \in 1..Len(tx'), OfPublication(tx'[i]) PROVE i \in 1..Len(tx) /\ tx'[i] = tx[i]
        <3>1. ~(i > Len(tx))
            BY <1>3, <2>1 DEF Extends
        <3>2. i \in 1..Len(tx)
            BY <1>1, <3>1
        <3> QED
            BY <1>3, <3>2 DEF Extends
    <2> QED
        BY <1>2, <2>1 DEF OfPublication
<1>4. CASE tx' = <<>>
    <2>1. Len(<<>>) = 0
        OBVIOUS
    <2> QED
        BY <1>4, <2>1
<1>5. CASE tx # <<>> /\ tx' = Tail(tx)
    <2>1. /\ s + 1 \in 1..Len(tx) /\ tx'[s] = tx[s + 1]
          /\ t + 1 \in 1..Len(tx) /\ tx'[t] = tx[t + 1]
        BY <1>5, TxTail
    <2>2. t + 1 < s + 1
        BY <1>0, <2>1 DEF ReleaseLast
    <2> QED
        BY <1>1, <2>2
<1>6. CASE tx' = tx
    BY <1>2, <1>6
<1>7. CASE Releases
    <2>1. PICK p : p = Packet("PUBREL", in_progress[1].packet.id)
        OBVIOUS
    <2>2. p \in ToBroker /\ p.type = "PUBREL"
        BY <1>7, <2>1, HeadFacts, RelSent DEF Releases
    <2>3. /\ Len(tx') = Len(tx) + 1 /\ tx'[Len(tx) + 1] = p
          /\ \A i \in 1..Len(tx) : tx'[i] = tx[i]
        BY <1>1, <1>7, <2>1, <2>2, AppendFacts DEF Releases
    <2>4. t # Len(tx) + 1
        BY <2>2, <2>3
    <2>5. t \in 1..Len(tx)
        BY <1>1, <2>3, <2>4
    <2>6. CASE s \in 1..Len(tx)
        BY <1>2, <2>3, <2>5, <2>6
    <2>7. CASE s = Len(tx) + 1
        BY <1>1, <2>5, <2>7
    <2> QED
        BY <1>1, <2>3, <2>6, <2>7
<1>8. CASE Sends
    <2>1. PICK p \in ToBroker : p = in_progress[1].packet
        BY <1>8, HeadFacts DEF Sends
    <2>2. PICK u : u = Append(tx, p)
        OBVIOUS
    <2>3. /\ Len(u) = Len(tx) + 1 /\ u[Len(tx) + 1] = p
          /\ \A i \in 1..Len(tx) : u[i] = tx[i]
        BY <1>1, <2>2, AppendFacts
    <2>4. Extends(u, tx')
        BY <1>8, <2>1, <2>2 DEF Sends
    <2>5. ASSUME NEW i \in 1..Len(tx'), OfPublication(tx'[i])
          PROVE  (i \in 1..Len(tx) /\ tx'[i] = tx[i]) \/ (i = Len(tx) + 1 /\ tx'[i] = p)
        <3>1. ~(i > Len(u))
            BY <2>4, <2>5 DEF Extends
        <3>2. i \in 1..Len(u) /\ (i \in 1..Len(tx) \/ i = Len(tx) + 1)
            BY <1>1, <2>3, <3>1
        <3>3. tx'[i] = u[i]
            BY <2>4, <3>2 DEF Extends
        <3> QED
            BY <2>3, <3>2, <3>3
    <2>6. p.type = "PUBLISH"
        BY <1>8, <2>1, HeadFacts DEF Sends, Publishes
    <2>7. s \in 1..Len(tx) /\ tx'[s] = tx[s]
        BY <2>5, <2>6 DEF OfPublication
    <2>8. CASE t \in 1..Len(tx) /\ tx'[t] = tx[t]
        BY <1>2, <2>7, <2>8
    <2>9. CASE tx'[t] = p
        <3>1. Sound(tx[s], in_progress, packet_id)
            BY <1>0, <2>7 DEF IdInv
        <3>2. in_progress # <<>> /\ in_progress[1].wait = Reserved /\ QueueType(in_progress)
            BY <1>8 DEF Sends, TypeInv
        <3>3. 1 \in 1..Len(in_progress)
            BY <3>2 DEF QueueType
        <3>4. in_progress[1].packet.qos > 0 /\ in_progress[1].packet.id = tx[s].id
            BY <2>1, <2>7, <2>9
        <3>5. in_progress[1].wait = "PUBCOMP"
            BY <2>7, <3>1, <3>3, <3>4 DEF Sound
        <3> QED
            BY <3>2, <3>5 DEF Reserved
    <2> QED
        BY <2>5, <2>8, <2>9 DEF OfPublication
<1> QED
    BY <1>3, <1>4, <1>5, <1>6, <1>7, <1>8 DEF Effect, Idles, Adds, Pops, Repeats, Delivers, Ends

-----------------------------------------------------------------------------
(* Once: in a session that is kept, a message of quality 2 may be sent     *)
(* again, and then the broker knows its identifier.                        *)

HandedOnce(w) ==
    \A k, l \in Nat : Handed(k) /\ Handed(l) /\ w[k] = w[l] /\ QoSOf[delivered[k]] = 2 => k = l
WaitingTaken(w) ==
    \A k, l \in Nat : Handed(k) /\ Waiting(l) /\ w[k] = w[l] /\ At(l).qos = 2 => At(l).id \in TakenIds
WaitingSame(w) ==
    \A k, l \in Nat : Waiting(k) /\ Waiting(l) /\ w[k] = w[l] => At(k).id = At(l).id
WaitingFirst(w) ==
    Len(in_progress) > 0 =>
        \A l \in Nat : Waiting(l) /\ w[l] = Base + 1 => At(l).id = in_progress[1].packet.id
FirstTaken(w) ==
    Len(in_progress) > 0 /\ in_progress[1].packet.qos = 2 /\ in_progress[1].wait # "PUBCOMP" =>
        \A k \in Nat : Handed(k) /\ w[k] = Base + 1 => in_progress[1].packet.id \in TakenIds

Once(w) == HandedOnce(w) /\ WaitingTaken(w) /\ WaitingSame(w) /\ WaitingFirst(w) /\ FirstTaken(w)

\* A message in the line is a packet of the send buffer.
LEMMA WaitingPacket ==
    ASSUME TypeInv, SentQuality, NEW k \in Nat, Waiting(k)
    PROVE  \E t \in 1..Len(tx) : At(k) = tx[t] /\ tx[t].type = "PUBLISH" /\ tx[t].qos = QoSOf[tx[t].m]
<1>1. Len(delivered) \in Nat /\ Len(tx) \in Nat
    BY LineNumbers
<1>2. /\ k \in 1..(Len(delivered) + Len(tx)) /\ k > Len(delivered)
      /\ tx[k - Len(delivered)].type = "PUBLISH"
    BY DEF Waiting, Real
<1>3. k - Len(delivered) \in 1..Len(tx)
    BY <1>1, <1>2
<1>4. PICK t \in 1..Len(tx) : t = k - Len(delivered)
    BY <1>3
<1>5. At(k) = tx[t] /\ tx[t].type = "PUBLISH"
    BY <1>2, <1>4 DEF At
<1> QED
    BY <1>5 DEF SentQuality

\* What is handed on was the first packet of the send buffer.
LEMMA FreshFacts ==
    ASSUME TypeInv, NEW k \in Nat, Fresh(k)
    PROVE  /\ Waiting(k) /\ At(k) = tx[1]
           /\ ~(tx[1].qos = 2 /\ tx[1].id \in TakenIds)
           /\ tx[1].qos = 2 => tx[1].id \in TakenIds'
           /\ TakenIds \subseteq TakenIds'
<1>1. Len(delivered) \in Nat
    BY LineNumbers
<1>2. PICK p \in Publishes :
        /\ tx # <<>> /\ p = tx[1]
        /\ TakenIds' = IF p.qos = 2 THEN TakenIds \cup {p.id} ELSE TakenIds
        /\ delivered' = IF p.qos = 2 /\ p.id \in TakenIds THEN delivered ELSE Append(delivered, p.m)
    BY DEF Fresh, Delivers
<1>3. delivered' # delivered /\ k = Len(delivered) + 1
    BY DEF Fresh
<1>4. Len(tx) \in Nat /\ Len(tx) >= 1
    BY <1>2, TxTail
<1>5. k - Len(delivered) = 1 /\ k \in 1..(Len(delivered) + Len(tx)) /\ k > Len(delivered)
    BY <1>1, <1>3, <1>4
<1>6. p.type = "PUBLISH"
    BY DEF Publishes
<1>7. Waiting(k) /\ At(k) = tx[1]
    BY <1>2, <1>5, <1>6 DEF Waiting, Real, At
<1>8. ~(tx[1].qos = 2 /\ tx[1].id \in TakenIds)
    BY <1>2, <1>3
<1>9. (tx[1].qos = 2 => tx[1].id \in TakenIds') /\ TakenIds \subseteq TakenIds'
    BY <1>2
<1> QED
    BY <1>7, <1>8, <1>9

\* In a session that is kept the broker forgets an identifier with its PUBREL only.
LEMMA TakenKeeps ==
    ASSUME Effect, ~plan.clean
    PROVE  \/ TakenIds \subseteq TakenIds'
           \/ Ends /\ TakenIds' = TakenIds \ {tx[1].id} /\ tx # <<>> /\ tx[1].type = "PUBREL"
<1>1. broker' = broker => TakenIds' = TakenIds
    BY DEF TakenIds
<1>2. CASE Idles
    BY <1>2 DEF Idles
<1>3. CASE Adds \/ Pops \/ Repeats \/ Releases \/ Sends
    BY <1>1, <1>3 DEF Adds, Pops, Repeats, Releases, Sends, AtClient
<1>4. CASE Delivers
    BY <1>4 DEF Delivers
<1>5. CASE Ends
    BY <1>5 DEF Ends
<1> QED
    BY <1>2, <1>3, <1>4, <1>5 DEF Effect

\* So one whose message is in the send buffer, or first in the queue, stays known.
LEMMA StaysTaken ==
    ASSUME TypeInv, Effect, ~plan.clean, ~wrapped, IdInv, ReleaseLast, NEW x \in TakenIds,
           \/ \E t \in 1..Len(tx) : tx[t].type = "PUBLISH" /\ tx[t].qos = 2 /\ tx[t].id = x
           \/ /\ Len(in_progress) > 0 /\ in_progress[1].packet.qos = 2 /\ in_progress[1].packet.id = x
              /\ in_progress[1].wait # "PUBCOMP"
    PROVE  x \in TakenIds'
<1>1. CASE TakenIds \subseteq TakenIds'
    BY <1>1
<1>2. CASE TakenIds' = TakenIds \ {tx[1].id} /\ tx # <<>> /\ tx[1].type = "PUBREL"
    <2>0. Len(tx) \in Nat /\ Len(tx) >= 1
        BY <1>2, TxTail
    <2>1. 1 \in 1..Len(tx)
        BY <2>0
    <2>2. CASE tx[1].id = x
        <3>1. ASSUME NEW t \in 1..Len(tx), tx[t].type = "PUBLISH", tx[t].qos = 2, tx[t].id = x PROVE FALSE
            <4>1. t < 1
                BY <1>2, <2>1, <2>2, <3>1 DEF ReleaseLast
            <4> QED
                BY <2>0, <4>1
        <3>2. ASSUME Len(in_progress) > 0, in_progress[1].packet.qos = 2, in_progress[1].packet.id = x,
                     in_progress[1].wait # "PUBCOMP"
              PROVE  FALSE
            <4>1. Sound(tx[1], in_progress, packet_id)
                BY <2>1 DEF IdInv
            <4>2. Len(in_progress) \in Nat
                BY PacketNumbers DEF TypeInv
            <4>3. 1 \in 1..Len(in_progress) /\ in_progress[1].packet.qos > 0
                BY <3>2, <4>2
            <4> QED
                BY <1>2, <2>2, <3>2, <4>1, <4>3 DEF Sound
        <3> QED
            BY <3>1, <3>2
    <2>3. CASE tx[1].id # x
        BY <1>2, <2>3
    <2> QED
        BY <2>2, <2>3
<1> QED
    BY <1>1, <1>2, TakenKeeps

\* Two of the line with the same place are the same message.
LEMMA SamePlace ==
    ASSUME NEW w, Placed(w), NEW k \in Nat, Real(k), NEW l \in Nat, Real(l), w[k] = w[l]
    PROVE  Msg(k) = Msg(l)
<1>1. accepted[w[k]] = Msg(k) /\ accepted[w[l]] = Msg(l)
    BY DEF Placed
<1> QED
    BY <1>1

\* A message of quality 2 that was handed on is not handed on again.
LEMMA NotAgain ==
    ASSUME TypeInv, SentQuality, NEW w, Placed(w), WaitingTaken(w),
           NEW k \in Nat, Handed(k), NEW l \in Nat, Fresh(l), w[k] = w[l]
    PROVE  QoSOf[delivered[k]] # 2
<1>1. Waiting(l) /\ At(l) = tx[1] /\ ~(tx[1].qos = 2 /\ tx[1].id \in TakenIds)
    BY FreshFacts
<1>2. Real(k) /\ Real(l) /\ Msg(k) = delivered[k] /\ Msg(l) = At(l).m
    BY <1>1, LineParts
<1>3. delivered[k] = At(l).m
    BY <1>2, SamePlace
<1>4. At(l).qos = QoSOf[At(l).m]
    BY <1>1, WaitingPacket
<1>5. At(l).qos = 2 => At(l).id \in TakenIds
    BY <1>1 DEF WaitingTaken
<1> QED
    BY <1>1, <1>3, <1>4, <1>5

LEMMA HandedOnceKeeps ==
    ASSUME TypeInv, TypeInv', SentQuality, NEW w, Placed(w), Once(w), NEW e, Follows(e),
           NEW v, \A k \in Nat : v[k] = w[e[k]]
    PROVE  HandedOnce(v)'
<1> SUFFICES ASSUME NEW k \in Nat, NEW l \in Nat, Handed(k)', Handed(l)', v[k] = v[l], QoSOf[delivered'[k]] = 2
             PROVE  k = l
    BY DEF HandedOnce
<1>1. /\ e[k] = k /\ (Handed(k) \/ Fresh(k))
      /\ e[l] = l /\ (Handed(l) \/ Fresh(l))
    BY FollowsParts
<1>2. w[k] = w[l]
    BY <1>1
<1>3. Real(k)' /\ Real(l)' /\ Msg(k)' = delivered'[k] /\ Msg(l)' = delivered'[l]
    BY LinePartsNext
<1>4. Real(k) /\ Real(l) /\ Msg(k)' = Msg(k) /\ Msg(l)' = Msg(l)
    BY <1>1, <1>3, FollowsParts
<1>5. Msg(k) = Msg(l)
    BY <1>2, <1>4, SamePlace
<1>6. CASE Handed(k) /\ Handed(l)
    <2>1. Msg(k) = delivered[k]
        BY <1>6, LineParts
    <2>2. QoSOf[delivered[k]] = 2
        BY <1>3, <1>4, <2>1
    <2> QED
        BY <1>2, <1>6, <2>2 DEF Once, HandedOnce
<1>7. CASE Handed(k) /\ Fresh(l)
    <2>1. Msg(k) = delivered[k]
        BY <1>7, LineParts
    <2>2. QoSOf[delivered[k]] # 2
        BY <1>2, <1>7, NotAgain DEF Once
    <2> QED
        BY <1>3, <1>4, <2>1, <2>2
<1>8. CASE Fresh(k) /\ Handed(l)
    <2>1. Msg(l) = delivered[l]
        BY <1>8, LineParts
    <2>2. QoSOf[delivered[l]] # 2
        BY <1>2, <1>8, NotAgain DEF Once
    <2> QED
        BY <1>3, <1>4, <1>5, <2>1, <2>2
<1>9. CASE Fresh(k) /\ Fresh(l)
    BY <1>9 DEF Fresh
<1> QED
    BY <1>1, <1>6, <1>7, <1>8, <1>9

LEMMA WaitingTakenKeeps ==
    ASSUME TypeInv, TypeInv', IdInv, SentQuality, ReleaseLast, Effect, ~plan.clean, ~wrapped,
           NEW w, Placed(w), Once(w), NEW e, Follows(e),
           NEW v, \A k \in Nat : v[k] = w[e[k]]
    PROVE  WaitingTaken(v)'
<1> SUFFICES ASSUME NEW k \in Nat, NEW l \in Nat, Handed(k)', Waiting(l)', v[k] = v[l], At(l)'.qos = 2
             PROVE  At(l)'.id \in TakenIds'
    BY DEF WaitingTaken
<1>1. e[k] = k /\ (Handed(k) \/ Fresh(k))
    BY FollowsParts
<1>2. Real(l)'
    BY LinePartsNext
<1>3. PICK j \in Nat : j = e[l]
    BY <1>2, FollowsParts
<1>4. Waiting(j) /\ At(l)' = At(j)
    BY <1>3, FollowsParts
<1>5. w[k] = w[j]
    BY <1>1, <1>3
<1>6. PICK t \in 1..Len(tx) : At(j) = tx[t] /\ tx[t].type = "PUBLISH" /\ tx[t].qos = QoSOf[tx[t].m]
    BY <1>4, WaitingPacket
<1>7. CASE Handed(k)
    <2>1. At(j).id \in TakenIds
        BY <1>4, <1>5, <1>7 DEF Once, WaitingTaken
    <2>2. tx[t].type = "PUBLISH" /\ tx[t].qos = 2 /\ tx[t].id = At(j).id
        BY <1>4, <1>6
    <2>3. At(j).id \in TakenIds'
        BY <2>1, <2>2, StaysTaken
    <2> QED
        BY <1>4, <2>3
<1>8. CASE Fresh(k)
    <2>1. Waiting(k) /\ At(k) = tx[1] /\ (tx[1].qos = 2 => tx[1].id \in TakenIds')
        BY <1>8, FreshFacts
    <2>2. At(k).id = At(j).id
        BY <1>4, <1>5, <2>1 DEF Once, WaitingSame
    <2>3. Real(k) /\ Real(j) /\ Msg(k) = At(k).m /\ Msg(j) = At(j).m
        BY <1>4, <2>1, LineParts
    <2>4. At(k).m = At(j).m
        BY <1>5, <2>3, SamePlace
    <2>5. At(k).qos = QoSOf[At(k).m]
        BY <2>1, WaitingPacket
    <2>6. At(k).qos = 2
        BY <1>4, <1>6, <2>4, <2>5
    <2> QED
        BY <1>4, <2>1, <2>2, <2>6
<1> QED
    BY <1>1, <1>7, <1>8

LEMMA WaitingSameKeeps ==
    ASSUME TypeInv, TypeInv', NEW w, Once(w), NEW e, Follows(e),
           NEW v, \A k \in Nat : v[k] = w[e[k]]
    PROVE  WaitingSame(v)'
<1> SUFFICES ASSUME NEW k \in Nat, NEW l \in Nat, Waiting(k)', Waiting(l)', v[k] = v[l]
             PROVE  At(k)'.id = At(l)'.id
    BY DEF WaitingSame
<1>1. Real(k)' /\ Real(l)'
    BY LinePartsNext
<1>2. PICK i \in Nat : i = e[k]
    BY <1>1, FollowsParts
<1>3. PICK j \in Nat : j = e[l]
    BY <1>1, FollowsParts
<1>4. Waiting(i) /\ At(k)' = At(i) /\ Waiting(j) /\ At(l)' = At(j)
    BY <1>2, <1>3, FollowsParts
<1>5. w[i] = w[j]
    BY <1>2, <1>3
<1>6. At(i).id = At(j).id
    BY <1>4, <1>5 DEF Once, WaitingSame
<1> QED
    BY <1>4, <1>6

LEMMA WaitingFirstKeeps ==
    ASSUME TypeInv, TypeInv', QueueInv, Effect, NEW w, Placed(w), Once(w), NEW e, Follows(e),
           NEW v, \A k \in Nat : v[k] = w[e[k]]
    PROVE  WaitingFirst(v)'
<1> SUFFICES ASSUME Len(in_progress') > 0, NEW l \in Nat, Waiting(l)', v[l] = Base' + 1
             PROVE  At(l)'.id = in_progress'[1].packet.id
    BY DEF WaitingFirst
<1>1. Real(l)'
    BY LinePartsNext
<1>2. PICK j \in Nat : j = e[l]
    BY <1>1, FollowsParts
<1>3. Waiting(j) /\ At(l)' = At(j)
    BY <1>2, FollowsParts
<1>4. Real(j)
    BY <1>3, LineParts
<1>5. PICK n \in 1..Len(accepted) : n = w[j] /\ n <= Base + 1
    BY <1>4 DEF Placed
<1>6. n = Base' + 1
    BY <1>2, <1>5
<1>7. n = Base + 1 /\ Len(in_progress) > 0 /\ Alike(in_progress'[1], in_progress[1])
    BY <1>5, <1>6, FirstPlace
<1>8. At(j).id = in_progress[1].packet.id
    BY <1>3, <1>5, <1>7 DEF Once, WaitingFirst
<1> QED
    BY <1>3, <1>7, <1>8 DEF Alike

LEMMA FirstTakenKeeps ==
    ASSUME TypeInv, TypeInv', QueueInv, IdInv, SentQuality, ReleaseLast, Effect, ~plan.clean, ~wrapped,
           NEW w, Placed(w), Once(w), NEW e, Follows(e),
           NEW v, \A k \in Nat : v[k] = w[e[k]]
    PROVE  FirstTaken(v)'
<1> SUFFICES ASSUME Len(in_progress') > 0, in_progress'[1].packet.qos = 2, in_progress'[1].wait # "PUBCOMP",
                    NEW k \in Nat, Handed(k)', v[k] = Base' + 1
             PROVE  in_progress'[1].packet.id \in TakenIds'
    BY DEF FirstTaken
<1>1. e[k] = k /\ (Handed(k) \/ Fresh(k))
    BY FollowsParts
<1>2. Real(k)'
    BY LinePartsNext
<1>3. Real(k)
    BY <1>1, <1>2, FollowsParts
<1>4. PICK n \in 1..Len(accepted) : n = w[k] /\ n <= Base + 1 /\ accepted[n] = Msg(k)
    BY <1>3 DEF Placed
<1>5. n = Base' + 1
    BY <1>1, <1>4
<1>6. /\ n = Base + 1 /\ Len(in_progress) > 0 /\ Alike(in_progress'[1], in_progress[1])
      /\ in_progress[1].wait = "PUBCOMP" => in_progress'[1].wait = "PUBCOMP"
    BY <1>4, <1>5, FirstPlace
<1>7. /\ in_progress'[1].packet.id = in_progress[1].packet.id
      /\ in_progress[1].packet.qos = 2 /\ in_progress[1].wait # "PUBCOMP"
    BY <1>6 DEF Alike
<1>8. CASE Handed(k)
    <2>1. in_progress[1].packet.id \in TakenIds
        BY <1>4, <1>6, <1>7, <1>8 DEF Once, FirstTaken
    <2>2. in_progress[1].packet.id \in TakenIds'
        BY <1>6, <1>7, <2>1, StaysTaken
    <2> QED
        BY <1>7, <2>2
<1>9. CASE Fresh(k)
    <2>1. Waiting(k) /\ At(k) = tx[1] /\ (tx[1].qos = 2 => tx[1].id \in TakenIds')
        BY <1>9, FreshFacts
    <2>2. At(k).id = in_progress[1].packet.id
        BY <1>4, <1>6, <2>1 DEF Once, WaitingFirst
    <2>3. Msg(k) = At(k).m
        BY <2>1, LineParts
    <2>4. Len(in_progress) \in Nat /\ QueueType(in_progress)
        BY PacketNumbers DEF TypeInv
    <2>5. 1 \in 1..Len(in_progress)
        BY <1>6, <2>4
    <2>6. accepted[Base + 1] = in_progress[1].packet.m
        BY <2>5 DEF QueueInv
    <2>7. QoSOf[in_progress[1].packet.m] = 2
        BY <1>7, <2>4, <2>5 DEF QueueType, Apt
    <2>8. At(k).qos = QoSOf[At(k).m]
        BY <2>1, WaitingPacket
    <2>9. At(k).qos = 2
        BY <1>4, <1>6, <2>3, <2>6, <2>7, <2>8
    <2> QED
        BY <1>7, <2>1, <2>2, <2>9
<1> QED
    BY <1>1, <1>8, <1>9

-----------------------------------------------------------------------------
(* Sends: the first message of the queue joins the line.                   *)

\* n is the place behind the line, where the first message is put.
Joins(n) ==
    /\ n = Len(delivered) + Len(tx) + 1
    /\ \A k \in Nat : Real(k) => k < n
    /\ Waiting(n)' /\ At(n)' = in_progress[1].packet
    /\ \A k \in Nat : Waiting(k)' /\ k # n => Waiting(k) /\ At(k)' = At(k)
    /\ \A k \in Nat : Handed(k)' => Handed(k) /\ k # n
    /\ \A k \in Nat : Real(k)' /\ k # n => Real(k) /\ Msg(k)' = Msg(k)

LEMMA SendJoins ==
    ASSUME TypeInv, TypeInv', Sends
    PROVE  \E n \in Nat : Joins(n)
<1>1. Len(delivered) \in Nat /\ Len(tx) \in Nat /\ tx \in Seq(ToBroker) /\ Len(tx') \in Nat
    BY LineNumbers DEF TypeInv
<1>2. PICK n \in Nat : n = Len(delivered) + Len(tx) + 1
    BY <1>1
<1>3. PICK p \in ToBroker : p = in_progress[1].packet /\ p.type = "PUBLISH"
    BY HeadFacts DEF Sends, Publishes
<1>4. PICK u : u = Append(tx, p)
    OBVIOUS
<1>5. /\ Len(u) = Len(tx) + 1 /\ u[Len(tx) + 1] = p
      /\ \A i \in 1..Len(tx) : u[i] = tx[i]
    BY <1>1, <1>4, AppendFacts
<1>6. Extends(u, tx') /\ delivered' = delivered
    BY <1>3, <1>4 DEF Sends, AtClient
<1>7. Len(tx) + 1 \in 1..Len(u) /\ \A i \in 1..Len(tx) : i \in 1..Len(u)
    BY <1>1, <1>5
<1>8. /\ Len(tx) + 1 <= Len(tx') /\ tx'[Len(tx) + 1] = p
      /\ \A i \in 1..Len(tx) : tx'[i] = tx[i]
      /\ \A i \in 1..Len(tx') : i > Len(tx) + 1 => ~OfPublication(tx'[i])
    BY <1>5, <1>6, <1>7 DEF Extends
<1>9. ASSUME NEW k \in Nat, Real(k) PROVE k < n
    <2>1. k \in 1..(Len(delivered) + Len(tx))
        BY <1>9 DEF Real
    <2> QED
        BY <1>1, <1>2, <2>1
<1>10. Waiting(n)' /\ At(n)' = in_progress[1].packet
    <2>1. n - Len(delivered) = Len(tx) + 1 /\ n > Len(delivered) /\ n \in 1..(Len(delivered) + Len(tx'))
        BY <1>1, <1>2, <1>8
    <2>2. tx'[n - Len(delivered')] = p
        BY <1>6, <1>8, <2>1
    <2> QED
        BY <1>3, <1>6, <2>1, <2>2 DEF Waiting, Real, At
<1>11. ASSUME NEW k \in Nat, Waiting(k)', k # n PROVE Waiting(k) /\ At(k)' = At(k)
    <2>1. /\ k \in 1..(Len(delivered) + Len(tx')) /\ k > Len(delivered)
          /\ tx'[k - Len(delivered)].type = "PUBLISH"
        BY <1>6, <1>11 DEF Waiting, Real
    <2>2. k - Len(delivered) \in 1..Len(tx')
        BY <1>1, <2>1
    <2>3. PICK t \in 1..Len(tx') : t = k - Len(delivered)
        BY <2>2
    <2>4. ~(t > Len(tx) + 1)
        BY <1>8, <2>1, <2>3 DEF OfPublication
    <2>5. t # Len(tx) + 1
        BY <1>1, <1>2, <1>11, <2>3
    <2>6. t \in 1..Len(tx)
        BY <1>1, <2>4, <2>5
    <2>7. tx'[t] = tx[t]
        BY <1>8, <2>6
    <2>8. k \in 1..(Len(delivered) + Len(tx))
        BY <1>1, <1>11, <2>1, <2>3, <2>6
    <2>9. At(k)' = tx'[t] /\ At(k) = tx[t]
        BY <1>6, <2>3 DEF At
    <2> QED
        BY <2>1, <2>3, <2>7, <2>8, <2>9 DEF Waiting, Real
<1>12. ASSUME NEW k \in Nat, Handed(k)' PROVE Handed(k) /\ k # n
    <2>1. k \in 1..Len(delivered)
        BY <1>6, <1>12 DEF Handed
    <2> QED
        BY <1>1, <1>2, <2>1 DEF Handed
<1>13. ASSUME NEW k \in Nat, Real(k)', k # n PROVE Real(k) /\ Msg(k)' = Msg(k)
    <2>1. CASE Handed(k)'
        <3>1. Handed(k) /\ Msg(k)' = delivered'[k]
            BY <1>12, <1>13, <2>1, LinePartsNext
        <3>2. Real(k) /\ Msg(k) = delivered[k]
            BY <1>13, <3>1, LineParts
        <3> QED
            BY <1>6, <3>1, <3>2
    <2>2. CASE Waiting(k)'
        <3>1. Waiting(k) /\ At(k)' = At(k) /\ Msg(k)' = At(k)'.m
            BY <1>11, <1>13, <2>2, LinePartsNext
        <3>2. Real(k) /\ Msg(k) = At(k).m
            BY <1>13, <3>1, LineParts
        <3> QED
            BY <3>1, <3>2
    <2> QED
        BY <1>13, <2>1, <2>2, LinePartsNext
<1>14. Joins(n)
    BY <1>2, <1>9, <1>10, <1>11, <1>12, <1>13 DEF Joins
<1> QED
    BY <1>14

\* The message sent, and the queue it leaves.
LEMMA SendingFacts ==
    ASSUME TypeInv, QueueInv, Sends
    PROVE  /\ Base + 1 \in 1..Len(accepted) /\ accepted[Base + 1] = in_progress[1].packet.m
           /\ Base \in Nat /\ Len(accepted) \in Nat /\ accepted' = accepted
           /\ Len(in_progress) > 0 /\ in_progress[1].wait = Reserved /\ TakenIds' = TakenIds
<1>1. Base \in Nat /\ Len(in_progress) \in Nat /\ Len(accepted) \in Nat /\ Len(accepted) = Base + Len(in_progress)
    BY BaseFacts
<1>2. in_progress # <<>> /\ in_progress[1].wait = Reserved /\ accepted' = accepted /\ broker' = broker
    BY DEF Sends, AtClient
<1>3. QueueType(in_progress)
    BY DEF TypeInv
<1>4. Len(in_progress) > 0
    BY <1>2, <1>3 DEF QueueType
<1>5. 1 \in 1..Len(in_progress) /\ Base + 1 \in 1..Len(accepted)
    BY <1>1, <1>4
<1>6. accepted[Base + 1] = in_progress[1].packet.m
    BY <1>5 DEF QueueInv
<1>7. TakenIds' = TakenIds
    BY <1>2 DEF TakenIds
<1> QED
    BY <1>1, <1>2, <1>4, <1>5, <1>6, <1>7

LEMMA SendQueue ==
    ASSUME TypeInv, TypeInv', QueueInv, Effect, Sends
    PROVE  \/ Base' = Base + 1
           \/ Base' = Base /\ Alike(in_progress'[1], in_progress[1]) /\ in_progress'[1].wait # Reserved
<1>1. QueueType(in_progress) /\ in_progress # <<>> /\ accepted' = accepted
    BY DEF TypeInv, Sends, AtClient
<1>2. 1 \in 1..Len(in_progress)
    BY <1>1 DEF QueueType
<1>3. \/ in_progress' = Tail(in_progress)
      \/ \E f : Changed(in_progress, f, in_progress') /\ f.wait \in {"PUBACK", "PUBREC"}
    BY DEF Sends
<1>4. CASE in_progress' = Tail(in_progress)
    <2>1. ShorterQueue
        BY <1>1, <1>4 DEF ShorterQueue
    <2> QED
        BY <2>1, BaseMoves
<1>5. CASE \E f : Changed(in_progress, f, in_progress') /\ f.wait \in {"PUBACK", "PUBREC"}
    <2>1. PICK f : Changed(in_progress, f, in_progress') /\ f.wait \in {"PUBACK", "PUBREC"}
        BY <1>5
    <2>2. Len(in_progress') = Len(in_progress) /\ in_progress'[1] = f /\ Alike(in_progress'[1], in_progress[1])
        BY <1>1, <1>2, <2>1, ChangedFacts
    <2>3. Base' = Base
        BY <1>1, <2>2 DEF Base
    <2>4. in_progress'[1].wait # Reserved
        BY <2>1, <2>2 DEF Reserved
    <2> QED
        BY <2>2, <2>3, <2>4
<1> QED
    BY <1>3, <1>4, <1>5

\* The line with the message sent has its places.
LEMMA PlacesJoin ==
    ASSUME TypeInv, TypeInv', QueueInv, Effect, Sends, NEW w, Placed(w), Upward(w), NEW n \in Nat, Joins(n),
           NEW v, \A k \in Nat : v[k] = IF k = n THEN Base + 1 ELSE w[k]
    PROVE  /\ Placed(v)' /\ Upward(v)' /\ ReservedBehind(v)'
           /\ Strictly(w) /\ ReservedBehind(w) => Strictly(v)'
<1>1. /\ Base + 1 \in 1..Len(accepted) /\ accepted[Base + 1] = in_progress[1].packet.m
      /\ Base \in Nat /\ Len(accepted) \in Nat /\ accepted' = accepted
      /\ Len(in_progress) > 0 /\ in_progress[1].wait = Reserved
    BY SendingFacts
<1>2. Base' = Base + 1 \/ (Base' = Base /\ in_progress'[1].wait # Reserved)
    BY SendQueue
<1>3. Waiting(n)' /\ At(n)' = in_progress[1].packet /\ \A k \in Nat : Real(k) => k < n
    BY DEF Joins
<1>4. ASSUME NEW k \in Nat, Real(k)', k # n PROVE Real(k) /\ Msg(k)' = Msg(k) /\ v[k] = w[k] /\ k < n
    BY <1>4 DEF Joins
<1>5. ASSUME NEW k \in Nat, Real(k)'
      PROVE  v[k] \in 1..Len(accepted) /\ accepted[v[k]] = Msg(k)' /\ v[k] <= Base + 1
    <2>1. CASE k = n
        <3>1. v[k] = Base + 1
            BY <1>5, <2>1
        <3>2. Msg(k)' = in_progress[1].packet.m
            BY <1>3, <2>1, LinePartsNext
        <3> QED
            BY <1>1, <3>1, <3>2
    <2>2. CASE k # n
        BY <1>4, <1>5, <2>2 DEF Placed
    <2> QED
        BY <2>1, <2>2
<1>6. ASSUME NEW k \in Nat, NEW l \in Nat, Real(k)', Real(l)', k < l
      PROVE  v[k] <= v[l] /\ (Strictly(w) /\ ReservedBehind(w) => v[k] < v[l])
    <2>1. k # n
        <3>1. CASE l = n
            BY <1>6, <3>1
        <3>2. CASE l # n
            BY <1>4, <1>6, <3>2
        <3> QED
            BY <3>1, <3>2
    <2>2. Real(k) /\ v[k] = w[k]
        BY <1>4, <1>6, <2>1
    <2>3. CASE l = n
        <3>1. v[l] = Base + 1
            BY <1>6, <2>3
        <3>2. w[k] \in 1..Len(accepted) /\ w[k] <= Base + 1
            BY <1>6, <2>2 DEF Placed
        <3>3. ReservedBehind(w) => w[k] <= Base
            BY <1>1, <1>6, <2>2 DEF ReservedBehind, Below
        <3> QED
            BY <1>1, <2>2, <3>1, <3>2, <3>3
    <2>4. CASE l # n
        <3>1. Real(l) /\ v[l] = w[l]
            BY <1>4, <1>6, <2>4
        <3>2. w[k] <= w[l]
            BY <1>6, <2>2, <3>1 DEF Upward
        <3>3. Strictly(w) => w[k] < w[l]
            BY <1>6, <2>2, <3>1 DEF Strictly
        <3> QED
            BY <2>2, <3>1, <3>2, <3>3
    <2> QED
        BY <2>3, <2>4
<1>7. Placed(v)'
    <2>1. \A k \in Nat : Real(k)' => v[k] <= Base' + 1
        <3> SUFFICES ASSUME NEW k \in Nat, Real(k)' PROVE v[k] <= Base' + 1
            OBVIOUS
        <3>1. PICK i \in 1..Len(accepted) : i = v[k] /\ i <= Base + 1
            BY <1>5
        <3> QED
            BY <1>1, <1>2, <3>1
    <2> QED
        BY <1>1, <1>5, <2>1 DEF Placed
<1>8. Upward(v)'
    BY <1>6 DEF Upward
<1>9. Strictly(w) /\ ReservedBehind(w) => Strictly(v)'
    BY <1>6 DEF Strictly
<1>10. ReservedBehind(v)'
    <2>1. CASE Base' = Base + 1
        BY <1>5, <2>1 DEF ReservedBehind, Below
    <2>2. CASE in_progress'[1].wait # Reserved
        BY <2>2 DEF ReservedBehind
    <2> QED
        BY <1>2, <2>1, <2>2
<1> QED
    BY <1>7, <1>8, <1>9, <1>10

\* One that is sent again carries the identifier that the broker knows.
LEMMA OnceJoins ==
    ASSUME TypeInv, TypeInv', QueueInv, Effect, Sends, NEW w, Placed(w), Once(w), NEW n \in Nat, Joins(n),
           NEW v, \A k \in Nat : v[k] = IF k = n THEN Base + 1 ELSE w[k]
    PROVE  Once(v)'
<1>1. /\ Base \in Nat /\ Len(accepted) \in Nat
      /\ Len(in_progress) > 0 /\ in_progress[1].wait = Reserved /\ TakenIds' = TakenIds
    BY SendingFacts
<1>2. \/ Base' = Base + 1
      \/ Base' = Base /\ Alike(in_progress'[1], in_progress[1])
    BY SendQueue
<1>3. At(n)' = in_progress[1].packet /\ v[n] = Base + 1 /\ delivered' = delivered
    BY DEF Joins, Sends, AtClient
<1>4. ASSUME NEW k \in Nat, Waiting(k)', k # n PROVE Waiting(k) /\ At(k)' = At(k) /\ v[k] = w[k]
    BY <1>4 DEF Joins
<1>5. ASSUME NEW k \in Nat, Handed(k)' PROVE Handed(k) /\ v[k] = w[k]
    BY <1>5 DEF Joins
<1>6. ASSUME NEW k \in Nat, Handed(k)' \/ Waiting(k)' PROVE v[k] \in Nat /\ v[k] <= Base + 1
    <2>1. CASE k = n
        BY <1>1, <1>3, <2>1
    <2>2. CASE k # n
        <3>1. Real(k) /\ v[k] = w[k]
            BY <1>4, <1>5, <1>6, <2>2, LineParts
        <3>2. PICK i \in 1..Len(accepted) : i = w[k] /\ i <= Base + 1
            BY <1>6, <3>1 DEF Placed
        <3> QED
            BY <3>1, <3>2
    <2> QED
        BY <2>1, <2>2
<1>7. Reserved # "PUBCOMP"
    BY DEF Reserved
<1>8. HandedOnce(v)'
    <2> SUFFICES ASSUME NEW k \in Nat, NEW l \in Nat, Handed(k)', Handed(l)', v[k] = v[l],
                        QoSOf[delivered'[k]] = 2
                 PROVE  k = l
        BY DEF HandedOnce
    <2> QED
        BY <1>3, <1>5 DEF Once, HandedOnce
<1>9. WaitingTaken(v)'
    <2> SUFFICES ASSUME NEW k \in Nat, NEW l \in Nat, Handed(k)', Waiting(l)', v[k] = v[l], At(l)'.qos = 2
                 PROVE  At(l)'.id \in TakenIds'
        BY DEF WaitingTaken
    <2>1. CASE l = n
        <3>1. Handed(k) /\ w[k] = Base + 1
            BY <1>3, <1>5, <2>1
        <3>2. in_progress[1].packet.qos = 2
            BY <1>3, <2>1
        <3>3. in_progress[1].packet.id \in TakenIds
            BY <1>1, <1>7, <3>1, <3>2 DEF Once, FirstTaken
        <3> QED
            BY <1>1, <1>3, <2>1, <3>3
    <2>2. CASE l # n
        <3>1. Handed(k) /\ Waiting(l) /\ At(l)' = At(l) /\ w[k] = w[l]
            BY <1>4, <1>5, <2>2
        <3>2. At(l).id \in TakenIds
            BY <3>1 DEF Once, WaitingTaken
        <3> QED
            BY <1>1, <3>1, <3>2
    <2> QED
        BY <2>1, <2>2
<1>10. ASSUME NEW k \in Nat, Waiting(k)', k # n, v[k] = Base + 1 PROVE At(k)'.id = in_progress[1].packet.id
    <2>1. Waiting(k) /\ At(k)' = At(k) /\ w[k] = Base + 1
        BY <1>4, <1>10
    <2>2. At(k).id = in_progress[1].packet.id
        BY <1>1, <1>10, <2>1 DEF Once, WaitingFirst
    <2> QED
        BY <2>1, <2>2
<1>11. WaitingSame(v)'
    <2> SUFFICES ASSUME NEW k \in Nat, NEW l \in Nat, Waiting(k)', Waiting(l)', v[k] = v[l]
                 PROVE  At(k)'.id = At(l)'.id
        BY DEF WaitingSame
    <2>1. CASE k = n \/ l = n
        BY <1>3, <1>10, <2>1
    <2>2. CASE k # n /\ l # n
        <3>1. Waiting(k) /\ At(k)' = At(k) /\ Waiting(l) /\ At(l)' = At(l) /\ w[k] = w[l]
            BY <1>4, <2>2
        <3>2. At(k).id = At(l).id
            BY <3>1 DEF Once, WaitingSame
        <3> QED
            BY <3>1, <3>2
    <2> QED
        BY <2>1, <2>2
<1>12. CASE Base' = Base + 1
    <2>1. \A k \in Nat : Handed(k)' \/ Waiting(k)' => v[k] # Base' + 1
        BY <1>1, <1>6, <1>12
    <2>2. WaitingFirst(v)' /\ FirstTaken(v)'
        BY <2>1 DEF WaitingFirst, FirstTaken
    <2> QED
        BY <1>8, <1>9, <1>11, <2>2 DEF Once
<1>13. CASE Base' = Base /\ Alike(in_progress'[1], in_progress[1])
    <2>0. /\ in_progress'[1].packet.id = in_progress[1].packet.id
          /\ in_progress'[1].packet.qos = in_progress[1].packet.qos
        BY <1>13 DEF Alike
    <2>1. WaitingFirst(v)'
        <3> SUFFICES ASSUME NEW l \in Nat, Waiting(l)', v[l] = Base' + 1
                     PROVE  At(l)'.id = in_progress'[1].packet.id
            BY DEF WaitingFirst
        <3>1. CASE l = n
            BY <1>3, <2>0, <3>1
        <3>2. CASE l # n
            BY <1>10, <1>13, <2>0, <3>2
        <3> QED
            BY <3>1, <3>2
    <2>2. FirstTaken(v)'
        <3> SUFFICES ASSUME in_progress'[1].packet.qos = 2, NEW k \in Nat, Handed(k)', v[k] = Base' + 1
                     PROVE  in_progress'[1].packet.id \in TakenIds'
            BY DEF FirstTaken
        <3>1. Handed(k) /\ w[k] = Base + 1
            BY <1>5, <1>13
        <3>2. in_progress[1].packet.id \in TakenIds
            BY <1>1, <1>7, <2>0, <3>1 DEF Once, FirstTaken
        <3> QED
            BY <1>1, <2>0, <3>2
    <2> QED
        BY <1>8, <1>9, <1>11, <2>1, <2>2 DEF Once
<1> QED
    BY <1>2, <1>12, <1>13

-----------------------------------------------------------------------------
(* The invariant of the line.                                              *)

LineInv ==
    \E w : /\ Placed(w) /\ Upward(w)
           /\ plan.clean => Strictly(w) /\ ReservedBehind(w)
           /\ ~plan.clean /\ ~wrapped => Once(w)

LEMMA LineStep ==
    ASSUME TypeInv, TypeInv', QueueInv, IdInv, SentQuality, ReleaseLast, LineInv, Effect
    PROVE  LineInv'
<1>1. PICK w : /\ Placed(w) /\ Upward(w)
               /\ plan.clean => Strictly(w) /\ ReservedBehind(w)
               /\ ~plan.clean /\ ~wrapped => Once(w)
    BY DEF LineInv
<1>2. plan' = plan /\ (~wrapped' => ~wrapped)
    BY Unwrapped
<1>3. CASE Sends
    <2>1. PICK n \in Nat : Joins(n)
        BY <1>3, SendJoins
    <2>2. PICK v : v = [k \in Nat |-> IF k = n THEN Base + 1 ELSE w[k]]
        OBVIOUS
    <2>3. \A k \in Nat : v[k] = IF k = n THEN Base + 1 ELSE w[k]
        BY <2>2
    <2>4. /\ Placed(v)' /\ Upward(v)' /\ ReservedBehind(v)'
          /\ Strictly(w) /\ ReservedBehind(w) => Strictly(v)'
        BY <1>1, <1>3, <2>1, <2>3, PlacesJoin
    <2>5. Once(w) => Once(v)'
        BY <1>1, <1>3, <2>1, <2>3, OnceJoins
    <2> QED
        BY <1>1, <1>2, <2>4, <2>5 DEF LineInv
<1>4. CASE ~Sends
    <2>1. PICK e : Follows(e)
        BY <1>4, LineFollows
    <2>2. PICK v : v = [k \in Nat |-> w[e[k]]]
        OBVIOUS
    <2>3. \A k \in Nat : v[k] = w[e[k]]
        BY <2>2
    <2>4. Placed(v)' /\ Upward(v)' /\ (Strictly(w) => Strictly(v)')
        BY <1>1, <2>1, <2>3, PlacesKeep
    <2>5. plan.clean => ReservedBehind(v)'
        BY <1>1, <1>4, <2>1, <2>3, BehindKeeps
    <2>6. ASSUME ~plan.clean, ~wrapped PROVE Once(v)'
        <3>1. Once(w)
            BY <1>1, <2>6
        <3>2. HandedOnce(v)'
            BY <1>1, <2>1, <2>3, <3>1, HandedOnceKeeps
        <3>3. WaitingTaken(v)'
            BY <1>1, <2>1, <2>3, <2>6, <3>1, WaitingTakenKeeps
        <3>4. WaitingSame(v)'
            BY <2>1, <2>3, <3>1, WaitingSameKeeps
        <3>5. WaitingFirst(v)'
            BY <1>1, <2>1, <2>3, <3>1, WaitingFirstKeeps
        <3>6. FirstTaken(v)'
            BY <1>1, <2>1, <2>3, <2>6, <3>1, FirstTakenKeeps
        <3> QED
            BY <3>2, <3>3, <3>4, <3>5, <3>6 DEF Once
    <2> QED
        BY <1>1, <1>2, <2>4, <2>5, <2>6 DEF LineInv
<1> QED
    BY <1>3, <1>4

-----------------------------------------------------------------------------
(* The invariants together.                                                *)

PublicationInv == TypeInv /\ QueueInv /\ IdInv /\ AccountInv /\ SentQuality /\ ReleaseLast /\ LineInv

LEMMA PublicationInit ==
    ASSUME Init
    PROVE  PublicationInv
<1>1. TypeInv
    BY TypeInit
<1>2. in_progress = <<>> /\ tx = <<>> /\ delivered = <<>> /\ accepted = <<>> /\ net = <<>> /\ inbox = <<>>
    BY DEF Init
<1>3. Len(<<>>) = 0
    OBVIOUS
<1>4. Len(in_progress) = 0 /\ Len(tx) = 0 /\ Len(delivered) = 0 /\ Len(accepted) = 0 /\ Len(net) = 0 /\ Len(inbox) = 0
    BY <1>2, <1>3
<1>5. QueueInv
    BY <1>4 DEF QueueInv
<1>6. IdInv
    <2>1. Ids(in_progress, packet_id)
        BY <1>4 DEF Ids
    <2>2. Answered = {}
        BY <1>4 DEF Answered
    <2>3. TakenIds = {}
        <3>1. PICK f : f = FreshSession
            OBVIOUS
        <3>2. f.in = <<>>
            BY <3>1 DEF FreshSession
        <3>3. broker = f
            BY <3>1 DEF Init
        <3> QED
            BY <3>2, <3>3 DEF TakenIds
    <2>4. ~(Len(in_progress) > 0) /\ 1..Len(tx) = {}
        BY <1>4
    <2> QED
        BY <2>1, <2>2, <2>3, <2>4 DEF IdInv
<1>7. AccountInv
    <2>1. 1..Base = {}
        BY <1>4 DEF Base
    <2> QED
        BY <2>1 DEF AccountInv
<1>8. SentQuality /\ ReleaseLast
    <2>1. 1..Len(tx) = {}
        BY <1>4
    <2> QED
        BY <2>1 DEF SentQuality, ReleaseLast
<1>9. LineInv
    <2>1. \A k \in Nat : ~Real(k)
        BY <1>4 DEF Real
    <2>2. \A k \in Nat : ~Handed(k) /\ ~Waiting(k)
        BY <1>4, <2>1 DEF Handed, Waiting
    <2>3. PICK w : w = [k \in Nat |-> 0]
        OBVIOUS
    <2>4. Placed(w) /\ Upward(w) /\ Strictly(w) /\ ReservedBehind(w)
        BY <2>1 DEF Placed, Upward, Strictly, ReservedBehind, Below
    <2>5. ~(Len(in_progress) > 0)
        BY <1>4
    <2>6. Once(w)
        BY <2>2, <2>5 DEF Once, HandedOnce, WaitingTaken, WaitingSame, WaitingFirst, FirstTaken
    <2> QED
        BY <2>4, <2>6 DEF LineInv
<1> QED
    BY <1>1, <1>5, <1>6, <1>7, <1>8, <1>9 DEF PublicationInv

LEMMA PublicationStep ==
    ASSUME PublicationInv, [Next]_vars
    PROVE  PublicationInv'
<1>1. TypeInv /\ QueueInv /\ IdInv /\ AccountInv /\ SentQuality /\ ReleaseLast /\ LineInv
    BY DEF PublicationInv
<1>2. TypeInv' /\ Effect
    BY <1>1, EffectStep
<1>3. QueueInv'
    BY <1>1, <1>2, QueueStep
<1>4. IdInv'
    BY <1>1, <1>2, IdStep
<1>5. AccountInv'
    BY <1>1, <1>2, AccountStep
<1>6. SentQuality'
    BY <1>1, <1>2, SentQualityStep
<1>7. ReleaseLast'
    BY <1>1, <1>2, ReleaseLastStep
<1>8. LineInv'
    BY <1>1, <1>2, LineStep
<1> QED
    BY <1>2, <1>3, <1>4, <1>5, <1>6, <1>7, <1>8 DEF PublicationInv

-----------------------------------------------------------------------------
(* What follows for the publications.                                      *)

LEMMA OrderFollows ==
    ASSUME PublicationInv
    PROVE  PublishedInOrder
<1>0. TypeInv
    BY DEF PublicationInv
<1>1. delivered \in Seq(Messages) /\ accepted \in Seq(Messages)
    BY <1>0 DEF TypeInv
<1>2. DOMAIN delivered = 1..Len(delivered) /\ DOMAIN accepted = 1..Len(accepted) /\ Len(delivered) \in Nat
    BY <1>1
<1>3. PICK w : Placed(w) /\ Upward(w)
    BY DEF PublicationInv, LineInv
<1> SUFFICES ASSUME NEW i \in DOMAIN delivered, NEW j \in DOMAIN delivered, i < j,
                    \A k \in 1..j - 1 : delivered[k] # delivered[j]
             PROVE  \E a, b \in DOMAIN accepted : a < b /\ accepted[a] = delivered[i] /\ accepted[b] = delivered[j]
    BY DEF PublishedInOrder
<1>4. i \in Nat /\ j \in Nat /\ i \in 1..j - 1
    BY <1>2
<1>5. Handed(i) /\ Handed(j)
    BY <1>2 DEF Handed
<1>6. Real(i) /\ Msg(i) = delivered[i] /\ Real(j) /\ Msg(j) = delivered[j]
    BY <1>0, <1>4, <1>5, LineParts
<1>7. PICK a \in 1..Len(accepted) : a = w[i] /\ accepted[a] = delivered[i]
    BY <1>3, <1>4, <1>6 DEF Placed
<1>8. PICK b \in 1..Len(accepted) : b = w[j] /\ accepted[b] = delivered[j]
    BY <1>3, <1>4, <1>6 DEF Placed
<1>9. a <= b
    BY <1>3, <1>4, <1>6, <1>7, <1>8 DEF Upward
<1>10. a # b
    BY <1>4, <1>7, <1>8
<1>11. a < b
    BY <1>9, <1>10
<1> QED
    BY <1>2, <1>7, <1>8, <1>11

LEMMA AccountFollows ==
    ASSUME PublicationInv
    PROVE  Accounted
<1>0. TypeInv /\ QueueInv /\ AccountInv
    BY DEF PublicationInv
<1>1. Base \in Nat /\ Len(in_progress) \in Nat /\ Len(accepted) \in Nat /\ Len(accepted) = Base + Len(in_progress)
    BY <1>0, BaseFacts
<1>2. accepted \in Seq(Messages) /\ in_progress \in Seq(Outgoing)
    BY <1>0 DEF TypeInv, QueueType
<1>3. DOMAIN accepted = 1..Len(accepted) /\ DOMAIN in_progress = 1..Len(in_progress)
    BY <1>2
<1> SUFFICES ASSUME ~wrapped, NEW i \in DOMAIN accepted
             PROVE  \/ QoSOf[accepted[i]] = 0 \/ accepted[i] \in dropped
                    \/ \E j \in DOMAIN in_progress : in_progress[j].packet.m = accepted[i]
                    \/ Contains(delivered, accepted[i])
    BY DEF Accounted
<1>4. i \in 1..Len(accepted)
    BY <1>3
<1>5. CASE i <= Base
    <2>1. i \in 1..Base
        BY <1>1, <1>4, <1>5
    <2> QED
        BY <1>0, <2>1 DEF AccountInv
<1>6. CASE i > Base
    <2>1. i - Base \in 1..Len(in_progress)
        BY <1>1, <1>4, <1>6
    <2>2. PICK j \in 1..Len(in_progress) : j = i - Base
        BY <2>1
    <2>3. Base + j = i
        BY <1>1, <1>4, <2>2
    <2>4. in_progress[j].packet.m = accepted[i]
        BY <1>0, <2>3 DEF QueueInv
    <2> QED
        BY <1>3, <2>4
<1> QED
    BY <1>1, <1>4, <1>5, <1>6

LEMMA OnceFollows ==
    ASSUME PublicationInv
    PROVE  PublishedOnce
<1>0. TypeInv
    BY DEF PublicationInv
<1>1. delivered \in Seq(Messages) /\ accepted \in Seq(Messages)
    BY <1>0 DEF TypeInv
<1>2. DOMAIN delivered = 1..Len(delivered) /\ DOMAIN accepted = 1..Len(accepted)
      /\ Len(delivered) \in Nat /\ Len(accepted) \in Nat
    BY <1>1
<1> SUFFICES ASSUME ~wrapped, NEW m \in Messages, QoSOf[m] = 2 PROVE Count(delivered, m) <= Count(accepted, m)
    BY DEF PublishedOnce
<1>3. PICK w : /\ Placed(w) /\ Upward(w)
               /\ plan.clean => Strictly(w) /\ ReservedBehind(w)
               /\ ~plan.clean /\ ~wrapped => Once(w)
    BY DEF PublicationInv, LineInv
<1>4. PICK S : S = {i \in DOMAIN delivered : delivered[i] = m}
    OBVIOUS
<1>5. PICK T : T = {i \in DOMAIN accepted : accepted[i] = m}
    OBVIOUS
<1>6. ASSUME NEW i \in S PROVE i \in Nat /\ Handed(i) /\ delivered[i] = m /\ Real(i) /\ Msg(i) = m
    <2>1. i \in 1..Len(delivered) /\ delivered[i] = m
        BY <1>2, <1>4, <1>6
    <2>2. i \in Nat /\ Handed(i)
        BY <1>2, <2>1 DEF Handed
    <2> QED
        BY <1>0, <2>1, <2>2, LineParts
<1>7. ASSUME NEW i \in S PROVE w[i] \in T
    <2>1. i \in Nat /\ Real(i) /\ Msg(i) = m
        BY <1>6, <1>7
    <2>2. w[i] \in 1..Len(accepted) /\ accepted[w[i]] = m
        BY <1>3, <2>1 DEF Placed
    <2> QED
        BY <1>2, <1>5, <2>2
<1>8. ASSUME NEW i \in S, NEW j \in S, w[i] = w[j] PROVE i = j
    <2>1. /\ i \in Nat /\ Handed(i) /\ Real(i) /\ delivered[i] = m
          /\ j \in Nat /\ Handed(j) /\ Real(j) /\ delivered[j] = m
        BY <1>6, <1>8
    <2>2. CASE plan.clean
        <3>1. PICK a \in 1..Len(accepted) : a = w[i] /\ a = w[j]
            BY <1>3, <1>8, <2>1 DEF Placed
        <3>2. ~(i < j)
            <4>1. ASSUME i < j PROVE a < a
                BY <1>3, <2>1, <2>2, <3>1, <4>1 DEF Strictly
            <4> QED
                BY <4>1
        <3>3. ~(j < i)
            <4>1. ASSUME j < i PROVE a < a
                BY <1>3, <2>1, <2>2, <3>1, <4>1 DEF Strictly
            <4> QED
                BY <4>1
        <3> QED
            BY <2>1, <3>2, <3>3
    <2>3. CASE ~plan.clean
        BY <1>3, <1>8, <2>1, <2>3 DEF Once, HandedOnce
    <2> QED
        BY <2>2, <2>3
<1>9. PICK f : f = [i \in S |-> w[i]]
    OBVIOUS
<1>10. f \in Injection(S, T)
    <2>1. f \in [S -> T]
        BY <1>7, <1>9
    <2>2. \A i, j \in S : f[i] = f[j] => i = j
        BY <1>8, <1>9
    <2> QED
        BY <2>1, <2>2 DEF Injection, IsInjective
<1>11. IsFiniteSet(T)
    <2>1. IsFiniteSet(1..Len(accepted))
        BY <1>2, FS_Interval
    <2>2. T \subseteq 1..Len(accepted)
        BY <1>2, <1>5
    <2> QED
        BY <2>1, <2>2, FS_Subset
<1>12. Cardinality(S) <= Cardinality(T)
    BY <1>10, <1>11, FS_Injection
<1> QED
    BY <1>4, <1>5, <1>12 DEF Count

-----------------------------------------------------------------------------
(* The switches of the client.                                             *)

Flags == handled \in BOOLEAN /\ auto \in BOOLEAN /\ address \in BOOLEAN /\ has_socket \in BOOLEAN

LEMMA FlagsStep ==
    ASSUME Flags, [Next]_vars
    PROVE  Flags'
<1>1. CASE Application
    BY <1>1 DEF Flags, Application, ConnectTo, Disconnect, Publish, Subscribe, UnsubscribeFrom, clientVars, socketVars
<1>2. CASE HandleUp \/ HandleDown \/ HandleReconnect \/ HandleGotIp \/ IgnoreData
    BY <1>2 DEF Flags, HandleUp, HandleDown, HandleReconnect, HandleGotIp, IgnoreData, clientVars, socketVars
<1>3. CASE HandleConnect \/ HandleDisconnect
    BY <1>3 DEF Flags, HandleConnect, HandleDisconnect, clientVars
<1>4. CASE HandleConnAck \/ HandleAnswer \/ HandleIncoming
    BY <1>4 DEF Flags, HandleConnAck, HandleAnswer, HandleIncoming, socketVars
<1>5. CASE FirstTick \/ RunTick \/ DisconnectDone \/ ReconnectExpires \/ KeepAlive
    BY <1>5 DEF Flags, FirstTick, RunTick, DisconnectDone, ReconnectExpires, KeepAlive, clientVars, socketVars
<1>6. CASE Dispatch \/ Connects \/ Drop \/ GotIp \/ Receive
    BY <1>6 DEF Flags, Dispatch, Connects, Drop, Closed, GotIp, Receive, clientVars, socketVars
<1>7. CASE Broker
    BY <1>7 DEF Flags, Broker, BrokerCloses, Closed, BrokerAccepts, BrokerTakes, BrokerAnswers, BrokerCompletes,
                BrokerPublishes, BrokerFrame, clientVars
<1>8. CASE UNCHANGED vars
    BY <1>8 DEF Flags, vars, clientVars, socketVars
<1> QED
    BY <1>1, <1>2, <1>3, <1>4, <1>5, <1>6, <1>7, <1>8 DEF Next, Client

LEMMA TypeFollows ==
    ASSUME TypeInv, Flags
    PROVE  TypeOK
<1>1. state \in Disconnected \cup Connected
    BY DEF TypeInv, States, Disconnected, Connected
<1>2. {handled, auto, address, has_socket} \subseteq BOOLEAN
    BY DEF Flags
<1>3. in_progress \in Seq(Outgoing) /\ Len(in_progress) <= MaxOutgoing /\ \A j \in 1..Len(in_progress) : Apt(in_progress[j])
    BY DEF TypeInv, QueueType
<1>4. ASSUME NEW i \in DOMAIN in_progress
      PROVE  in_progress[i].wait \in {Reserved, "PUBACK", "PUBREC", "PUBCOMP"}
    <2>1. i \in 1..Len(in_progress)
        BY <1>3, <1>4
    <2>2. in_progress[i].packet.qos \in 0..2
        BY <2>1, PacketNumbers DEF TypeInv
    <2>3. in_progress[i].packet.qos = 0 \/ in_progress[i].packet.qos = 1 \/ in_progress[i].packet.qos = 2
        BY <2>2
    <2> QED
        BY <1>3, <2>1, <2>3 DEF Apt
<1>5. DOMAIN sub.active \subseteq Topics
    BY DEF TypeInv, SubType
<1>6. packet_id \in 0..IdRange - 1 /\ Len(tx) <= TxSize /\ sock \in {"none", "connecting", "up", "stopping"}
    BY DEF TypeInv
<1> QED
    BY <1>1, <1>2, <1>3, <1>4, <1>5, <1>6 DEF TypeOK

-----------------------------------------------------------------------------
(* The theorems.                                                           *)

LEMMA PublicationInvariant == Spec => [](PublicationInv /\ Flags)
<1>1. Init => PublicationInv /\ Flags
    BY PublicationInit DEF Init, Flags
<1>2. PublicationInv /\ Flags /\ [Next]_vars => (PublicationInv /\ Flags)'
    BY PublicationStep, FlagsStep
<1> QED
    BY <1>1, <1>2, PTL DEF Spec

\* Whatever connections are lost and whatever the application, the task, the
\* network and the broker do in between, the publications are kept as their
\* quality of service promises (Publication): a message of quality 2 is handed
\* on at most as often as it was accepted, no message is lost without a reason,
\* and they reach the broker in the order of publish().
THEOREM PublicationsAreKept == Spec => []PublicationsKept
<1>1. PublicationInv => TypeInv
    BY DEF PublicationInv
<1>2. PublicationInv /\ Flags => PublicationsKept
    BY <1>1, TypeFollows, OnceFollows, AccountFollows, OrderFollows DEF PublicationsKept
<1> QED
    BY <1>2, PublicationInvariant, PTL
=============================================================================
