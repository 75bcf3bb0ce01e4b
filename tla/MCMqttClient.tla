---------------------------- MODULE MCMqttClient ----------------------------
(* The MQTT client with two messages to publish, or one topic and the       *)
(* messages that come in on it; and apart from it the packets it is sent,   *)
(* cut out of the stream of bytes.                                          *)
EXTENDS MqttClient

MCQoSOf == [m \in {"a", "b", "c", "d"} |-> CASE m = "a" -> 1 [] m = "b" -> 2 [] m = "c" -> 2 [] m = "d" -> 2]
MCTopicOf == [m \in {"c", "d"} |-> "t"]

Call(o) == [op |-> o]
Pub(x) == [op |-> "publish", m |-> x]
Sub(q) == [op |-> "subscribe", topic |-> "t", qos |-> q]
Unsub == [op |-> "unsubscribe", topic |-> "t"]
Plan(calls_, incoming_, clean_, faults_) ==
    [calls |-> calls_, incoming |-> incoming_, clean |-> clean_, faults |-> faults_]

MCPlans ==
    {Plan(<<Call("connect"), Pub("a"), Pub("b")>>, {}, cl, 2) : cl \in BOOLEAN} \cup
    {Plan(<<Call("connect"), Sub(2)>>, {"c", "d"}, TRUE, 1),
     Plan(<<Call("connect"), Sub(1), Unsub>>, {}, TRUE, 2),
     Plan(<<Call("connect"), Pub("b"), Call("disconnect")>>, {}, TRUE, 1)}

-----------------------------------------------------------------------------
VARIABLES part, packets, stream, proto, data, too_big, decoded

K == INSTANCE MqttPacket

Payload(n) == [i \in 1..n |-> i % 256]
Topic == <<116, 47, 116>>
In(n, q, x) == [bytes |-> K!Publish(Topic, Payload(n), q, FALSE, x),
                means |-> [type |-> "PUBLISH", qos |-> q, topic |-> Topic,
                           id |-> IF q = 0 THEN 0 ELSE x, payload |-> Payload(n)]]
Ack(t, x) == [bytes |-> CASE t = "PUBREL" -> K!PubRel(x) [] t = "PUBACK" -> K!PubAck(x)
                          [] t = "PUBREC" -> K!PubRec(x) [] t = "PUBCOMP" -> K!PubComp(x),
              means |-> [type |-> t, id |-> x]]
Ping == [bytes |-> K!Bare("PINGRESP"), means |-> [type |-> "PINGRESP"]]

Some == {In(0, 0, 0), In(1, 2, 258), In(119, 1, 65535), In(121, 2, 1), In(122, 0, 0), In(140, 1, 7),
         Ack("PUBREL", 256), Ping}
MCLengths == UNION {{128^k - 1, 128^k, 128^k + 1} : k \in 0..3} \cup {128^4 - 1}
MCStreams == {<<p, q>> : p \in Some, q \in Some}
    \cup {<<Ping, Ping, Ack("PUBACK", 1)>>, <<Ack("PUBREC", 1), Ack("PUBCOMP", 2)>>}

P == INSTANCE MqttProtocol WITH Streams <- MCStreams, Lengths <- MCLengths, MaxMessageSize <- 130

packetVars == <<packets, stream, proto, data, too_big, decoded>>
MCvars == <<part, vars, packetVars>>

MCInit ==
    \/ /\ part = "client" /\ Init
       /\ packets = <<>> /\ stream = <<>> /\ proto = P!NoPacket
       /\ data = <<>> /\ too_big = FALSE /\ decoded = <<>>
    \/ /\ part = "packets" /\ P!Init
       /\ Init /\ plan = CHOOSE x \in Plans : TRUE

MCNext ==
    /\ UNCHANGED part
    /\ \/ part = "client" /\ Next /\ UNCHANGED packetVars
       \/ part = "packets" /\ P!Next /\ UNCHANGED vars

MCSpec == MCInit /\ [][MCNext]_MCvars /\ Fairness

\* Of MqttProtocol, see there; in part "packets".
PacketsReadBack == P!PacketsReadBack
=============================================================================
