----------------------------- MODULE MqttPacket -----------------------------
(***************************************************************************)
(* MQTT packets as sequences of bytes: how MQTTPacket and its subclasses    *)
(* build them, and what they read out of them.  A string is a sequence of   *)
(* bytes, a position is the index of a byte, counted from one.              *)
(***************************************************************************)
EXTENDS Integers, Sequences, FiniteSetsExt

TypeCode == [CONNECT |-> 1, CONNACK |-> 2, PUBLISH |-> 3, PUBACK |-> 4, PUBREC |-> 5, PUBREL |-> 6,
             PUBCOMP |-> 7, SUBSCRIBE |-> 8, SUBACK |-> 9, UNSUBSCRIBE |-> 10, UNSUBACK |-> 11,
             PINGREQ |-> 12, PINGRESP |-> 13, DISCONNECT |-> 14]

Bit(b, n) == (b \div 2^n) % 2

-----------------------------------------------------------------------------
(* Building.                                                               *)

SetHeader(type, flags) == <<TypeCode[type] * 16 + flags>>

AppendMsbLsb(v) == <<(v \div 256) % 256, v % 256>>

\* append_string(): the length is cut to 16 bits, and the string with it.
AppendString(s) == LET n == Len(s) % 65536 IN AppendMsbLsb(n) \o SubSeq(s, 1, n)

\* encode_remaining_length(): digits of seven bits, the lowest first, four at most.
EncodeRemainingLength(n) ==
    LET digits == CHOOSE k \in 1..4 : (k = 4 \/ n < 128^k) /\ (k = 1 \/ n >= 128^(k - 1))
    IN  [i \in 1..digits |-> ((n \div 128^(i - 1)) % 128) + (IF n >= 128^i THEN 128 ELSE 0)]

ApplyConstructedData(header, variable) == header \o EncodeRemainingLength(Len(variable)) \o variable

\* The constructors.  keep_alive is cut to 16 bits.
Connect(client_id, keep_alive, clean_session) ==
    ApplyConstructedData(SetHeader("CONNECT", 0),
        AppendString(<<77, 81, 84, 84>>) \o <<4, IF clean_session THEN 2 ELSE 0>>
            \o AppendMsbLsb(keep_alive % 65536) \o AppendString(client_id))

Publish(topic, payload, qos, retain, id) ==
    ApplyConstructedData(SetHeader("PUBLISH", (IF retain THEN 1 ELSE 0) + 2 * qos),
        AppendString(topic) \o (IF qos > 0 THEN AppendMsbLsb(id) ELSE <<>>) \o payload)

Acknowledge(type, flags, id) == ApplyConstructedData(SetHeader(type, flags), AppendMsbLsb(id))

PubAck(id) == Acknowledge("PUBACK", 2, id)
PubRec(id) == Acknowledge("PUBREC", 0, id)
PubRel(id) == Acknowledge("PUBREL", 2, id)
PubComp(id) == Acknowledge("PUBCOMP", 2, id)

Subscribe(topic, qos, id) ==
    ApplyConstructedData(SetHeader("SUBSCRIBE", 2), AppendMsbLsb(id) \o AppendString(topic) \o <<qos>>)

Unsubscribe(topic, id) ==
    ApplyConstructedData(SetHeader("UNSUBSCRIBE", 2), AppendMsbLsb(id) \o AppendString(topic))

Bare(type) == ApplyConstructedData(SetHeader(type, 0), <<>>)
PingReq == Bare("PINGREQ")
Disconnect == Bare("DISCONNECT")

\* set_dup_flag()
SetDupFlag(d) == [d EXCEPT ![1] = IF Bit(@, 3) = 1 THEN @ ELSE @ + 8]

-----------------------------------------------------------------------------
(* Reading.                                                                *)

GetMqttType(d) == d[1] \div 16
GetQoS(d) == Bit(d[1], 1) + 2 * Bit(d[1], 2)

\* calculate_remaining_length_and_variable_header_offset(): the bytes it looks
\* at, what they amount to, and whether the fourth of them promises a fifth.
LengthEnd(d) == Min({k \in 2..Len(d) : d[k] < 128 \/ k = 5} \cup {Len(d)})
RemainingLength(d) == MapThenSumSet(LAMBDA k : (d[k] % 128) * 128^(k - 2), 2..LengthEnd(d))
LengthError(d) == LengthEnd(d) = 5 /\ d[5] >= 128
VariableHeaderStart(d) == LengthEnd(d) + 1

\* get_string(): as much of the string as there is.
GetString(d, at) == SubSeq(d, at + 2, Min({Len(d), at + 1 + d[at] * 256 + d[at + 1]}))

ReadPacketIdentifier(d, at) == d[at] * 256 + d[at + 1]

Identified(type) == type \in {"PUBACK", "PUBREC", "PUBREL", "PUBCOMP", "SUBACK", "UNSUBACK"}

\* Publish: get_topic(), get_variable_header_length(), get_packet_identifier(), payload.
GetTopic(d) == GetString(d, VariableHeaderStart(d))
VariableHeaderLength(d) == Len(GetTopic(d)) + 2 + (IF GetQoS(d) > 0 THEN 2 ELSE 0)
PublishId(d) ==
    IF GetQoS(d) = 0 THEN 0
    ELSE ReadPacketIdentifier(d, VariableHeaderStart(d) + VariableHeaderLength(d) - 2)
GetPayload(d) == SubSeq(d, VariableHeaderStart(d) + VariableHeaderLength(d), Len(d))

\* advance(): FALSE when it would pass the end.
Advances(at, last, n) == n > 0 /\ at + n <= last + 1

\* Subscribe::get_topics(): topics with their quality, as far as they are whole.
GetTopics(d) ==
    LET from == VariableHeaderStart(d) + 2
        \* the position after the topic at p, or the end when that is malformed
        after[p \in from..Len(d) + 1] ==
            IF p > Len(d) THEN <<>>
            ELSE LET s == GetString(d, p)
                     q == p + Len(s) + 2
                 IN  IF Advances(p, Len(d), Len(s) + 2) /\ q <= Len(d) THEN <<<<s, d[q]>>>> \o after[q + 1] ELSE <<>>
    IN  after[from]

\* Unsubscribe::get_topics()
GetPlainTopics(d) ==
    LET from == VariableHeaderStart(d) + 2
        after[p \in from..Len(d) + 1] ==
            LET s == GetString(d, p)
                q == p + Len(s) + 2
            IN  IF Advances(p, Len(d), Len(s) + 2) /\ q <= Len(d) THEN <<s>> \o after[q] ELSE <<s>>
    IN  after[from]

\* The packets a broker sends, which PacketDecoder makes of the bytes.
Decoded == {"CONNACK", "PUBLISH", "PUBACK", "PUBREC", "PUBREL", "PUBCOMP", "SUBACK", "UNSUBACK", "PINGRESP"}
Nothing == [type |-> "none"]

\* PacketDecoder::decode_packet(), and what the receiver asks the packet for.
\* validate_packet() compares a length with itself and rejects nothing more.
DecodePacket(d, too_big) ==
    LET types == {t \in Decoded : TypeCode[t] = GetMqttType(d)}
        type == CHOOSE t \in types : TRUE
    IN  IF too_big \/ types = {} THEN Nothing
        ELSE IF type = "PUBLISH"
        THEN [type |-> type, qos |-> GetQoS(d), topic |-> GetTopic(d), id |-> PublishId(d), payload |-> GetPayload(d)]
        ELSE IF Identified(type) THEN [type |-> type, id |-> ReadPacketIdentifier(d, VariableHeaderStart(d))]
        ELSE IF type = "CONNACK" THEN [type |-> type, accepted |-> d[VariableHeaderStart(d) + 1] = 0]
        ELSE [type |-> type]
=============================================================================
