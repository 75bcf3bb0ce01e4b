---------------------------- MODULE MqttProtocol ----------------------------
(***************************************************************************)
(* MQTTProtocol: packets cut out of the stream of bytes that a socket reads *)
(* in pieces of any size, at most as many bytes as the protocol wants, and  *)
(* given to PacketDecoder.                                                  *)
(***************************************************************************)
EXTENDS MqttPacket, SequencesExt

CONSTANTS Streams,          \* sequences of packets a broker sends, each [bytes, means]
          Lengths,          \* lengths to encode, around the powers of 128
          MaxMessageSize    \* CONFIG_SMOOTH_MAX_MQTT_MESSAGE_SIZE

VARIABLES packets,          \* the stream, as the broker sees it
          stream,           \* its bytes that are not read yet
          proto,            \* the members of MQTTProtocol
          data, too_big,    \* the packet in progress
          decoded           \* what came out of the decoder

vars == <<packets, stream, proto, data, too_big, decoded>>

Bytes(ps) == FoldLeft(LAMBDA s, p : s \o p.bytes, <<>>, ps)

NoPacket == [state |-> "START", received |-> 0, remaining |-> 1, header |-> 0]

Init ==
    /\ packets \in Streams
    /\ stream = Bytes(packets)
    /\ proto = NoPacket
    /\ data = <<>> /\ too_big = FALSE
    /\ decoded = <<>>

\* get_wanted_amount(): the flag that would limit it is never set.
WantedAmount(p) == p.remaining

\* Mutant of DataReceived: a packet ends one byte early.
DataReceivedShort(p, d, length) ==
    LET received == p.received + length
        last == d[received] >= 128
    IN  CASE p.state = "START" -> [p EXCEPT !.received = received, !.state = "REMAINING_LENGTH"]
          [] p.state = "REMAINING_LENGTH" /\ last -> [p EXCEPT !.received = received, !.remaining = 1]
          [] p.state = "REMAINING_LENGTH" /\ ~last ->
                 [state |-> "DATA", received |-> received, header |-> received,
                  remaining |-> IF RemainingLength(d) > 2 THEN RemainingLength(d) - 1 ELSE RemainingLength(d)]
          [] p.state = "DATA" -> [p EXCEPT !.received = received, !.remaining = @ - length]

\* data_received(), which leaves an empty packet in REMAINING_LENGTH.
DataReceived(p, d, length) ==
    LET received == p.received + length
        more == d[received] >= 128
        n == RemainingLength(d)
    IN  CASE p.state = "START" -> [p EXCEPT !.received = received, !.state = "REMAINING_LENGTH"]
          [] p.state = "REMAINING_LENGTH" /\ more -> [p EXCEPT !.received = received, !.remaining = 1]
          [] p.state = "REMAINING_LENGTH" /\ ~more ->
                 [state |-> IF n > 0 THEN "DATA" ELSE p.state,
                  received |-> received, header |-> received, remaining |-> n]
          [] p.state = "DATA" -> [p EXCEPT !.received = received, !.remaining = @ - length]

TooBig(p, d) == p.state = "REMAINING_LENGTH" /\ d[Len(d)] < 128 /\ RemainingLength(d) > MaxMessageSize

\* get_write_pos(): the bytes go behind the ones that are there.
Write(d, bytes) == d \o bytes

IsComplete(p) == p.remaining = 0

\* packet_consumed()
PacketConsumed(p) == [NoPacket EXCEPT !.header = p.header]

\* One recv() of length bytes, and what the receive buffer does with them.
Receive(length) ==
    /\ length <= WantedAmount(proto) /\ length <= Len(stream)
    /\ LET d == Write(data, SubSeq(stream, 1, length))
           p == DataReceived(proto, d, length)
           big == too_big \/ TooBig(proto, d)
           result == DecodePacket(d, big)
       IN  IF IsComplete(p)
           THEN /\ decoded' = IF result = Nothing THEN decoded ELSE Append(decoded, result)
                /\ proto' = PacketConsumed(p) /\ data' = <<>> /\ too_big' = FALSE
           ELSE proto' = p /\ data' = d /\ too_big' = big /\ UNCHANGED decoded
    /\ stream' = SubSeq(stream, length + 1, Len(stream))
    /\ UNCHANGED packets

Next == stream # <<>> /\ \E length \in {1, 2, WantedAmount(proto)} : Receive(length)

Spec == Init /\ [][Next]_vars

-----------------------------------------------------------------------------
\* What a packet means once it is read: one that is too big is dropped.
Expected == LET fits(p) == Len(p.bytes) - LengthEnd(p.bytes) <= MaxMessageSize
            IN  [i \in DOMAIN SelectSeq(packets, fits) |-> SelectSeq(packets, fits)[i].means]

\* However recv() cuts the stream, the packets come out as they were sent, and
\* no byte of one is taken for a byte of the next, also after a packet that is
\* too big, an empty one, or one with a length of several bytes (data_received).
Framed ==
    /\ Len(decoded) <= Len(Expected) /\ decoded = SubSeq(Expected, 1, Len(decoded))
    /\ stream = <<>> => decoded = Expected /\ proto.state = "START"

\* What the constructors write is what the accessors read: lengths of one to
\* four bytes, the topics of requests, and a packet that is sent again as a
\* duplicate (encode_remaining_length, get_topics, set_dup_flag).
ReadsWhatItWrites ==
    stream = Bytes(packets) =>
        /\ \A n \in Lengths : LET d == <<0>> \o EncodeRemainingLength(n) IN
               RemainingLength(d) = n /\ LengthEnd(d) = Len(d) /\ ~LengthError(d)
        /\ \A i \in DOMAIN packets :
               LET p == packets[i] IN
               p.means.type = "PUBLISH" =>
                   /\ DecodePacket(SetDupFlag(p.bytes), FALSE) = p.means
                   /\ GetTopics(Subscribe(p.means.topic, p.means.qos, p.means.id)) = <<<<p.means.topic, p.means.qos>>>>
                   /\ GetTopics(Subscribe(p.means.payload, 1, 256)) = <<<<p.means.payload, 1>>>>
                   /\ GetPlainTopics(Unsubscribe(p.means.topic, p.means.id)) = <<p.means.topic>>
                   /\ GetString(Connect(p.means.topic, 65537, TRUE), 13) = p.means.topic

\* The protocol never wants a byte of the next packet: what it wants is there
\* when the stream has been sent (a receive with no end in sight would hang).
WantsWhatComes == proto.state = "DATA" => proto.remaining <= Len(stream)

\* Packets are cut out of the stream as they were put into it and read as they
\* were written, the edges of the length field included.
PacketsReadBack == Framed /\ ReadsWhatItWrites /\ WantsWhatComes
=============================================================================
