---------------------------- MODULE PacketStream ----------------------------
(* The packets of one socket: PacketSendBuffer, PacketReceiveBuffer and the  *)
(* reading and writing parts of Socket.  The dispatcher runs writable() and  *)
(* readable(); the application puts and gets packets in its own task and may *)
(* clear() the buffers at any time, as MqttClient does when it disconnects.  *)
(* Every method of the two buffers is one critical section, so that a        *)
(* clear() can come between any two calls of the dispatcher.                 *)
(*                                                                           *)
(* The protocol is the smallest one that asks for different amounts: one     *)
(* byte of header, then the payload it announces.  A packet is a number p,   *)
(* PacketLength[p] its bytes including the header, a byte is <<p, i>>.       *)
EXTENDS Naturals, Sequences, SequencesExt

CONSTANTS Size,           \* places of the circular buffers
          Blank,          \* the item of a default-constructed place
          Traffic,        \* packets that are sent and that the peer sends: out, in
          PacketLength,   \* bytes of each
          MaxClears       \* bound: calls of clear()

ASSUME SizeAssumption == Size \in Nat \ {0}
ASSUME TrafficAssumption ==
  /\ \A p \in DOMAIN PacketLength : PacketLength[p] \in Nat \ {0}
  /\ \A t \in Traffic : /\ t.out \in Seq(DOMAIN PacketLength)
                        /\ t.in \in Seq(DOMAIN PacketLength)

VARIABLES tx, current, bytes_sent, in_progress,   \* PacketSendBuffer
          traffic,       \* the member of Traffic this is about
          toSend,        \* its packets that were not accepted yet
          wr,            \* the dispatcher in writable(): at, pos, length
          wire,          \* bytes written
          written,       \* history: packets that were reported as written
          txEmpty,       \* TransmitBufferEmpty events in the queue
          rx, item, proto,   \* PacketReceiveBuffer, and its assembler
          peer,          \* bytes of the peer still to be read
          rd,            \* the dispatcher in readable(): at, wanted
          dataAvailable, \* DataAvailable events in the queue
          received,      \* history: packets the application got
          clears, torn   \* history: clears, and what they interrupted

sendVars == <<traffic, tx, current, bytes_sent, in_progress, toSend, wr, wire, written, txEmpty>>
recvVars == <<rx, item, proto, peer, rd, dataAvailable, received>>
vars == <<sendVars, recvVars, clears, torn>>

-----------------------------------------------------------------------------
(* CircularBuffer<T, Size>: a fixed array with a place to read, a place to   *)
(* write and a count; put() on a full one overwrites the oldest item.        *)

NewRing == [buffer |-> [i \in 0..(Size - 1) |-> Blank],
            read_pos |-> 0, write_pos |-> 0, count |-> 0]

RingIsEmpty(r) == r.count = 0
RingIsFull(r) == r.count = Size

NextPos(i) == (i + 1) % Size

RingPut(r, x) ==
  LET n == IF RingIsFull(r) THEN Size ELSE r.count + 1
  IN [buffer    |-> [r.buffer EXCEPT ![r.write_pos] = x],
      read_pos  |-> IF n = Size /\ r.read_pos = r.write_pos
                      THEN NextPos(r.read_pos) ELSE r.read_pos,
      write_pos |-> NextPos(r.write_pos),
      count     |-> n]

RingFront(r) == r.buffer[r.read_pos]

RingGet(r) == [r EXCEPT !.read_pos = NextPos(@), !.count = @ - 1]

RingClear(r) == [r EXCEPT !.read_pos = 0, !.write_pos = 0, !.count = 0]

\* What the ring holds, oldest first.
RingItems(r) == [i \in 1..r.count |-> r.buffer[(r.read_pos + i - 1) % Size]]

-----------------------------------------------------------------------------
PacketBytes(p) == [i \in 1..PacketLength[p] |-> <<p, i>>]
NewProto == [got |-> 0, of |-> 0]

Init ==
  /\ tx = NewRing /\ current = Blank /\ bytes_sent = 0 /\ in_progress = FALSE
  /\ traffic \in Traffic /\ toSend = traffic.out /\ wr = [at |-> "idle", pos |-> 0, length |-> 0]
  /\ wire = <<>> /\ written = <<>> /\ txEmpty = 0
  /\ rx = NewRing /\ item = <<>> /\ proto = NewProto
  /\ peer = FoldLeft(LAMBDA a, p: a \o PacketBytes(p), <<>>, traffic.in)
  /\ rd = [at |-> "idle", wanted |-> 0] /\ dataAvailable = 0 /\ received = <<>>
  /\ clears = 0 /\ torn = {}

-----------------------------------------------------------------------------
(* Sending.                                                                  *)

PutAlways ==
  /\ toSend # <<>>
  /\ tx' = RingPut(tx, Head(toSend)) /\ toSend' = Tail(toSend)
  /\ UNCHANGED <<traffic, current, bytes_sent, in_progress, wr, wire, written, txEmpty,
                 recvVars, clears, torn>>

\* The application sends its next packet; put() refuses it when the ring is
\* full, and the application tries again.
Put ==
  /\ toSend # <<>> /\ ~RingIsFull(tx)
  /\ tx' = RingPut(tx, Head(toSend)) /\ toSend' = Tail(toSend)
  /\ UNCHANGED <<traffic, current, bytes_sent, in_progress, wr, wire, written, txEmpty,
                 recvVars, clears, torn>>

TxIsEmpty == ~in_progress /\ RingIsEmpty(tx)

\* has_data_to_transmit() of a connected socket, for the set of select().
HasDataToTransmit ==
  /\ wr.at = "idle" /\ ~TxIsEmpty
  /\ wr' = [wr EXCEPT !.at = "writable"]
  /\ UNCHANGED <<traffic, tx, current, bytes_sent, in_progress, toSend, wire, written,
                 txEmpty, recvVars, clears, torn>>

\* prepare_next_packet().
PrepareNextPacket ==
  /\ in_progress' = TRUE /\ bytes_sent' = 0
  /\ current' = RingFront(tx) /\ tx' = RingGet(tx)

\* send_next_packet() up to write_data(); a clear() may have emptied the
\* buffer since has_data_to_transmit().
SendNextPacket ==
  /\ wr.at = "writable"
  /\ IF in_progress \/ TxIsEmpty THEN UNCHANGED <<tx, current, bytes_sent, in_progress>>
     ELSE PrepareNextPacket
  /\ txEmpty' = IF TxIsEmpty THEN txEmpty + 1 ELSE txEmpty
  /\ wr' = [wr EXCEPT !.at = IF TxIsEmpty THEN "idle" ELSE "pos"]
  /\ UNCHANGED <<traffic, toSend, wire, written, recvVars, clears, torn>>

\* get_data_to_send().
GetDataToSend ==
  /\ wr.at = "pos"
  /\ wr' = [wr EXCEPT !.at = "length", !.pos = bytes_sent]
  /\ UNCHANGED <<traffic, tx, current, bytes_sent, in_progress, toSend, wire, written,
                 txEmpty, recvVars, clears, torn>>

\* get_remaining_data_length().
GetRemainingDataLength ==
  /\ wr.at = "length"
  /\ wr' = [wr EXCEPT !.at = "send", !.length = PacketLength[current] - bytes_sent]
  /\ UNCHANGED <<traffic, tx, current, bytes_sent, in_progress, toSend, wire, written,
                 txEmpty, recvVars, clears, torn>>

ByteAt(i) == IF i <= PacketLength[current] THEN <<current, i>> ELSE <<Blank, i>>

DataHasBeenSentRestart(n) ==
  /\ bytes_sent' = n
  /\ in_progress' = (in_progress /\ bytes_sent + n < PacketLength[current])

\* send() takes n bytes, data_has_been_sent() counts them; the last one
\* completes the packet.
DataHasBeenSent(n) ==
  /\ bytes_sent' = bytes_sent + n
  /\ in_progress' = (in_progress /\ bytes_sent + n < PacketLength[current])

WriteData(n) ==
  /\ wr.at = "send" /\ n <= wr.length
  /\ wire' = wire \o [i \in 1..n |-> ByteAt(wr.pos + i)]
  /\ DataHasBeenSent(n)
  /\ written' = IF in_progress /\ ~in_progress' THEN Append(written, current)
                ELSE written
  /\ txEmpty' = IF in_progress' THEN txEmpty ELSE txEmpty + 1
  /\ wr' = [wr EXCEPT !.at = "idle"]
  /\ UNCHANGED <<traffic, tx, current, toSend, recvVars, clears, torn>>

-----------------------------------------------------------------------------
(* Receiving.                                                                *)

WantedAmount(p) == IF p.got = 0 THEN 1 ELSE p.of - p.got

\* amount_wanted().
AmountWanted ==
  /\ rd.at = "idle" /\ ~RingIsFull(rx) /\ peer # <<>>
  /\ rd' = [at |-> "recv", wanted |-> WantedAmount(proto)]
  /\ UNCHANGED <<sendVars, rx, item, proto, peer, dataAvailable, received, clears, torn>>

\* The header says how long the packet is.
Announced(it) == PacketLength[it[1][1]]

\* recv() at the write position, under the lock of get_write_pos().
Recv(n) ==
  /\ rd.at = "recv" /\ n <= rd.wanted /\ n <= Len(peer)
  /\ item' = item \o SubSeq(peer, 1, n)
  /\ peer' = SubSeq(peer, n + 1, Len(peer))
  /\ torn' = IF n > WantedAmount(proto) THEN torn \cup {"overrun"} ELSE torn
  /\ rd' = [at |-> "received", wanted |-> n]
  /\ UNCHANGED <<sendVars, rx, proto, dataAvailable, received, clears>>

\* data_received(): a complete packet goes into the ring.
DataReceived ==
  LET p == [got |-> proto.got + rd.wanted,
            of  |-> IF proto.got = 0 /\ item # <<>> THEN Announced(item) ELSE proto.of]
  IN /\ rd.at = "received"
     /\ proto' = p
     /\ rx' = IF p.got >= p.of THEN RingPut(rx, item) ELSE rx
     /\ rd' = [rd EXCEPT !.at = "announce"]
     /\ UNCHANGED <<sendVars, item, peer, dataAvailable, received, clears, torn>>

IsComplete(p) == p.got > 0 /\ p.got >= p.of

AnnounceLatest ==
  /\ rd.at = "announce"
  /\ rd' = IF IsComplete(proto) THEN [rd EXCEPT !.at = "prepare"] ELSE [rd EXCEPT !.at = "idle"]
  /\ dataAvailable' = IF IsComplete(proto) THEN 1 ELSE dataAvailable
  /\ UNCHANGED <<sendVars, rx, item, proto, peer, received, clears, torn>>

\* is_packet_complete(), then push() of the event and prepare_new_packet().
Announce ==
  /\ rd.at = "announce"
  /\ rd' = IF IsComplete(proto) THEN [rd EXCEPT !.at = "prepare"] ELSE [rd EXCEPT !.at = "idle"]
  /\ dataAvailable' = IF IsComplete(proto) THEN dataAvailable + 1 ELSE dataAvailable
  /\ UNCHANGED <<sendVars, rx, item, proto, peer, received, clears, torn>>

PrepareNewPacketKeeps ==
  /\ rd.at = "prepare"
  /\ item' = <<>> /\ UNCHANGED proto
  /\ rd' = [rd EXCEPT !.at = "idle"]
  /\ UNCHANGED <<sendVars, rx, peer, dataAvailable, received, clears, torn>>

PrepareNewPacket ==
  /\ rd.at = "prepare"
  /\ item' = <<>> /\ proto' = NewProto
  /\ rd' = [rd EXCEPT !.at = "idle"]
  /\ UNCHANGED <<sendVars, rx, peer, dataAvailable, received, clears, torn>>

\* The application handles a DataAvailable event; after a clear() there may
\* be no packet behind it.
Get ==
  /\ dataAvailable > 0
  /\ dataAvailable' = dataAvailable - 1
  /\ IF RingIsEmpty(rx) THEN UNCHANGED <<rx, received>>
     ELSE received' = Append(received, RingFront(rx)) /\ rx' = RingGet(rx)
  /\ UNCHANGED <<sendVars, item, proto, peer, rd, clears, torn>>

-----------------------------------------------------------------------------
\* PacketSendBuffer::clear().
ClearTx ==
  /\ clears < MaxClears
  /\ clears' = clears + 1
  /\ tx' = RingClear(tx) /\ in_progress' = FALSE /\ bytes_sent' = 0
  /\ torn' = IF wr.at \notin {"idle", "writable"} \/ (in_progress /\ bytes_sent > 0)
               THEN torn \cup {"send"} ELSE torn
  /\ UNCHANGED <<traffic, current, toSend, wr, wire, written, txEmpty, recvVars>>

\* PacketReceiveBuffer::clear(), with the reset of the protocol.
ClearRx ==
  /\ clears < MaxClears
  /\ clears' = clears + 1
  /\ rx' = RingClear(rx) /\ item' = <<>> /\ proto' = NewProto
  /\ torn' = IF rd.at # "idle" \/ proto.got > 0 THEN torn \cup {"receive"} ELSE torn
  /\ UNCHANGED <<sendVars, peer, rd, dataAvailable, received>>

\* The queues of the events, emptied by BufferContainer::clear() after the
\* buffers.
ClearEvents ==
  /\ clears > 0 /\ dataAvailable + txEmpty > 0
  /\ dataAvailable' = 0 /\ txEmpty' = 0
  /\ torn' = IF ~RingIsEmpty(rx) THEN torn \cup {"event"} ELSE torn
  /\ UNCHANGED <<traffic, tx, current, bytes_sent, in_progress, toSend, wr, wire, written,
                 rx, item, proto, peer, rd, received, clears>>

MaxLength == 4
Dispatcher == \/ HasDataToTransmit \/ SendNextPacket \/ GetDataToSend \/ GetRemainingDataLength
              \/ \E n \in 1..MaxLength : WriteData(n)
              \/ AmountWanted \/ (\E n \in 1..MaxLength : Recv(n))
              \/ DataReceived \/ Announce \/ PrepareNewPacket
Next == Put \/ Get \/ Dispatcher \/ ClearTx \/ ClearRx \/ ClearEvents

Fairness == WF_vars(Put) /\ WF_vars(Get) /\ WF_vars(Dispatcher)
Spec == Init /\ [][Next]_vars /\ Fairness

-----------------------------------------------------------------------------
(* The rings keep their shape and every packet in the receive buffer has an  *)
(* event that will fetch it, unless BufferContainer::clear() took the event  *)
(* of a packet that arrived between the clearing of the buffer and that of   *)
(* the queue (BufferContainer.h:71).                                         *)
RingOK(r) == r.count \in 0..Size
             /\ r.write_pos = (r.read_pos + r.count) % Size
PacketsAnnounced ==
  /\ RingOK(tx) /\ RingOK(rx)
  /\ "event" \notin torn =>
       dataAvailable + (IF rd.at = "announce" THEN 1 ELSE 0) >= rx.count

(* The socket is a channel of packets: what put() accepts is written in that *)
(* order, each packet once, however send() cuts it; clear() drops all of it. *)
Channel == INSTANCE PacketChannel
             WITH Packets <- UNION {ToSet(t.out) : t \in Traffic},
                  Limit <- Size + 1,
                  queue <- (IF in_progress THEN <<current>> ELSE <<>>) \o RingItems(tx)
StreamIsChannel == Channel!Spec

(* On the wire are the bytes of the packets one after the other, complete    *)
(* but for the last.  Excepted: a clear() while a packet is being written    *)
(* (PacketSendBuffer.h:92): its rest is not sent, or its first bytes again.  *)
WireWellFormed ==
  "send" \notin torn =>
    wire = FoldLeft(LAMBDA a, p: a \o PacketBytes(p), <<>>, written)
             \o (IF in_progress THEN SubSeq(PacketBytes(current), 1, bytes_sent) ELSE <<>>)

(* The application gets the packets of the peer whole and in order, and recv *)
(* never writes past the room the assembler made, whatever the pieces they   *)
(* arrive in.  Excepted: a clear() while the dispatcher reads, which resets  *)
(* the protocol in the middle of a packet, or between amount_wanted() and    *)
(* recv() (Socket.h:337), so that more is read than there is room for.       *)
PacketsReceivedWhole ==
  "receive" \notin torn =>
    /\ "overrun" \notin torn
    /\ \A i \in DOMAIN received :
         \E p \in ToSet(traffic.in) : received[i] = PacketBytes(p)
    /\ \A i, k \in DOMAIN received : i < k => received[i][1][1] < received[k][1][1]

(* Every packet is written and every packet that arrived is fetched, if      *)
(* nothing is cleared.                                                       *)
AllSent == <>(clears > 0 \/ (written = traffic.out /\ Len(received) = Len(traffic.in)))

(* Packets are written and fetched whole and in order, and all of them are.  *)
PacketsIntact == [](PacketsAnnounced /\ WireWellFormed /\ PacketsReceivedWhole) /\ AllSent
=============================================================================
