-------------------------- MODULE MqttPublication --------------------------
(***************************************************************************)
(* Publication: the outgoing messages of the MQTT client, of which only the *)
(* first is ever in flight.  The operations are functions of the queue q    *)
(* (in_progress) and of what they act on besides: w, a record with the send *)
(* buffer (w.tx) and the state of the state machine (w.state).              *)
(***************************************************************************)
EXTENDS Naturals, Sequences

CONSTANTS MaxOutgoing,      \* CONFIG_SMOOTH_MAX_MQTT_OUTGOING_MESSAGES
          TxSize            \* BufferSize of the BufferContainer

-----------------------------------------------------------------------------
(* InFlight<T>: a packet that waits for its answer, with the stop watch    *)
(* (ElapsedTime) that runs since it was sent.  The watch is abstracted to  *)
(* what the client asks of it: whether more than five seconds have passed. *)
(* A running watch may show either; a watch that was stopped shows what it *)
(* had measured then, and zero() of a stopped watch does not change what   *)
(* it shows.                                                               *)

Reserved == "Reserved"
Measured == {"short", "long"}       \* at most, or more than, five seconds

\* A flight that has not left, and whose watch never ran.
NewFlight(p) == [packet |-> p, wait |-> Reserved, timer |-> "short"]

StartTimer(f) == [f EXCEPT !.timer = "running"]

\* ElapsedTime::stop(), m: what it measures.
StopTimer(f, m) == [f EXCEPT !.timer = m]

\* InFlight::zero_timer(): stop(), then zero(), which leaves the measure alone.
ZeroTimer(f, m) == StopTimer(f, m)

WaitFor(f, type) == [f EXCEPT !.wait = type]

\* get_elapsed_time() > 5 s; slow: the answer has taken that long by now.
Elapsed(f, slow) == f.timer = "long" \/ (f.timer = "running" /\ slow)

-----------------------------------------------------------------------------
(* Publication.                                                            *)

Packet(type, id) == [type |-> type, id |-> id]

\* PacketSendBuffer::put() by MqttClient::send_packet(): refused when full.
HasRoom(w) == Len(w.tx) < TxSize
Send(w, p) == IF HasRoom(w) THEN [w EXCEPT !.tx = Append(@, p)] ELSE w

\* DisconnectState::enter_state()
DisconnectEnter(w) == Send([w EXCEPT !.state = "disconnect"], Packet("DISCONNECT", 0))

\* MqttClient::force_disconnect()
ForceDisconnect(w) == DisconnectEnter(w)

First(q, f) == [q EXCEPT ![1] = f]

\* Publication::publish(): the caller is told FALSE when the queue is full.
Accepts(q) == Len(q) < MaxOutgoing
PubPublish(q, p) == Append(q, NewFlight(p))

\* Publication::handle_disconnect()
PubHandleDisconnect(q, m) == IF q = <<>> THEN q ELSE First(q, ZeroTimer(Head(q), m))

\* MQTTPacket::set_dup_flag()
Dup(p) == [p EXCEPT !.dup = TRUE]
SetDup(f) == [f EXCEPT !.packet = Dup(f.packet)]

\* Mutant of PubResend: the message in flight is sent again to a new session.
PubResendKeeps(q, w, clean, m) ==
    [q |-> IF q = <<>> THEN q ELSE First(q, WaitFor(Head(q), Reserved)), w |-> w]

\* Publication::resend_outstanding_control_packet()
PubResend(q, w, clean, m) ==
    LET f == Head(q)
        again == WaitFor(f, Reserved)
        dup == SetDup(again)
        next(fl) == [q |-> First(q, fl), w |-> w]
    IN  IF q = <<>> \/ (clean /\ f.wait = Reserved) THEN [q |-> q, w |-> w]
        ELSE IF clean THEN [q |-> Tail(q), w |-> w]
        ELSE CASE f.wait = "PUBACK" -> next(ZeroTimer(dup, m))
               [] f.wait = "PUBREC" -> next(ZeroTimer(again, m))
               [] f.wait = "PUBCOMP" -> [q |-> q, w |-> Send(w, Packet("PUBREL", f.packet.id))]
               [] f.wait = Reserved -> next(StartTimer(dup))

\* Publication::publish_next()
PubNext(q, w, slow) ==
    LET f == Head(q)
        answer == IF f.packet.qos = 1 THEN "PUBACK" ELSE "PUBREC"
        sent == [q |-> IF f.packet.qos = 0 THEN Tail(q)
                       ELSE First(q, WaitFor(StartTimer(f), answer)),
                 w |-> Send(w, f.packet)]
    IN  IF q # <<>> /\ HasRoom(w) /\ (f.packet.qos = 0 \/ f.wait = Reserved) THEN sent
        ELSE IF q # <<>> /\ f.packet.qos > 0 /\ f.wait # Reserved /\ Elapsed(f, slow)
        THEN [q |-> First(q, StopTimer(f, "long")), w |-> ForceDisconnect(w)]
        ELSE [q |-> q, w |-> w]

Answers(q, id) == q # <<>> /\ Head(q).packet.id = id

\* Publication::receive(PubAck)
PubAckReceived(q, id) == IF Answers(q, id) THEN Tail(q) ELSE q

\* Publication::receive(PubRec): no room for the PubRel is left to the timeout.
PubRecReceived(q, w, id) ==
    IF Answers(q, id) /\ Head(q).wait = "PUBREC"
    THEN [q |-> First(q, WaitFor(StartTimer(Head(q)), IF HasRoom(w) THEN "PUBCOMP" ELSE "PUBREC")),
          w |-> Send(w, Packet("PUBREL", id))]
    ELSE [q |-> q, w |-> w]

\* Publication::receive(PubComp)
PubCompReceived(q, id) == IF Answers(q, id) /\ Head(q).wait = "PUBCOMP" THEN Tail(q) ELSE q
=============================================================================
