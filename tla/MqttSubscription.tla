-------------------------- MODULE MqttSubscription --------------------------
(***************************************************************************)
(* Subscription: the topics of the MQTT client, and the messages that come  *)
(* in on them.  Its state is a record s:                                    *)
(*   s.subscribing, s.unsubscribing   requests; the first may be in flight   *)
(*   s.active                         active_subscription, topic -> QoS      *)
(*   s.receiving                      identifier -> the message of quality 2 *)
(*                                    that waits for its PubRel              *)
(* w is as in MqttPublication; w.app is what was offered to the queue of     *)
(* the application, in order.                                                *)
(***************************************************************************)
EXTENDS MqttPublication, Functions, SequencesExt

NoSubscriptions == [subscribing |-> <<>>, unsubscribing |-> <<>>,
                    active |-> <<>>, receiving |-> <<>>]

\* The map without a key, the map with a key added unless it is there
\* (std::unordered_map::erase, emplace and insert).
Erase(f, k) == Restrict(f, DOMAIN f \ {k})
Emplace(f, k, v) == IF k \in DOMAIN f THEN f ELSE [x \in DOMAIN f \cup {k} |-> IF x = k THEN v ELSE f[x]]

SubscribeFlight(t, qos, id) == NewFlight([type |-> "SUBSCRIBE", id |-> id, topic |-> t, qos |-> qos])

\* Subscription::internal_subscribe()
InternalSubscribe(s, t, qos, id) ==
    IF t \in DOMAIN s.active /\ s.active[t] = qos THEN s
    ELSE [s EXCEPT !.subscribing = Append(@, SubscribeFlight(t, qos, id))]

\* Subscription::unsubscribe()
Unsubscribe(s, t, id) ==
    [s EXCEPT !.unsubscribing = Append(@, NewFlight([type |-> "UNSUBSCRIBE", id |-> id, topic |-> t]))]

\* Subscription::send_control_packet(); ok: FALSE once it has forced a disconnect.
SendControlPacket(q, answer, w, slow) ==
    LET f == Head(q) IN
    IF q # <<>> /\ f.wait = Reserved /\ HasRoom(w)
    THEN [q |-> First(q, WaitFor(StartTimer(f), answer)), w |-> Send(w, f.packet), ok |-> TRUE]
    ELSE IF q # <<>> /\ f.wait # Reserved /\ Elapsed(f, slow)
    THEN [q |-> First(q, StopTimer(f, "long")), w |-> ForceDisconnect(w), ok |-> FALSE]
    ELSE [q |-> q, w |-> w, ok |-> TRUE]

\* InFlight::start_timer() of the message with the identifier id.
Restarted(receiving, id) == [receiving EXCEPT ![id] = StartTimer(@)]

\* subscribe_next(), the loop over receiving, for the identifier id: slow tells
\* whether its five seconds are over.
ResendPubRec(s, w, id, slow) ==
    IF id \in DOMAIN s.receiving /\ Elapsed(s.receiving[id], slow)
    THEN [s |-> IF HasRoom(w) THEN [s EXCEPT !.receiving = Restarted(@, id)] ELSE s,
          w |-> Send(w, Packet("PUBREC", id))]
    ELSE [s |-> s, w |-> w]

\* Subscription::subscribe_next(), for one identifier of receiving that is due.
SubscribeNext(s, w, slow, id) ==
    LET sub == SendControlPacket(s.subscribing, "SUBACK", w, slow)
        unsub == IF sub.ok THEN SendControlPacket(s.unsubscribing, "UNSUBACK", sub.w, slow)
                 ELSE [q |-> s.unsubscribing, w |-> sub.w, ok |-> FALSE]
        next == [s EXCEPT !.subscribing = sub.q, !.unsubscribing = unsub.q]
    IN  IF unsub.ok THEN ResendPubRec(next, unsub.w, id, slow) ELSE [s |-> next, w |-> unsub.w]

\* Subscription::reset_control_packet()
ResetControlPacket(q, m) == IF q = <<>> THEN q ELSE First(q, StopTimer(WaitFor(Head(q), Reserved), m))

\* Mutant of SubHandleDisconnect: the active subscriptions are only forgotten.
SubHandleDisconnectForgets(s, order, ids, m) ==
    [s EXCEPT !.subscribing = ResetControlPacket(@, m), !.active = <<>>,
              !.unsubscribing = ResetControlPacket(@, m)]

\* Subscription::handle_disconnect(): the active subscriptions are requested
\* again, in the order in which the map is iterated, with new identifiers.
SubHandleDisconnect(s, order, ids, m) ==
    [s EXCEPT !.subscribing = ResetControlPacket(@, m) \o
                  [i \in DOMAIN order |-> SubscribeFlight(order[i], s.active[order[i]], ids[i])],
              !.active = <<>>, !.unsubscribing = ResetControlPacket(@, m)]

\* Subscription::receive(SubAck)
SubAckReceived(s, id) ==
    LET f == Head(s.subscribing) IN
    IF Answers(s.subscribing, id) /\ f.wait = "SUBACK"
    THEN [s EXCEPT !.active = Emplace(@, f.packet.topic, f.packet.qos), !.subscribing = Tail(@)]
    ELSE s

\* Subscription::receive(UnsubAck)
UnsubAckReceived(s, id) ==
    IF Answers(s.unsubscribing, id)
    THEN [s EXCEPT !.active = Erase(@, Head(s.unsubscribing).packet.topic), !.unsubscribing = Tail(@)]
    ELSE s

\* Subscription::forward_to_application(): the queue may be gone or full, which
\* is not looked at; taken tells whether it took the message.
ForwardToApplication(w, m, taken) == [w EXCEPT !.app = Append(@, [m |-> m, taken |-> taken])]

\* Subscription::receive(Publish)
PublishReceived(s, w, p, taken) ==
    CASE p.qos = 0 -> [s |-> s, w |-> ForwardToApplication(w, p.m, taken)]
      [] p.qos = 1 -> [s |-> s, w |-> ForwardToApplication(Send(w, Packet("PUBACK", p.id)), p.m, taken)]
      [] p.qos = 2 -> [s |-> [s EXCEPT !.receiving =
                                  Emplace(@, p.id, StartTimer(WaitFor(NewFlight(p), "PUBREL")))],
                       w |-> Send(w, Packet("PUBREC", p.id))]

\* Subscription::receive(PubRel)
PubRelReceived(s, w, id, taken) ==
    LET answered == Send(w, Packet("PUBCOMP", id)) IN
    IF id \in DOMAIN s.receiving
    THEN [s |-> [s EXCEPT !.receiving = Erase(@, id)],
          w |-> ForwardToApplication(answered, s.receiving[id].packet.m, taken)]
    ELSE [s |-> s, w |-> answered]
=============================================================================
