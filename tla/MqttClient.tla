----------------------------- MODULE MqttClient -----------------------------
(***************************************************************************)
(* The MQTT client: MqttClient, its state machine and the states, on top of *)
(* MqttPublication and MqttSubscription, with a socket, a network that      *)
(* loses connections and a broker (external, as MQTT 3.1.1 has it).         *)
(*                                                                         *)
(* One thread runs the client: it handles the events of its queues (inbox)  *)
(* and ticks.  The application calls publish(), subscribe() and so on at     *)
(* any time.  What was sent over a connection that is lost may have reached  *)
(* the broker or not, and its answers may have reached the client or not.   *)
(***************************************************************************)
EXTENDS MqttSubscription, Subsequence

CONSTANTS Plans,        \* what a behaviour is about: records [calls, incoming, clean, faults]
          QoSOf,        \* the quality of each message, outgoing or incoming
          TopicOf,      \* the topic of each incoming message
          IdRange       \* number of packet identifiers, 2^16 in the code

Messages == DOMAIN QoSOf
Topics == {TopicOf[m] : m \in DOMAIN TopicOf}

\* What an application may ask for.
AppCalls == [op : {"connect", "disconnect"}] \cup [op : {"publish"}, m : Messages]
            \cup [op : {"subscribe"}, topic : Topics, qos : 0..2] \cup [op : {"unsubscribe"}, topic : Topics]

ASSUME MqttAssumption ==
    /\ MaxOutgoing \in Nat /\ TxSize \in Nat /\ IdRange \in Nat \ {0, 1}
    /\ QoSOf \in [Messages -> 0..2]
    /\ \A p \in Plans : /\ p.calls \in Seq(AppCalls) /\ p.incoming \subseteq Messages \cap DOMAIN TopicOf
                         /\ p.clean \in BOOLEAN /\ p.faults \in Nat

VARIABLES
    plan,               \* the application's calls, the broker's messages, the kind of
                        \* session, and a bound: lost connections, late answers, refusals
    calls,              \* the calls the application still makes
    state, handled,     \* the state of the FSM; RunState::reconnect_handled
    auto, address,      \* auto_reconnect; whether there is an address
    in_progress,        \* Publication
    sub,                \* Subscription
    packet_id,          \* PacketIdentifierFactory::id
    reconnect_timer, keep_alive_timer,
    inbox,              \* the events of the task, oldest first
    tx,                 \* the send buffer
    has_socket, ops,    \* mqtt_socket; operations the dispatcher has to do for it
    sock, net,          \* the connection; what the broker has sent over it
    broker,             \* [up, subs, in, out, next]
    sent,               \* messages the broker has published to this client
    app,                \* history: the messages offered to the queue of the application,
                        \* and whether it took them
    delivered,          \* history: what the broker has handed on
    accepted, dropped,  \* history: accepted by publish(), dropped by a new session
    posted,             \* history: incoming messages of quality 2 completed
    stale,              \* history: a new session found identifiers in receiving
    unresolved,         \* history: the address could not be resolved
    leftover,           \* history: a CONNECT of an earlier connection was accepted
    wrapped,            \* history: the identifiers have begun anew
    faults

clientVars == <<state, handled, auto, address, in_progress, sub, packet_id>>
timerVars == <<reconnect_timer, keep_alive_timer>>
socketVars == <<has_socket, ops, sock, net>>
brokerVars == <<broker, sent, delivered, posted>>
historyVars == <<accepted, dropped, stale, unresolved, leftover, wrapped>>
vars == <<plan, calls, clientVars, timerVars, inbox, tx, socketVars, brokerVars, app, historyVars, faults>>

Disconnected == {"startup", "idle"}
Connected == {"connect", "run", "disconnect"}

Event(e) == [ev |-> e]
Data(p) == [ev |-> "data", p |-> p]
IsData(e) == e.ev = "data"
OfBuffers(e) == e.ev \in {"data", "up", "down"}     \* the queues of the BufferContainer
Post(e) == inbox' = Append(inbox, e)

\* PacketIdentifierFactory::get_id()
NextId(id) == (id + 1) % IdRange

\* The identifier moves on to id.
Identify(id) == packet_id' = id /\ wrapped' = (wrapped \/ id < packet_id)

FreshSession == [up |-> FALSE, subs |-> {}, in |-> <<>>, out |-> <<>>, next |-> 1]

Init ==
    /\ plan \in Plans
    /\ calls = plan.calls
    /\ state = "startup" /\ handled = FALSE
    /\ auto = FALSE /\ address = FALSE
    /\ in_progress = <<>> /\ sub = NoSubscriptions
    /\ packet_id = 0
    /\ reconnect_timer = FALSE /\ keep_alive_timer = FALSE
    /\ inbox = <<>> /\ tx = <<>>
    /\ has_socket = FALSE /\ ops = <<>> /\ sock = "none" /\ net = <<>>
    /\ broker = FreshSession /\ sent = {}
    /\ app = <<>> /\ delivered = <<>> /\ accepted = <<>> /\ dropped = {} /\ posted = {}
    /\ stale = FALSE /\ unresolved = FALSE /\ leftover = FALSE /\ wrapped = FALSE
    /\ faults = 0

Fault == faults < plan.faults /\ faults' = faults + 1
FaultIf(b) == IF b THEN Fault ELSE UNCHANGED faults

-----------------------------------------------------------------------------
(* The application.                                                        *)

Calls(op) == calls # <<>> /\ Head(calls).op = op /\ calls' = Tail(calls)

\* MqttClient::connect_to(), with auto_reconnect.
ConnectTo ==
    /\ Calls("connect")
    /\ address' = TRUE /\ auto' = TRUE
    /\ Post(Event("CONNECT"))
    /\ UNCHANGED <<plan, state, handled, in_progress, sub, packet_id, timerVars, tx, socketVars,
                   brokerVars, app, historyVars, faults>>

\* MqttClient::disconnect()
Disconnect ==
    /\ Calls("disconnect")
    /\ Post(Event("DISCONNECT"))
    /\ UNCHANGED <<plan, clientVars, timerVars, tx, socketVars, brokerVars, app, historyVars, faults>>

\* MqttClient::publish() and the Publish packet it makes; a message of
\* quality 0 gets no identifier.
Publish ==
    /\ Calls("publish")
    /\ LET m == Head(calls).m
           id == IF QoSOf[m] > 0 THEN NextId(packet_id) ELSE 0
           p == [type |-> "PUBLISH", id |-> id, m |-> m, qos |-> QoSOf[m], dup |-> FALSE]
       IN  IF Accepts(in_progress)
           THEN /\ in_progress' = PubPublish(in_progress, p)
                /\ Identify(IF QoSOf[m] > 0 THEN id ELSE packet_id)
                /\ accepted' = Append(accepted, m)
           ELSE UNCHANGED <<in_progress, packet_id, wrapped, accepted>>
    /\ UNCHANGED <<plan, state, handled, auto, address, sub, timerVars, inbox, tx, socketVars,
                   brokerVars, app, dropped, stale, unresolved, leftover, faults>>

\* MqttClient::subscribe(): only a request that is queued takes an identifier.
Subscribe ==
    /\ Calls("subscribe")
    /\ LET c == Head(calls) IN
       /\ sub' = InternalSubscribe(sub, c.topic, c.qos, NextId(packet_id))
       /\ Identify(IF sub'.subscribing = sub.subscribing THEN packet_id ELSE NextId(packet_id))
    /\ UNCHANGED <<plan, state, handled, auto, address, in_progress, timerVars, inbox, tx, socketVars,
                   brokerVars, app, accepted, dropped, stale, unresolved, leftover, faults>>

\* MqttClient::unsubscribe()
UnsubscribeFrom ==
    /\ Calls("unsubscribe")
    /\ Identify(NextId(packet_id))
    /\ sub' = Unsubscribe(sub, Head(calls).topic, NextId(packet_id))
    /\ UNCHANGED <<plan, state, handled, auto, address, in_progress, timerVars, inbox, tx, socketVars,
                   brokerVars, app, accepted, dropped, stale, unresolved, leftover, faults>>

Application == ConnectTo \/ Disconnect \/ Publish \/ Subscribe \/ UnsubscribeFrom

-----------------------------------------------------------------------------
(* The states.                                                             *)

World == [tx |-> tx, state |-> state, app |-> app]
Becomes(w) == tx' = w.tx /\ state' = w.state /\ app' = w.app

\* DisconnectedState::enter_state(); the map of active subscriptions is
\* iterated in any order.
EnterIdle ==
    /\ state' = "idle"
    /\ \E m \in Measured, order \in SetToSeqs(DOMAIN sub.active) :
        /\ FaultIf(m = "long")
        /\ in_progress' = PubHandleDisconnect(in_progress, m)
        /\ sub' = SubHandleDisconnect(sub, order, [i \in DOMAIN order |-> (packet_id + i) % IdRange], m)
        /\ Identify((packet_id + Len(order)) % IdRange)
    /\ keep_alive_timer' = FALSE
    /\ reconnect_timer' = (reconnect_timer \/ auto)

Takes(e) == inbox # <<>> /\ Head(inbox).ev = e

\* DisconnectedState::event(ConnectionStatusEvent) of a new connection, and
\* ConnectToBrokerState::enter_state(); the connected states ignore it.
HandleUp ==
    /\ Takes("up")
    /\ inbox' = Tail(inbox)
    /\ IF state \in Disconnected
       THEN /\ state' = "connect"
            /\ tx' = Send(World, [type |-> "CONNECT", clean |-> plan.clean]).tx
            /\ keep_alive_timer' = TRUE
       ELSE UNCHANGED <<state, tx, keep_alive_timer>>
    /\ UNCHANGED <<plan, calls, handled, auto, address, in_progress, sub, packet_id, reconnect_timer,
                   socketVars, brokerVars, app, historyVars, faults>>

\* ConnectedState:: and DisconnectedState::event(ConnectionStatusEvent) of a
\* lost connection.
HandleDown ==
    /\ Takes("down")
    /\ inbox' = Tail(inbox)
    /\ IF state \in Connected THEN EnterIdle
       ELSE /\ reconnect_timer' = (reconnect_timer \/ auto)
            /\ UNCHANGED <<state, in_progress, sub, packet_id, wrapped, keep_alive_timer, faults>>
    /\ UNCHANGED <<plan, calls, handled, auto, address, tx, socketVars, brokerVars, app,
                   accepted, dropped, stale, unresolved, leftover>>

\* DisconnectedState::event(TimerExpiredEvent) and MqttClient::reconnect()
HandleReconnect ==
    /\ Takes("RECONNECT")
    /\ inbox' = Tail(inbox) \o (IF state \in Disconnected /\ address THEN <<Event("CONNECT")>> ELSE <<>>)
    /\ UNCHANGED <<plan, calls, clientVars, timerVars, tx, socketVars, brokerVars, app, historyVars, faults>>

\* MqttClient::event(NetworkStatus)
HandleGotIp ==
    /\ Takes("GOT_IP")
    /\ inbox' = Tail(inbox) \o (IF address THEN <<Event("CONNECT")>> ELSE <<>>)
    /\ UNCHANGED <<plan, calls, clientVars, timerVars, tx, socketVars, brokerVars, app, historyVars, faults>>

\* The reconnect timer, which is not repeating, expires; it is a fault of the
\* network when five seconds were too short for what is under way.
ReconnectExpires ==
    /\ reconnect_timer
    /\ FaultIf(ops # <<>> \/ sock = "connecting" \/ inbox # <<>>)
    /\ reconnect_timer' = FALSE
    /\ Post(Event("RECONNECT"))
    /\ UNCHANGED <<plan, calls, clientVars, keep_alive_timer, tx, socketVars, brokerVars, app, historyVars>>

\* ConnectedState::event(TimerExpiredEvent): a ping, at most one of them unsent.
KeepAlive ==
    /\ keep_alive_timer /\ state \in Connected
    /\ HasRoom(World) /\ ~Contains(tx, Packet("PINGREQ", 0))
    /\ tx' = Append(tx, Packet("PINGREQ", 0))
    /\ UNCHANGED <<plan, calls, clientVars, timerVars, inbox, socketVars, brokerVars, app, historyVars, faults>>

\* The part of CommonSocket::stop() that the client sees at once.
StopSocket ==
    sock' = IF has_socket /\ sock # "none" THEN "stopping" ELSE sock

\* MqttClient::event(BaseEvent) CONNECT: what the buffers hold is forgotten,
\* lost connections included.  Socket::start() does nothing, and tells nobody,
\* when the address does not resolve.
HandleConnect ==
    /\ Takes("CONNECT")
    /\ StopSocket
    /\ LET rest == Tail(inbox) IN inbox' \in Kept(rest, {i \in 1..Len(rest) : ~OfBuffers(rest[i])})
    /\ tx' = <<>>
    /\ has_socket' = TRUE
    /\ \E resolves \in BOOLEAN :
        /\ FaultIf(~resolves)
        /\ unresolved' = (unresolved \/ ~resolves)
        /\ ops' = ops \o (IF has_socket THEN <<"stop">> ELSE <<>>)
                       \o (IF resolves THEN <<"start">> ELSE <<>>)
    /\ UNCHANGED <<plan, calls, clientVars, timerVars, net, brokerVars, app, accepted, dropped, stale, leftover,
                   wrapped>>

\* MqttClient::event(BaseEvent) DISCONNECT
HandleDisconnect ==
    /\ Takes("DISCONNECT")
    /\ StopSocket
    /\ LET rest == Tail(inbox) IN inbox' \in Kept(rest, {i \in 1..Len(rest) : ~IsData(rest[i])})
    /\ tx' = <<>>
    /\ reconnect_timer' = FALSE /\ keep_alive_timer' = FALSE
    /\ has_socket' = FALSE
    /\ ops' = IF has_socket THEN Append(ops, "stop") ELSE ops
    /\ UNCHANGED <<plan, calls, clientVars, net, brokerVars, app, historyVars, faults>>

\* ConnectToBrokerState::receive(ConnAck)
HandleConnAck ==
    /\ Takes("data") /\ state = "connect" /\ Head(inbox).p.type = "CONNACK"
    /\ inbox' = Tail(inbox)
    /\ IF Head(inbox).p.accepted
       THEN /\ state' = "run" /\ handled' = FALSE
            /\ UNCHANGED <<in_progress, sub, packet_id, wrapped, timerVars, faults>>
       ELSE EnterIdle /\ UNCHANGED handled
    /\ UNCHANGED <<plan, calls, auto, address, tx, socketVars, brokerVars, app,
                   accepted, dropped, stale, unresolved, leftover>>

\* RunState::receive(): answers to the publications.
HandleAnswer ==
    /\ Takes("data") /\ state = "run"
    /\ LET p == Head(inbox).p
           rec == PubRecReceived(in_progress, World, p.id)
       IN  \/ /\ p.type = "PUBACK"
              /\ in_progress' = PubAckReceived(in_progress, p.id) /\ Becomes(World)
           \/ /\ p.type = "PUBREC"
              /\ in_progress' = rec.q /\ Becomes(rec.w)
           \/ /\ p.type = "PUBCOMP"
              /\ in_progress' = PubCompReceived(in_progress, p.id) /\ Becomes(World)
    /\ inbox' = Tail(inbox)
    /\ UNCHANGED <<plan, calls, handled, auto, address, sub, packet_id, timerVars, socketVars, brokerVars,
                   historyVars, faults>>

\* RunState::receive(): answers to the subscriptions, and incoming messages.
HandleIncoming ==
    /\ Takes("data") /\ state = "run"
    /\ \E taken \in BOOLEAN :
       LET p == Head(inbox).p
           pub == PublishReceived(sub, World, p, taken)
           rel == PubRelReceived(sub, World, p.id, taken)
       IN  \/ p.type = "SUBACK" /\ sub' = SubAckReceived(sub, p.id) /\ Becomes(World)
           \/ p.type = "UNSUBACK" /\ sub' = UnsubAckReceived(sub, p.id) /\ Becomes(World)
           \/ p.type = "PUBLISH" /\ sub' = pub.s /\ Becomes(pub.w)
           \/ p.type = "PUBREL" /\ sub' = rel.s /\ Becomes(rel.w)
    /\ inbox' = Tail(inbox)
    /\ UNCHANGED <<plan, calls, handled, auto, address, in_progress, packet_id, timerVars, socketVars,
                   brokerVars, historyVars, faults>>

\* MQTTBaseState::receive(): the packets a state has no use for.
IgnoreData ==
    /\ Takes("data")
    /\ state \notin {"connect", "run"} \/ (state = "run") = (Head(inbox).p.type = "CONNACK")
    /\ inbox' = Tail(inbox)
    /\ UNCHANGED <<plan, calls, clientVars, timerVars, tx, socketVars, brokerVars, app, historyVars, faults>>

\* RunState::tick(), the first one after a connection.
FirstTick ==
    /\ state = "run" /\ ~handled
    /\ handled' = TRUE
    /\ \E m \in Measured :
        LET r == PubResend(in_progress, World, plan.clean, m) IN
        /\ FaultIf(m = "long")
        /\ in_progress' = r.q /\ Becomes(r.w)
        /\ dropped' = dropped \cup (IF Len(r.q) < Len(in_progress) THEN {Head(in_progress).packet.m} ELSE {})
    /\ UNCHANGED <<plan, calls, auto, address, sub, packet_id, timerVars, inbox, socketVars, brokerVars,
                   accepted, stale, unresolved, leftover, wrapped>>

\* RunState::tick(): after a forced disconnect the rest of it is still done.
RunTick ==
    /\ state = "run" /\ handled
    /\ \E slow \in SUBSET {"publication", "subscription"}, id \in DOMAIN sub.receiving \cup {0} :
        LET pub == PubNext(in_progress, World, "publication" \in slow)
            next == SubscribeNext(sub, pub.w, "subscription" \in slow, id)
        IN  /\ FaultIf(slow # {})
            /\ in_progress' = pub.q /\ sub' = next.s /\ Becomes(next.w)
    /\ UNCHANGED <<plan, calls, handled, auto, address, packet_id, timerVars, inbox, socketVars, brokerVars,
                   historyVars>>

\* DisconnectState: the buffer has been sent, or two seconds are over.
DisconnectDone ==
    /\ state = "disconnect"
    /\ EnterIdle
    /\ UNCHANGED <<plan, calls, handled, auto, address, inbox, tx, socketVars, brokerVars, app,
                   accepted, dropped, stale, unresolved, leftover>>

Client ==
    \/ HandleUp \/ HandleDown \/ HandleReconnect \/ HandleGotIp \/ HandleConnect \/ HandleDisconnect
    \/ HandleConnAck \/ HandleAnswer \/ HandleIncoming \/ IgnoreData

-----------------------------------------------------------------------------
(* The socket, driven by the dispatcher, and the network.                  *)

Lost == net' = <<>> /\ broker' = [broker EXCEPT !.up = FALSE]

\* The dispatcher stops or starts a socket (SocketDispatcher has the detail).
\* Stopping one that is open publishes that the connection is gone.
Dispatch ==
    /\ ops # <<>> /\ ops' = Tail(ops)
    /\ \/ /\ Head(ops) = "stop" /\ sock # "none"
          /\ sock' = "none" /\ Post(Event("down")) /\ Lost
       \/ /\ Head(ops) = "stop" /\ sock = "none"
          /\ UNCHANGED <<sock, inbox, net, broker>>
       \/ /\ Head(ops) = "start"
          /\ sock' = "connecting" /\ UNCHANGED <<inbox, net, broker>>
    /\ UNCHANGED <<plan, calls, clientVars, timerVars, tx, has_socket, sent, delivered, posted, app,
                   historyVars, faults>>

Connects ==
    /\ sock = "connecting" /\ sock' = "up"
    /\ Post(Event("up"))
    /\ UNCHANGED <<plan, calls, clientVars, timerVars, tx, has_socket, ops, net, brokerVars, app,
                   historyVars, faults>>

\* A connection is lost, or closed by the broker.
Closed ==
    /\ sock' = "none" /\ Post(Event("down")) /\ Lost
    /\ UNCHANGED <<plan, calls, clientVars, timerVars, tx, has_socket, ops, sent, delivered, posted, app,
                   historyVars>>

Drop == sock \in {"connecting", "up"} /\ Fault /\ Closed

GotIp ==
    /\ address /\ Fault /\ Post(Event("GOT_IP"))
    /\ UNCHANGED <<plan, calls, clientVars, timerVars, tx, socketVars, brokerVars, app, historyVars>>

\* A packet reaches the receive buffer, as long as that has room.
Receive ==
    /\ sock = "up" /\ net # <<>>
    /\ Cardinality({i \in 1..Len(inbox) : IsData(inbox[i])}) < TxSize
    /\ net' = Tail(net) /\ Post(Data(Head(net)))
    /\ UNCHANGED <<plan, calls, clientVars, timerVars, tx, has_socket, ops, sock, brokerVars, app,
                   historyVars, faults>>

-----------------------------------------------------------------------------
(* The broker.                                                             *)

FromClient(type) == sock = "up" /\ tx # <<>> /\ Head(tx).type = type

\* A connection that does not begin with CONNECT, has a second one, or is told
\* to end is closed.
BrokerCloses ==
    /\ sock = "up" /\ tx # <<>>
    /\ (Head(tx).type = "CONNECT") = broker.up \/ Head(tx).type = "DISCONNECT"
    /\ Closed /\ UNCHANGED faults

BrokerAccepts ==
    /\ FromClient("CONNECT") /\ ~broker.up
    /\ tx' = Tail(tx)
    /\ \E ok \in BOOLEAN, ids \in SetToSeqs(DOMAIN broker.out) :
        /\ FaultIf(~ok)
        /\ leftover' = (leftover \/ state # "connect" \/ \E i \in DOMAIN inbox : inbox[i].ev \in {"up", "down"})
        /\ stale' = (stale \/ (ok /\ plan.clean /\ DOMAIN sub.receiving # {}))
        /\ broker' = IF ~ok THEN broker
                     ELSE [(IF plan.clean THEN FreshSession ELSE broker) EXCEPT !.up = TRUE]
        /\ net' = net \o <<[type |-> "CONNACK", accepted |-> ok]>> \o
              (IF ok /\ ~plan.clean THEN [i \in 1..Len(ids) |-> broker.out[ids[i]]] ELSE <<>>)
    /\ UNCHANGED <<plan, calls, clientVars, timerVars, inbox, has_socket, ops, sock, sent, delivered, posted,
                   app, accepted, dropped, unresolved, wrapped>>

Session(type) == FromClient(type) /\ broker.up /\ tx' = Tail(tx)
Replies(p) == net' = Append(net, p)
BrokerFrame == UNCHANGED <<plan, calls, clientVars, timerVars, inbox, has_socket, ops, sock, app, historyVars, faults>>

\* PUBLISH: a message of quality 2 is handed on the first time it is seen.
BrokerTakes ==
    /\ Session("PUBLISH")
    /\ LET p == Head(tx) IN
       /\ net' = net \o (CASE p.qos = 0 -> <<>>
                           [] p.qos = 1 -> <<Packet("PUBACK", p.id)>>
                           [] p.qos = 2 -> <<Packet("PUBREC", p.id)>>)
       /\ broker' = IF p.qos = 2 THEN [broker EXCEPT !.in = Emplace(@, p.id, p.m)] ELSE broker
       /\ delivered' = IF p.qos = 2 /\ p.id \in DOMAIN broker.in THEN delivered ELSE Append(delivered, p.m)
    /\ UNCHANGED <<sent, posted>> /\ BrokerFrame

\* The client has the message: what is left of it is its release.
Released(h) == [h EXCEPT !.type = "PUBREL"]
Release(out, id) == [out EXCEPT ![id] = Released(out[id])]

\* The packets that need nothing but an answer and a change of the session.
BrokerAnswers ==
    /\ \E type \in {"PUBREL", "SUBSCRIBE", "UNSUBSCRIBE", "PUBREC", "PINGREQ"} :
        /\ Session(type)
        /\ LET p == Head(tx) IN
           \/ /\ type = "PUBREL" /\ Replies(Packet("PUBCOMP", p.id))
              /\ broker' = [broker EXCEPT !.in = Erase(@, p.id)]
           \/ /\ type = "SUBSCRIBE" /\ Replies(Packet("SUBACK", p.id))
              /\ broker' = [broker EXCEPT !.subs = @ \cup {p.topic}]
           \/ /\ type = "UNSUBSCRIBE" /\ Replies(Packet("UNSUBACK", p.id))
              /\ broker' = [broker EXCEPT !.subs = @ \ {p.topic}]
           \/ /\ type = "PUBREC" /\ Replies(Packet("PUBREL", p.id))
              /\ broker' = IF p.id \in DOMAIN broker.out
                           THEN [broker EXCEPT !.out = Release(@, p.id)]
                           ELSE broker
           \/ type = "PINGREQ" /\ UNCHANGED <<net, broker>>
    /\ UNCHANGED <<sent, delivered, posted>> /\ BrokerFrame

\* PUBACK and PUBCOMP end the exchange of a message.
BrokerCompletes ==
    /\ Session("PUBACK") \/ Session("PUBCOMP")
    /\ LET id == Head(tx).id IN
       /\ posted' = IF id \in DOMAIN broker.out THEN posted \cup {broker.out[id].m} ELSE posted
       /\ broker' = [broker EXCEPT !.out = Erase(@, id)]
    /\ UNCHANGED <<net, sent, delivered>> /\ BrokerFrame

BrokerPublishes(m) ==
    /\ sock = "up" /\ broker.up
    /\ m \in plan.incoming \ sent /\ TopicOf[m] \in broker.subs
    /\ sent' = sent \cup {m}
    /\ LET p == [type |-> "PUBLISH", id |-> broker.next, m |-> m, qos |-> QoSOf[m], dup |-> FALSE] IN
       /\ Replies(p)
       /\ broker' = [broker EXCEPT !.out = IF QoSOf[m] > 0 THEN Emplace(@, p.id, p) ELSE @,
                                   !.next = @ + 1]
    /\ UNCHANGED <<tx, delivered, posted>> /\ BrokerFrame

Broker ==
    \/ BrokerCloses \/ BrokerAccepts \/ BrokerTakes \/ BrokerAnswers \/ BrokerCompletes
    \/ \E m \in plan.incoming : BrokerPublishes(m)

Next ==
    \/ Application \/ Client
    \/ FirstTick \/ RunTick \/ DisconnectDone \/ ReconnectExpires \/ KeepAlive
    \/ Dispatch \/ Connects \/ Drop \/ GotIp \/ Receive
    \/ Broker

\* The task handles its events and ticks, timers expire, the dispatcher does
\* what it is asked to; the network and the broker answer in the end.  Ticks
\* come every 50 ms, pings every few seconds: they cannot take all the room.
Fairness ==
    /\ WF_vars(Application) /\ WF_vars(Client)
    /\ WF_vars(FirstTick) /\ SF_vars(RunTick) /\ WF_vars(DisconnectDone)
    /\ WF_vars(ReconnectExpires) /\ WF_vars(KeepAlive)
    /\ WF_vars(Dispatch) /\ WF_vars(Connects) /\ WF_vars(Receive) /\ WF_vars(Broker)

Spec == Init /\ [][Next]_vars /\ Fairness

-----------------------------------------------------------------------------
(* Properties.                                                             *)

Count(s, m) == Cardinality({i \in DOMAIN s : s[i] = m})

TypeOK ==
    /\ state \in Disconnected \cup Connected /\ {handled, auto, address, has_socket} \subseteq BOOLEAN
    /\ Len(in_progress) <= MaxOutgoing
    /\ \A i \in DOMAIN in_progress : in_progress[i].wait \in {Reserved, "PUBACK", "PUBREC", "PUBCOMP"}
    /\ DOMAIN sub.active \subseteq Topics
    /\ packet_id \in 0..IdRange - 1
    /\ Len(tx) <= TxSize
    /\ sock \in {"none", "connecting", "up", "stopping"}

\* A message of quality 2 is handed on by the broker as often as publish()
\* accepted it at most, whatever connections are lost between its four packets
\* (Publication::resend_outstanding_control_packet), until identifiers repeat.
PublishedOnce ==
    wrapped \/ \A m \in Messages : QoSOf[m] = 2 => Count(delivered, m) <= Count(accepted, m)

\* Nor is an incoming one offered twice to the application (Subscription::receive).
PostedOnce ==
    \A m \in Messages : QoSOf[m] = 2 => Cardinality({i \in DOMAIN app : app[i].m = m}) <= 1

\* A message publish() accepted is still queued, or was handed to the broker,
\* or was dropped for a new session, or had no quality of service: no other
\* path of Publication loses it, until identifiers repeat.
Accounted ==
    wrapped \/ \A i \in DOMAIN accepted :
        LET m == accepted[i] IN
        \/ QoSOf[m] = 0 \/ m \in dropped
        \/ \E j \in DOMAIN in_progress : in_progress[j].packet.m = m
        \/ Contains(delivered, m)

\* Messages reach the broker in the order in which publish() accepted them: the
\* first of the queue alone is in flight, over every reconnection.
PublishedInOrder ==
    \A i, j \in DOMAIN delivered :
        i < j /\ (\A k \in 1..i - 1 : delivered[k] # delivered[i])
              /\ (\A k \in 1..j - 1 : delivered[k] # delivered[j])
        => \E a, b \in DOMAIN accepted : a < b /\ accepted[a] = delivered[i] /\ accepted[b] = delivered[j]

\* A client that runs, has no request outstanding and is connected agrees with
\* the broker about what it is subscribed to (Subscription::handle_disconnect
\* asks again for all of it).  The exception: two CONNECT events overtake the
\* dispatcher, and the send buffer, cleared when they are handled, carries a
\* packet of the first connection into the second.
ActiveAgrees ==
    state = "run" /\ broker.up /\ inbox = <<>> /\ sock = "up" /\ sub.subscribing = <<>> /\ sub.unsubscribing = <<>>
        => DOMAIN sub.active = broker.subs \/ leftover

\* What the broker believes to have delivered is in the queue of the application,
\* but for two losses: a message of quality 2 whose identifier an older session
\* had left in receiving (Subscription::receive(Publish) keeps the older
\* message), and one that was acknowledged and then met a queue that was full or
\* gone (Subscription.cpp:251-256).
Taken(m) == \E i \in DOMAIN app : app[i].m = m /\ app[i].taken
Refused(m) == \E i \in DOMAIN app : app[i].m = m /\ ~app[i].taken
OnlyStaleIdsSwallow ==
    \A m \in posted : Taken(m) \/ Refused(m) \/ stale

Made(op) == \E i \in DOMAIN plan.calls : plan.calls[i].op = op

\* With automatic reconnection, whatever is published or subscribed is sent and
\* answered in the end, though connections are lost, answers are late and the
\* broker refuses, unless the address once failed to resolve: then Socket::start()
\* gives up without a word, and nothing wakes the client.
Drains ==
    <>[](\/ in_progress = <<>> /\ sub.subscribing = <<>> /\ sub.unsubscribing = <<>>
         \/ unresolved \/ ~plan.clean \/ Made("disconnect"))

\* A topic that is subscribed to, and not unsubscribed from, is subscribed to
\* for good in the end: every loss of the connection is made up for.
StaysSubscribed ==
    <>[](Made("subscribe") /\ ~Made("unsubscribe") /\ ~unresolved
            => \E i \in DOMAIN plan.calls :
                   plan.calls[i].op = "subscribe" /\ plan.calls[i].topic \in DOMAIN sub.active \cap broker.subs)

\* A publication is kept as its quality of service promises: never twice, never
\* lost without a reason, and in order.
PublicationsKept == TypeOK /\ PublishedOnce /\ Accounted /\ PublishedInOrder

\* A session is kept: client and broker agree on the subscriptions, what comes
\* in on them is offered to the application, once, and every lost connection is made up for.
SessionKept == [](ActiveAgrees /\ OnlyStaleIdsSwallow /\ PostedOnce) /\ Drains /\ StaysSubscribed
=============================================================================
