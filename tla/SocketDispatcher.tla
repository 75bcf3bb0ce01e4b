-------------------------- MODULE SocketDispatcher --------------------------
(***************************************************************************)
(* Client sockets: the SocketDispatcher task (core/network/                *)
(* SocketDispatcher.cpp), the sockets it polls (core/network/Socket.h,     *)
(* CommonSocket.cpp) and the applications that start and stop them.        *)
(*                                                                         *)
(* The dispatcher alternates between its event handlers and tick().  Both  *)
(* take socket_guard, but the applications do not: stop() and start() look *)
(* at and change the flags of a socket in the application's thread and     *)
(* leave an operation in a bounded queue.  A place of the dispatcher is    *)
(* the code between two accesses to what an application may change.  The   *)
(* packets are left out: what matters of a read or a write is whether it   *)
(* fails.                                                                  *)
(***************************************************************************)
EXTENDS Integers, Sequences, FiniteSets, SequencesExt, Subsequence

CONSTANTS
    Sockets,    \* the client sockets
    Fds,        \* the file descriptors of the platform, small numbers
    Releasing,  \* the sockets whose application may let go of their buffers
    OpLimit,    \* the size of socket_op, CONFIG_LWIP_MAX_SOCKETS
    MaxStarts   \* bound: the starts that may wait, in socket_op or for the network

ASSUME FdsAssumption == Fds \subseteq Nat /\ IsFiniteSet(Fds)
ASSUME ReleasingAssumption == Releasing \subseteq Sockets
ASSUME OpLimitAssumption == OpLimit \in Nat \ {0}
ASSUME MaxStartsAssumption == MaxStarts \in Nat \ {0}

VARIABLES
    active, connected,      \* the flags of a socket
    socket_id,              \* its file descriptor, or INVALID_SOCKET
    container,              \* container[s]: its BufferContainer lives
    told,                   \* told[s]: the last ConnectionStatusEvent of s
    app,                    \* app[s]: where the application is in a call
    at,                     \* where the dispatcher is
    has_ip,
    active_sockets, inactive_sockets,
    socket_op,              \* the queue of operations
    owed,                   \* the sockets whose Stop the dispatcher is to push
    due,                    \* the sockets whose timeout has expired in this tick()
    read_set, write_set,
    net,                    \* net[f]: the connection behind descriptor f
    lost,                   \* history: the sockets that a full queue lost a Stop of
    raced                   \* history: the sockets set connected after being stopped

socketVars == <<active, connected, socket_id>>
appVars == <<container, app>>
registryVars == <<has_ip, active_sockets, inactive_sockets>>
queueVars == <<socket_op, owed, lost>>
pollVars == <<due, read_set, write_set>>
vars == <<socketVars, appVars, told, at, registryVars, queueVars, pollVars, net, raced>>

INVALID_SOCKET == -1

\* "loop": in Task::exec(); the others are the parts of tick() in their order.
Places == {"loop", "restart", "timeouts", "poll", "signal", "publish", "send"}

Op(o, s) == [op |-> o, socket |-> s]

Registered(s) == \E f \in DOMAIN active_sockets : active_sockets[f] = s

Init ==
    /\ active = [s \in Sockets |-> FALSE]
    /\ connected = [s \in Sockets |-> FALSE]
    /\ socket_id = [s \in Sockets |-> INVALID_SOCKET]
    /\ container = [s \in Sockets |-> TRUE]
    /\ told = [s \in Sockets |-> "nothing"]
    /\ app = [s \in Sockets |-> "idle"]
    /\ at = "loop"
    /\ has_ip = FALSE
    /\ active_sockets = <<>>
    /\ inactive_sockets = <<>>
    /\ socket_op = <<>>
    /\ owed = <<>>
    /\ due = {}
    /\ read_set = {}
    /\ write_set = {}
    /\ net = [f \in Fds |-> "free"]
    /\ lost = {}
    /\ raced = {}

-----------------------------------------------------------------------------
(* Shared by the application and the dispatcher.                           *)

\* Mutant of StopInternal: the socket stays connected.
StopInternalKeepsConnected(s) ==
    /\ active' = [active EXCEPT ![s] = FALSE]
    /\ UNCHANGED connected

\* Socket::stop_internal()
StopInternal(s) ==
    /\ active' = [active EXCEPT ![s] = FALSE]
    /\ connected' = [connected EXCEPT ![s] = @ /\ ~active[s]]

\* SocketDispatcher::perform_op(): a full queue loses the operations.
PerformOps(ops) ==
    LET room == OpLimit - Len(socket_op)
        pushed == IF Len(ops) <= room THEN Len(ops) ELSE room
    IN  /\ socket_op' = socket_op \o SubSeq(ops, 1, pushed)
        /\ lost' = lost \cup {ops[i].socket : i \in {j \in pushed + 1..Len(ops) : ops[j].op = "Stop"}}

-----------------------------------------------------------------------------
(* The application.                                                        *)

\* CommonSocket::stop(), before the operation is pushed.
AppStop(s) ==
    /\ app[s] = "idle"
    /\ StopInternal(s)
    /\ app' = [app EXCEPT ![s] = "stopping"]
    /\ UNCHANGED <<socket_id, container, told, at, registryVars, queueVars, pollVars, net, raced>>

\* The starts that the dispatcher has not got to.
WaitingStarts ==
    Len(inactive_sockets) + Len(SelectSeq(socket_op, LAMBDA o : o.op = "Start"))
        + Cardinality({s \in Sockets : app[s] = "starting"})

\* Socket::start(): a socket that is not active, and an address that resolves.
AppStart(s) ==
    /\ app[s] = "idle"
    /\ ~active[s]
    /\ WaitingStarts < MaxStarts
    /\ app' = [app EXCEPT ![s] = "starting"]
    /\ UNCHANGED <<socketVars, container, told, at, registryVars, queueVars, pollVars, net, raced>>

\* The second half of both: the operation is pushed.
AppPush(s) ==
    /\ app[s] # "idle"
    /\ PerformOps(<<Op(IF app[s] = "stopping" THEN "Stop" ELSE "Start", s)>>)
    /\ app' = [app EXCEPT ![s] = "idle"]
    /\ UNCHANGED <<socketVars, container, told, at, registryVars, owed, pollVars, net, raced>>

\* The application lets go of the buffers.
AppRelease(s) ==
    /\ s \in Releasing
    /\ container[s]
    /\ container' = [container EXCEPT ![s] = FALSE]
    /\ UNCHANGED <<socketVars, app, told, at, registryVars, queueVars, pollVars, net, raced>>

-----------------------------------------------------------------------------
(* The network.                                                            *)

\* The peer accepts.
Connect(f) ==
    /\ net[f] = "connecting"
    /\ net' = [net EXCEPT ![f] = "up"]
    /\ UNCHANGED <<socketVars, appVars, told, at, registryVars, queueVars, pollVars, raced>>

\* The peer refuses or closes, or the connection breaks.
Break(f) ==
    /\ net[f] \in {"connecting", "up"}
    /\ net' = [net EXCEPT ![f] = "lost"]
    /\ UNCHANGED <<socketVars, appVars, told, at, registryVars, queueVars, pollVars, raced>>

-----------------------------------------------------------------------------
(* The dispatcher: what the handlers and tick() are made of.               *)

\* The dispatcher is at place p and owes nobody a Stop.
At(p) == at = p /\ owed = <<>>

\* CommonSocket::stop() in the dispatcher, before the operation is pushed.
DispatcherStop(s) ==
    /\ StopInternal(s)
    /\ owed' = <<s>>
    /\ UNCHANGED <<socket_op, lost>>

\* The operation is pushed.
PushOwed ==
    /\ owed # <<>>
    /\ PerformOps(<<Op("Stop", Head(owed))>>)
    /\ owed' = Tail(owed)
    /\ UNCHANGED <<socketVars, appVars, told, at, registryVars, pollVars, net, raced>>

\* Socket::create_socket(): the descriptors that s may have after it, which is
\* none when the platform has none to give.
CreateSocket(s) ==
    IF socket_id[s] = INVALID_SOCKET
    THEN {f \in Fds : net[f] = "free"} \cup {INVALID_SOCKET}
    ELSE {socket_id[s]}

\* std::map::insert(): a descriptor that is in the map keeps its socket.
Inserted(f, s) ==
    [g \in DOMAIN active_sockets \cup {f} |->
        IF g \in DOMAIN active_sockets THEN active_sockets[g] ELSE s]

\* Mutant of InternalStart: a socket that could not be started is forgotten.
InternalStartForgets(s, stops) ==
    \/ /\ active[s]
       /\ active_sockets' = Inserted(socket_id[s], s)
       /\ UNCHANGED <<socketVars, owed, net>>
    \/ \E f \in CreateSocket(s) \ {INVALID_SOCKET}, started \in BOOLEAN :
        /\ ~active[s]
        /\ socket_id' = [socket_id EXCEPT ![s] = f]
        /\ active' = [active EXCEPT ![s] = started]
        /\ net' = [net EXCEPT ![f] = "connecting"]
        /\ active_sockets' = IF started THEN Inserted(f, s) ELSE active_sockets
        /\ UNCHANGED <<connected, owed>>

\* Socket::internal_start() and its use: a socket that could be started is
\* registered; otherwise it is stopped, once by internal_start() and once more
\* by each of the callers' "stops".
InternalStart(s, stops) ==
    \/ /\ active[s]
       /\ active_sockets' = Inserted(socket_id[s], s)
       /\ UNCHANGED <<socketVars, owed, net>>
    \/ \E f \in CreateSocket(s) \ {INVALID_SOCKET} :
        /\ ~active[s]
        /\ socket_id' = [socket_id EXCEPT ![s] = f]
        /\ active' = [active EXCEPT ![s] = TRUE]
        /\ net' = [net EXCEPT ![f] = "connecting"]
        /\ active_sockets' = Inserted(f, s)
        /\ UNCHANGED <<connected, owed>>
    \/ \E f \in CreateSocket(s) :
        /\ ~active[s]
        /\ socket_id' = [socket_id EXCEPT ![s] = f]
        /\ net' = [g \in Fds |-> IF g = f THEN "lost" ELSE net[g]]
        /\ owed' = [i \in 1..stops + 1 |-> s]
        /\ UNCHANGED <<active, connected, active_sockets>>

-----------------------------------------------------------------------------
(* The event handlers.                                                     *)

\* start_socket(), by event(SocketOperation)
StartSocket ==
    /\ At("loop")
    /\ socket_op # <<>>
    /\ socket_op[1].op = "Start"
    /\ LET s == socket_op[1].socket
       IN  IF has_ip
           THEN InternalStart(s, 0) /\ UNCHANGED inactive_sockets
           ELSE /\ inactive_sockets' = Append(inactive_sockets, s)
                /\ UNCHANGED <<socketVars, active_sockets, owed, net>>
    /\ socket_op' = Tail(socket_op)
    /\ UNCHANGED <<appVars, told, at, has_ip, lost, pollVars, raced>>

\* remove_socket_from_collection(): the first occurrence goes.
RemoveInactive(s) ==
    \/ /\ ~Contains(inactive_sockets, s)
       /\ UNCHANGED inactive_sockets
    \/ \E i \in 1..Len(inactive_sockets) :
        /\ inactive_sockets[i] = s
        /\ \A j \in 1..i - 1 : inactive_sockets[j] # s
        /\ inactive_sockets' = RemoveAt(inactive_sockets, i)

\* Mutant of ShutdownSocket: a socket that has stopped already is left alone.
ShutdownActiveSocket ==
    /\ At("loop")
    /\ socket_op # <<>>
    /\ socket_op[1].op = "Stop"
    /\ LET s == socket_op[1].socket
       IN  IF ~active[s]
           THEN UNCHANGED <<socketVars, registryVars, net, told>>
           ELSE /\ StopInternal(s)
                /\ active_sockets' = [f \in {g \in DOMAIN active_sockets : active_sockets[g] # s} |-> active_sockets[f]]
                /\ net' = [net EXCEPT ![socket_id[s]] = "free"]
                /\ socket_id' = [socket_id EXCEPT ![s] = INVALID_SOCKET]
                /\ told' = [told EXCEPT ![s] = "disconnected"]
                /\ UNCHANGED <<has_ip, inactive_sockets>>
    /\ socket_op' = Tail(socket_op)
    /\ UNCHANGED <<appVars, at, owed, lost, pollVars, raced>>

\* Mutant of ShutdownSocket: the socket stays in active_sockets.
ShutdownRegistered ==
    /\ At("loop")
    /\ socket_op # <<>>
    /\ socket_op[1].op = "Stop"
    /\ LET s == socket_op[1].socket
       IN  /\ StopInternal(s)
           /\ RemoveInactive(s)
           /\ IF socket_id[s] = INVALID_SOCKET
              THEN UNCHANGED <<socket_id, net, told>>
              ELSE /\ net' = [net EXCEPT ![socket_id[s]] = "free"]
                   /\ socket_id' = [socket_id EXCEPT ![s] = INVALID_SOCKET]
                   /\ told' = [told EXCEPT ![s] = "disconnected"]
    /\ socket_op' = Tail(socket_op)
    /\ UNCHANGED <<appVars, at, has_ip, active_sockets, owed, lost, pollVars, raced>>

\* Socket::publish_connected_status(): without a container the socket stops.
PublishConnectedStatus(s, status) ==
    IF container[s]
    THEN told' = [told EXCEPT ![s] = IF status THEN "connected" ELSE "disconnected"]
    ELSE UNCHANGED told

\* shutdown_socket(), by event(SocketOperation)
ShutdownSocket ==
    /\ At("loop")
    /\ socket_op # <<>>
    /\ socket_op[1].op = "Stop"
    /\ LET s == socket_op[1].socket
       IN  /\ StopInternal(s)
           /\ active_sockets' = [f \in {g \in DOMAIN active_sockets : active_sockets[g] # s} |-> active_sockets[f]]
           /\ RemoveInactive(s)
           /\ IF socket_id[s] = INVALID_SOCKET
              THEN UNCHANGED <<socket_id, net, told, owed>>
              ELSE /\ net' = [net EXCEPT ![socket_id[s]] = "free"]
                   /\ socket_id' = [socket_id EXCEPT ![s] = INVALID_SOCKET]
                   /\ PublishConnectedStatus(s, connected'[s])
                   /\ owed' = IF container[s] THEN <<>> ELSE <<s>>
    /\ socket_op' = Tail(socket_op)
    /\ UNCHANGED <<appVars, at, has_ip, lost, pollVars, raced>>

\* event(NetworkStatus): both events close all sockets, in the order of their
\* descriptors.
NetworkEvent ==
    /\ At("loop")
    /\ has_ip' \in BOOLEAN
    /\ \E fds \in Walks(DOMAIN active_sockets) :
        PerformOps([i \in 1..Cardinality(DOMAIN active_sockets) |->
                        Op("Stop", active_sockets[fds[i]])])
    /\ UNCHANGED <<socketVars, appVars, told, at, active_sockets, inactive_sockets, owed, pollVars, net, raced>>

-----------------------------------------------------------------------------
(* tick()                                                                  *)

BeginTick ==
    /\ At("loop")
    /\ at' = "restart"
    /\ UNCHANGED <<socketVars, appVars, told, registryVars, queueVars, pollVars, net, raced>>

\* restart_inactive_sockets(), one socket after the other.
RestartInactive ==
    /\ At("restart")
    /\ has_ip
    /\ inactive_sockets # <<>>
    /\ InternalStart(Head(inactive_sockets), 1)
    /\ inactive_sockets' = Tail(inactive_sockets)
    /\ UNCHANGED <<appVars, told, at, has_ip, socket_op, lost, pollVars, raced>>

\* check_socket_timeouts(): the sockets whose send or receive timeout expired.
CheckSocketTimeouts ==
    /\ At("restart")
    /\ ~has_ip \/ inactive_sockets = <<>>
    /\ due' \in SUBSET {s \in Sockets : Registered(s)}
    /\ at' = "timeouts"
    /\ UNCHANGED <<socketVars, appVars, told, registryVars, queueVars, read_set, write_set, net, raced>>

StopExpired(s) ==
    /\ At("timeouts")
    /\ s \in due
    /\ DispatcherStop(s)
    /\ due' = due \ {s}
    /\ UNCHANGED <<socket_id, appVars, told, at, registryVars, read_set, write_set, net, raced>>

\* A connected socket that has lost its container.
Abandoned(s) == Registered(s) /\ active[s] /\ connected[s] /\ ~container[s]

\* build_sets() asks has_data_to_transmit(), which stops an abandoned socket.
StopAbandoned(s) ==
    /\ At("timeouts")
    /\ due = {}
    /\ Abandoned(s)
    /\ DispatcherStop(s)
    /\ UNCHANGED <<socket_id, appVars, told, at, registryVars, pollVars, net, raced>>

\* The descriptors of the active sockets, and of those that are connected.
Polled == {f \in DOMAIN active_sockets : active[active_sockets[f]]}
PolledToRead == {f \in Polled : connected[active_sockets[f]]}

\* build_sets(): the other active sockets are polled; select() says which are
\* ready.  A connected socket is polled for reading, and for writing when it has
\* something to send; one that is not connected is polled for writing.
Select ==
    /\ At("timeouts")
    /\ due = {}
    /\ \A s \in Sockets : ~Abandoned(s)
    /\ \E receiving \in SUBSET PolledToRead :
        read_set' = receiving \cup {f \in PolledToRead : net[f] = "lost"}
    /\ \E sending \in SUBSET PolledToRead :
        write_set' = {f \in (Polled \ PolledToRead) \cup sending : net[f] # "connecting"}
    /\ at' = "poll"
    /\ UNCHANGED <<socketVars, appVars, told, registryVars, queueVars, due, net, raced>>

\* select() fails: no socket is visited.
SelectFails ==
    /\ At("timeouts")
    /\ due = {}
    /\ \A s \in Sockets : ~Abandoned(s)
    /\ read_set' = {} /\ write_set' = {}
    /\ at' = "poll"
    /\ UNCHANGED <<socketVars, appVars, told, registryVars, queueVars, due, net, raced>>

\* The descriptors are visited in their order.
Visiting(f) ==
    /\ f \in read_set \cup write_set
    /\ \A g \in read_set \cup write_set : f <= g

\* Socket::readable(): there is something to read, or the receive buffer is
\* full and nothing is read.
ReadData(f) ==
    /\ At("poll")
    /\ Visiting(f) /\ f \in read_set
    /\ container[active_sockets[f]] \/ ~active[active_sockets[f]]
    /\ read_set' = read_set \ {f}
    /\ UNCHANGED <<socketVars, appVars, told, at, registryVars, queueVars, due, write_set, net, raced>>

\* Socket::readable(): recv() fails or returns 0, the packet cannot be assembled
\* or the container is gone.
ReadFails(f) ==
    /\ At("poll")
    /\ Visiting(f) /\ f \in read_set
    /\ active[active_sockets[f]]
    /\ DispatcherStop(active_sockets[f])
    /\ read_set' = read_set \ {f}
    /\ UNCHANGED <<socket_id, appVars, told, at, registryVars, due, write_set, net, raced>>

\* Socket::writable() looks at is_active().
Writable(f) ==
    /\ At("poll")
    /\ Visiting(f) /\ f \notin read_set
    /\ IF active[active_sockets[f]]
       THEN at' = "signal" /\ UNCHANGED write_set
       ELSE UNCHANGED at /\ write_set' = write_set \ {f}
    /\ UNCHANGED <<socketVars, appVars, told, registryVars, queueVars, due, read_set, net, raced>>

\* Socket::signal_new_connection() looks at connected.
SignalNewConnection(f) ==
    /\ At("signal")
    /\ Visiting(f)
    /\ LET s == active_sockets[f]
       IN  /\ connected' = [connected EXCEPT ![s] = TRUE]
           /\ at' = IF connected[s] THEN "send" ELSE "publish"
           /\ raced' = IF active[s] THEN raced ELSE raced \cup {s}
    /\ UNCHANGED <<active, socket_id, appVars, told, registryVars, queueVars, pollVars, net>>

\* publish_connected_status() looks at connected again.
Publish(f) ==
    /\ At("publish")
    /\ Visiting(f)
    /\ LET s == active_sockets[f]
       IN  /\ PublishConnectedStatus(s, connected[s])
           /\ IF container[s] THEN UNCHANGED <<active, connected, queueVars>> ELSE DispatcherStop(s)
    /\ at' = "send"
    /\ UNCHANGED <<socket_id, appVars, registryVars, pollVars, net, raced>>

\* send_next_packet(): a connected socket sends, which may fail when the
\* connection is lost and does when the container is.
SendNextPacket(f) ==
    /\ At("send")
    /\ Visiting(f)
    /\ LET s == active_sockets[f]
       IN  \/ /\ connected[s]
              /\ net[f] = "lost" \/ ~container[s]
              /\ DispatcherStop(s)
           \/ /\ ~connected[s] \/ container[s]
              /\ UNCHANGED <<active, connected, queueVars>>
    /\ write_set' = write_set \ {f}
    /\ at' = "poll"
    /\ UNCHANGED <<socket_id, appVars, told, registryVars, due, read_set, net, raced>>

EndTick ==
    /\ At("poll")
    /\ read_set \cup write_set = {}
    /\ at' = "loop"
    /\ UNCHANGED <<socketVars, appVars, told, registryVars, queueVars, pollVars, net, raced>>

Poll(f) ==
    ReadData(f) \/ ReadFails(f) \/ Writable(f) \/ SignalNewConnection(f) \/ Publish(f)
        \/ SendNextPacket(f)

Tick ==
    \/ RestartInactive
    \/ CheckSocketTimeouts
    \/ \E s \in Sockets : StopExpired(s) \/ StopAbandoned(s)
    \/ Select \/ SelectFails
    \/ \E f \in Fds : Poll(f)
    \/ EndTick

HandleOp == StartSocket \/ ShutdownSocket

Next ==
    \/ \E s \in Sockets : AppStop(s) \/ AppStart(s) \/ AppPush(s) \/ AppRelease(s)
    \/ \E f \in Fds : Connect(f) \/ Break(f)
    \/ HandleOp \/ NetworkEvent \/ BeginTick \/ Tick \/ PushOwed

Spec == Init /\ [][Next]_vars

\* The dispatcher and the calls of the applications go on; the loop of the task
\* serves both the queue and tick() (TickKeptAlive and EventuallyServed of
\* TaskEventQueue); select() works, and the application empties the receive
\* buffer, now and then, so that a lost connection is read in the end.
FairSpec ==
    /\ Spec
    /\ WF_vars(Tick) /\ WF_vars(PushOwed)
    /\ SF_vars(HandleOp) /\ SF_vars(BeginTick) /\ SF_vars(Select)
    /\ \A s \in Sockets : WF_vars(AppPush(s))
    /\ \A f \in Fds : SF_vars(net[f] = "lost" /\ ReadFails(f))

-----------------------------------------------------------------------------
(* Properties.                                                             *)

\* The sockets and the dispatcher keep their types; perform_op() overfills no
\* queue and tick() polls only descriptors that are registered.
TypeOK ==
    /\ active \in [Sockets -> BOOLEAN]
    /\ connected \in [Sockets -> BOOLEAN]
    /\ socket_id \in [Sockets -> Fds \cup {INVALID_SOCKET}]
    /\ container \in [Sockets -> BOOLEAN]
    /\ told \in [Sockets -> {"nothing", "connected", "disconnected"}]
    /\ app \in [Sockets -> {"idle", "starting", "stopping"}]
    /\ at \in Places
    /\ has_ip \in BOOLEAN
    /\ DOMAIN active_sockets \subseteq Fds
    /\ \A f \in DOMAIN active_sockets : active_sockets[f] \in Sockets
    /\ inactive_sockets \in Seq(Sockets)
    /\ socket_op \in Seq([op : {"Start", "Stop"}, socket : Sockets])
    /\ Len(socket_op) <= OpLimit
    /\ owed \in Seq(Sockets)
    /\ due \subseteq Sockets
    /\ read_set \cup write_set \subseteq DOMAIN active_sockets
    /\ net \in [Fds -> {"free", "connecting", "up", "lost"}]
    /\ lost \subseteq Sockets
    /\ raced \subseteq Sockets

\* The dispatcher finds a socket under the descriptor that it polls: the map of
\* active sockets agrees with the sockets and with the platform however often
\* descriptors are closed and handed out again, and an active socket is in it.
RegistryAgrees ==
    /\ \A f \in DOMAIN active_sockets : socket_id[active_sockets[f]] = f
    /\ \A s \in Sockets : active[s] => Registered(s)
    /\ \A s \in Sockets : socket_id[s] # INVALID_SOCKET => net[socket_id[s]] # "free"
    /\ \A s, r \in Sockets : socket_id[s] = socket_id[r] => s = r \/ socket_id[s] = INVALID_SOCKET

\* A Stop of s is queued or about to be.
StopPending(s) ==
    \/ Contains(socket_op, Op("Stop", s))
    \/ Contains(owed, s)
    \/ app[s] = "stopping"

\* A descriptor is open only for a socket that is active or will be shut down:
\* no order of stops, starts and failures leaks one, unless the queue was full.
NoLeakedDescriptor ==
    \A s \in Sockets \ lost : socket_id[s] # INVALID_SOCKET /\ ~active[s] => StopPending(s)

\* The last thing that is said of a closed socket is that it is disconnected.
ClosedIsDisconnected ==
    \A s \in Sockets : socket_id[s] = INVALID_SOCKET => ~connected[s] /\ (container[s] => told[s] # "connected")

\* Only a stop() between the two looks that writable() takes at a socket makes
\* a closed socket be reported as connected.
OnlyRaceMisleads ==
    \A s \in Sockets \ raced :
        socket_id[s] = INVALID_SOCKET => ~connected[s] /\ (container[s] => told[s] # "connected")

\* A connection that is lost is noticed and its descriptor closed, unless the
\* queue was full.
LostConnectionCloses ==
    \A f \in Fds : net[f] = "lost" ~> (net[f] # "lost" \/ lost # {})
-----------------------------------------------------------------------------
\* The sockets are alike when none or all of them are Releasing: for TLC.
SocketSymmetry == Permutations(Sockets)
=============================================================================
