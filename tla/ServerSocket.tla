---------------------------- MODULE ServerSocket ----------------------------
(* ServerSocket, ClientPool and ServerClient: the dispatcher accepts a       *)
(* connection, takes a client from the pool and hands its socket to itself   *)
(* as an operation; when the socket is closed, the client is told in its own *)
(* task and goes back to the pool.  The pool has no lock.  Its deque is read *)
(* and shortened by the dispatcher and extended by the task, each a step; of *)
(* its vector, erase() is two steps, moving the elements down and taking the *)
(* last place away, between which push_back() of the dispatcher may come.    *)
EXTENDS Naturals, Sequences, FiniteSets, SequencesExt

CONSTANTS Clients,      \* the clients of the pool, in their first order
          Peers, Server, Nobody,
          OpQueue,      \* places in the operation queue of the dispatcher
          Backlog,      \* places in the backlog
          MaxTrouble    \* bound: changes of the network, failed starts

\* The clients of the pool are different objects, and the dispatcher's queue has
\* room for the Start of the server.
ASSUME ServerAssumption ==
  /\ Clients \in Seq(ToSet(Clients)) /\ Nobody \notin ToSet(Clients)
  /\ \A i, j \in DOMAIN Clients : Clients[i] = Clients[j] => i = j
  /\ IsFiniteSet(Peers) /\ Server \notin Peers /\ Nobody \notin Peers
  /\ OpQueue \in Nat \ {0}

VARIABLES has_ip, trouble,
          place,        \* of the server socket: active, inactive or none
          backlog, backed_off,
          clients, in_use,     \* ClientPool
          disp, task,          \* where the dispatcher and the task are
          conn, client,        \* of each peer: its socket (revived: stopped, then connected
                               \* again; kept: closed as such), and whose it is
          registered,          \* active_sockets
          ops, status,         \* operations; clients told of a disconnect
          raced, lostOps       \* history

serverVars == <<has_ip, trouble, place, backlog, backed_off, clients, in_use, disp,
          task, conn, client, registered, ops, status, raced, lostOps>>
pool == <<clients, in_use>>
history == <<raced, lostOps>>

AtRest == [at |-> "idle", who |-> Nobody, peer |-> Nobody]

ServerInit ==
  /\ has_ip = TRUE /\ trouble = 0 /\ place = "none"
  /\ backlog = <<>> /\ backed_off = FALSE
  /\ clients = Clients /\ in_use = <<>>
  /\ disp = AtRest /\ task = AtRest
  /\ conn = [p \in Peers |-> "away"] /\ client = [p \in Peers |-> Nobody]
  /\ registered = {}
  /\ ops = <<[op |-> "Start", on |-> Server]>> /\ status = <<>>
  /\ raced = FALSE /\ lostOps = FALSE

\* perform_op() for each of a sequence of operations: what does not fit in
\* the queue is lost.
PerformOps(q, s) ==
  LET n == IF Len(q) + Len(s) > OpQueue THEN OpQueue - Len(q) ELSE Len(s)
  IN /\ ops' = q \o SubSeq(s, 1, n)
     /\ lostOps' = (lostOps \/ n < Len(s))
StopOf(x) == [op |-> "Stop", on |-> x]

\* A client exists as long as somebody holds it.
Alive(c) == \/ c \in {clients[i] : i \in DOMAIN clients}
            \/ c \in {in_use[i] : i \in DOMAIN in_use}
            \/ c \in {disp.who, task.who}

-----------------------------------------------------------------------------
(* The dispatcher.                                                           *)

\* A peer connects; the stack keeps the connection until it is accepted.
Connect(p) ==
  /\ place = "active" /\ conn[p] = "away" /\ Len(backlog) < Backlog
  /\ conn' = [conn EXCEPT ![p] = "waiting"] /\ backlog' = Append(backlog, p)
  /\ UNCHANGED <<has_ip, trouble, place, backed_off, pool, disp, task, client,
                 registered, ops, status, history>>

\* accept_request(): without a client the connection stays where it is and
\* the server socket is not polled for a while.
AcceptRequest ==
  /\ disp.at = "idle" /\ place = "active" /\ ~backed_off /\ backlog # <<>>
  /\ IF clients = <<>>
       THEN backed_off' = TRUE /\ UNCHANGED <<disp, backlog>>
       ELSE /\ disp' = [at |-> "get", who |-> Nobody, peer |-> Head(backlog)]
            /\ backlog' = Tail(backlog) /\ UNCHANGED backed_off
  /\ UNCHANGED <<has_ip, trouble, place, pool, task, conn, client, registered,
                 ops, status, history>>

\* is_backed_off() after the time is over.
BackOffEnds ==
  /\ disp.at = "idle" /\ backed_off /\ backed_off' = FALSE
  /\ UNCHANGED <<has_ip, trouble, place, backlog, pool, disp, task, conn, client,
                 registered, ops, status, history>>

\* ClientPool::get(): the first client, also put among those in use ...
GetFront ==
  /\ disp.at = "get"
  /\ disp' = [disp EXCEPT !.at = "pop", !.who = Head(clients)]
  /\ in_use' = Append(in_use, Head(clients))
  /\ raced' = (raced \/ task.at = "erase")
  /\ UNCHANGED <<has_ip, trouble, place, backlog, backed_off, clients, task, conn,
                 client, registered, ops, status, lostOps>>

PopFrontForgets ==
  /\ disp.at = "pop"
  /\ disp' = [disp EXCEPT !.at = "create"]
  /\ UNCHANGED <<has_ip, trouble, place, backlog, backed_off, pool, task, conn,
                 client, registered, ops, status, history>>

\* ... and taken off the deque; the new socket asks the dispatcher to be
\* added to the active ones and is given to the client.
PopFront ==
  /\ disp.at = "pop"
  /\ clients' = Tail(clients)
  /\ disp' = [disp EXCEPT !.at = "create"]
  /\ UNCHANGED <<has_ip, trouble, place, backlog, backed_off, in_use, task, conn,
                 client, registered, ops, status, history>>

SetExistingSocket ==
  /\ disp.at = "create"
  /\ conn' = [conn EXCEPT ![disp.peer] = "open"]
  /\ client' = [client EXCEPT ![disp.peer] = disp.who]
  /\ PerformOps(ops, <<[op |-> "AddActiveSocket", on |-> disp.peer]>>)
  /\ disp' = AtRest
  /\ UNCHANGED <<has_ip, trouble, place, backlog, backed_off, pool, task,
                 registered, status, raced>>

\* internal_start() of the server: socket, bind and listen may fail.
InternalStart(ok, q, stops) ==
  IF ok THEN place' = "active" /\ ops' = q /\ UNCHANGED <<trouble, lostOps>>
  ELSE /\ trouble < MaxTrouble /\ trouble' = trouble + 1
       /\ place' = "none" /\ PerformOps(q, stops)

StartSocket(ok) ==
  /\ disp.at = "idle" /\ ops # <<>> /\ Head(ops).op = "Start"
  /\ IF has_ip THEN InternalStart(ok, Tail(ops), <<StopOf(Server)>>)
     ELSE ok /\ place' = "inactive" /\ ops' = Tail(ops) /\ UNCHANGED <<trouble, lostOps>>
  /\ UNCHANGED <<has_ip, backlog, backed_off, pool, disp, task, conn, client,
                 registered, status, raced>>

\* A socket that cannot be started is stopped twice, by itself and by the
\* dispatcher.
RestartInactive(ok) ==
  /\ disp.at = "idle" /\ has_ip /\ place = "inactive"
  /\ InternalStart(ok, ops, <<StopOf(Server), StopOf(Server)>>)
  /\ UNCHANGED <<has_ip, backlog, backed_off, pool, disp, task, conn, client,
                 registered, status, raced>>

AddActiveSocketIfUp ==
  /\ disp.at = "idle" /\ ops # <<>> /\ Head(ops).op = "AddActiveSocket"
  /\ registered' = IF has_ip THEN registered \cup {Head(ops).on} ELSE registered
  /\ ops' = Tail(ops)
  /\ UNCHANGED <<has_ip, trouble, place, backlog, backed_off, pool, disp, task,
                 conn, client, status, history>>

AddActiveSocket ==
  /\ disp.at = "idle" /\ ops # <<>> /\ Head(ops).op = "AddActiveSocket"
  /\ registered' = registered \cup {Head(ops).on} /\ ops' = Tail(ops)
  /\ UNCHANGED <<has_ip, trouble, place, backlog, backed_off, pool, disp, task,
                 conn, client, status, history>>

ShutdownServerForGood ==
  /\ place' = "none"
  /\ backlog' = <<>> /\ backed_off' = FALSE
  /\ conn' = [p \in Peers |-> IF conn[p] = "waiting" THEN "closed" ELSE conn[p]]
  /\ ops' = Tail(ops)
  /\ UNCHANGED <<registered, status, lostOps>>

\* shutdown_socket() of the server: it is started again when there is network.
\* The connections of its backlog are gone with it.
ShutdownServer ==
  /\ place' = "inactive"
  /\ backlog' = <<>> /\ backed_off' = FALSE
  /\ conn' = [p \in Peers |-> IF conn[p] = "waiting" THEN "closed" ELSE conn[p]]
  /\ ops' = Tail(ops)
  /\ UNCHANGED <<registered, status, lostOps>>

\* shutdown_socket() of a connection: the first time its client is told.  A
\* socket whose client is gone asks to be stopped once more.  stop_internal()
\* leaves alone what is not active: a socket that is connected without being so
\* is closed, and its client told that it is connected, which is nothing to it.
ShutdownConnection(p) ==
  /\ registered' = registered \ {p}
  /\ conn' = [conn EXCEPT ![p] = IF @ \in {"revived", "kept"} THEN "kept" ELSE "closed"]
  /\ IF conn[p] \in {"closed", "kept"} THEN ops' = Tail(ops) /\ UNCHANGED <<status, lostOps>>
     ELSE IF Alive(client[p])
       THEN /\ status' = IF conn[p] = "revived" THEN status ELSE Append(status, client[p])
            /\ ops' = Tail(ops) /\ UNCHANGED lostOps
       ELSE UNCHANGED status /\ PerformOps(Tail(ops), <<StopOf(p)>>)
  /\ UNCHANGED <<place, backlog, backed_off>>

ShutdownSocket ==
  /\ disp.at = "idle" /\ ops # <<>> /\ Head(ops).op = "Stop"
  /\ IF Head(ops).on = Server THEN ShutdownServer ELSE ShutdownConnection(Head(ops).on)
  /\ UNCHANGED <<has_ip, trouble, pool, disp, task, client, raced>>

\* The dispatcher finds that the peer has closed, that nothing could be sent in
\* time, or that the client is gone.
StopConnection(p) ==
  /\ disp.at = "idle" /\ p \in registered /\ conn[p] = "open"
  /\ conn' = [conn EXCEPT ![p] = "stopped"]
  /\ PerformOps(ops, <<StopOf(p)>>)
  /\ UNCHANGED <<has_ip, trouble, place, backlog, backed_off, pool, disp, task,
                 client, registered, status, raced>>

\* event(NetworkStatus): every active socket is stopped when the network goes,
\* and again when it comes, in the order of their descriptors.
NetworkEvent ==
  /\ disp.at = "idle" /\ trouble < MaxTrouble /\ trouble' = trouble + 1
  /\ has_ip' = ~has_ip
  /\ \E order \in SetToSeqs(registered \cup (IF place = "active" THEN {Server} ELSE {})) :
       PerformOps(ops, [i \in DOMAIN order |-> StopOf(order[i])])
  /\ UNCHANGED <<place, backlog, backed_off, pool, disp, task, conn, client,
                 registered, status, raced>>

-----------------------------------------------------------------------------
(* The task of the clients.                                                  *)

\* close() of a client that has heard from its peer.
Close(p) ==
  /\ task.at = "idle" /\ p \in registered /\ conn[p] = "open" /\ Alive(client[p])
  /\ conn' = [conn EXCEPT ![p] = "stopped"]
  /\ PerformOps(ops, <<StopOf(p)>>)
  /\ UNCHANGED <<has_ip, trouble, place, backlog, backed_off, pool, disp, task,
                 client, registered, status, raced>>

\* The same while the dispatcher is in writable() of the socket and has found it
\* active: signal_new_connection() finds it no longer connected and connects it
\* again, and what is then sent may fail, which stops the socket once more.  The
\* dispatcher does nothing else before, so that this is one step.
CloseDuringWritable(p, sendFails) ==
  /\ task.at = "idle" /\ disp.at = "idle"
  /\ p \in registered /\ conn[p] = "open" /\ Alive(client[p])
  /\ conn' = [conn EXCEPT ![p] = "revived"]
  /\ PerformOps(ops, IF sendFails THEN <<StopOf(p), StopOf(p)>> ELSE <<StopOf(p)>>)
  /\ UNCHANGED <<has_ip, trouble, place, backlog, backed_off, pool, disp, task,
                 client, registered, status, raced>>

Shifted(s, c) == LET k == CHOOSE k \in DOMAIN s : s[k] = c
                 IN [i \in DOMAIN s |-> IF i < k THEN s[i]
                                        ELSE IF i < Len(s) THEN s[i + 1] ELSE Nobody]

\* event(ConnectionStatusEvent), return_client() and reset(): the client gives
\* up its socket, and erase() of its place in in_use begins.
ReturnClient ==
  /\ task.at = "idle" /\ status # <<>>
  /\ status' = Tail(status)
  /\ IF ~Alive(Head(status)) THEN UNCHANGED <<task, client, in_use>>
     ELSE LET c == Head(status)
              found == \E i \in DOMAIN in_use : in_use[i] = c
          IN /\ client' = [p \in Peers |-> IF client[p] = c THEN Nobody ELSE client[p]]
             /\ in_use' = IF found THEN Shifted(in_use, c) ELSE in_use
             /\ task' = [AtRest EXCEPT !.at = IF found THEN "erase" ELSE "push", !.who = c]
  /\ UNCHANGED <<has_ip, trouble, place, backlog, backed_off, clients, disp, conn,
                 registered, ops, history>>

EraseEndKeeps ==
  /\ task.at = "erase"
  /\ task' = [task EXCEPT !.at = "push"]
  /\ UNCHANGED <<has_ip, trouble, place, backlog, backed_off, clients, in_use, disp,
                 conn, client, registered, ops, status, history>>

\* The last place of in_use goes, whatever is in it by now.
EraseEnd ==
  /\ task.at = "erase"
  /\ in_use' = SubSeq(in_use, 1, Len(in_use) - 1)
  /\ task' = [task EXCEPT !.at = "push"]
  /\ UNCHANGED <<has_ip, trouble, place, backlog, backed_off, clients, disp,
                 conn, client, registered, ops, status, history>>

PushBackForgets ==
  /\ task.at = "push" /\ task' = AtRest
  /\ UNCHANGED <<has_ip, trouble, place, backlog, backed_off, pool, disp, conn,
                 client, registered, ops, status, history>>

PushBack ==
  /\ task.at = "push"
  /\ clients' = Append(clients, task.who) /\ task' = AtRest
  /\ UNCHANGED <<has_ip, trouble, place, backlog, backed_off, in_use, disp, conn,
                 client, registered, ops, status, history>>

Readable == GetFront \/ PopFront \/ SetExistingSocket
HandleOp == AddActiveSocket \/ ShutdownSocket \/ (\E ok \in BOOLEAN : StartSocket(ok))
Restart == \E ok \in BOOLEAN : RestartInactive(ok)
Task == ReturnClient \/ EraseEnd \/ PushBack
ServerNext == \/ AcceptRequest \/ Readable \/ HandleOp \/ Restart \/ BackOffEnds
        \/ NetworkEvent \/ Task
        \/ (\E p \in Peers : Connect(p) \/ StopConnection(p) \/ Close(p))
        \/ (\E p \in Peers, sendFails \in BOOLEAN : CloseDuringWritable(p, sendFails))

\* The dispatcher and the task go on, the back-off ends, and so do connections.
\* Each of these steps can be taken a bounded number of times, so that weak
\* fairness of all of them together is enough.
Progress == Readable \/ HandleOp \/ Restart \/ Task \/ (\E p \in Peers : StopConnection(p))
ServerFairness == WF_serverVars(Progress) /\ WF_serverVars(AcceptRequest) /\ WF_serverVars(BackOffEnds)
ServerSpec == ServerInit /\ [][ServerNext]_serverVars /\ ServerFairness

-----------------------------------------------------------------------------
(* Every client is in exactly one place: free, in use, or on its way between *)
(* the two; nothing else is in the pool.  Excepted: the two threads met in   *)
(* in_use (ClientPool.h:81), which loses the client that was being handed    *)
(* out.                                                                      *)
Times(c, s) == Cardinality({i \in DOMAIN s : s[i] = c})
PoolConserved ==
  ~raced =>
    /\ \A i \in DOMAIN Clients :
         LET c == Clients[i] IN
         Times(c, clients) + Times(c, in_use)
           + (IF task.who = c THEN 1 ELSE 0) = (IF disp.at = "pop" /\ disp.who = c THEN 2 ELSE 1)
    /\ Times(Nobody, in_use) = (IF task.at = "erase" THEN 1 ELSE 0)

(* No client serves two connections at a time, so that their packets cannot  *)
(* be mixed in one container; not even after the race in in_use.             *)
OneConnectionEach ==
  \A p, q \in Peers : p # q /\ client[p] # Nobody => client[p] # client[q]

(* A connection that is open is known to the dispatcher, or will be, and a   *)
(* stopped one will be closed, unless an operation was lost in a full queue  *)
(* (SocketDispatcher.cpp:335).                                               *)
ConnectionsKnown ==
  ~lostOps => \A p \in Peers :
    /\ conn[p] = "open" => p \in registered \/ [op |-> "AddActiveSocket", on |-> p] \in ToSet(ops)
    /\ conn[p] \in {"stopped", "revived"} => StopOf(p) \in ToSet(ops)

(* A connection in the backlog is accepted, or closed with the server socket, *)
(* if connections come to an end: the back-off of an empty pool is not for   *)
(* good.  Excepted: each client was once closed during writable(), so that    *)
(* its socket reported to be connected when it was closed and the client was  *)
(* not returned (Socket.h:277, ServerClient.h:73).                            *)
AllKept == \A i \in DOMAIN Clients : \E q \in Peers : conn[q] = "kept" /\ client[q] = Clients[i]
Served ==
  \A p \in Peers : conn[p] = "waiting" ~> (conn[p] # "waiting" \/ lostOps \/ raced \/ AllKept)

(* A server socket listens again whenever there is network, though it failed *)
(* to start or was stopped; only a Stop that was lost ends it.               *)
ServerRestarts == []<>(place = "active" \/ ~has_ip \/ lostOps)

(* Clients and connections are conserved: none is lost and none is used      *)
(* twice, between the pool, the dispatcher and the tasks.                    *)
ClientsConserved == PoolConserved /\ OneConnectionEach /\ ConnectionsKnown

(* Who waits is served and a server listens again, whenever there is network. *)
ServerServes == Served /\ ServerRestarts
=============================================================================
