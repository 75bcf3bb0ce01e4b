----------------------- MODULE SocketDispatcherProofs -----------------------
(***************************************************************************)
(* Proofs about the socket dispatcher, for any number of sockets, any      *)
(* finite set of descriptors and any size of the queue of operations.      *)
(*                                                                         *)
(* The map of active sockets agrees with the sockets and the platform:     *)
(* RegistryAgrees is inductive once the types are known, and the types     *)
(* need that a socket leaves the map only while nothing is being polled    *)
(* (Polling).  A descriptor is not leaked because every step that          *)
(* deactivates a socket owes it a Stop, which is queued or lost.  What a   *)
(* closed socket is said to be needs that only the race in writable()      *)
(* leaves a socket connected that is not active (ConnectedActive).         *)
(***************************************************************************)
EXTENDS SocketDispatcher, FiniteSetTheorems, SequenceTheorems, TLAPS

Ops == [op : {"Start", "Stop"}, socket : Sockets]

\* Descriptors are polled in the second half of tick() only.
Polling == at \in {"loop", "restart", "timeouts"} => read_set = {} /\ write_set = {}

\* A socket is connected only while it is active, but for the race.
ConnectedActive == \A s \in Sockets \ raced : connected[s] => active[s]

TypeInv == TypeOK /\ Polling

-----------------------------------------------------------------------------
(* What the steps are made of.                                             *)

\* The map after an insertion.
LEMMA InsertedMap ==
    ASSUME TypeOK, NEW f \in Fds, NEW s \in Sockets
    PROVE  /\ DOMAIN Inserted(f, s) = DOMAIN active_sockets \cup {f}
           /\ DOMAIN Inserted(f, s) \subseteq Fds
           /\ \A g \in DOMAIN Inserted(f, s) : Inserted(f, s)[g] \in Sockets
           /\ \A g \in DOMAIN active_sockets : Inserted(f, s)[g] = active_sockets[g]
           /\ f \notin DOMAIN active_sockets => Inserted(f, s)[f] = s
  BY DEF TypeOK, Inserted

\* perform_op() never overfills the queue, keeps what is in it and counts what
\* it loses.
LEMMA PerformOpsKeeps ==
    ASSUME TypeOK, NEW ops \in Seq(Ops), PerformOps(ops)
    PROVE  /\ socket_op' \in Seq(Ops)
           /\ Len(socket_op') <= OpLimit
           /\ Len(socket_op) <= Len(socket_op')
           /\ \A i \in 1..Len(socket_op) : socket_op'[i] = socket_op[i]
           /\ lost \subseteq lost' /\ lost' \subseteq Sockets
<1> DEFINE room == OpLimit - Len(socket_op)
           pushed == IF Len(ops) <= room THEN Len(ops) ELSE room
<1>1. socket_op \in Seq(Ops) /\ Len(socket_op) \in Nat /\ Len(socket_op) <= OpLimit
  BY DEF TypeOK, Ops
<1>2. pushed \in Nat /\ pushed <= Len(ops) /\ Len(socket_op) + pushed <= OpLimit
  BY <1>1, OpLimitAssumption
<1>3. /\ socket_op' = socket_op \o SubSeq(ops, 1, pushed)
      /\ lost' = lost \cup {ops[i].socket : i \in {j \in pushed + 1..Len(ops) : ops[j].op = "Stop"}}
  BY DEF PerformOps
<1> HIDE DEF room, pushed
<1>4. SubSeq(ops, 1, pushed) \in Seq(Ops) /\ Len(SubSeq(ops, 1, pushed)) = pushed
  BY <1>2
<1>5. \A i \in pushed + 1..Len(ops) : ops[i] \in Ops
  BY <1>2
<1>6. lost' \subseteq Sockets
  BY <1>3, <1>5 DEF TypeOK, Ops
<1> QED
  BY <1>1, <1>2, <1>3, <1>4, <1>6

\* The queue when its first operation is taken.
LEMMA FirstOp ==
    ASSUME TypeOK, socket_op # <<>>
    PROVE  /\ socket_op[1] \in Ops /\ socket_op[1].socket \in Sockets
           /\ Len(socket_op) \in Nat
           /\ Tail(socket_op) \in Seq(Ops)
           /\ Len(Tail(socket_op)) = Len(socket_op) - 1
           /\ \A i \in 1..Len(socket_op) : i # 1 =>
                i - 1 \in 1..Len(Tail(socket_op)) /\ Tail(socket_op)[i - 1] = socket_op[i]
<1>1. socket_op \in Seq(Ops)
  BY DEF TypeOK, Ops
<1>2. socket_op[1] \in Ops
  BY <1>1
<1>3. socket_op[1].socket \in Sockets
  BY <1>2 DEF Ops
<1> QED
  BY <1>1, <1>2, <1>3

\* A single operation is in the queue afterwards, or lost.
LEMMA PerformOneOp ==
    ASSUME TypeOK, NEW s \in Sockets, NEW o \in {"Start", "Stop"}, PerformOps(<<Op(o, s)>>)
    PROVE  o = "Stop" => s \in lost' \/ Contains(socket_op', Op("Stop", s))
<1> DEFINE ops == <<Op(o, s)>>
           room == OpLimit - Len(socket_op)
           pushed == IF Len(ops) <= room THEN Len(ops) ELSE room
<1> SUFFICES ASSUME o = "Stop"
             PROVE  s \in lost' \/ Contains(socket_op', Op("Stop", s))
  OBVIOUS
<1>0. ops \in Seq(Ops) /\ Len(ops) = 1 /\ ops[1] = Op("Stop", s) /\ ops[1].op = "Stop" /\ ops[1].socket = s
  BY DEF Op, Ops
<1>1. socket_op \in Seq(Ops) /\ Len(socket_op) \in Nat /\ Len(socket_op) <= OpLimit
  BY DEF TypeOK, Ops
<1>2. /\ socket_op' = socket_op \o SubSeq(ops, 1, pushed)
      /\ lost' = lost \cup {ops[i].socket : i \in {j \in pushed + 1..Len(ops) : ops[j].op = "Stop"}}
  BY DEF PerformOps
<1> HIDE DEF ops
<1>3. CASE 1 <= room
  <2>1. pushed = 1
    BY <1>0, <1>3
  <2> HIDE DEF pushed
  <2>2. SubSeq(ops, 1, 1) \in Seq(Ops) /\ Len(SubSeq(ops, 1, 1)) = 1 /\ SubSeq(ops, 1, 1)[1] = ops[1]
    <3>1. \A i \in 1..1 : ops[i] \in Ops
      <4>1. Op("Stop", s) \in Ops
        BY DEF Op, Ops
      <4> QED
        BY <1>0, <4>1
    <3> HIDE DEF ops
    <3>2. /\ SubSeq(ops, 1, 1) \in Seq(Ops)
          /\ Len(SubSeq(ops, 1, 1)) = IF 1 <= 1 THEN 1 - 1 + 1 ELSE 0
          /\ \A i \in 1..1 - 1 + 1 : SubSeq(ops, 1, 1)[i] = ops[1 + i - 1]
      BY <3>1, SubSeqProperties
    <3> QED
      BY <3>2
  <2>3. socket_op'[Len(socket_op) + 1] = Op("Stop", s) /\ Len(socket_op) + 1 \in 1..Len(socket_op')
    BY <1>0, <1>1, <1>2, <2>1, <2>2
  <2> QED
    BY <2>3 DEF Contains
<1>4. CASE ~(1 <= room)
  <2>1. pushed = 0
    BY <1>0, <1>1, <1>4, OpLimitAssumption
  <2> HIDE DEF pushed
  <2>2. 1 \in {j \in pushed + 1..Len(ops) : ops[j].op = "Stop"}
    BY <1>0, <2>1
  <2> QED
    BY <1>0, <1>2, <2>2
<1> QED
  BY <1>3, <1>4

-----------------------------------------------------------------------------
(* Types.                                                                  *)

\* The initial states.
LEMMA TypeInit == ASSUME Init PROVE TypeInv
<1>1. DOMAIN active_sockets = {}
  BY DEF Init
<1>2. /\ inactive_sockets \in Seq(Sockets) /\ owed \in Seq(Sockets)
      /\ socket_op \in Seq([op : {"Start", "Stop"}, socket : Sockets])
      /\ Len(socket_op) <= OpLimit
  BY OpLimitAssumption DEF Init
<1>3. /\ active \in [Sockets -> BOOLEAN] /\ connected \in [Sockets -> BOOLEAN]
      /\ container \in [Sockets -> BOOLEAN] /\ has_ip \in BOOLEAN
  BY DEF Init
<1>4. /\ socket_id \in [Sockets -> Fds \cup {INVALID_SOCKET}]
      /\ net \in [Fds -> {"free", "connecting", "up", "lost"}]
      /\ told \in [Sockets -> {"nothing", "connected", "disconnected"}]
      /\ app \in [Sockets -> {"idle", "starting", "stopping"}]
      /\ at \in Places
  BY DEF Init, Places
<1>5. due = {} /\ read_set = {} /\ write_set = {} /\ lost = {} /\ raced = {}
  BY DEF Init
<1> QED
  BY <1>1, <1>2, <1>3, <1>4, <1>5 DEF TypeInv, TypeOK, Polling

\* stop_internal() changes two flags.
LEMMA StopInternalType ==
    ASSUME TypeOK, NEW s \in Sockets, StopInternal(s)
    PROVE  /\ active' \in [Sockets -> BOOLEAN] /\ connected' \in [Sockets -> BOOLEAN]
           /\ ~active'[s] /\ (active[s] => ~connected'[s])
           /\ \A r \in Sockets : (active'[r] => active[r]) /\ (connected'[r] => connected[r])
           /\ \A r \in Sockets \ {s} : active'[r] = active[r] /\ connected'[r] = connected[r]
  BY DEF TypeOK, StopInternal

\* internal_start() takes a descriptor that is free or the one the socket has.
LEMMA InternalStartType ==
    ASSUME TypeOK, RegistryAgrees, NEW s \in Sockets, NEW n \in Nat, InternalStart(s, n)
    PROVE  /\ active' \in [Sockets -> BOOLEAN] /\ connected' = connected
           /\ socket_id' \in [Sockets -> Fds \cup {INVALID_SOCKET}]
           /\ DOMAIN active_sockets' \subseteq Fds
           /\ DOMAIN active_sockets \subseteq DOMAIN active_sockets'
           /\ \A f \in DOMAIN active_sockets' : active_sockets'[f] \in Sockets
           /\ net' \in [Fds -> {"free", "connecting", "up", "lost"}]
           /\ owed' \in Seq(Sockets)
           /\ owed' = owed \/ Contains(owed', s)
<1>0. INVALID_SOCKET \notin Fds
  BY FdsAssumption DEF INVALID_SOCKET
<1>1. CASE active[s] /\ active_sockets' = Inserted(socket_id[s], s) /\ UNCHANGED <<socketVars, owed, net>>
  <2>1. socket_id[s] \in Fds
    BY <1>1 DEF RegistryAgrees, Registered, TypeOK
  <2>2. /\ DOMAIN active_sockets' \subseteq Fds
        /\ DOMAIN active_sockets \subseteq DOMAIN active_sockets'
        /\ \A f \in DOMAIN active_sockets' : active_sockets'[f] \in Sockets
    <3>1. /\ DOMAIN Inserted(socket_id[s], s) = DOMAIN active_sockets \cup {socket_id[s]}
          /\ DOMAIN Inserted(socket_id[s], s) \subseteq Fds
          /\ \A g \in DOMAIN Inserted(socket_id[s], s) : Inserted(socket_id[s], s)[g] \in Sockets
      BY <2>1, InsertedMap
    <3> QED
      BY <1>1, <3>1
  <2> QED
    BY <1>1, <2>2 DEF TypeOK, socketVars
<1>2. ASSUME NEW f \in CreateSocket(s) \ {INVALID_SOCKET},
             /\ socket_id' = [socket_id EXCEPT ![s] = f]
             /\ active' = [active EXCEPT ![s] = TRUE]
             /\ net' = [net EXCEPT ![f] = "connecting"]
             /\ active_sockets' = Inserted(f, s)
             /\ UNCHANGED <<connected, owed>>
      PROVE  /\ active' \in [Sockets -> BOOLEAN] /\ connected' = connected
             /\ socket_id' \in [Sockets -> Fds \cup {INVALID_SOCKET}]
             /\ DOMAIN active_sockets' \subseteq Fds
             /\ DOMAIN active_sockets \subseteq DOMAIN active_sockets'
             /\ \A g \in DOMAIN active_sockets' : active_sockets'[g] \in Sockets
             /\ net' \in [Fds -> {"free", "connecting", "up", "lost"}]
             /\ owed' = owed /\ owed' \in Seq(Sockets)
  <2>1. f \in Fds
    BY DEF CreateSocket, TypeOK
  <2>2. /\ DOMAIN active_sockets' \subseteq Fds
        /\ DOMAIN active_sockets \subseteq DOMAIN active_sockets'
        /\ \A g \in DOMAIN active_sockets' : active_sockets'[g] \in Sockets
    <3>1. /\ DOMAIN Inserted(f, s) = DOMAIN active_sockets \cup {f}
          /\ DOMAIN Inserted(f, s) \subseteq Fds
          /\ \A g \in DOMAIN Inserted(f, s) : Inserted(f, s)[g] \in Sockets
      BY <2>1, InsertedMap
    <3> QED
      BY <1>2, <3>1
  <2> QED
    BY <1>2, <2>1, <2>2 DEF TypeOK
<1>3. ASSUME NEW f \in CreateSocket(s),
             /\ socket_id' = [socket_id EXCEPT ![s] = f]
             /\ net' = [g \in Fds |-> IF g = f THEN "lost" ELSE net[g]]
             /\ owed' = [i \in 1..n + 1 |-> s]
             /\ UNCHANGED <<active, connected, active_sockets>>
      PROVE  /\ active' \in [Sockets -> BOOLEAN] /\ connected' = connected
             /\ socket_id' \in [Sockets -> Fds \cup {INVALID_SOCKET}]
             /\ DOMAIN active_sockets' \subseteq Fds
             /\ DOMAIN active_sockets \subseteq DOMAIN active_sockets'
             /\ \A g \in DOMAIN active_sockets' : active_sockets'[g] \in Sockets
             /\ net' \in [Fds -> {"free", "connecting", "up", "lost"}]
             /\ owed' \in Seq(Sockets) /\ Contains(owed', s)
  <2>1. f \in Fds \cup {INVALID_SOCKET}
    BY DEF CreateSocket, TypeOK
  <2>2. owed' \in Seq(Sockets) /\ Len(owed') = n + 1 /\ owed'[1] = s
    BY <1>3
  <2>3. Contains(owed', s)
    BY <2>2 DEF Contains
  <2> QED
    BY <1>3, <2>1, <2>2, <2>3 DEF TypeOK
<1> QED
  BY <1>1, <1>2, <1>3 DEF InternalStart

-----------------------------------------------------------------------------
(* The map of active sockets.                                              *)

\* A step that leaves map and descriptors alone, opens no socket and frees no
\* descriptor.
LEMMA RegistryKept ==
    ASSUME TypeOK, RegistryAgrees,
           active_sockets' = active_sockets, socket_id' = socket_id,
           \A s \in Sockets : active'[s] => active[s],
           \A f \in Fds : net[f] # "free" => net'[f] # "free"
    PROVE  RegistryAgrees'
<1>1. \A s \in Sockets : Registered(s)' <=> Registered(s)
  BY DEF Registered
<1>2. \A s \in Sockets : socket_id[s] \in Fds \cup {INVALID_SOCKET}
  BY DEF TypeOK
<1> QED
  BY <1>1, <1>2 DEF RegistryAgrees

\* A socket that is started gets a descriptor of its own.
LEMMA RegistryStart ==
    ASSUME TypeOK, RegistryAgrees, NEW s \in Sockets, NEW n \in Nat, InternalStart(s, n)
    PROVE  RegistryAgrees'
<1>0. INVALID_SOCKET \notin Fds
  BY FdsAssumption DEF INVALID_SOCKET
<1>1. CASE active[s] /\ active_sockets' = Inserted(socket_id[s], s) /\ UNCHANGED <<socketVars, owed, net>>
  <2>1. socket_id[s] \in DOMAIN active_sockets
    BY <1>1 DEF RegistryAgrees, Registered
  <2>2. socket_id[s] \in Fds
    BY <2>1 DEF TypeOK
  <2>3. /\ DOMAIN Inserted(socket_id[s], s) = DOMAIN active_sockets \cup {socket_id[s]}
        /\ \A g \in DOMAIN active_sockets : Inserted(socket_id[s], s)[g] = active_sockets[g]
    BY <2>2, InsertedMap
  <2>4. /\ DOMAIN active_sockets' = DOMAIN active_sockets
        /\ \A g \in DOMAIN active_sockets : active_sockets'[g] = active_sockets[g]
    BY <1>1, <2>1, <2>3
  <2>5. \A r \in Sockets : Registered(r)' <=> Registered(r)
    BY <2>4 DEF Registered
  <2> QED
    BY <1>1, <2>4, <2>5 DEF RegistryAgrees, socketVars
<1>2. ASSUME NEW f \in CreateSocket(s) \ {INVALID_SOCKET},
             /\ socket_id' = [socket_id EXCEPT ![s] = f]
             /\ active' = [active EXCEPT ![s] = TRUE]
             /\ net' = [net EXCEPT ![f] = "connecting"]
             /\ active_sockets' = Inserted(f, s)
      PROVE  RegistryAgrees'
  <2>1. f \in Fds /\ (f = socket_id[s] \/ (net[f] = "free" /\ socket_id[s] = INVALID_SOCKET))
    BY DEF CreateSocket, TypeOK
  <2>2. /\ DOMAIN Inserted(f, s) = DOMAIN active_sockets \cup {f}
        /\ \A g \in DOMAIN active_sockets : Inserted(f, s)[g] = active_sockets[g]
        /\ f \notin DOMAIN active_sockets => Inserted(f, s)[f] = s
    BY <2>1, InsertedMap
  <2>3. /\ DOMAIN active_sockets' = DOMAIN active_sockets \cup {f}
        /\ \A g \in DOMAIN active_sockets : active_sockets'[g] = active_sockets[g]
        /\ f \notin DOMAIN active_sockets => active_sockets'[f] = s
    BY <1>2, <2>2
  <2>4. \A r \in Sockets \ {s} : socket_id[r] # f
    BY <1>0, <2>1 DEF RegistryAgrees
  <2>5. f \in DOMAIN active_sockets => active_sockets[f] = s
    BY <2>4 DEF RegistryAgrees, TypeOK
  <2>6. /\ socket_id'[s] = f /\ \A r \in Sockets \ {s} : socket_id'[r] = socket_id[r]
        /\ net'[f] = "connecting" /\ \A g \in Fds \ {f} : net'[g] = net[g]
        /\ \A r \in Sockets \ {s} : active'[r] = active[r]
    BY <1>2, <2>1 DEF TypeOK
  <2>7. \A g \in DOMAIN active_sockets' : socket_id'[active_sockets'[g]] = g
    <3> SUFFICES ASSUME NEW g \in DOMAIN active_sockets' PROVE socket_id'[active_sockets'[g]] = g
      OBVIOUS
    <3>1. CASE g = f
      BY <2>3, <2>5, <2>6, <3>1
    <3>2. CASE g # f
      <4>1. g \in DOMAIN active_sockets /\ active_sockets'[g] = active_sockets[g]
        BY <2>3, <3>2
      <4>2. socket_id[active_sockets[g]] = g /\ g \in Fds /\ active_sockets[g] \in Sockets
        BY <4>1 DEF RegistryAgrees, TypeOK
      <4>3. active_sockets[g] # s
        BY <1>0, <2>1, <3>2, <4>2
      <4> QED
        BY <2>6, <4>1, <4>2, <4>3
    <3> QED
      BY <3>1, <3>2
  <2>8. \A r \in Sockets : active'[r] => Registered(r)'
    <3>1. Registered(s)'
      BY <2>3, <2>5 DEF Registered
    <3>2. \A r \in Sockets : Registered(r) => Registered(r)'
      BY <2>3 DEF Registered
    <3> QED
      BY <2>6, <3>1, <3>2 DEF RegistryAgrees
  <2>9. \A r \in Sockets : socket_id'[r] # INVALID_SOCKET => net'[socket_id'[r]] # "free"
    <3> SUFFICES ASSUME NEW r \in Sockets, socket_id'[r] # INVALID_SOCKET
                 PROVE  net'[socket_id'[r]] # "free"
      OBVIOUS
    <3>1. CASE r = s
      BY <2>6, <3>1
    <3>2. CASE r # s
      <4>1. socket_id'[r] = socket_id[r] /\ socket_id[r] \in Fds \ {f}
        BY <2>4, <2>6, <3>2 DEF TypeOK
      <4> QED
        BY <2>6, <4>1 DEF RegistryAgrees
    <3> QED
      BY <3>1, <3>2
  <2>10. \A r, u \in Sockets : socket_id'[r] = socket_id'[u] => r = u \/ socket_id'[r] = INVALID_SOCKET
    BY <2>4, <2>6 DEF RegistryAgrees
  <2> QED
    BY <2>7, <2>8, <2>9, <2>10 DEF RegistryAgrees
<1>3. ASSUME NEW f \in CreateSocket(s),
             /\ socket_id' = [socket_id EXCEPT ![s] = f]
             /\ net' = [g \in Fds |-> IF g = f THEN "lost" ELSE net[g]]
             /\ UNCHANGED <<active, connected, active_sockets>>
      PROVE  RegistryAgrees'
  <2>1. /\ f \in Fds \cup {INVALID_SOCKET}
        /\ f = socket_id[s] \/ socket_id[s] = INVALID_SOCKET
        /\ f = socket_id[s] \/ f = INVALID_SOCKET \/ net[f] = "free"
    BY DEF CreateSocket, TypeOK
  <2>2. \A r \in Sockets \ {s} : socket_id[r] # f \/ f = INVALID_SOCKET
    BY <1>0, <2>1 DEF RegistryAgrees
  <2>3. /\ socket_id'[s] = f /\ \A r \in Sockets \ {s} : socket_id'[r] = socket_id[r]
        /\ \A g \in Fds : net'[g] = IF g = f THEN "lost" ELSE net[g]
    BY <1>3 DEF TypeOK
  <2>4. \A g \in DOMAIN active_sockets : socket_id'[active_sockets[g]] = g
    <3> SUFFICES ASSUME NEW g \in DOMAIN active_sockets PROVE socket_id'[active_sockets[g]] = g
      OBVIOUS
    <3>1. socket_id[active_sockets[g]] = g /\ g \in Fds /\ active_sockets[g] \in Sockets
      BY DEF RegistryAgrees, TypeOK
    <3> QED
      BY <1>0, <2>1, <2>3, <3>1
  <2>5. \A r \in Sockets : active'[r] => Registered(r)'
    BY <1>3 DEF RegistryAgrees, Registered
  <2>6. \A r \in Sockets : socket_id'[r] # INVALID_SOCKET => net'[socket_id'[r]] # "free"
    <3> SUFFICES ASSUME NEW r \in Sockets, socket_id'[r] # INVALID_SOCKET
                 PROVE  net'[socket_id'[r]] # "free"
      OBVIOUS
    <3>1. CASE r = s
      BY <2>1, <2>3, <3>1
    <3>2. CASE r # s
      <4>1. socket_id'[r] = socket_id[r] /\ socket_id[r] \in Fds
        BY <2>3, <3>2 DEF TypeOK
      <4> QED
        BY <2>3, <4>1 DEF RegistryAgrees
    <3> QED
      BY <3>1, <3>2
  <2>7. \A r, u \in Sockets : socket_id'[r] = socket_id'[u] => r = u \/ socket_id'[r] = INVALID_SOCKET
    BY <2>2, <2>3 DEF RegistryAgrees
  <2> QED
    BY <1>3, <2>4, <2>5, <2>6, <2>7 DEF RegistryAgrees
<1> QED
  BY <1>1, <1>2, <1>3 DEF InternalStart

\* A socket that is shut down leaves the map, and its descriptor is free again.
LEMMA RegistryShutdown ==
    ASSUME TypeOK, RegistryAgrees, ShutdownSocket
    PROVE  RegistryAgrees'
<1> DEFINE s == socket_op[1].socket
<1>0. INVALID_SOCKET \notin Fds
  BY FdsAssumption DEF INVALID_SOCKET
<1>1. s \in Sockets
  BY FirstOp DEF ShutdownSocket
<1>2. /\ StopInternal(s)
      /\ active_sockets' = [f \in {g \in DOMAIN active_sockets : active_sockets[g] # s} |-> active_sockets[f]]
      /\ socket_id[s] = INVALID_SOCKET => UNCHANGED <<socket_id, net>>
      /\ socket_id[s] # INVALID_SOCKET =>
            /\ net' = [net EXCEPT ![socket_id[s]] = "free"]
            /\ socket_id' = [socket_id EXCEPT ![s] = INVALID_SOCKET]
  BY DEF ShutdownSocket
<1> HIDE DEF s
<1>3. ~active'[s] /\ \A r \in Sockets : active'[r] => active[r]
  BY <1>1, <1>2, StopInternalType
<1>4. \A g \in DOMAIN active_sockets' :
        /\ g \in DOMAIN active_sockets /\ active_sockets'[g] = active_sockets[g]
        /\ active_sockets[g] # s
  BY <1>2
<1>5. socket_id'[s] = INVALID_SOCKET /\ \A r \in Sockets \ {s} : socket_id'[r] = socket_id[r]
  BY <1>1, <1>2 DEF TypeOK
<1>6. \A g \in DOMAIN active_sockets' : socket_id'[active_sockets'[g]] = g
  BY <1>4, <1>5 DEF RegistryAgrees, TypeOK
<1>7. \A r \in Sockets : active'[r] => Registered(r)'
  <2> SUFFICES ASSUME NEW r \in Sockets, active'[r] PROVE Registered(r)'
    OBVIOUS
  <2>1. r # s /\ Registered(r)
    BY <1>3 DEF RegistryAgrees
  <2>2. PICK g \in DOMAIN active_sockets : active_sockets[g] = r
    BY <2>1 DEF Registered
  <2>3. g \in DOMAIN active_sockets' /\ active_sockets'[g] = r
    BY <1>2, <2>1, <2>2
  <2> QED
    BY <2>3 DEF Registered
<1>8. \A r \in Sockets : socket_id'[r] # INVALID_SOCKET => net'[socket_id'[r]] # "free"
  <2> SUFFICES ASSUME NEW r \in Sockets, socket_id'[r] # INVALID_SOCKET
               PROVE  net'[socket_id'[r]] # "free"
    OBVIOUS
  <2>1. r # s /\ socket_id'[r] = socket_id[r] /\ socket_id[r] # INVALID_SOCKET
    BY <1>5
  <2>2. net[socket_id[r]] # "free" /\ socket_id[r] # socket_id[s] /\ socket_id[r] \in Fds
    BY <1>1, <2>1 DEF RegistryAgrees, TypeOK
  <2> QED
    BY <1>2, <2>1, <2>2 DEF TypeOK
<1>9. \A r, u \in Sockets : socket_id'[r] = socket_id'[u] => r = u \/ socket_id'[r] = INVALID_SOCKET
  BY <1>5 DEF RegistryAgrees
<1> QED
  BY <1>6, <1>7, <1>8, <1>9 DEF RegistryAgrees

-----------------------------------------------------------------------------
(* Types, step by step.                                                    *)

\* The socket whose descriptor tick() visits is registered.
LEMMA VisitingRegistered ==
    ASSUME TypeOK, RegistryAgrees, NEW f \in Fds, Visiting(f)
    PROVE  /\ f \in DOMAIN active_sockets /\ active_sockets[f] \in Sockets
           /\ socket_id[active_sockets[f]] = f /\ f # INVALID_SOCKET
  BY FdsAssumption DEF Visiting, TypeOK, RegistryAgrees, INVALID_SOCKET

\* All sockets of a queue of operations to close them are sockets.
LEMMA CloseAllOps ==
    ASSUME TypeOK, NEW fds \in Walks(DOMAIN active_sockets)
    PROVE  [i \in 1..Cardinality(DOMAIN active_sockets) |-> Op("Stop", active_sockets[fds[i]])]
                \in Seq(Ops)
<1> DEFINE n == Cardinality(DOMAIN active_sockets)
<1>1. n \in Nat
  <2>1. DOMAIN active_sockets \subseteq Fds /\ IsFiniteSet(Fds)
    BY FdsAssumption DEF TypeOK
  <2>2. IsFiniteSet(DOMAIN active_sockets)
    BY <2>1, FS_Subset
  <2> QED
    BY <2>2, FS_CardinalityType
<1>2. fds \in [1..n -> DOMAIN active_sockets]
  BY DEF Walks
<1> HIDE DEF n
<1>3. \A i \in 1..n : active_sockets[fds[i]] \in Sockets
  BY <1>2 DEF TypeOK
<1>4. \A i \in 1..n : Op("Stop", active_sockets[fds[i]]) \in Ops
  BY <1>3 DEF Op, Ops
<1>5. [i \in 1..n |-> Op("Stop", active_sockets[fds[i]])] \in Seq(Ops)
  BY <1>1, <1>4
<1> QED
  BY <1>5 DEF n

\* The application's steps.
LEMMA TypeApp ==
    ASSUME TypeInv, NEW s \in Sockets, AppStop(s) \/ AppStart(s) \/ AppPush(s) \/ AppRelease(s)
    PROVE  TypeInv'
<1> USE DEF TypeInv
<1>1. CASE AppStop(s)
  <2>1. active' \in [Sockets -> BOOLEAN] /\ connected' \in [Sockets -> BOOLEAN]
    BY <1>1, StopInternalType DEF AppStop
  <2> QED
    BY <1>1, <2>1 DEF AppStop, TypeOK, Polling, registryVars, queueVars, pollVars
<1>2. CASE AppStart(s)
  BY <1>2 DEF AppStart, TypeOK, Polling, socketVars, registryVars, queueVars, pollVars
<1>3. CASE AppPush(s)
  <2>1. PICK o \in {"Start", "Stop"} : PerformOps(<<Op(o, s)>>)
    BY <1>3 DEF AppPush
  <2>2. <<Op(o, s)>> \in Seq(Ops)
    BY DEF Op, Ops
  <2>3. socket_op' \in Seq(Ops) /\ Len(socket_op') <= OpLimit /\ lost' \subseteq Sockets
    BY <2>1, <2>2, PerformOpsKeeps
  <2> QED
    BY <1>3, <2>3 DEF AppPush, TypeOK, Polling, Ops, socketVars, registryVars, pollVars
<1>4. CASE AppRelease(s)
  BY <1>4 DEF AppRelease, TypeOK, Polling, socketVars, registryVars, queueVars, pollVars
<1> QED
  BY <1>1, <1>2, <1>3, <1>4

\* The network's steps, and those of the dispatcher that change no socket.
LEMMA TypeQuiet ==
    ASSUME TypeInv,
           \/ \E f \in Fds : Connect(f) \/ Break(f) \/ ReadData(f) \/ Writable(f)
           \/ BeginTick \/ CheckSocketTimeouts \/ Select \/ SelectFails \/ EndTick
    PROVE  TypeInv'
<1> USE DEF TypeInv
<1>1. ASSUME NEW f \in Fds, Connect(f) \/ Break(f) PROVE TypeInv'
  BY <1>1 DEF Connect, Break, TypeOK, Polling, socketVars, appVars, registryVars, queueVars, pollVars
<1>2. ASSUME NEW f \in Fds, ReadData(f) \/ Writable(f) PROVE TypeInv'
  BY <1>2 DEF ReadData, Writable, At, TypeOK, Polling, Places, socketVars, appVars, registryVars, queueVars
<1>3. CASE BeginTick \/ CheckSocketTimeouts \/ EndTick
  BY <1>3 DEF BeginTick, CheckSocketTimeouts, EndTick, At, TypeOK, Polling, Places, socketVars, appVars,
              registryVars, queueVars, pollVars
<1>4. CASE Select
  <2>1. read_set' \cup write_set' \subseteq DOMAIN active_sockets
    BY <1>4 DEF Select, Polled, PolledToRead
  <2> QED
    BY <1>4, <2>1 DEF Select, TypeOK, Polling, Places, socketVars, appVars, registryVars, queueVars
<1>5. CASE SelectFails
  BY <1>5 DEF SelectFails, TypeOK, Polling, Places, socketVars, appVars, registryVars, queueVars
<1> QED
  BY <1>1, <1>2, <1>3, <1>4, <1>5

\* The handlers of operations and of the network's events, and the push that
\* is owed.
LEMMA TypeHandler ==
    ASSUME TypeInv, RegistryAgrees,
           StartSocket \/ ShutdownSocket \/ NetworkEvent \/ PushOwed \/ RestartInactive
    PROVE  TypeInv'
<1> USE DEF TypeInv
<1>1. CASE StartSocket
  <2> DEFINE s == socket_op[1].socket
  <2>1. /\ s \in Sockets /\ Tail(socket_op) \in Seq(Ops) /\ Len(Tail(socket_op)) <= OpLimit
    BY <1>1, FirstOp, OpLimitAssumption DEF StartSocket, TypeOK
  <2>2. CASE has_ip
    <3>1. InternalStart(s, 0) /\ inactive_sockets' = inactive_sockets
      BY <1>1, <2>2 DEF StartSocket
    <3> HIDE DEF s
    <3>2. owed' \in Seq(Sockets)
      BY <2>1, <3>1, InternalStartType
    <3> QED
      BY <1>1, <2>1, <3>1, <3>2, InternalStartType
      DEF StartSocket, At, TypeOK, Polling, Ops, appVars, pollVars
  <2>3. CASE ~has_ip
    <3> HIDE DEF s
    <3>1. Append(inactive_sockets, s) \in Seq(Sockets)
      BY <2>1 DEF TypeOK
    <3> QED
      BY <1>1, <2>1, <2>3, <3>1
      DEF s, StartSocket, TypeOK, Polling, Ops, socketVars, appVars, pollVars
  <2> QED
    BY <2>2, <2>3
<1>2. CASE ShutdownSocket
  <2> DEFINE s == socket_op[1].socket
  <2>1. /\ s \in Sockets /\ Tail(socket_op) \in Seq(Ops) /\ Len(Tail(socket_op)) <= OpLimit
    BY <1>2, FirstOp, OpLimitAssumption DEF ShutdownSocket, TypeOK
  <2>2. active' \in [Sockets -> BOOLEAN] /\ connected' \in [Sockets -> BOOLEAN]
    BY <1>2, <2>1, StopInternalType DEF ShutdownSocket
  <2>3. inactive_sockets' \in Seq(Sockets)
    <3>1. inactive_sockets \in Seq(Sockets) /\ RemoveInactive(s)
      BY <1>2 DEF TypeOK, ShutdownSocket
    <3>2. ASSUME NEW i \in 1..Len(inactive_sockets) PROVE RemoveAt(inactive_sockets, i) \in Seq(Sockets)
      <4>1. /\ SubSeq(inactive_sockets, 1, i - 1) \in Seq(Sockets)
            /\ SubSeq(inactive_sockets, i + 1, Len(inactive_sockets)) \in Seq(Sockets)
        BY <3>1
      <4> QED
        BY <4>1 DEF RemoveAt
    <3> QED
      BY <3>1, <3>2 DEF RemoveInactive
  <2>4. /\ DOMAIN active_sockets' \subseteq DOMAIN active_sockets
        /\ \A f \in DOMAIN active_sockets' : active_sockets'[f] \in Sockets
    BY <1>2 DEF ShutdownSocket, TypeOK
  <2>5. /\ socket_id' \in [Sockets -> Fds \cup {INVALID_SOCKET}]
        /\ net' \in [Fds -> {"free", "connecting", "up", "lost"}]
        /\ told' \in [Sockets -> {"nothing", "connected", "disconnected"}]
        /\ owed' \in Seq(Sockets)
    <3>1. CASE socket_id[s] = INVALID_SOCKET
      BY <1>2, <3>1 DEF ShutdownSocket, TypeOK
    <3>2. CASE socket_id[s] # INVALID_SOCKET
      <4>1. /\ net' = [net EXCEPT ![socket_id[s]] = "free"]
            /\ socket_id' = [socket_id EXCEPT ![s] = INVALID_SOCKET]
            /\ PublishConnectedStatus(s, connected'[s])
            /\ owed' = IF container[s] THEN <<>> ELSE <<s>>
        BY <1>2, <3>2 DEF ShutdownSocket
      <4> HIDE DEF s
      <4>2. told' \in [Sockets -> {"nothing", "connected", "disconnected"}]
        BY <2>1, <4>1 DEF PublishConnectedStatus, TypeOK
      <4>3. owed' \in Seq(Sockets)
        BY <2>1, <4>1
      <4> QED
        BY <2>1, <4>1, <4>2, <4>3 DEF TypeOK
    <3> QED
      BY <3>1, <3>2
  <2>6. read_set' = {} /\ write_set' = {} /\ at' = "loop"
    BY <1>2 DEF ShutdownSocket, At, Polling, pollVars
  <2> QED
    BY <1>2, <2>1, <2>2, <2>3, <2>4, <2>5, <2>6
    DEF ShutdownSocket, TypeOK, Polling, Ops, appVars, pollVars, Places
<1>3. CASE NetworkEvent
  <2>1. PICK ops \in Seq(Ops) : PerformOps(ops)
    BY <1>3, CloseAllOps DEF NetworkEvent
  <2>2. socket_op' \in Seq(Ops) /\ Len(socket_op') <= OpLimit /\ lost' \subseteq Sockets
    BY <2>1, PerformOpsKeeps
  <2> QED
    BY <1>3, <2>2 DEF NetworkEvent, TypeOK, Polling, Ops, socketVars, appVars, pollVars
<1>4. CASE PushOwed
  <2>1. Head(owed) \in Sockets /\ Tail(owed) \in Seq(Sockets)
    BY <1>4 DEF PushOwed, TypeOK
  <2>2. <<Op("Stop", Head(owed))>> \in Seq(Ops)
    BY <2>1 DEF Op, Ops
  <2>3. socket_op' \in Seq(Ops) /\ Len(socket_op') <= OpLimit /\ lost' \subseteq Sockets
    BY <1>4, <2>2, PerformOpsKeeps DEF PushOwed
  <2> QED
    BY <1>4, <2>1, <2>3 DEF PushOwed, TypeOK, Polling, Ops, socketVars, appVars, registryVars, pollVars
<1>5. CASE RestartInactive
  <2> DEFINE s == Head(inactive_sockets)
  <2>1. s \in Sockets /\ Tail(inactive_sockets) \in Seq(Sockets)
    BY <1>5 DEF RestartInactive, TypeOK
  <2>2. InternalStart(s, 1)
    BY <1>5 DEF RestartInactive
  <2> HIDE DEF s
  <2>3. owed' \in Seq(Sockets)
    BY <2>1, <2>2, InternalStartType
  <2> QED
    BY <1>5, <2>1, <2>2, <2>3, InternalStartType DEF RestartInactive, TypeOK, Polling, appVars, pollVars
<1> QED
  BY <1>1, <1>2, <1>3, <1>4, <1>5

\* The steps of tick() that stop or connect a socket.
LEMMA TypeTick ==
    ASSUME TypeInv, RegistryAgrees,
           \/ \E s \in Sockets : StopExpired(s) \/ StopAbandoned(s)
           \/ \E f \in Fds : ReadFails(f) \/ SignalNewConnection(f) \/ Publish(f) \/ SendNextPacket(f)
    PROVE  TypeInv'
<1> USE DEF TypeInv
<1>1. ASSUME NEW s \in Sockets, DispatcherStop(s)
      PROVE  /\ active' \in [Sockets -> BOOLEAN] /\ connected' \in [Sockets -> BOOLEAN]
             /\ owed' \in Seq(Sockets) /\ socket_op' = socket_op /\ lost' = lost
  BY <1>1, StopInternalType DEF DispatcherStop
<1>2. ASSUME NEW s \in Sockets, StopExpired(s) \/ StopAbandoned(s) PROVE TypeInv'
  BY <1>1, <1>2 DEF StopExpired, StopAbandoned, TypeOK, Polling, appVars, registryVars, pollVars
<1>3. ASSUME NEW f \in Fds, ReadFails(f) PROVE TypeInv'
  <2>1. active_sockets[f] \in Sockets
    BY <1>3, VisitingRegistered DEF ReadFails
  <2> QED
    BY <1>1, <1>3, <2>1 DEF ReadFails, At, TypeOK, Polling, appVars, registryVars
<1>4. ASSUME NEW f \in Fds, SignalNewConnection(f) PROVE TypeInv'
  <2>1. active_sockets[f] \in Sockets
    BY <1>4, VisitingRegistered DEF SignalNewConnection
  <2> QED
    BY <1>4, <2>1
    DEF SignalNewConnection, At, TypeOK, Polling, Places, appVars, registryVars, queueVars, pollVars
<1>5. ASSUME NEW f \in Fds, Publish(f) PROVE TypeInv'
  <2>1. active_sockets[f] \in Sockets
    BY <1>5, VisitingRegistered DEF Publish
  <2>2. /\ active' \in [Sockets -> BOOLEAN] /\ connected' \in [Sockets -> BOOLEAN]
        /\ owed' \in Seq(Sockets) /\ socket_op' = socket_op /\ lost' = lost
    BY <1>1, <1>5, <2>1 DEF Publish, TypeOK, queueVars
  <2>3. told' \in [Sockets -> {"nothing", "connected", "disconnected"}]
    BY <1>5, <2>1 DEF Publish, PublishConnectedStatus, TypeOK
  <2> QED
    BY <1>5, <2>2, <2>3 DEF Publish, At, TypeOK, Polling, Places, appVars, registryVars, pollVars
<1>6. ASSUME NEW f \in Fds, SendNextPacket(f) PROVE TypeInv'
  <2>1. active_sockets[f] \in Sockets
    BY <1>6, VisitingRegistered DEF SendNextPacket
  <2>2. /\ active' \in [Sockets -> BOOLEAN] /\ connected' \in [Sockets -> BOOLEAN]
        /\ owed' \in Seq(Sockets) /\ socket_op' = socket_op /\ lost' = lost
    BY <1>1, <1>6, <2>1 DEF SendNextPacket, TypeOK, queueVars
  <2> QED
    BY <1>6, <2>2 DEF SendNextPacket, At, TypeOK, Polling, Places, appVars, registryVars
<1> QED
  BY <1>2, <1>3, <1>4, <1>5, <1>6

-----------------------------------------------------------------------------
(* Descriptors that are not leaked.                                        *)

\* An operation stays in a queue that grows at its end.
LEMMA OpsKept ==
    ASSUME TypeOK, NEW ops \in Seq(Ops), PerformOps(ops), NEW o
    PROVE  Contains(socket_op, o) => Contains(socket_op', o)
<1>1. /\ socket_op' \in Seq(Ops) /\ Len(socket_op) <= Len(socket_op')
      /\ \A i \in 1..Len(socket_op) : socket_op'[i] = socket_op[i]
  BY PerformOpsKeeps
<1>2. Len(socket_op) \in Nat /\ Len(socket_op') \in Nat
  BY <1>1 DEF TypeOK
<1>3. \A i \in 1..Len(socket_op) : i \in 1..Len(socket_op')
  BY <1>1, <1>2
<1> QED
  BY <1>1, <1>3 DEF Contains

\* A Stop stays in the queue when a Start, or the Stop of another, is taken.
LEMMA StopsKept ==
    ASSUME TypeOK, socket_op # <<>>, NEW s \in Sockets, socket_op[1] # Op("Stop", s),
           socket_op' = Tail(socket_op), Contains(socket_op, Op("Stop", s))
    PROVE  Contains(socket_op', Op("Stop", s))
<1>1. PICK i \in 1..Len(socket_op) : socket_op[i] = Op("Stop", s)
  BY DEF Contains
<1>2. i # 1
  BY <1>1
<1>3. i - 1 \in 1..Len(Tail(socket_op)) /\ Tail(socket_op)[i - 1] = socket_op[i]
  BY <1>2, FirstOp
<1> QED
  BY <1>1, <1>3 DEF Contains

\* Nothing is in an empty sequence, and s is in the sequence of s.
LEMMA NothingOwed == \A s : ~Contains(<<>>, s) /\ Contains(<<s>>, s)
  BY DEF Contains

\* A step keeps NoLeakedDescriptor when each socket that it leaves open and not
\* active has a Stop afterwards, or was so before and keeps the Stop.
LEMMA LeakKept ==
    ASSUME NoLeakedDescriptor, lost \subseteq lost',
           \A s \in Sockets \ lost' : socket_id'[s] # INVALID_SOCKET /\ ~active'[s] =>
                \/ StopPending(s)'
                \/ /\ socket_id[s] # INVALID_SOCKET /\ ~active[s]
                   /\ StopPending(s) => StopPending(s)'
    PROVE  NoLeakedDescriptor'
  BY DEF NoLeakedDescriptor

\* The application's steps.
LEMMA LeakApp ==
    ASSUME TypeOK, NoLeakedDescriptor, NEW s \in Sockets,
           AppStop(s) \/ AppStart(s) \/ AppPush(s) \/ AppRelease(s)
    PROVE  NoLeakedDescriptor'
<1>1. CASE AppStop(s)
  <2>1. /\ socket_op' = socket_op /\ owed' = owed /\ lost' = lost /\ socket_id' = socket_id
        /\ app' = [app EXCEPT ![s] = "stopping"]
    BY <1>1 DEF AppStop, queueVars
  <2>2. \A r \in Sockets : StopPending(r) => StopPending(r)'
    BY <2>1 DEF StopPending, TypeOK
  <2>3. StopPending(s)' /\ \A r \in Sockets \ {s} : active'[r] = active[r]
    BY <1>1, <2>1, StopInternalType DEF StopPending, TypeOK, AppStop
  <2> QED
    BY <2>1, <2>2, <2>3, LeakKept
<1>2. CASE AppStart(s) \/ AppRelease(s)
  <2>1. /\ socket_op' = socket_op /\ owed' = owed /\ lost' = lost /\ socket_id' = socket_id
        /\ active' = active
        /\ \A r \in Sockets : app[r] = "stopping" => app'[r] = "stopping"
    BY <1>2 DEF AppStart, AppRelease, queueVars, socketVars, TypeOK
  <2>2. \A r \in Sockets : StopPending(r) => StopPending(r)'
    BY <2>1 DEF StopPending
  <2> QED
    BY <2>1, <2>2, LeakKept
<1>3. CASE AppPush(s)
  <2>0. PICK o \in {"Start", "Stop"} : PerformOps(<<Op(o, s)>>) /\ (app[s] = "stopping" => o = "Stop")
    BY <1>3 DEF AppPush
  <2>1. <<Op(o, s)>> \in Seq(Ops)
    BY DEF Op, Ops
  <2>2. /\ lost \subseteq lost' /\ socket_id' = socket_id /\ active' = active /\ owed' = owed
        /\ \A r \in Sockets \ {s} : app'[r] = app[r]
    BY <1>3, <2>0, <2>1, PerformOpsKeeps DEF AppPush, socketVars, TypeOK
  <2>3. \A r \in Sockets : Contains(socket_op, Op("Stop", r)) => Contains(socket_op', Op("Stop", r))
    BY <2>0, <2>1, OpsKept
  <2>4. app[s] = "stopping" => s \in lost' \/ Contains(socket_op', Op("Stop", s))
    BY <2>0, PerformOneOp
  <2>5. \A r \in Sockets \ lost' : StopPending(r) => StopPending(r)'
    BY <2>2, <2>3, <2>4 DEF StopPending
  <2> QED
    BY <2>2, <2>5, LeakKept
<1> QED
  BY <1>1, <1>2, <1>3

\* The handlers.
LEMMA LeakHandler ==
    ASSUME TypeOK, RegistryAgrees, NoLeakedDescriptor,
           StartSocket \/ ShutdownSocket \/ NetworkEvent \/ PushOwed \/ RestartInactive
    PROVE  NoLeakedDescriptor'
<1>0. ASSUME NEW s \in Sockets, NEW n \in Nat, InternalStart(s, n),
             owed = <<>>, app' = app, lost' = lost,
             \A r \in Sockets : Contains(socket_op, Op("Stop", r)) => Contains(socket_op', Op("Stop", r))
      PROVE  NoLeakedDescriptor'
  <2>1. /\ \A r \in Sockets \ {s} : socket_id'[r] = socket_id[r] /\ active'[r] = active[r]
        /\ active'[s] \/ Contains(owed', s)
    <3>1. CASE active[s] /\ UNCHANGED <<socketVars, owed, net>>
      BY <3>1 DEF socketVars
    <3>2. CASE \E f \in CreateSocket(s) \ {INVALID_SOCKET} :
                /\ socket_id' = [socket_id EXCEPT ![s] = f]
                /\ active' = [active EXCEPT ![s] = TRUE]
      BY <3>2 DEF TypeOK
    <3>3. CASE \E f \in CreateSocket(s) :
                /\ socket_id' = [socket_id EXCEPT ![s] = f]
                /\ owed' = [i \in 1..n + 1 |-> s]
                /\ UNCHANGED <<active, connected, active_sockets>>
      <4>1. Len(owed') = n + 1 /\ owed'[1] = s
        BY <3>3
      <4>2. Contains(owed', s)
        BY <4>1 DEF Contains
      <4> QED
        BY <3>3, <4>2 DEF TypeOK
    <3> QED
      BY <1>0, <3>1, <3>2, <3>3 DEF InternalStart
  <2>2. \A r \in Sockets : StopPending(r) => StopPending(r)'
    BY <1>0, NothingOwed DEF StopPending
  <2>3. ~active'[s] => StopPending(s)'
    BY <2>1 DEF StopPending
  <2> QED
    BY <1>0, <2>1, <2>2, <2>3, LeakKept
<1>1. CASE StartSocket
  <2> DEFINE s == socket_op[1].socket
  <2>1. /\ s \in Sockets /\ socket_op # <<>> /\ socket_op' = Tail(socket_op)
        /\ socket_op[1].op = "Start" /\ owed = <<>> /\ app' = app /\ lost' = lost
    BY <1>1, FirstOp DEF StartSocket, At, appVars
  <2>2. \A r \in Sockets : Contains(socket_op, Op("Stop", r)) => Contains(socket_op', Op("Stop", r))
    <3>1. \A r \in Sockets : socket_op[1] # Op("Stop", r)
      BY <2>1 DEF Op
    <3> QED
      BY <2>1, <3>1, StopsKept
  <2>3. CASE has_ip
    <3>1. InternalStart(s, 0)
      BY <1>1, <2>3 DEF StartSocket
    <3> HIDE DEF s
    <3> QED
      BY <1>0, <2>1, <2>2, <3>1
  <2>4. CASE ~has_ip
    <3>1. owed' = owed /\ socket_id' = socket_id /\ active' = active
      BY <1>1, <2>4 DEF StartSocket, socketVars
    <3>2. \A r \in Sockets : StopPending(r) => StopPending(r)'
      BY <2>1, <2>2, <3>1 DEF StopPending
    <3> QED
      BY <2>1, <3>1, <3>2, LeakKept
  <2> QED
    BY <2>3, <2>4
<1>2. CASE ShutdownSocket
  <2> DEFINE s == socket_op[1].socket
  <2>1. /\ s \in Sockets /\ socket_op # <<>> /\ socket_op' = Tail(socket_op)
        /\ owed = <<>> /\ app' = app /\ lost' = lost
        /\ StopInternal(s)
    BY <1>2, FirstOp DEF ShutdownSocket, At, appVars
  <2>2. \A r \in Sockets \ {s} :
            Contains(socket_op, Op("Stop", r)) => Contains(socket_op', Op("Stop", r))
    <3>1. \A r \in Sockets \ {s} : socket_op[1] # Op("Stop", r)
      BY DEF Op
    <3> QED
      BY <2>1, <3>1, StopsKept
  <2>3. socket_id'[s] = INVALID_SOCKET /\ \A r \in Sockets \ {s} : socket_id'[r] = socket_id[r]
    BY <1>2, <2>1 DEF ShutdownSocket, TypeOK
  <2> HIDE DEF s
  <2>4. \A r \in Sockets \ {s} : active'[r] = active[r]
    BY <2>1, StopInternalType
  <2>5. \A r \in Sockets \ {s} : StopPending(r) => StopPending(r)'
    BY <2>1, <2>2, NothingOwed DEF StopPending
  <2> QED
    BY <2>1, <2>3, <2>4, <2>5, LeakKept
<1>3. CASE NetworkEvent
  <2>1. PICK ops \in Seq(Ops) : PerformOps(ops)
    BY <1>3, CloseAllOps DEF NetworkEvent
  <2>2. lost \subseteq lost' /\ socket_id' = socket_id /\ active' = active /\ owed' = owed /\ app' = app
    BY <1>3, <2>1, PerformOpsKeeps DEF NetworkEvent, socketVars, appVars
  <2>3. \A r \in Sockets : Contains(socket_op, Op("Stop", r)) => Contains(socket_op', Op("Stop", r))
    BY <2>1, OpsKept
  <2>4. \A r \in Sockets : StopPending(r) => StopPending(r)'
    BY <2>2, <2>3 DEF StopPending
  <2> QED
    BY <2>2, <2>4, LeakKept
<1>4. CASE PushOwed
  <2> DEFINE h == Head(owed)
  <2>0. /\ owed \in Seq(Sockets) /\ owed # <<>> /\ owed' = Tail(owed) /\ h \in Sockets
        /\ PerformOps(<<Op("Stop", h)>>)
    BY <1>4 DEF PushOwed, TypeOK
  <2> HIDE DEF h
  <2>1. <<Op("Stop", h)>> \in Seq(Ops)
    BY <2>0 DEF Op, Ops
  <2>2. lost \subseteq lost' /\ socket_id' = socket_id /\ active' = active /\ app' = app
    BY <1>4, <2>0, <2>1, PerformOpsKeeps DEF PushOwed, socketVars, appVars
  <2>3. \A r \in Sockets : Contains(socket_op, Op("Stop", r)) => Contains(socket_op', Op("Stop", r))
    BY <2>0, <2>1, OpsKept
  <2>4. h \in lost' \/ Contains(socket_op', Op("Stop", h))
    BY <2>0, PerformOneOp
  <2>5. \A r \in Sockets \ {h} : Contains(owed, r) => Contains(owed', r)
    <3> SUFFICES ASSUME NEW r \in Sockets \ {h}, NEW i \in 1..Len(owed), owed[i] = r
                 PROVE  Contains(owed', r)
      BY DEF Contains
    <3>1. i # 1
      BY <2>0 DEF h
    <3>2. i - 1 \in 1..Len(Tail(owed)) /\ Tail(owed)[i - 1] = owed[i]
      BY <2>0, <3>1
    <3> QED
      BY <2>0, <3>2 DEF Contains
  <2>6. \A r \in Sockets \ lost' : StopPending(r) => StopPending(r)'
    BY <2>2, <2>3, <2>4, <2>5 DEF StopPending
  <2> QED
    BY <2>2, <2>6, LeakKept
<1>5. CASE RestartInactive
  <2> DEFINE s == Head(inactive_sockets)
  <2>1. /\ s \in Sockets /\ InternalStart(s, 1) /\ owed = <<>> /\ app' = app /\ lost' = lost
        /\ socket_op' = socket_op
    BY <1>5 DEF RestartInactive, At, TypeOK, appVars
  <2> HIDE DEF s
  <2> QED
    BY <1>0, <2>1
<1> QED
  BY <1>1, <1>2, <1>3, <1>4, <1>5

\* A stop by the dispatcher itself.
LEMMA LeakStop ==
    ASSUME TypeOK, NoLeakedDescriptor, NEW s \in Sockets, owed = <<>>, DispatcherStop(s),
           socket_id' = socket_id, app' = app
    PROVE  NoLeakedDescriptor'
<1>1. owed' = <<s>> /\ socket_op' = socket_op /\ lost' = lost
  BY DEF DispatcherStop
<1>2. \A r \in Sockets \ {s} : active'[r] = active[r]
  BY StopInternalType DEF DispatcherStop
<1>3. StopPending(s)' /\ \A r \in Sockets : StopPending(r) => StopPending(r)'
  BY <1>1, NothingOwed DEF StopPending
<1> QED
  BY <1>1, <1>2, <1>3, LeakKept

\* What the property does not look at.
LEMMA LeakQuiet ==
    ASSUME NoLeakedDescriptor, UNCHANGED <<active, socket_id, app, queueVars>>
    PROVE  NoLeakedDescriptor'
  BY DEF NoLeakedDescriptor, StopPending, queueVars

-----------------------------------------------------------------------------
(* What a closed socket is said to be.                                     *)

\* A step that opens or closes no socket, and says nothing of a closed one.
LEMMA StatusKept ==
    ASSUME TypeOK, ConnectedActive, OnlyRaceMisleads, raced \subseteq raced',
           \A s \in Sockets \ raced' : connected'[s] => active'[s],
           \A s \in Sockets \ raced' : socket_id'[s] = INVALID_SOCKET =>
                /\ socket_id[s] = INVALID_SOCKET
                /\ connected'[s] => connected[s]
                /\ container'[s] => container[s]
                /\ told'[s] = told[s]
    PROVE  ConnectedActive' /\ OnlyRaceMisleads'
  BY DEF ConnectedActive, OnlyRaceMisleads

\* stop_internal() leaves no socket connected, but for one that is not active.
LEMMA StatusStopInternal ==
    ASSUME TypeOK, ConnectedActive, NEW s \in Sockets, StopInternal(s), raced' = raced
    PROVE  /\ \A r \in Sockets \ raced' : connected'[r] => active'[r]
           /\ \A r \in Sockets : connected'[r] => connected[r]
           /\ s \notin raced => ~connected'[s]
<1>1. /\ ~active'[s] /\ (active[s] => ~connected'[s])
      /\ \A r \in Sockets : (active'[r] => active[r]) /\ (connected'[r] => connected[r])
      /\ \A r \in Sockets \ {s} : active'[r] = active[r] /\ connected'[r] = connected[r]
  BY StopInternalType
<1> QED
  BY <1>1 DEF ConnectedActive

\* A stop, by the application or by the dispatcher.
LEMMA StatusStop ==
    ASSUME TypeOK, ConnectedActive, OnlyRaceMisleads, NEW s \in Sockets, StopInternal(s),
           UNCHANGED <<socket_id, container, raced>>,
           \A r \in Sockets : socket_id[r] = INVALID_SOCKET => told'[r] = told[r]
    PROVE  ConnectedActive' /\ OnlyRaceMisleads'
  BY StatusStopInternal, StatusKept

\* What the properties do not look at.
LEMMA StatusQuiet ==
    ASSUME TypeOK, ConnectedActive, OnlyRaceMisleads,
           UNCHANGED <<active, connected, socket_id, told, raced>>,
           \A s \in Sockets : container'[s] => container[s]
    PROVE  ConnectedActive' /\ OnlyRaceMisleads'
  BY DEF ConnectedActive, OnlyRaceMisleads

\* A start.
LEMMA StatusStart ==
    ASSUME TypeOK, ConnectedActive, OnlyRaceMisleads, NEW s \in Sockets, NEW n \in Nat,
           InternalStart(s, n), UNCHANGED <<container, told, raced>>
    PROVE  ConnectedActive' /\ OnlyRaceMisleads'
<1>1. /\ connected' = connected
      /\ \A r \in Sockets : active[r] => active'[r]
      /\ \A r \in Sockets : socket_id'[r] = INVALID_SOCKET => socket_id[r] = INVALID_SOCKET
  <2>1. CASE UNCHANGED <<socketVars, owed, net>>
    BY <2>1 DEF socketVars
  <2>2. CASE \E f \in CreateSocket(s) \ {INVALID_SOCKET} :
                /\ socket_id' = [socket_id EXCEPT ![s] = f]
                /\ active' = [active EXCEPT ![s] = TRUE]
                /\ UNCHANGED <<connected, owed>>
    BY <2>2 DEF TypeOK
  <2>3. CASE \E f \in CreateSocket(s) :
                /\ socket_id' = [socket_id EXCEPT ![s] = f]
                /\ UNCHANGED <<active, connected, active_sockets>>
    <3>1. PICK f \in CreateSocket(s) : socket_id' = [socket_id EXCEPT ![s] = f]
      BY <2>3
    <3>2. f = INVALID_SOCKET => socket_id[s] = INVALID_SOCKET
      BY DEF CreateSocket
    <3> QED
      BY <2>3, <3>1, <3>2 DEF TypeOK
  <2> QED
    BY <2>1, <2>2, <2>3 DEF InternalStart
<1> QED
  BY <1>1, StatusKept DEF ConnectedActive

\* The shutdown says that the socket is disconnected.
LEMMA StatusShutdown ==
    ASSUME TypeOK, ConnectedActive, OnlyRaceMisleads, ShutdownSocket
    PROVE  ConnectedActive' /\ OnlyRaceMisleads'
<1> DEFINE s == socket_op[1].socket
<1>1. s \in Sockets /\ StopInternal(s) /\ raced' = raced /\ container' = container
  BY FirstOp DEF ShutdownSocket, appVars
<1>2. socket_id[s] = INVALID_SOCKET => UNCHANGED <<socket_id, told>>
  BY DEF ShutdownSocket
<1>3. socket_id[s] # INVALID_SOCKET =>
        /\ socket_id' = [socket_id EXCEPT ![s] = INVALID_SOCKET]
        /\ PublishConnectedStatus(s, connected'[s])
  BY DEF ShutdownSocket
<1> HIDE DEF s
<1>4. /\ \A r \in Sockets \ raced' : connected'[r] => active'[r]
      /\ \A r \in Sockets : connected'[r] => connected[r]
      /\ s \notin raced => ~connected'[s]
  BY <1>1, StatusStopInternal
<1>5. CASE socket_id[s] = INVALID_SOCKET
  BY <1>1, <1>2, <1>4, <1>5, StatusKept
<1>6. CASE socket_id[s] # INVALID_SOCKET
  <2>1. \A r \in Sockets \ {s} : socket_id'[r] = socket_id[r] /\ told'[r] = told[r]
    BY <1>1, <1>3, <1>6 DEF TypeOK, PublishConnectedStatus
  <2>2. s \notin raced => ~connected'[s] /\ (container'[s] => told'[s] # "connected")
    <3> SUFFICES ASSUME s \notin raced, container[s] PROVE told'[s] # "connected"
      BY <1>1, <1>4
    <3>1. ~connected'[s]
      BY <1>4
    <3>2. told' = [told EXCEPT ![s] = "disconnected"]
      BY <1>3, <1>6, <3>1 DEF PublishConnectedStatus
    <3> QED
      BY <1>1, <3>2 DEF TypeOK
  <2>3. ConnectedActive'
    BY <1>4 DEF ConnectedActive
  <2>4. OnlyRaceMisleads'
    <3> SUFFICES ASSUME NEW r \in Sockets \ raced, socket_id'[r] = INVALID_SOCKET
                 PROVE  ~connected'[r] /\ (container'[r] => told'[r] # "connected")
      BY <1>1 DEF OnlyRaceMisleads
    <3>1. CASE r = s
      BY <2>2, <3>1
    <3>2. CASE r # s
      BY <1>1, <1>4, <2>1, <3>2 DEF OnlyRaceMisleads
    <3> QED
      BY <3>1, <3>2
  <2> QED
    BY <2>3, <2>4
<1> QED
  BY <1>5, <1>6

\* signal_new_connection(): only a socket that has been stopped meanwhile is
\* connected and not active.
LEMMA StatusSignal ==
    ASSUME TypeOK, RegistryAgrees, ConnectedActive, OnlyRaceMisleads, NEW f \in Fds,
           SignalNewConnection(f)
    PROVE  ConnectedActive' /\ OnlyRaceMisleads'
<1> DEFINE s == active_sockets[f]
<1>1. s \in Sockets /\ socket_id[s] # INVALID_SOCKET
  BY VisitingRegistered DEF SignalNewConnection
<1>2. /\ connected' = [connected EXCEPT ![s] = TRUE]
      /\ raced' = IF active[s] THEN raced ELSE raced \cup {s}
      /\ UNCHANGED <<active, socket_id, container, told>>
  BY DEF SignalNewConnection, appVars
<1> HIDE DEF s
<1>3. \A r \in Sockets \ {s} : connected'[r] = connected[r]
  BY <1>1, <1>2 DEF TypeOK
<1>4. raced \subseteq raced' /\ (s \notin raced' => active[s])
  BY <1>2
<1>5. \A r \in Sockets \ raced' : connected'[r] => active'[r]
  BY <1>2, <1>3, <1>4 DEF ConnectedActive
<1> QED
  BY <1>1, <1>2, <1>3, <1>4, <1>5, StatusKept

\* publish_connected_status() of a socket that is open.
LEMMA StatusPublish ==
    ASSUME TypeOK, RegistryAgrees, ConnectedActive, OnlyRaceMisleads, NEW f \in Fds, Publish(f)
    PROVE  ConnectedActive' /\ OnlyRaceMisleads'
<1> DEFINE s == active_sockets[f]
<1>1. s \in Sockets /\ socket_id[s] # INVALID_SOCKET
  BY VisitingRegistered DEF Publish
<1>2. /\ PublishConnectedStatus(s, connected[s])
      /\ UNCHANGED <<socket_id, container, raced>>
      /\ StopInternal(s) \/ UNCHANGED <<active, connected>>
  BY DEF Publish, DispatcherStop, appVars
<1> HIDE DEF s
<1>3. \A r \in Sockets : socket_id[r] = INVALID_SOCKET => told'[r] = told[r]
  BY <1>1, <1>2 DEF TypeOK, PublishConnectedStatus
<1>4. CASE StopInternal(s)
  BY <1>1, <1>2, <1>3, <1>4, StatusStop
<1>5. CASE UNCHANGED <<active, connected>>
  BY <1>2, <1>3, <1>5, StatusKept DEF ConnectedActive
<1> QED
  BY <1>2, <1>4, <1>5

-----------------------------------------------------------------------------
(* The theorems.                                                           *)

DispatcherInv ==
    /\ TypeInv /\ RegistryAgrees /\ NoLeakedDescriptor
    /\ ConnectedActive /\ OnlyRaceMisleads

\* The initial states: all sockets are closed.
LEMMA DispatcherInit == ASSUME Init PROVE DispatcherInv
<1>1. DOMAIN active_sockets = {} /\ \A s \in Sockets : socket_id[s] = INVALID_SOCKET
  BY DEF Init
<1>2. \A s \in Sockets : ~active[s] /\ ~connected[s] /\ told[s] # "connected"
  BY DEF Init
<1>3. RegistryAgrees /\ NoLeakedDescriptor /\ ConnectedActive /\ OnlyRaceMisleads
  BY <1>1, <1>2 DEF RegistryAgrees, NoLeakedDescriptor, ConnectedActive, OnlyRaceMisleads
<1> QED
  BY <1>3, TypeInit DEF DispatcherInv

\* Every step keeps the invariant.
LEMMA DispatcherStep == ASSUME DispatcherInv, [Next]_vars PROVE DispatcherInv'
<1> USE DEF DispatcherInv
<1>0. TypeOK
  BY DEF TypeInv
<1>1. ASSUME NEW s \in Sockets, AppStop(s) \/ AppStart(s) \/ AppPush(s) \/ AppRelease(s)
      PROVE  DispatcherInv'
  <2>1. TypeInv' /\ NoLeakedDescriptor'
    BY <1>0, <1>1, TypeApp, LeakApp
  <2>2. /\ UNCHANGED <<active_sockets, socket_id, net, told, raced>>
        /\ \A r \in Sockets : container'[r] => container[r]
    BY <1>0, <1>1 DEF AppStop, AppStart, AppPush, AppRelease, TypeOK, registryVars, socketVars
  <2>3. \A r \in Sockets : active'[r] => active[r]
    BY <1>0, <1>1, StopInternalType DEF AppStop, AppStart, AppPush, AppRelease, socketVars
  <2>4. RegistryAgrees'
    BY <1>0, <2>2, <2>3, RegistryKept
  <2>5. ConnectedActive' /\ OnlyRaceMisleads'
    <3>1. CASE AppStop(s)
      BY <1>0, <3>1, StatusStop DEF AppStop
    <3>2. CASE AppStart(s) \/ AppPush(s) \/ AppRelease(s)
      BY <1>0, <2>2, <3>2, StatusQuiet DEF AppStart, AppPush, AppRelease, socketVars
    <3> QED
      BY <1>1, <3>1, <3>2
  <2> QED
    BY <2>1, <2>4, <2>5
<1>2. CASE \/ \E f \in Fds : Connect(f) \/ Break(f) \/ ReadData(f) \/ Writable(f)
           \/ BeginTick \/ CheckSocketTimeouts \/ Select \/ SelectFails \/ EndTick
  <2>1. TypeInv'
    BY <1>2, TypeQuiet
  <2>2. /\ UNCHANGED <<socketVars, appVars, told, registryVars, queueVars, raced>>
        /\ \A f \in Fds : net[f] # "free" => net'[f] # "free"
    <3>1. ASSUME NEW f \in Fds, Connect(f) \/ Break(f)
          PROVE  /\ UNCHANGED <<socketVars, appVars, told, registryVars, queueVars, raced>>
                 /\ \A g \in Fds : net[g] # "free" => net'[g] # "free"
      BY <1>0, <3>1 DEF Connect, Break, TypeOK
    <3>2. CASE ~\E f \in Fds : Connect(f) \/ Break(f)
      BY <1>2, <3>2 DEF ReadData, Writable, BeginTick, CheckSocketTimeouts, Select, SelectFails, EndTick
    <3> QED
      BY <3>1, <3>2
  <2>3. RegistryAgrees'
    BY <1>0, <2>2, RegistryKept DEF socketVars, registryVars
  <2>4. NoLeakedDescriptor'
    BY <2>2, LeakQuiet DEF socketVars, appVars
  <2>5. ConnectedActive' /\ OnlyRaceMisleads'
    BY <1>0, <2>2, StatusQuiet DEF socketVars, appVars
  <2> QED
    BY <2>1, <2>3, <2>4, <2>5
<1>3. CASE StartSocket \/ ShutdownSocket \/ NetworkEvent \/ PushOwed \/ RestartInactive
  <2>1. TypeInv' /\ NoLeakedDescriptor'
    BY <1>0, <1>3, TypeHandler, LeakHandler
  <2>2. CASE ShutdownSocket
    BY <1>0, <2>1, <2>2, RegistryShutdown, StatusShutdown
  <2>3. ASSUME NEW s \in Sockets, NEW n \in Nat, InternalStart(s, n),
               UNCHANGED <<container, told, raced>>
        PROVE  DispatcherInv'
    BY <1>0, <2>1, <2>3, RegistryStart, StatusStart
  <2>4. CASE UNCHANGED <<socketVars, active_sockets, net, container, told, raced>>
    <3>1. RegistryAgrees'
      BY <1>0, <2>4, RegistryKept DEF socketVars
    <3>2. ConnectedActive' /\ OnlyRaceMisleads'
      BY <1>0, <2>4, StatusQuiet DEF socketVars
    <3> QED
      BY <2>1, <3>1, <3>2
  <2>5. CASE StartSocket
    <3> DEFINE s == socket_op[1].socket
    <3>1. s \in Sockets
      BY <1>0, <2>5, FirstOp DEF StartSocket
    <3>2. UNCHANGED <<container, told, raced>>
      BY <2>5 DEF StartSocket, appVars
    <3>3. CASE has_ip
      <4>1. InternalStart(s, 0)
        BY <2>5, <3>3 DEF StartSocket
      <4> HIDE DEF s
      <4> QED
        BY <2>3, <3>1, <3>2, <4>1
    <3>4. CASE ~has_ip
      BY <2>4, <2>5, <3>2, <3>4 DEF StartSocket
    <3> QED
      BY <3>3, <3>4
  <2>6. CASE NetworkEvent \/ PushOwed
    BY <2>4, <2>6 DEF NetworkEvent, PushOwed, appVars, registryVars
  <2>7. CASE RestartInactive
    <3> DEFINE s == Head(inactive_sockets)
    <3>1. s \in Sockets /\ InternalStart(s, 1) /\ UNCHANGED <<container, told, raced>>
      BY <1>0, <2>7 DEF RestartInactive, TypeOK, appVars
    <3> HIDE DEF s
    <3> QED
      BY <2>3, <3>1
  <2> QED
    BY <1>3, <2>2, <2>5, <2>6, <2>7
<1>4. CASE \/ \E s \in Sockets : StopExpired(s) \/ StopAbandoned(s)
           \/ \E f \in Fds : ReadFails(f) \/ SignalNewConnection(f) \/ Publish(f) \/ SendNextPacket(f)
  <2>1. TypeInv'
    BY <1>4, TypeTick
  <2>2. ASSUME NEW s \in Sockets, DispatcherStop(s), owed = <<>>,
               UNCHANGED <<socket_id, app, active_sockets, net>>
        PROVE  RegistryAgrees' /\ NoLeakedDescriptor'
    <3>1. \A r \in Sockets : active'[r] => active[r]
      BY <1>0, <2>2, StopInternalType DEF DispatcherStop
    <3> QED
      BY <1>0, <2>2, <3>1, RegistryKept, LeakStop
  <2>3. ASSUME NEW s \in Sockets, DispatcherStop(s), owed = <<>>,
               UNCHANGED <<socket_id, appVars, told, registryVars, net, raced>>
        PROVE  DispatcherInv'
    <3>1. RegistryAgrees' /\ NoLeakedDescriptor'
      BY <2>2, <2>3 DEF appVars, registryVars
    <3>2. ConnectedActive' /\ OnlyRaceMisleads'
      BY <1>0, <2>3, StatusStop DEF DispatcherStop, appVars
    <3> QED
      BY <2>1, <3>1, <3>2
  <2>4. ASSUME NEW s \in Sockets, StopExpired(s) \/ StopAbandoned(s) PROVE DispatcherInv'
    BY <2>3, <2>4 DEF StopExpired, StopAbandoned, At
  <2>5. ASSUME NEW f \in Fds, ReadFails(f) PROVE DispatcherInv'
    <3>1. active_sockets[f] \in Sockets
      BY <1>0, <2>5, VisitingRegistered DEF ReadFails
    <3> QED
      BY <2>3, <2>5, <3>1 DEF ReadFails, At
  <2>6. ASSUME NEW f \in Fds, SignalNewConnection(f) PROVE DispatcherInv'
    <3>1. UNCHANGED <<active, socket_id, app, active_sockets, net, queueVars>>
      BY <2>6 DEF SignalNewConnection, appVars, registryVars
    <3>2. RegistryAgrees' /\ NoLeakedDescriptor'
      BY <1>0, <3>1, RegistryKept, LeakQuiet
    <3> QED
      BY <1>0, <2>1, <2>6, <3>2, StatusSignal
  <2>7. ASSUME NEW f \in Fds, Publish(f) PROVE DispatcherInv'
    <3>1. active_sockets[f] \in Sockets
      BY <1>0, <2>7, VisitingRegistered DEF Publish
    <3>2. UNCHANGED <<socket_id, app, active_sockets, net>> /\ owed = <<>>
      BY <2>7 DEF Publish, At, appVars, registryVars
    <3>3. DispatcherStop(active_sockets[f]) \/ UNCHANGED <<active, queueVars>>
      BY <2>7 DEF Publish
    <3>4. RegistryAgrees' /\ NoLeakedDescriptor'
      <4>1. CASE DispatcherStop(active_sockets[f])
        BY <2>2, <3>1, <3>2, <4>1
      <4>2. CASE UNCHANGED <<active, queueVars>>
        BY <1>0, <3>2, <4>2, RegistryKept, LeakQuiet
      <4> QED
        BY <3>3, <4>1, <4>2
    <3> QED
      BY <1>0, <2>1, <2>7, <3>4, StatusPublish
  <2>8. ASSUME NEW f \in Fds, SendNextPacket(f) PROVE DispatcherInv'
    <3>1. active_sockets[f] \in Sockets
      BY <1>0, <2>8, VisitingRegistered DEF SendNextPacket
    <3>2. UNCHANGED <<socket_id, appVars, told, registryVars, net, raced>> /\ owed = <<>>
      BY <2>8 DEF SendNextPacket, At
    <3>3. CASE DispatcherStop(active_sockets[f])
      BY <2>3, <3>1, <3>2, <3>3
    <3>4. CASE UNCHANGED <<active, connected, queueVars>>
      <4>1. RegistryAgrees' /\ NoLeakedDescriptor'
        BY <1>0, <3>2, <3>4, RegistryKept, LeakQuiet DEF appVars, registryVars
      <4>2. ConnectedActive' /\ OnlyRaceMisleads'
        BY <1>0, <3>2, <3>4, StatusQuiet DEF appVars
      <4> QED
        BY <2>1, <4>1, <4>2
    <3> QED
      BY <2>8, <3>3, <3>4 DEF SendNextPacket
  <2> QED
    BY <1>4, <2>4, <2>5, <2>6, <2>7, <2>8
<1>5. CASE UNCHANGED vars
  <2>1. TypeInv'
    BY <1>0, <1>5 DEF TypeInv, TypeOK, Polling, vars, socketVars, appVars, registryVars, queueVars, pollVars
  <2>2. RegistryAgrees' /\ NoLeakedDescriptor'
    BY <1>0, <1>5, RegistryKept, LeakQuiet DEF vars, socketVars, appVars, registryVars
  <2>3. ConnectedActive' /\ OnlyRaceMisleads'
    BY <1>0, <1>5, StatusQuiet DEF vars, socketVars, appVars
  <2> QED
    BY <2>1, <2>2, <2>3
<1> QED
  BY <1>1, <1>2, <1>3, <1>4, <1>5 DEF Next, HandleOp, Tick, Poll

\* The map of active sockets agrees with the sockets and with the platform, for
\* any number of sockets and descriptors and however start, stop, failures and
\* network events interleave: tick() never serves a socket under the descriptor
\* of another.
THEOREM RegistryCorrect == Spec => [](TypeOK /\ RegistryAgrees)
<1>1. DispatcherInv => TypeOK /\ RegistryAgrees
  BY DEF DispatcherInv, TypeInv
<1> QED
  BY <1>1, DispatcherInit, DispatcherStep, PTL DEF Spec

\* An open descriptor belongs to a socket that is active or whose Stop is under
\* way, unless perform_op() met a full queue: no order of stop(), start(),
\* failed starts and broken connections leaks one.
THEOREM DescriptorsNotLeaked == Spec => []NoLeakedDescriptor
<1>1. DispatcherInv => NoLeakedDescriptor
  BY DEF DispatcherInv
<1> QED
  BY <1>1, DispatcherInit, DispatcherStep, PTL DEF Spec

\* A closed socket is reported as disconnected, unless stop() came between the
\* two looks that writable() takes at it: the race is the only way to the wrong
\* report.
THEOREM RaceAloneMisleads == Spec => []OnlyRaceMisleads
<1>1. DispatcherInv => OnlyRaceMisleads
  BY DEF DispatcherInv
<1> QED
  BY <1>1, DispatcherInit, DispatcherStep, PTL DEF Spec
=============================================================================
