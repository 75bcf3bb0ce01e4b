-------------------------- MODULE HttpServerClient --------------------------
(* One connection of the HTTP server.  The peer puts requests (and, after an *)
(* upgrade, websocket frames) on the stream; the socket dispatcher reads     *)
(* them in pieces of any size into the assembler and writes the packets of   *)
(* the transmit buffer; the task of the client handles the events            *)
(* DataAvailable ("data") and TransmitBufferEmpty ("empty") in turn.         *)
(*                                                                           *)
(* The peer does not pipeline into a request that is still being read: it    *)
(* sends an item of its plan when the one before has been read, and the      *)
(* first frame when it has seen the answer to its upgrade.                   *)
EXTENDS Integers, Sequences, SequencesExt

CONSTANTS MaxHeader,     \* max_header_size
          Chunk,         \* content_chunk_size
          Plans,         \* the plans the peer may follow
          BufferSize,    \* BufferSize of BufferContainer
          MaxResponses   \* max_enqueued_responses

ASSUME HttpSizes == MaxHeader \in Nat \ {0} /\ Chunk \in Nat \ {0}

VARIABLES plan,       \* the peer's plan, a sequence of requests and frames
          at,         \* index of the item on the stream
          left,       \* bytes of it not read yet
          dropped,    \* header bytes of it dropped by reset()
          upgraded,   \* HTTPProtocol runs the websocket assembler
          reg, ws,    \* the two assemblers
          data,       \* data of the packet being assembled
          rx,         \* receive buffer: complete packets
          inbox,      \* events for the task
          switching,  \* the handler has sent 101 and not switched yet
          cl,         \* HTTPServerClient: mode, ops, cur, tx, url, closed
          wire,       \* packets written to the socket
          calls,      \* history: data handed to handlers and websocket server
          seen        \* history: events the properties except

vars == <<plan, at, left, dropped, upgraded, reg, ws, data, rx, inbox,
          switching, cl, wire, calls, seen>>

-----------------------------------------------------------------------------
(* The two assemblers behind HTTPProtocol: RegularHTTPProtocol cuts a        *)
(* request into packets of about one chunk, WebsocketProtocol does the same  *)
(* with the payload of a frame and removes its mask.  Both are values that   *)
(* reg and ws keep; a byte of content is its position in the body, a byte    *)
(* written where nothing was read is 0.                                      *)

Least(a, b) == IF a < b THEN a ELSE b

\* recv() writes u at write position off of the buffer d.
WriteAt(d, off, u) ==
  [i \in 1..(off + Len(u)) |->
     IF i > off THEN u[i - off] ELSE IF i <= Len(d) THEN d[i] ELSE 0]

-----------------------------------------------------------------------------
(* RegularHTTPProtocol.  last is the request line kept for the packets of    *)
(* one request (last_method, last_url); it survives packet_consumed().       *)

RegNew == [state |-> "headers", total |-> 0, content |-> 0, part |-> 0,
           length |-> 0, last |-> 0, error |-> FALSE]

RegWanted(p) == IF p.state = "headers" THEN MaxHeader - p.total
                ELSE Least(Chunk, p.length - p.content)

RegWritePos(p) == IF p.state = "headers" THEN p.total ELSE p.part

RegIsComplete(p) ==
  p.state # "headers"
  /\ (p.length = 0 \/ p.content = p.length \/ p.part >= Chunk)

RegPacketConsumed(p) ==
  IF p.error \/ p.content >= p.length
    THEN [RegNew EXCEPT !.last = p.last]
    ELSE [p EXCEPT !.part = 0, !.error = FALSE]

\* "Simulate an error to force protocol to be completely reset."
RegReset(p) == RegPacketConsumed([p EXCEPT !.error = TRUE])

ConsumeHeadersFirst(p, hd) == [p EXCEPT !.last = IF @ = 0 THEN hd.line ELSE @]

\* consume_headers(): the request line, when this header block has one, is
\* kept; hd.line = 0 is a block without a request line.
ConsumeHeaders(p, hd) == [p EXCEPT !.last = IF hd.line # 0 THEN hd.line ELSE @]

\* The header ends within the bytes received: what follows it is content.
HeadersDone(p, hd, n) ==
  LET q == ConsumeHeaders(p, hd)
      c == p.total + n - hd.size
  IN [q EXCEPT !.state = "content", !.total = @ + n, !.content = c,
               !.part = c, !.length = hd.length, !.error = hd.length < 0]

RegDataReceived(p, hd, n) ==
  IF p.state # "headers"
    THEN [p EXCEPT !.total = @ + n, !.content = @ + n, !.part = @ + n]
  ELSE IF p.total + n >= hd.size THEN HeadersDone(p, hd, n)
  ELSE IF p.total + n >= MaxHeader THEN RegReset(p)     \* reply_error() too
  ELSE [p EXCEPT !.total = @ + n]

\* The header grows past MaxHeader with these n bytes.
RegTooLarge(p, hd, n) ==
  p.state = "headers" /\ p.total + n < hd.size /\ p.total + n >= MaxHeader

\* A packet is flagged as a continuation only when the parts before it hold
\* more than one chunk.
RegContinuation(p) == p.content - p.part > Chunk

RegPacket(p, d) ==
  [rq |-> p.last, data |-> SubSeq(d, 1, p.part),
   continued |-> p.content < p.length, continuation |-> RegContinuation(p)]

-----------------------------------------------------------------------------
(* WebsocketProtocol.  A frame is f: op, masked, len and form, the length    *)
(* field the sender chose ("7", "16" or "64" bits).                          *)

WsNew == [state |-> "header", want |-> 0, got |-> 0, op |-> "none",
          masked |-> FALSE, length |-> 0, received |-> 0, package |-> 0,
          demask |-> 0]

WsFieldSize == [header |-> 2, length2 |-> 2, length8 |-> 8, mask |-> 4]

\* get_wanted_amount() keeps what is still wanted of the current field.
WsAsk(w) ==
  IF w.want # 0 THEN w
  ELSE [w EXCEPT !.got = 0,
                 !.want = IF w.state = "payload"
                            THEN Least(w.length - w.received, Chunk - w.package)
                            ELSE WsFieldSize[w.state]]

WsWritePos(w) == w.got

WsIsComplete(w) ==
  w.state = "payload" /\ (w.received = w.length \/ w.package = Chunk)

\* The field is complete: the state that follows it.
WsNextField(w, f) ==
  CASE w.state = "header" ->
         [w EXCEPT !.op = f.op, !.masked = f.masked, !.length = f.len,
                   !.state = CASE f.form = "16" -> "length2"
                               [] f.form = "64" -> "length8"
                               [] f.form = "7" /\ f.masked -> "mask"
                               [] OTHER -> "payload"]
    [] w.state \in {"length2", "length8"} ->
         [w EXCEPT !.length = f.len, !.state = "mask"]
    [] w.state = "mask" -> [w EXCEPT !.state = "payload"]

UpdateReceivedPayload(w, n) ==
  [w EXCEPT !.received = @ + n, !.package = @ + n]

WsDataReceived(w, f, n) ==
  LET v == [w EXCEPT !.want = @ - n, !.got = @ + n]
  IN IF w.state = "payload" THEN UpdateReceivedPayload(v, n)
     ELSE IF v.want = 0 THEN WsNextField(v, f)
     ELSE v

\* Byte i of the payload is masked with key byte (i - 1) % 4; demask_ix runs
\* on over the packets of one frame.
Demask(w, d) ==
  [i \in 1..Len(d) |->
     IF ~w.masked \/ (d[i] # 0 /\ (d[i] - 1) % 4 = (w.demask + i - 1) % 4)
       THEN d[i] ELSE 0]

WsPacket(w, d) ==
  [rq |-> w.op, data |-> Demask(w, SubSeq(d, 1, w.package)),
   continued |-> w.received < w.length, continuation |-> w.received > Chunk]

WsPacketConsumedKeepsMask(w) ==
  IF w.received >= w.length
    THEN [w EXCEPT !.package = 0, !.state = "header", !.received = 0,
                   !.got = 0, !.want = 0, !.demask = @ + w.package]
    ELSE [w EXCEPT !.package = 0, !.demask = @ + w.package]

WsPacketConsumed(w) ==
  IF w.received >= w.length
    THEN [w EXCEPT !.package = 0, !.state = "header", !.received = 0,
                   !.got = 0, !.demask = 0, !.want = 0]
    ELSE [w EXCEPT !.package = 0, !.demask = @ + w.package]

-----------------------------------------------------------------------------
(* The connection.                                                           *)

NoOp == [id |-> 0]

\* HTTPServerClient as constructed, and after reset_client().
ResetClient == [mode |-> "http", ops |-> <<>>, cur |-> NoOp, tx |-> <<>>,
                url |-> 0, closed |-> FALSE, replies |-> 0]

Init ==
  /\ plan \in Plans
  /\ at = 0 /\ left = 0 /\ dropped = 0
  /\ upgraded = FALSE /\ reg = RegNew /\ ws = WsNew
  /\ data = <<>> /\ rx = <<>> /\ inbox = <<>> /\ switching = FALSE
  /\ cl = ResetClient
  /\ wire = <<>> /\ calls = <<>>
  /\ seen = {}

Item == plan[at]
IsFrame(it) == it.kind = "frame"

-----------------------------------------------------------------------------
(* Responses.  An operation is [id, rq, kind, size, left, fail]: fail is the *)
(* amount left at which reading a file fails, -1 when it never does.         *)

Operation(id, rq, kind, size, fail) ==
  [id |-> id, rq |-> rq, kind |-> kind, size |-> size, left |-> size,
   fail |-> fail, begun |-> FALSE]

\* get_data() of the kinds of responses.
GetData(op) ==
  IF op.left > 0 /\ op.left = op.fail THEN "Error"
  ELSE IF op.left = 0 /\ ~(op.kind \in {"ws", "pong"} /\ ~op.begun) THEN "NoData"
  ELSE IF op.left > Chunk THEN "HasMoreData"
  ELSE "LastData"

Portion(op) == Least(op.left, Chunk)

AfterGetData(op) == [op EXCEPT !.left = @ - Portion(op), !.begun = TRUE]

\* The packet put in the transmit buffer for a portion of op.  Only the first
\* packet has the HTTP headers, and only in HTTP mode; only the first has the
\* opcode of a websocket frame.
OutPacket(op, mode, first) ==
  [id |-> op.id, rq |-> op.rq, kind |-> op.kind, n |-> Portion(op),
   head |-> first /\ (mode = "http" <=> op.kind \notin {"ws", "pong"})]

PutAlways(c, p) == [c EXCEPT !.tx = Append(@, p)]

Put(c, p) == IF Len(c.tx) < BufferSize THEN [c EXCEPT !.tx = Append(@, p)] ELSE c

Close(c) == [c EXCEPT !.closed = TRUE]

\* One turn of the loop of send_first_part().
SendNext(c) ==
  LET op  == Head(c.ops)
      res == GetData(op)
      d   == [c EXCEPT !.ops = Tail(@), !.cur = AfterGetData(op)]
  IN IF res = "Error" THEN Close([d EXCEPT !.cur = op])
     ELSE IF res = "NoData" \/ Len(c.tx) >= BufferSize
       THEN Put([d EXCEPT !.cur = NoOp], OutPacket(op, c.mode, TRUE))
     ELSE Put(d, OutPacket(op, c.mode, TRUE))

SendFirstPart(c) ==
  FoldLeft(LAMBDA a, op: IF a.go THEN [c |-> SendNext(a.c),
                                       go |-> GetData(op) = "NoData"] ELSE a,
           [c |-> c, go |-> TRUE], c.ops).c

Enqueue(c, ops) ==
  LET d == [c EXCEPT !.ops = ops, !.replies = @ + 1]
  IN IF c.cur = NoOp THEN SendFirstPart(d) ELSE d

ReplyLatestFirst(c, rq, kind, size, fail) ==
  LET op == Operation(c.replies + 1, rq, kind, size, fail)
  IN IF Len(c.ops) >= MaxResponses THEN Close(c)
     ELSE Enqueue(c, <<op>> \o c.ops)

\* reply(): refuses, by closing the connection, what would overflow the queue.
Reply(c, rq, kind, size, fail) ==
  LET op == Operation(c.replies + 1, rq, kind, size, fail)
  IN IF Len(c.ops) >= MaxResponses THEN Close(c)
     ELSE Enqueue(c, IF kind = "pong" THEN <<op>> \o c.ops ELSE Append(c.ops, op))

\* reply_error(): drops the responses that wait.
ReplyError(c, rq) ==
  Enqueue(c, <<Operation(c.replies + 1, rq, "error", 1, -1)>>)

\* A put that the transmit buffer refuses loses what it was given.
Refuses(c, d) == Len(c.tx) >= BufferSize /\ d.tx = c.tx
                 /\ (d.cur # c.cur \/ Len(d.ops) < Len(c.ops) + (d.replies - c.replies))

-----------------------------------------------------------------------------
(* Receiving, in the context of the socket dispatcher.                       *)

HeaderBlock ==
  IF IsFrame(Item) THEN [line |-> 0, size |-> left + 1 + reg.total, length |-> 0]
  ELSE [line |-> IF dropped = 0 THEN at ELSE 0, size |-> Item.hdr - dropped,
        length |-> Item.length]

FrameSize(f) ==
  2 + (CASE f.form = "7" -> 0 [] f.form = "16" -> 2 [] f.form = "64" -> 8)
    + (IF f.masked THEN 4 ELSE 0) + f.len

\* Bytes a..a+n-1 of the item: 0 for what is not content.
Bytes(it, n) ==
  LET size == IF IsFrame(it) THEN it.len ELSE it.body
  IN [i \in 1..n |-> LET k == size - left + i IN IF k > 0 THEN k ELSE 0]

Idle == IF upgraded THEN ws.state = "header" /\ ws.got = 0
        ELSE reg.state = "headers" /\ reg.total = 0

Answered101 == \E i \in DOMAIN wire : wire[i].kind = "switch"

\* The peer: the next item of its plan.
PeerSend ==
  /\ ~cl.closed
  /\ at < Len(plan) /\ left = 0 /\ Idle
  /\ IsFrame(plan[at + 1]) => Answered101
  /\ at' = at + 1
  /\ left' = IF IsFrame(plan[at + 1]) THEN FrameSize(plan[at + 1])
             ELSE plan[at + 1].hdr + plan[at + 1].body
  /\ dropped' = 0
  /\ UNCHANGED <<plan, upgraded, reg, ws, data, rx, inbox, switching, cl, wire,
                 calls, seen>>

\* A complete packet goes to the receive buffer and is announced.
Deliver(p, note) ==
  /\ rx' = Append(rx, p @@ [src |-> at])
  /\ inbox' = Append(inbox, "data")
  /\ data' = <<>>
  /\ seen' = seen \cup note

\* read_data() while RegularHTTPProtocol assembles.
RecvRegular(n) ==
  LET hd  == HeaderBlock
      q   == RegDataReceived(reg, hd, n)
      raw == WriteAt(data, RegWritePos(reg), Bytes(Item, n))
      d   == IF reg.state = "headers" /\ q.state = "content"
               THEN SubSeq(raw, hd.size + 1, Len(raw)) ELSE raw
      early == IF IsFrame(Item) THEN {"early"} ELSE {}
  IN /\ ~upgraded
     /\ n <= RegWanted(reg)
     /\ IF q.error      \* "Assembly error"
          THEN /\ cl' = Close(cl) /\ reg' = RegPacketConsumed(q)
               /\ UNCHANGED <<rx, inbox, data, seen, dropped>>
        ELSE IF RegTooLarge(reg, hd, n)
          THEN /\ cl' = ReplyError(cl, at) /\ reg' = q
               /\ dropped' = dropped + reg.total + n
               /\ data' = raw /\ seen' = seen \cup early \cup {"oversize"}
               /\ UNCHANGED <<rx, inbox>>
        ELSE IF RegIsComplete(q)
          THEN /\ Deliver(RegPacket(q, d), early)
               /\ reg' = RegPacketConsumed(q)
               /\ UNCHANGED <<cl, dropped>>
          ELSE /\ reg' = q /\ data' = d /\ seen' = seen \cup early
               /\ UNCHANGED <<cl, rx, inbox, dropped>>
     /\ UNCHANGED ws

\* read_data() while WebsocketProtocol assembles.
RecvWebsocket(n) ==
  LET w == WsAsk(ws)
      v == WsDataReceived(w, Item, n)
      d == IF w.state = "payload" THEN WriteAt(data, WsWritePos(w), Bytes(Item, n))
           ELSE data
  IN /\ upgraded
     /\ n <= w.want
     /\ IF WsIsComplete(v)
          THEN Deliver(WsPacket(v, d), {}) /\ ws' = WsPacketConsumed(v)
          ELSE ws' = v /\ data' = d /\ UNCHANGED <<rx, inbox, seen>>
     /\ UNCHANGED <<reg, cl, dropped>>

Recv(n) ==
  /\ ~cl.closed /\ left >= n /\ Len(rx) < BufferSize
  /\ RecvRegular(n) \/ RecvWebsocket(n)
  /\ left' = left - n
  /\ UNCHANGED <<plan, at, upgraded, switching, wire, calls>>

\* writable(): the dispatcher writes a packet and reports it, unless the
\* queue for that event is full.
Transmit ==
  /\ ~cl.closed /\ cl.tx # <<>>
  /\ wire' = Append(wire, Head(cl.tx))
  /\ cl' = [cl EXCEPT !.tx = Tail(@)]
  /\ inbox' = IF Len(SelectSeq(inbox, LAMBDA e: e = "empty")) < BufferSize
                THEN Append(inbox, "empty") ELSE inbox
  /\ UNCHANGED <<plan, at, left, dropped, upgraded, reg, ws, data, rx,
                 switching, calls, seen>>

-----------------------------------------------------------------------------
(* The task of the client.                                                   *)

Note(c, d) == IF Refuses(c, d) THEN {"refused"} ELSE {}

\* serve_file(): nothing outside the web root, a processed template, an
\* unmodified file, a file, the index of a directory, or not found.
ServeFile(it) ==
  CASE it.path \in {"outside", "missing", "noindex"} -> [size |-> 1, fail |-> -1]
    [] it.path = "notmodified" -> [size |-> 1, fail |-> -1]
    [] it.path \in {"file", "index", "template"} ->
         [size |-> it.size, fail |-> IF it.path = "template" THEN -1 ELSE it.fail]

\* WebSocketUpgradeDetector::request(); what it does after its reply to a
\* request with all the headers is SwitchProtocol.
Upgrade(c, rq, kind, last) ==
  IF ~last THEN c ELSE Reply(c, rq, IF kind = "upgrade" THEN "switch" ELSE "http", 0, -1)

\* handle(): what the context does with a part of request rq.
Handle(c, rq, last) ==
  LET it == plan[rq]
  IN CASE it.kind = "app" ->      \* external: an application answers the last part
            IF last THEN Reply(c, rq, "http", it.size, -1) ELSE c
       [] it.kind = "file" ->
            Reply(c, rq, "http", ServeFile(it).size, ServeFile(it).fail)
       [] it.kind \in {"upgrade", "badupgrade"} -> Upgrade(c, rq, it.kind, last)
       [] it.kind = "method" -> Reply(c, rq, "http", 1, -1)
       [] it.kind = "badurl" -> c

Called(p, rq) == Append(calls, [rq |-> rq, src |-> p.src,
                                first |-> ~p.continuation,
                                last |-> ~p.continued, data |-> p.data])

\* http_event(); an upgrade stops after its reply, see SwitchProtocol.
HttpEvent ==
  LET p == Head(rx)
      u == IF p.continuation THEN cl.url ELSE p.rq
      c == [cl EXCEPT !.url = u]
      d == IF u = 0 THEN Reply(c, p.src, "http", 1, -1) ELSE Handle(c, u, ~p.continued)
  IN /\ cl.mode = "http"
     /\ rx # <<>>
     /\ rx' = Tail(rx)
     /\ cl' = d
     /\ calls' = IF u # 0 /\ plan[u].kind \in {"app", "file"}
                   THEN Called(p, u) ELSE calls
     /\ switching' = (u # 0 /\ plan[u].kind = "upgrade" /\ ~p.continued)
     /\ seen' = seen \cup Note(c, d)

\* The handler of the upgrade request goes on: upgrade_to_websocket_internal().
SwitchProtocol ==
  /\ switching /\ ~cl.closed
  /\ switching' = FALSE
  /\ rx' = <<>> /\ data' = <<>> /\ reg' = RegNew /\ ws' = WsNew
  /\ upgraded' = TRUE
  /\ cl' = [cl EXCEPT !.mode = "websocket"]
  /\ seen' = seen \cup (IF cl.ops # <<>> THEN {"late"} ELSE {})
  /\ UNCHANGED <<plan, at, left, dropped, inbox, wire, calls>>

\* websocket_event(); the websocket server, external, echoes what it gets.
WebsocketEvent ==
  LET p == Head(rx)
      d == CASE p.rq = "close" -> Close(cl)
             [] p.rq = "ping"  -> Reply(cl, p.src, "pong", 0, -1)
             [] p.rq = "text"  -> Reply(cl, p.src, "ws", Len(p.data), -1)
             [] OTHER -> cl
  IN /\ cl.mode = "websocket"
     /\ rx # <<>>
     /\ rx' = Tail(rx)
     /\ cl' = d
     /\ calls' = IF p.rq = "text" THEN Called(p, p.src) ELSE calls
     /\ seen' = seen \cup Note(cl, d)
     /\ UNCHANGED switching

DataEvent ==
  /\ ~cl.closed /\ ~switching
  /\ inbox # <<>> /\ Head(inbox) = "data"
  /\ inbox' = Tail(inbox)
  /\ \/ HttpEvent
     \/ WebsocketEvent
     \/ rx = <<>> /\ UNCHANGED <<rx, cl, calls, switching, seen>>
  /\ UNCHANGED <<plan, at, left, dropped, upgraded, reg, ws, data, wire>>

ContinueForgets(c) ==
  IF c.cur = NoOp THEN c
  ELSE LET res == GetData(c.cur)
       IN CASE res = "Error"  -> Close(c)
            [] res = "NoData" -> [c EXCEPT !.cur = NoOp]
            [] OTHER -> Put([c EXCEPT !.cur = AfterGetData(@)],
                            OutPacket(c.cur, c.mode, FALSE))

\* event(TransmitBufferEmptyEvent): the result of put() is not looked at.
Continue(c) ==
  IF c.cur = NoOp THEN SendFirstPart(c)
  ELSE LET res == GetData(c.cur)
       IN CASE res = "Error"  -> Close(c)
            [] res = "NoData" -> SendFirstPart([c EXCEPT !.cur = NoOp])
            [] OTHER -> Put([c EXCEPT !.cur = AfterGetData(@)],
                            OutPacket(c.cur, c.mode, FALSE))

EmptyEvent ==
  /\ ~cl.closed /\ ~switching
  /\ inbox # <<>> /\ Head(inbox) = "empty"
  /\ inbox' = Tail(inbox)
  /\ cl' = Continue(cl)
  /\ seen' = seen \cup Note(cl, Continue(cl))
  /\ UNCHANGED <<plan, at, left, dropped, upgraded, reg, ws, data, rx,
                 switching, wire, calls>>

Largest == 16      \* no field or chunk is larger than this

Next ==
  \/ PeerSend
  \/ \E n \in 1..Largest : Recv(n)
  \/ Transmit \/ DataEvent \/ EmptyEvent \/ SwitchProtocol

\* The dispatcher and the task of the client keep running.
Fairness ==
  /\ WF_vars(\E n \in 1..Largest : Recv(n)) /\ WF_vars(Transmit)
  /\ WF_vars(DataEvent) /\ WF_vars(EmptyEvent) /\ WF_vars(SwitchProtocol)

Spec == Init /\ [][Next]_vars /\ Fairness

-----------------------------------------------------------------------------
(* Every queue stays within its size, and the task never waits for an event  *)
(* that has no packet in the receive buffer behind it, except after the      *)
(* clear() of an upgrade.                                                    *)
TypeOK ==
  /\ at \in 0..Len(plan) /\ left \in Nat /\ switching \in BOOLEAN
  /\ Len(rx) <= BufferSize /\ Len(cl.tx) <= BufferSize
  /\ Len(cl.ops) <= MaxResponses + 1
  /\ Len(SelectSeq(inbox, LAMBDA e: e = "data")) >= Len(rx)
  /\ seen \subseteq {"refused", "early", "late", "oversize"}

OutOf(id) == SelectSeq(wire \o cl.tx, LAMBDA p: p.id = id)
Amount(s) == FoldLeft(LAMBDA a, p: a + p.n, 0, s)

(* Responses leave in the order of their requests and never interleave: a    *)
(* response starts with its headers (or its opcode), its packets follow each *)
(* other, and the next one starts when it is whole.  Excepted: a put that    *)
(* the full transmit buffer refused, which loses a part of a response        *)
(* (HTTPServerClient.cpp:66 ignores it); the answer to an upgrade that waits *)
(* behind another response, sent without headers; a websocket response       *)
(* larger than a chunk, whose later parts have no opcode; a pong, which      *)
(* goes first.                                                               *)
RepliesInOrder ==
  "refused" \notin seen =>
    LET out == SelectSeq(wire \o cl.tx, LAMBDA p: p.kind # "pong")
    IN \A i \in 1..(Len(out) - 1) :
         \/ out[i + 1].id = out[i].id
         \/ /\ out[i + 1].id > out[i].id
            /\ out[i + 1].head \/ "late" \in seen
            /\ Amount(OutOf(out[i].id)) =
                 (CASE IsFrame(plan[out[i].rq]) -> Amount(OutOf(out[i].id))
                    [] out[i].kind = "error" -> 1
                    [] plan[out[i].rq].kind = "app" -> plan[out[i].rq].size
                    [] plan[out[i].rq].kind = "method" -> 1
                    [] plan[out[i].rq].kind = "file" -> ServeFile(plan[out[i].rq]).size
                    [] OTHER -> 0)

CallsFor(i) == SelectSeq(calls, LAMBDA c: c.src = i)
Joined(s) == FoldLeft(LAMBDA a, c: a \o c.data, <<>>, s)

(* What a handler or a websocket server is given for a request or a frame,   *)
(* however the bytes arrived, is its content from the first byte on, each    *)
(* byte once and unmasked, "first" set on the first part only and "last" on  *)
(* the part that completes it only.  Excepted: a request whose first part is *)
(* exactly one chunk, where the second part is flagged first again           *)
(* (RegularHTTPProtocol.cpp:126), and frames read before the switch.         *)
PartsWhole ==
  \A i \in 1..at :
    LET s    == CallsFor(i)
        all  == Joined(s)
        size == IF IsFrame(plan[i]) THEN plan[i].len ELSE plan[i].body
    IN s # <<>> /\ "early" \notin seen /\ "oversize" \notin seen =>
         /\ all = [k \in 1..Len(all) |-> k]
         /\ \A k \in 1..Len(s) :
              /\ s[k].last <=> k = Len(s) /\ Len(all) = size
              /\ \/ s[k].first <=> k = 1
                 \/ ~IsFrame(plan[i]) /\ Len(s[1].data) = Chunk

(* A handler sees a request once.  Excepted: after a header larger than      *)
(* max_header_size the rest of that header is parsed as a request of its     *)
(* own, which has no request line and so repeats the previous request.       *)
HandledOnce ==
  "oversize" \notin seen =>
    \A i \in DOMAIN calls : calls[i].rq = calls[i].src

Written(i) == \E k \in DOMAIN wire : wire[k].rq = i
Owed(i) == \E k \in DOMAIN cl.tx : cl.tx[k].rq = i
Pending(i) == \E op \in {cl.ops[k] : k \in DOMAIN cl.ops} \cup ({cl.cur} \ {NoOp}) : op.rq = i

(* An item that reached the server is answered in full, or the connection is *)
(* closed: parts follow each other on TransmitBufferEmpty events, and a      *)
(* response that waits is started when the one before it is done.  Excepted: *)
(* a URL that cannot be decoded, which gets no answer                        *)
(* (HTTPServerClient.cpp:322), refused packets, a request repeated by an     *)
(* oversized header, and frames read before the switch.                      *)
Answered ==
  \A i \in 1..4 :
    (at >= i /\ plan[i].kind # "badurl")
      ~> ((Written(i) /\ ~Owed(i) /\ ~Pending(i)) \/ cl.closed
          \/ seen \cap {"refused", "oversize", "early"} # {})

(* Whatever the pieces a request arrives in, its handler sees the whole of   *)
(* it, and sees it once.                                                     *)
RequestsHandledWhole == TypeOK /\ PartsWhole /\ HandledOnce
=============================================================================
