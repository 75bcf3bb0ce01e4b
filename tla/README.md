# A TLA+ verification of Smooth

Smooth is a C++ framework for applications on the ESP32. Its core is a set of
tasks that talk through event queues, publish/subscribe links, timers, sockets
and interrupts; on top of it are an MQTT client, an HTTP server and drivers of
devices. This directory holds TLA+ models of these parts, TLC configurations
that check them on small instances, and TLAPS proofs for every instance.

Paths below are relative to `src/lib/smooth/`; headers are under
`include/smooth/`.

## 1. Inventory

| Part | State | Operations | What is hard |
|---|---|---|---|
| Task loop (`core/Task.cpp`) | notification list, polled queues, elapsed time; `started` | start; wait, promote, forward one event, tick | the tick must survive a flood of events; queues die while they are notified; the hand-over to the worker |
| Event queues (`core/ipc/TaskEventQueue.h`, `Queue.h`, `QueueNotification.cpp`) | bounded items, shared list of notifications | push (two critical sections), clear, forward, destruct | an item without a notification is stranded; notifications of dead queues; order across queues |
| Publish/subscribe (`core/ipc/Link.h`, `SubscribingTaskEventQueue.h`) | static mutex, list of subscribers | subscribe, unsubscribe, publish | destruction during a publish, in whichever thread drops the last reference |
| Interrupt queues (`core/ipc/ISRTaskEventQueue.h`) | FreeRTOS queue, `read_since_poll` | signal, poll, forward, register, unregister | overruns, wake-ups gated by a flag, registration under the mutex of the loop |
| Timers (`core/timer/`) | heap of running timers, condition variable | start, stop, reset, tick of the service | the heap after a removal, a wait that looks at the number of timers only |
| Files (`core/filesystem/`, `core/json/JsonFile.cpp`) | count and limit of open files, the file on the disk | open, save, read, remove, set_limit | lost wake-ups, a thread that waits for a second lock, loss of power in a save |
| Paths (`core/filesystem/Path.cpp`, `filesystem.cpp`) | a string | construct, append, resolve, parent, create_directory | `..`, `.` and doubled separators in any mixture |
| Sockets (`core/network/Socket.h`, `CommonSocket.cpp`, `SocketDispatcher.cpp`) | flags and descriptor per socket, active and inactive sockets, queue of operations | start, stop, send; handlers and tick of the dispatcher | flags shared without a lock, operations in any order, full queue, descriptors handed out again |
| Servers (`ServerSocket.h`, `ClientPool.h`, `ServerClient.h`) | pool of clients, back-off | listen, accept, return a client | a pool without a lock, an empty pool, a network that goes |
| Buffers (`BufferContainer.h`, `Packet*Buffer.h`, `CircularBuffer.h`) | rings, packet in progress | put, get, clear | clear during a packet |
| TLS (`SecureSocket.h`, `MbedTLSContext.cpp`) | context, handshake, decrypted bytes | set-up, handshake, send, receive | partial sends, data that `select()` does not see, a set-up that fails half way |
| Wifi (`core/network/Wifi.cpp`) | mode, interface, address, connected flag | connect, soft AP, events of the driver | events of an old connection, losses during a reconnection |
| MQTT (`application/network/mqtt/`) | state machine, message in flight, subscriptions, messages received | publish, subscribe, connect, the packets of the broker | reconnects in every phase, repeated packets, time-outs, identifiers |
| HTTP, WebSocket (`application/network/http/`) | request phase, queue of responses | assembly of requests and frames, responses, forms, templates | reads cut anywhere, pipelining, limits, upgrades |
| I2C, SPI (`core/io/`, `application/display/`) | guard, driver, timeout, transactions | transfers, callbacks | tasks that share a bus, calls that fail half way |
| Drivers of chips (`application/io/`) | registers, remembered configuration | configure, read, convert | read-modify-write, failed or damaged transfers, restart |
| Wiegand (`application/io/wiegand/`) | bit count, data | interrupts, parse | interrupts during the parse |
| Addresses, SNTP, GPIO, LEDs, hashes, logging, application start | little of their own | calls to the platform | pure I/O |

The parts interact through calls (a timer, a publish and an interrupt push to
event queues, a socket pushes status and data events to the queues of its
container), through shared objects (`shared_ptr` and `weak_ptr` to queues,
containers and sockets) and through the operation queue of the dispatcher.
`PROJECT.json` lists every part with its status, and the hazards.

## 2. Modules

| Modules | Model | Checked in | Proofs |
|---|---|---|---|
| `FSLock`, `Files` | the lock that bounds open files; files on top of it | `MCFiles` | `FilesProofs` |
| `Path` | paths and directories | `MCFiles` | |
| `TaskEventQueue` | event queues and the task loop | `MCTaskEventQueue`, `MCTimerService` | `TaskEventQueueProofs` |
| `Link` | publish/subscribe | `MCTaskEventQueue` | `TaskEventQueueProofs` |
| `ISRTaskEventQueue` | interrupt queues | `MCTimerService` | `ISRTaskEventQueueProofs` |
| `TimerService`, `TaskStart` | timers, the start of a task | `MCTimerService` | |
| `SocketDispatcher` | client sockets and the dispatcher | `SocketDispatcher` | `SocketDispatcherProofs` |
| `PacketStream`, `PacketChannel` | the buffers of a socket; the channel they implement | `MCNetwork` | `SocketProofs` |
| `ServerSocket` | servers and their clients | `MCNetwork` | `SocketProofs` |
| `Wifi` | the Wifi and the status of the network | `MCNetwork` | `WifiProofs` |
| `TlsSocket` | TLS sockets | `MCNetwork` | `SocketProofs` |
| `MqttPublication`, `MqttSubscription`, `MqttClient` | the MQTT client with a broker | `MCMqttClient` | `MqttClientProofs` |
| `MqttPacket`, `MqttProtocol` | MQTT packets as bytes and in a stream | `MCMqttClient` | |
| `HttpServerClient` | one connection of the HTTP and WebSocket server | `MCHttpServerClient` | |
| `HttpContent` | forms, parameters, templates, times | `MCHttpServerClient` | |
| `LcdSpi` | the SPI bus and the displays on it | `MCDevices` | `LcdSpiProofs` |
| `I2CBus`, `Wiegand` | the I2C bus and the reader | `MCDevices` | |
| `AxpPMU`, `PCF8563`, `HumiditySensors`, `ADS1115`, `MCP23017`, `BME280` | drivers of chips | `MCDevices` | |

Each module keeps the names of the source where it can, has one action per
critical section (or per stretch of code between two accesses to what another
thread may change), and separates the state of the code from history variables,
which are marked `history`. Definitions called "Mutant of ..." are wrong
variants that no specification uses; each shows that a property would notice
the mistake. The line numbers of every definition are in `PROJECT.json`, `map`.

`Subsequence` says what a list is from which elements were taken out, or a loop
over a container in ascending order, without recursion: `Link`,
`ISRTaskEventQueue`, `SocketDispatcher` and `MqttClient` use it.

Parts that do not interact share an MC module. Its variable `part` says which
of them a behaviour is about; the variables of the others are in a state in
which they can take no step (`...Rests`), so that their fairness asks for none,
or in their initial state, where no property is about them.

### Tasks and events

`TaskEventQueue`: a push is `Push` (the item goes into `Queue::items`) and then
`Notify` (the queue is appended to the notification list of the task). The task
tests whether the tick is overdue (`OverdueTick`, `NothingOverdue`), waits
(`Take`, `Timeout`), promotes the weak pointer (`Lock`) and forwards one item
(`Forward`). The application releases a queue (`Release`); whoever drops the
last reference runs `Destruct`, which erases the notifications of expired
queues. `clear()` is two steps, `BeginClear` and `Clear`; it leaves the
notifications of the items it throws away, so that `NotificationBound` is stated
for queues that are not cleared.

`Link`: `publish` takes the mutex, visits each wrapper, which promotes the
queue, pushes and drops its reference. Creation, release and `Unsubscribe` of
queues and the task that serves them interleave with it.

`ISRTaskEventQueue`: `Interrupt` and `SendFromISR` are a signal, which drops the
oldest value of a full queue; `Poll` notifies once per `read_since_poll`;
registration and the loop exclude one another by `queue_mutex`.

`TimerService`: the `std::priority_queue` is modelled as what it is, a vector in
heap order with `push_heap` and `pop_heap` (libstdc++: the hole goes down to a
leaf and the last element rises from there), because `remove_timer` erases from
the vector without restoring the order. Time is relative (`left[t]`) and moves
only while the service sleeps.

`TaskStart`: threads call `start()`, which looks at `started` and waits on a
condition variable; the worker sets `started` without the mutex and notifies
with it. Two calls that overlap assign to a running `std::thread`, which ends
the program (`terminated`).

### Files

`FSLock`: a lock is `free`, asleep in the constructor, woken, counted or held.
`Construct` is the first evaluation of the predicate, `Wake` and `SpuriousWake`
the later ones. `raised` remembers that `set_limit` raised the limit over
sleeping threads: `set_limit` does not notify, so that the new slots stay unused
until the next destructor; the properties about wake-ups exclude that case.
`Files` composes it with `File` and `JsonFile`: each thread has a lock for the
file it keeps and one for a static read, a save truncates and then writes, and
the power may be lost in between. `Path` models a string as the sequence of its
segments.

### Sockets and network

`SocketDispatcher`: `At(p)` says where the dispatcher is in its loop or in
`tick()`. Operations wait in `socket_op`, which loses them when it is full
(`lost`). A `stop` is two steps, the flags and the push, for the dispatcher
(`owed`) as for an application (`app`). `net[f]` is the connection behind
descriptor `f`, closed and handed out again. A connection that failed is
writable for `select()` and so is first taken for connected.

`PacketStream`: the two packet buffers over a `CircularBuffer`, with the protocol
of one header byte. Every method is one critical section, so that a `clear()`
comes between any two calls of the dispatcher; `torn` marks what it cut apart.
`PacketChannel` is the abstract specification of the sending side: accepted
packets are written in order, each once, or dropped together.

`TlsSocket` has the set-up of a context step by step (each may fail), handshakes
of client and server in flights, records sent in pieces, and decrypted bytes
that only mbedTLS knows of. `ServerSocket` has the steps of the dispatcher and
of a client's task on `clients` and `in_use`; of the vector, `erase()` is two
steps. A close during `writable()` is one step (`CloseDuringWritable`): the
connection is `revived`, and `kept` once it is closed without its client having
been told. `active_sockets` is ordered by descriptors, of which the model knows
nothing, so that a change of the network stops the sockets in any order. `Wifi`
has the calls of the application, the queue of driver events, the handler of
each and the status that the dispatcher of the sockets believes.

### MQTT and HTTP

`MqttClient`: one thread handles events (`Handle...`) and ticks (`RunTick`);
the application calls at any time; broker and network are external and may lose
a connection with any part of what was under way. `Publication` and
`Subscription` are operators on records, as they are objects without threads. A
plan says what the application calls, what the broker sends and how many faults
there are.

`HttpServerClient`: the dispatcher reads pieces of any size into the assemblers
behind `HTTPProtocol`, the task handles `DataAvailable` and `TransmitBufferEmpty`.
A plan is the list of requests and frames of the peer, which sends each when the
one before has been read. Content is a sequence of positions, so that a byte
that is lost, repeated or shifted shows.

### Devices

`I2CBus` writes an operation as the sequence of the driver calls it has left,
each of which may fail. `LcdSpi` has the transactions of lines, static and
shared by all displays, the queue of the driver, and the callbacks, which find
their display in the transaction and set pins from arrays that the next
operation overwrites. `Wiegand` has each
access to `bit_count`, `data` and `last_data` as a step. The chips share the
variables `chip`, `object`, `task` and `log`: the registers, what the driver
remembers, the calls in progress, and the history.

## 3. What is checked

A property that says several things about one matter is a conjunction of named
parts, defined beside them in the module of the component.

| Run | Shows | Bounds |
|---|---|---|
| `files` | `OpenWithinLimit`, `NoLostWakeup`: the limit holds for every opening and no freed slot stays unused; `SavedIsThere`: between saves the file holds what was saved last; `ReadsReturn`: a read waits only behind files that are held; `PathsAgree`: `resolve()` leaves the path that is meant, `parent()` undoes `append()`, `create_directory()` makes what it reports | 2 threads with 2 locks each, limits 1 to 3, 2 saves, 3 reads, 1 loss of power; paths of up to 4 segments out of ``"", ".", "..", "a", "b.c"`` |
| `ipc` | `NoStrandedEvent`: every item of a living queue has a wake-up under way; `NotificationBound`; `TickKeptAlive`: at most one event is served after the tick is due; `NoDanglingSubscriber`: no wrapper of a dead queue is called; `OnePublicationOrder`; `SendOrder`: events of a sender that shares its queues with nobody arrive in the order they were sent, across queues | 2 producers with 3 items each, symmetry of producers; queues of sizes 2 and 1, one cleared, both released; 2 publishers with 2 publications |
| `events` | `EventuallyServed`: every accepted event is served, cleared or destructed with its queue; `OneWakeUp`, `InterruptsArrive`: the newest value of an interrupt is delivered and values keep their order; `TimersKept`: timers are held, fire, are late only after a removal, and a late one never moves away from the top of the heap (`LateTimersAdvance`); `StartHandsOver` | 1 sender with 4 items; 3 signals to queues of sizes 2 and 1; 3 timers (the fewest whose heap a removal can disorder), 1 repeating, intervals 1 and 2; 2 threads that start twice, 2 spurious wake-ups |
| `socket_safety` | `RegistryAgrees`: the map of active sockets agrees with sockets and descriptors; `NoLeakedDescriptor` | 2 sockets, 1 descriptor that both want, queue of 2 operations, 2 waiting starts; symmetry of sockets |
| `socket_liveness` | `LostConnectionCloses`; `OnlyRaceMisleads`: only the race of `socket_race` misleads the application | 1 socket, 2 descriptors, queue of 3, buffers that may be released |
| `mqtt` | `PublicationsKept`: quality 2 never twice and nothing lost without a reason, until identifiers begin anew, and always in order; `SessionKept`: client and broker agree on the subscriptions, an incoming message is offered to the application, one of quality 2 once, everything is sent and answered in the end, and a subscription survives reconnections; `PacketsReadBack`: packets are cut out of the stream and read as written | plans of 2 messages or 1 topic with 2 incoming messages, 1 or 2 faults, clean and kept sessions; buffers of 2; 64 streams of 2 packets and 2 of smaller ones in pieces of any size, lengths around every power of 128 |
| `http` | `RequestsHandledWhole`: a handler sees the whole of a request, once; `RepliesInOrder`; `EveryRequestEnds`; `ContentReadBack`: forms, encoded text, pairs and times come out as they went in | headers of at most 4, chunks of 2 bytes, transmit buffer of 2, 2 responses, 10 plans: bodies below, at and above a chunk, limits hit, frames of all three length forms |
| `network` | `StreamIsChannel`: `PacketStream` implements `PacketChannel`; `PacketsIntact`; `OnlyVerifiedPeers`, `TlsDelivers`; `ClientsConserved`, `ServerServes`; `StatusFollowsLink`, `Reconnects` | rings of 2, packets of 1 to 3 bytes, 1 clear; 2 packets out, records of 3 and 5 bytes in; 2 clients for 3 peers, backlog 2, 3 operations, 2 troubles; 3 calls and 2 troubles of the Wifi, status queue of 2 |
| `devices` | `CardsRead`; `BusIsShared`: a task reads its register, timeout and driver survive failures, operations return; `DisplaysShareBus`: pins match the transaction, as long as nobody uses the shared lines before they are sent; `SettingsAsAsked`; `ReadingsTrue` | every single bit of cards of 26 and 34 bits damaged, short frames, keys; 2 tasks or displays with up to 3 calls, up to 2 faults, 1 refused transaction (`MaxRefusals`); damaged readings of 24 bits: up to 3 flipped bits, and every burst of up to 8 |
| `link_self_deadlock`, `socket_race`, `display_lines` | the findings below | as in the runs above |

Bounds are CONSTANTS or members of plans. They are chosen so that queues, rings,
pools and buffers run full and empty, faults may strike at any step that can
fail, and two actors overlap. Exceptions in the properties are histories of what
happened (`raised`, `torn`, `raced`, `seen`, `missed`, `overlapped`, ...), each
with the line of the code that makes it necessary; the notes of the hazards in
`PROJECT.json` say which hazards a property shows to be the only way to go wrong,
and not to be handled.

`CHECK_DEADLOCK FALSE` stands where a model really may come to a stop: plans and
bounded calls end, and in `Link` and `ISRTaskEventQueue` a thread may be stuck
in the way described below.

### Fairness

Only what the scheduler gives: a thread that can go on does (weak fairness of
tasks, of the dispatcher, of a push, publish or destructor that has begun, of a
call in progress, of the peer that reads). Nothing is assumed of applications: a
file may stay open, a queue may live, for ever. Strong fairness is used in three
modules. In `TimerService` the clock and a wait that is over (`ClockTick`,
`Timeout`): time passes however often timers are restarted. In `MqttClient`
the tick (`RunTick`), which `TickKeptAlive` and `EventuallyServed` show of
the loop. In `SocketDispatcher` the loop serves both the queue and `tick()`
(`HandleOp`, `BeginTick`), `select()`, which may fail (`SelectFails`), works
now and then (`Select`), and a lost connection is read in the end (`ReadFails`):
the application takes packets out of its receive buffer now and then.

### Findings

* `Link.h:28` promises thread safety; a publisher that drops the last reference
  to a queue deadlocks on the mutex that it holds (`NoSelfDeadlock`).
* `ISocket.h:55` says that stop disconnects; a stop between the two tests of
  `writable` leaves the socket connected, and reported so after it is closed
  (`ClosedIsDisconnected`).
* `SPIDevice.h:37` says that the guard synchronizes the transmissions of the
  devices on a bus; `send_lines` fills transactions that are static, one set for
  all displays (`LCDSpi.cpp:253`), and releases the guard while they are queued,
  so that lines of a second display change those of the first and run their
  callbacks on the wrong display (`GuardSeparatesDisplays`).

Statements that TLC refutes and that have no run of their own: with two senders
to one queue a notification may be answered with the other's item, so that the
order promised at `Task.cpp:184` is lost (`SendOrder` without `Alone`); after a removal the
top of the heap need not be the next timer to expire (`TopExpiresFirst`,
`TimerService.cpp:34` against `TimerService.h:60`), so that a timer may be late by
more than the longest interval once there are five or more; `publish` returns false
however the pushes go (`PublishResult`, `Link.h:56`); a polled queue that
expires before it is unregistered makes `shared_from_this` throw in the loop
(`TaskNotTerminated`), and a handler that drops a polled queue locks
`queue_mutex` again (`TaskNotStuck`).

What was noticed while modelling, and is part of the models or of the exceptions
in their properties:

* Files: `File::write` truncates first (`File.cpp:80`) and does not look at the
  result (84); limits of several file systems override each other. A relative
  path of one name with a dot in it loses its first character
  (`Path.cpp:161`), a trailing `.` is kept, `Path("/")/"a"` is `//a`, and
  `create_directory` does not make the first component of a relative path.
* Tasks: two overlapping `start()` calls end the program (`Task.cpp:103`); an
  attached task keeps `start_mutex` for ever.
* MQTT: `start()` fails without a word when the address does not resolve
  (`MqttClient.cpp:241`); a CONNECT left in the buffer goes out on the next
  connection; `receiving` keeps identifiers of an old session
  (`Subscription.cpp:175`); a repeated subscription keeps the old quality;
  `disconnect()` with automatic reconnection connects again; identifiers wrap to
  0; a message is acknowledged and then lost when the queue of the application is
  full or gone, which is not looked at (`Subscription.cpp:251`); a fifth length byte is never an error; PUBACK and PUBCOMP carry flags 2.
* HTTP: a first part of exactly one chunk makes the second one "first" again
  (`RegularHTTPProtocol.cpp:126`); the result of `put` is ignored
  (`HTTPServerClient.cpp:66`), so that a full buffer loses a part of a response;
  the rest of an oversized header is parsed as a request; an undecodable URL
  gets no answer; a frame before the switch of the protocol is lost; later parts
  of a large websocket response have no opcode; a boundary cut by the end of a
  read is content (`MIMEParser.cpp:174`); an encoded plus sign becomes a space
  (`URLEncoding.cpp:92`); templates whose values lead back to their own token
  never end.
* Network: a `clear()` in the middle of a packet tears it; a partial send of a
  record is reported as whole (`SecureSocket.h:59`); both time-outs of a
  handshake are restarted by every `writable()`; the unlocked pool can lose a
  client (`ClientPool.h:81`); a client that is closed during `writable()` of its
  socket, the race of `socket_race`, is told that it is connected and never goes
  back to the pool (`ServerClient.h:73`), so that a server whose clients have all
  met it serves nobody any more; the Wifi publishes its status before it stores the
  address (`Wifi.cpp:203`), and `set_auto_connect(true)` after a loss does not
  reconnect.
* Devices: the halves of a Wiegand number are put over each other
  (`Wiegand.cpp:89`, `108`) although the comment at 76 has 12 upper and 12 lower
  bits, so that a number is right only when its upper half is 0, and frames of 8
  bits, which are keys by the comment at 65, are never delivered (69);
  transactions that the SPI driver refuses are not noticed but for the last one;
  the order of the operands of `|` and `&` in `I2CMasterDevice::write` and
  `AxpPMU` is not specified by C++; AXP writes back what a failed read left, and
  its getters of GPIO1 to GPIO3 read the register of GPIO0
  (`AxpPMU.cpp:225`, `231`, `237`); the enable bits of the PCF8563 alarm are read
  back inverted and months are numbered from 0; `ADS1115::trigger_single_read`
  passes the low threshold twice (151); the last four bits of a BME280 reading
  are masked away, H1 is taken from 0xA0 over SPI where the comment has 0xA1
  (`BME280SPI.cpp:223`), and the bytes of a measurement are copied from a member
  after the guard was released (`BME280SPI.cpp:248`).

## 4. What is proved

Every theorem is of the specification that the runs check, for every value of
the constants that satisfies the assumptions below. Each safety theorem rests on
an inductive invariant, named here, and its proof has a lemma or a step per
action.

| Module | Theorem | States |
|---|---|---|
| `TaskEventQueueProofs` | `TypeCorrect` | `Spec => []TypeOK` |
| | `EventsNotStranded` | `Spec => []NoStrandedEvent` |
| | `NotificationsBounded` | `Spec => []NotificationBound` |
| | `UsedQueuesLive` | `Spec => []UsedQueueLives` |
| | `TickNotStarved` | `Spec => []TickKeptAlive` |
| | `SentInOrder` | `Spec => []SendOrder` |
| | `SubscribersLive` | `LinkSpec => [](LinkTypeOK /\ NoDanglingSubscriber)` |
| | `PublicationsOrdered` | `LinkSpec => []OnePublicationOrder` |
| `ISRTaskEventQueueProofs` | `OneWakeUpEach` | `IsrSpec => []OneWakeUp` |
| | `NewestKeptInOrder` | `IsrSpec => [](IsrTypeOK /\ NewestValueKept /\ InterruptOrder)` |
| `FilesProofs` | `CountCorrect` | `Spec => [](TypeOK /\ CountIsOpenLocks)` |
| | `LimitRespected` | `Spec => OpenWithinLimit` |
| | `WakeupsNotLost` | `Spec => []NoLostWakeup` |
| | `FilesCounted` | `FilesSpec => [](TypeOK /\ CountIsOpenLocks /\ NoLostWakeup)` |
| | `FilesWithinLimit` | `FilesSpec => OpenWithinLimit` |
| | `SavedFileIsThere` | `FilesSpec => []SavedIsThere` |
| `SocketDispatcherProofs` | `RegistryCorrect` | `Spec => [](TypeOK /\ RegistryAgrees)` |
| | `DescriptorsNotLeaked` | `Spec => []NoLeakedDescriptor` |
| | `RaceAloneMisleads` | `Spec => []OnlyRaceMisleads` |
| `SocketProofs` | `SocketIsChannel` | `Spec => StreamIsChannel`, a refinement |
| | `PacketsHaveEvents` | `Spec => []PacketsAnnounced` |
| | `OnlyVerifiedPeersHolds` | `TlsSpec => []OnlyVerifiedPeers` |
| | `TlsRecordsWhole` | `TlsSpec => [](RecordsFinished /\ RecordsIntact /\ NothingLeftInside)` |
| | `ServerConserves` | `ServerSpec => []ClientsConserved` |
| `WifiProofs` | `StatusTrue` | `WifiSpec => []StatusFollowsLink` |
| `LcdSpiProofs` | `BusIsSharedByDisplays` | `LcdSpec => []DisplaysShareBus` |
| `MqttClientProofs` | `PublicationsAreKept` | `Spec => []PublicationsKept` |

### Arguments

*Event queues.* `IInv` counts (`QueueInv`): a living queue has at least as many
wake-ups (notifications, pushes about to notify, the task's own hold) as items,
and, if it is never cleared, not more either; even the notifications and pushes
that outlive a queue are covered by the items in it. The bound on the
notifications follows from the last and from the size in `TypeOK`. The stated
properties are not inductive alone: `Forward` uses up a wake-up and an item
together, which needs that the queue being served lives (`UsedQueueLives`,
`ServingQueue`), and `Destruct` removes notifications from the middle of the
list, which must touch none of a living queue. The lemmas `AppendCount`,
`TailCount` and `CompactCount` say how the number of positions of a queue in the
list changes when the list is appended to, loses its head, or is compacted.
`TickNotStarved` needs `LateInv`, which says where the loop is when one event
has been served late.

`SentInOrder` is about each sender `P` that has its queues to itself (`Alone`; the
history variables `senders` and `cleared` record who pushed where and which queues
lost items to `clear()`). It puts the wake-ups in a row (`Slot`): the one the task
works on, the notifications of all senders, the one `P` is about to make. Its
invariant `OrderInv` says that there is a number `h[i]` for each wake-up `i` of a
living queue of `P` such that the numbers grow along the row, are those of the items
in `P`'s living queues, and are larger than everything of `P` that was delivered
(`Matched`), and that each queue of `P` and its part of the history are in the order
of the numbers (`Numbered`). The first of `P`'s wake-ups then stands for the first
item of its queue and for `P`'s oldest item, which is the one `Forward` pops. A push
of `P` adds a number at the end of the row; the other steps move wake-ups without
changing the order of `P`'s (`Reindex`): `remove_expired_queues()` takes out only
those of queues that nobody can reach, and the pushes, notifications and clears of
others touch other queues, which `Traced` shows (items and wake-ups stem from
`senders`). `Alone` is needed: a second sender between its push and its notification,
or a `clear()` that leaves notifications behind, lets a wake-up find another item
than its own.

*Publish/subscribe.* Whoever is inside `publish()` holds the mutex (`Held`), so
there is at most one such publisher and the list does not change under it. No
queue is listed twice (`Once`), and neither the list nor what a publisher has
still to visit holds a queue that is gone (`Living`): unsubscribing takes it out
of the list and needs the mutex. That is `LinkInv`. The order of publications
needs `PublicationInv` besides: nothing was received that was not published (`Fresh`);
the publication under way is the last one wherever it has arrived
(`CurrentLast`), and has not arrived at the queues still to be visited
(`NotYet`). So it can be appended to the next queue without coming before
anything that another queue has after it.

*Interrupt queues.* About a living queue the loop is in one of three situations:
it has been read since the poll and there is no wake-up, one waits in the list,
or one is being served (`WakeUp`); `Poll` makes the wake-up, `Forward` uses it
up. A queue is polled at one place (`PolledOnce`), otherwise `Poll` would make
two, and where the loop serves, there is a queue that it serves (`Busy`).
`ValueInv` puts what was delivered, what waits and what is being signalled in
rising order (`Rising`) and says where the newest value is (`Newest`).

*Files.* `CountInv` counts the objects past their wait. `NoLostWakeup` is
inductive with it: a destructor that frees a slot wakes a thread, a woken one
that finds the slot taken leaves the count at the limit, and one that gets
through notifies the next. For `FilesSpec` every step is shown to be a step of
the lock, to leave it alone, or to be a restart, which sets it back
(`FilesUseTheLock`).

*Sockets.* `DispatcherInv` ties the flags, the descriptors, the map and the queue
together: an entry of the map is a socket under its own descriptor, two sockets
never share one, and a descriptor that is open and not registered is owed a
Stop, in the queue, in `owed` or in the hand of the application, unless an
operation was lost. A socket is connected only while it is active, but for the
race that `socket_race` shows (`ConnectedActive`), from which
`OnlyRaceMisleads` follows. The stale entry that `std::map::insert` would keep is
excluded because `shutdown_socket()` removes a socket from the map before its
descriptor is free.

*Packets.* The ring lemmas (`PutAppends`, `GetTakes`, `ClearEmpties`) say what
the positions modulo the size do to the sequence of the items in the ring. With
them each step of the sending side is a step of `PacketChannel` or leaves the
channel as it was, under the refinement mapping of `PacketStream`: the queue of
the channel is the packet being sent followed by the items of the ring. The
invariant `SendInv` says that the ring is one, and that what is in it, in
progress or still to be sent are packets. `ReceiveInv` says the same of the
receiving side, and that each complete packet has its event unless a `clear()`
came between the two (`EventsInv`).

*Servers.* A client that is free, or on its way in either direction, serves
nobody (`Exclusive`), and it comes back once, because it is told of a disconnect
only while it is still the client of that closed connection (`ToldOnce`). Neither
needs `in_use`: the race in it may lose a client but never gives it to two
connections. Until the race, `Counted` says that a client is in one place and
that the place which `erase()` frees is the last one.

*Wifi.* The state that the application and the sockets see lags behind that of
the link by the events that wait. `Tells` and `Informs` say that handling the
waiting events would make up for the difference; a step of the link appends an
event (`Posting`), the handler takes one (`Handling`), and neither changes the
result. The stated property is the case of an empty queue.

*TLS.* `TlsSafe` follows the handshake: a flight arrives only when it is expected
(`Arrivals`), the last step of a handshake is refused unless mbedTLS accepts the
configuration that `init_client()` or `init_server()` left behind (`Verified`),
and nothing is sent, received or handed out for the application before the
handshake is complete (`HandshakeFirst`). `AcceptedMeansVerified` then looks at
every step of a set-up that may fail, and finds that an accepted configuration
has verified the peer. `TlsRecords` numbers the bytes on the wire: as long as no
`send()` took a part of a record, they are the records of the flights so far and
of the packets no longer to be sent, each once, and their number is a multiple
of the length of a record. Whatever parts were taken, `Chain` says that a byte
follows the one before it in the same record or begins the record anew behind a
part of itself, that an unfinished record at the end is the one being sent
(`Pending`), and that a finished one is never sent again; `RecordsFinished`
follows. `LoopsBusy` is what `NothingLeftInside` needs: only
inside `read_data()` is there anything decrypted.

*Displays.* The callbacks index the arrays of pins with `current_transaction`,
which for every display is in line with the transactions that wait (`Aligned`):
`PreparePins` writes the arrays anew only when there are none (`Program`), and
while lines are queued one by one, those still to come have their pins too
(`Queueing`). A transaction out of the static array belongs to the display that
filled it last, and its `user` is that display (`Owned`). A
display is selected while its transaction is on the bus, or between the two of a
read (`Chosen`); during a read nobody else has a transaction to send
(`ReadAlone`), because who polls, queues, waits or reads holds the guard
(`Guarded`). All this holds until a task stops waiting for its lines
(`impatient`), lines or a read begin before the lines of every display are sent
(`interleaved`, the finding above) or a transaction is refused (`refused`):
`Orderly`. That the bus is counted and outlives its displays holds always
(`BusCounted`).

*MQTT.* The actions do eight things to publications (`EffectStep`):
nothing (`Idles`), accept a message (`Adds`), drop the first of the queue
(`Pops`), send again or release the first (`Repeats`, `Releases`), send it
(`Sends`), deliver a PUBLISH to the broker (`Delivers`) or the PUBREL that makes it
forget the identifier (`Ends`). The invariants are shown per effect, not per action.
`QueueInv` says that the queue is the end of what was accepted, `Base` being the
number of messages that have left it, and that only its first message is in
progress. `AccountInv` says of each message that left what became of it. `IdInv`
says that an identifier stands for one message, wherever it occurs (`Sound`,
`Known`), until `PacketIdentifierFactory` begins anew (`wrapped`). The order
needs the *line*: what the broker has taken followed by the PUBLISH packets in
the send buffer. Each element of it has a place among the accepted messages, and
places never go down along it (`LineInv`: `Placed`, `Upward`). With a clean
session they go up strictly, and a message that may still be sent is behind them
all (`Strictly`, `ReservedBehind`). With a kept session a place may occur again,
but then with an identifier which the broker knows and does not hand on (`Once`);
the broker forgets it only with a PUBREL, behind which nothing of that message is
in the buffer (`ReleaseLast`). So the messages of quality 2 that were handed on
map one to one into the accepted ones, in order.

### Assumptions

They are the named ASSUMEs of the modules, which TLC evaluates in every run whose
module extends them: finite sets; sizes and bounds that are natural
numbers, positive where the code has a queue of at least one place; limits that
are positive; descriptors that are natural numbers; model values that differ
(nobody is no client); the clients of a pool that are different objects; packets
of at least one byte; a handshake of at least one flight, and records of at
least one byte (`TlsSizes`, `TlsMessages`); fewer than 256 displays
(`FewDisplays`), since `Master::initialized_count` is a `uint8_t`
(`Master.h:104`); of MQTT, at least two packet identifiers, where the code has
2^16, a quality of service from 0 to 2 for each message, and plans that are lists
of calls (`MqttAssumption`). `Wifi` assumes nothing.

### Only model-checked

Liveness, in the properties that have a temporal part (`ReadsReturn`,
`EventuallyServed`, `LostConnectionCloses`, `Reconnects`, `ServerServes`,
`StartHandsOver`, the ends of `InterruptsArrive`, `PacketsIntact`,
`SessionKept`, `TlsDelivers` and others): out of the prover's reach. Of
`SessionKept` the safety parts (`ActiveAgrees`, `OnlyStaleIdsSwallow`, `PostedOnce`)
have not been proved either. What a
recursive definition or a fold computes, which would need induction over data:
the heap of `TimerService`, `Path`, the conversions of `MqttPacket`,
`MqttProtocol`, `HttpContent` and of the drivers of chips, the bytes on the wire
in `PacketsIntact`, `Wiegand`. `RepliesInOrder` and `RequestsHandledWhole` are
stated with folds over the packets and calls of a connection, and `PathsAgree`,
`PacketsReadBack`, `ContentReadBack`, `SettingsAsAsked` and `ReadingsTrue` are about
what conversions compute: the same holds for them.

## 5. Not modelled, and the plan

Not modelled: what `PROJECT.json` lists as `not_modelled`, with the reason:
the start of an application (a sequence of calls), resolver and SNTP, GPIO,
hashes and passwords (libraries), logging and statistics, and the mocks of
ESP-IDF, which stand in for the platform on Linux. Of the modelled parts: torn
or stale reads of plain `bool`s and of `timer_interval` that are shared without
a lock (each access is atomic and in order); the delivery of a timer event that
was queued when its timer was stopped; handlers of applications;
`reply_error()`, which the dispatcher calls on the responses of the task
(`RegularHTTPProtocol.cpp:93`), is taken to run between the steps of the task;
a packet that cannot be assembled (`Socket.h:361`), which stops the socket, is a
failed read of `SocketDispatcher` and no step of `PacketStream`, whose protocol
knows no such packet;
a second `connect_to_ap()` of a connected station; mounting of file systems;
the compensation formulas of the BME280 (32 and 64 bit arithmetic beyond TLC's
integers); texts of headers, logs and displays.

To be proved next: `RepliesInOrder` and `RequestsHandledWhole` of
`HttpServerClient`, once restated without folds (the parser keeping the position in
the plan that it has reached).

## 6. Running

    tlc -workers 2 -config Ipc.cfg MCTaskEventQueue
    tlapm TaskEventQueueProofs.tla

and likewise for the other rows of `runs` in `PROJECT.json`. Runs with
`expect` "violation" end with the counterexample that the finding describes.
