------------------------------- MODULE LcdSpi -------------------------------
(***************************************************************************)
(* Displays on an SPI bus: the shared bus (core/io/spi/Master.cpp), the    *)
(* transactions of a device (core/io/spi/SPIDevice.cpp) and the display    *)
(* (application/display/LCDSpi.cpp), which sets its data/command and chip  *)
(* select pins in the callbacks of the driver, from arrays indexed by      *)
(* current_transaction.  Each display belongs to a task; all of them share *)
(* the mutex of the master and the array of transactions of send_lines(),  *)
(* a static one.  The display of a callback is the user of its transaction.*)
(***************************************************************************)
EXTENDS Naturals, Sequences, FiniteSets

CONSTANTS
    Displays,
    MaxOps,           \* bound: MaxOps[d] operations on display d, apart from waits
    MaxRefusals,      \* bound: transactions the driver refuses to queue
    NoDisplay

ASSUME LcdConstants ==
    NoDisplay \notin Displays /\ MaxOps \in [Displays -> Nat] /\ MaxRefusals \in Nat
\* The count of users is a byte.
ASSUME FewDisplays == IsFiniteSet(Displays) /\ Cardinality(Displays) < 256

line_transaction_length == 6
Slots == 0..(line_transaction_length - 1)

VARIABLES
    initialized_count, \* Master::spi2_initialized_count
    bus,               \* the driver: "free" or "initialized"
    spiGuard,          \* the display whose task holds Master::guard
    displayLife,       \* displayLife[d]: "new", "ready" or "removed"
    lcdOp,             \* lcdOp[d]: what the task of d is doing
    sends,             \* sends[d]: the commands and data that lcdOp[d] has left
    filled, user,      \* the array of send_lines(): the display that filled it
                       \* last, and the user of each of its transactions
    current_transaction,
    dc, cs_post,       \* dc_pretrans_pin_states, cs_posttrans_pin_states
    queue,             \* queue[d]: transactions the driver has not finished
    flying,            \* flying[d]: NoDisplay, or the first of them is on the bus
                       \* with the bytes of this display
    finished,          \* finished[d]: results that wait to be fetched
    dc_pin, selected,  \* the pins; selected: chip select is low
    crashed,           \* a callback has thrown, or run on a destructed display
    ops,
    impatient,         \* history: an operation began before its display was
                       \* done with the one before
    interleaved,        \* history: lines or a read of one display began before
                       \* the lines of another were sent
    refused            \* history: transactions that were not queued, and that
                       \* others or the end of a read depend on

pinVars == <<current_transaction, dc, cs_post>>
driverVars == <<queue, flying, finished, dc_pin, selected, crashed>>
masterVars == <<initialized_count, bus>>
lineVars == <<filled, user>>
pastVars == <<impatient, interleaved, refused>>
lcdVars == <<masterVars, spiGuard, displayLife, lcdOp, sends, pinVars, lineVars, driverVars, ops,
             pastVars>>

LcdInit ==
    /\ initialized_count = 0 /\ bus = "free" /\ spiGuard = NoDisplay
    /\ displayLife = [d \in Displays |-> "new"]
    /\ lcdOp = [d \in Displays |-> "idle"]
    /\ sends = [d \in Displays |-> <<>>]
    /\ current_transaction = [d \in Displays |-> 0]
    /\ dc = [d \in Displays |-> [s \in Slots |-> "cmd"]]
    /\ cs_post = [d \in Displays |-> [s \in Slots |-> "low"]]
    /\ queue = [d \in Displays |-> <<>>]
    /\ flying = [d \in Displays |-> NoDisplay]
    /\ finished = [d \in Displays |-> 0]
    /\ dc_pin = [d \in Displays |-> "cmd"]
    /\ selected = {}
    /\ crashed = FALSE
    /\ filled = NoDisplay /\ user = [s \in Slots |-> NoDisplay]
    /\ ops = [d \in Displays |-> 0]
    /\ impatient = FALSE /\ interleaved = FALSE /\ refused = 0

Busy(d) == queue[d] # <<>> \/ finished[d] > 0

-----------------------------------------------------------------------------
(* The bus.                                                                *)

\* Master::initialize(), create_device() and init(); if the driver refuses,
\* nothing changes.
Initialize(d) ==
    /\ displayLife[d] = "new" /\ spiGuard = NoDisplay
    /\ bus' = "initialized"
    /\ initialized_count' = (initialized_count + 1) % 256
    /\ displayLife' = [displayLife EXCEPT ![d] = "ready"]
    /\ UNCHANGED <<spiGuard, lcdOp, sends, pinVars, lineVars, driverVars, ops, pastVars>>

\* ~SPIDevice() waits for one result, removes the device, which the driver
\* refuses while there are more, and the task calls Master::deinitialize(),
\* which frees the bus with the last user.
Destruct(d) ==
    /\ displayLife[d] = "ready" /\ lcdOp[d] = "idle" /\ spiGuard = NoDisplay
    /\ finished[d] > 0 \/ queue[d] = <<>>
    /\ displayLife' = [displayLife EXCEPT ![d] = "removed"]
    /\ finished' = [finished EXCEPT ![d] = IF @ > 0 THEN @ - 1 ELSE 0]
    /\ initialized_count' = initialized_count - 1
    /\ bus' = IF initialized_count = 1 THEN "free" ELSE bus
    /\ impatient' = (impatient \/ Busy(d))
    /\ UNCHANGED <<spiGuard, lcdOp, sends, pinVars, lineVars, queue, flying, dc_pin, selected,
                   crashed, ops, interleaved, refused>>

-----------------------------------------------------------------------------
(* The operations of a display.                                            *)

\* What set_madctl() and send_init_cmds() send: commands and their data; the
\* operands of & in set_madctl() are evaluated in either order.
Programs == {<<"cmd", "data">>, <<"data", "cmd">>}

\* prepare_pins_for_cmd_transaction(), prepare_pins_for_data_transaction()
PreparePins(d, kinds, post) ==
    /\ dc' = [dc EXCEPT ![d] = [s \in Slots |-> IF s < Len(kinds) THEN kinds[s + 1] ELSE @[s]]]
    /\ cs_post' = [cs_post EXCEPT ![d] = [s \in Slots |-> IF s < Len(kinds) THEN post[s + 1] ELSE @[s]]]
    /\ current_transaction' = [current_transaction EXCEPT ![d] = 0]

Start(d, kind) ==
    /\ displayLife[d] = "ready" /\ lcdOp[d] = "idle" /\ ops[d] < MaxOps[d]
    /\ ops' = [ops EXCEPT ![d] = @ + 1]
    /\ lcdOp' = [lcdOp EXCEPT ![d] = kind]
    /\ impatient' = (impatient \/ Busy(d))

Send(d) ==
    /\ Start(d, "send")
    /\ sends' \in {[sends EXCEPT ![d] = p] : p \in Programs}
    /\ UNCHANGED <<masterVars, spiGuard, displayLife, pinVars, lineVars, driverVars, interleaved, refused>>

\* send_cmd(), send_data(): the counter and the pins, before the guard.
Prepare(d) ==
    /\ lcdOp[d] = "send"
    /\ PreparePins(d, <<Head(sends[d])>>, <<"high">>)
    /\ lcdOp' = [lcdOp EXCEPT ![d] = "transmit"]
    /\ UNCHANGED <<masterVars, spiGuard, displayLife, sends, lineVars, driverVars, ops, pastVars>>

\* A transaction of the array of send_lines(), or one on the stack.
Stack == line_transaction_length
Transaction(kind, polled, slot) == [kind |-> kind, polled |-> polled, slot |-> slot]

\* polling_write(), and what follows when it has ended or was refused.
Transmit(d) ==
    /\ lcdOp[d] = "transmit" /\ spiGuard = NoDisplay
    /\ spiGuard' = d
    /\ queue' = [queue EXCEPT ![d] = Append(@, Transaction(Head(sends[d]), TRUE, Stack))]
    /\ lcdOp' = [lcdOp EXCEPT ![d] = "polling"]
    /\ UNCHANGED <<masterVars, displayLife, sends, pinVars, lineVars, flying, finished, dc_pin, selected,
                   crashed, ops, pastVars>>

Transmitted(d) ==
    /\ \/ lcdOp[d] = "polling" /\ queue[d] = <<>>
       \/ lcdOp[d] = "transmit" /\ spiGuard = NoDisplay
    /\ spiGuard' = NoDisplay
    /\ sends' = [sends EXCEPT ![d] = Tail(@)]
    /\ lcdOp' = [lcdOp EXCEPT ![d] = IF Len(sends[d]) > 1 THEN "send" ELSE "idle"]
    /\ UNCHANGED <<masterVars, displayLife, pinVars, lineVars, driverVars, ops, pastVars>>

Lines == <<"cmd", "data", "cmd", "data", "cmd", "data">>

\* The lines of another display are still to be sent.
OthersWait(d) == \E e \in Displays : e # d /\ queue[e] # <<>>

\* Mutant of SendLines: current_transaction goes on from where it was.
SendLinesGoesOn(d) ==
    /\ Start(d, "queueing") /\ spiGuard = NoDisplay /\ spiGuard' = d
    /\ dc' = [dc EXCEPT ![d] = [s \in Slots |-> Lines[s + 1]]]
    /\ cs_post' = [cs_post EXCEPT ![d] = [s \in Slots |-> "high"]]
    /\ UNCHANGED current_transaction
    /\ filled' = d /\ user' = [s \in Slots |-> NoDisplay]
    /\ sends' = [sends EXCEPT ![d] = Lines]
    /\ interleaved' = (interleaved \/ OthersWait(d))
    /\ UNCHANGED <<masterVars, displayLife, driverVars, refused>>

\* send_lines(): the six transactions of the array are cleared, whoever filled
\* them before, and the pins prepared ...
SendLines(d) ==
    /\ Start(d, "queueing") /\ spiGuard = NoDisplay /\ spiGuard' = d
    /\ PreparePins(d, Lines, [i \in 1..6 |-> "high"])
    /\ filled' = d /\ user' = [s \in Slots |-> NoDisplay]
    /\ sends' = [sends EXCEPT ![d] = Lines]
    /\ interleaved' = (interleaved \/ OthersWait(d))
    /\ UNCHANGED <<masterVars, displayLife, driverVars, refused>>

\* ... and queue_transaction() for one after the other, which the driver may
\* refuse; the guard is released before they are sent.
QueueLine(d) ==
    /\ lcdOp[d] = "queueing"
    /\ LET left == Len(sends[d])
           slot == line_transaction_length - left IN
       /\ user' = [user EXCEPT ![slot] = d]
       /\ \/ /\ queue' = [queue EXCEPT ![d] = Append(@, Transaction(Head(sends[d]), FALSE, slot))]
             /\ UNCHANGED refused
          \/ /\ refused < MaxRefusals /\ UNCHANGED queue
             /\ refused' = IF left > 1 THEN refused + 1 ELSE refused
       /\ lcdOp' = [lcdOp EXCEPT ![d] = IF left > 1 THEN "queueing" ELSE "idle"]
       /\ spiGuard' = IF left > 1 THEN d ELSE NoDisplay
    /\ sends' = [sends EXCEPT ![d] = Tail(@)]
    /\ UNCHANGED <<masterVars, displayLife, pinVars, filled, flying, finished, dc_pin, selected, crashed,
                   ops, impatient, interleaved>>

\* wait_for_send_lines_to_finish(), and wait_for_transaction_to_finish() in
\* read(): a result, or a timeout when there is none to come.
WaitForLines(d) ==
    /\ displayLife[d] = "ready" /\ lcdOp[d] = "idle" /\ spiGuard = NoDisplay
    /\ lcdOp' = [lcdOp EXCEPT ![d] = "waiting"]
    /\ spiGuard' = d
    /\ UNCHANGED <<masterVars, displayLife, sends, pinVars, lineVars, driverVars, ops, pastVars>>

Fetched(d, n) == IF finished[d] > n THEN finished[d] - n ELSE 0

LinesFinished(d) ==
    /\ lcdOp[d] = "waiting" /\ (finished[d] >= 6 \/ queue[d] = <<>>)
    /\ finished' = [finished EXCEPT ![d] = Fetched(d, 6)]
    /\ lcdOp' = [lcdOp EXCEPT ![d] = "idle"]
    /\ spiGuard' = NoDisplay
    /\ UNCHANGED <<masterVars, displayLife, sends, pinVars, lineVars, queue, flying, dc_pin, selected,
                   crashed, ops, pastVars>>

ReadPair == <<Transaction("cmd", FALSE, Stack), Transaction("data", FALSE, Stack)>>

\* read(), read_params(): the display stays selected between the command and
\* the parameters.  The driver may refuse either of them.
Read(d) ==
    /\ Start(d, "reading") /\ spiGuard = NoDisplay /\ spiGuard' = d
    /\ PreparePins(d, <<"cmd", "data">>, <<"low", "high">>)
    /\ \/ queue' = [queue EXCEPT ![d] = @ \o ReadPair] /\ UNCHANGED refused
       \/ /\ \E t \in {<<>>, <<ReadPair[1]>>, <<ReadPair[2]>>} : queue' = [queue EXCEPT ![d] = @ \o t]
          /\ refused < MaxRefusals /\ refused' = refused + 1
    /\ interleaved' = (interleaved \/ OthersWait(d))
    /\ UNCHANGED <<masterVars, displayLife, sends, lineVars, flying, finished, dc_pin, selected, crashed>>

ReadFinished(d) ==
    /\ lcdOp[d] = "reading" /\ (finished[d] >= 2 \/ queue[d] = <<>>)
    /\ finished' = [finished EXCEPT ![d] = Fetched(d, 2)]
    /\ lcdOp' = [lcdOp EXCEPT ![d] = "idle"]
    /\ spiGuard' = NoDisplay
    /\ UNCHANGED <<masterVars, displayLife, sends, pinVars, lineVars, queue, flying, dc_pin, selected,
                   crashed, ops, pastVars>>

-----------------------------------------------------------------------------
(* The driver and its callbacks, in interrupt context.                     *)

\* pre_transmission_callback(), post_transmission_callback(): the display of a
\* callback, whose bytes the transaction has, and whether the pins are found.
UserOf(d) == LET slot == Head(queue[d]).slot IN IF slot \in Slots THEN user[slot] ELSE d
SenderOf(d) == IF Head(queue[d]).slot \in Slots THEN filled ELSE d
Callable(u) == current_transaction[u] \in Slots /\ displayLife[u] = "ready"

\* pre_transmission_action()
PreTransmission(d) ==
    /\ queue[d] # <<>>
    /\ \A e \in Displays : flying[e] = NoDisplay
    /\ LET u == UserOf(d) IN
       \/ /\ u = NoDisplay
          /\ flying' = [flying EXCEPT ![d] = SenderOf(d)]
          /\ UNCHANGED <<dc_pin, selected, crashed>>
       \/ /\ u # NoDisplay /\ Callable(u)
          /\ flying' = [flying EXCEPT ![d] = SenderOf(d)]
          /\ dc_pin' = [dc_pin EXCEPT ![u] = dc[u][current_transaction[u]]]
          /\ selected' = selected \cup {u}
          /\ UNCHANGED crashed
       \/ /\ u # NoDisplay /\ ~Callable(u)
          /\ crashed' = TRUE /\ UNCHANGED <<flying, dc_pin, selected>>
    /\ UNCHANGED <<masterVars, spiGuard, displayLife, lcdOp, sends, pinVars, lineVars, queue, finished,
                   ops, pastVars>>

\* post_transmission_action()
PostTransmission(d) ==
    /\ flying[d] # NoDisplay
    /\ flying' = [flying EXCEPT ![d] = NoDisplay]
    /\ LET u == UserOf(d) IN
       \/ /\ u = NoDisplay
          /\ UNCHANGED <<selected, current_transaction, crashed>>
       \/ /\ u # NoDisplay /\ Callable(u)
          /\ selected' = IF cs_post[u][current_transaction[u]] = "high" THEN selected \ {u} ELSE selected
          /\ current_transaction' = [current_transaction EXCEPT ![u] = @ + 1]
          /\ UNCHANGED crashed
       \/ /\ u # NoDisplay /\ ~Callable(u)
          /\ crashed' = TRUE /\ UNCHANGED <<selected, current_transaction>>
    /\ finished' = [finished EXCEPT ![d] = IF Head(queue[d]).polled THEN @ ELSE @ + 1]
    /\ queue' = [queue EXCEPT ![d] = Tail(@)]
    /\ UNCHANGED <<masterVars, spiGuard, displayLife, lcdOp, sends, dc, cs_post, lineVars, dc_pin, ops,
                   pastVars>>

Driver(d) == PreTransmission(d) \/ PostTransmission(d)

Task(d) ==
    \/ Prepare(d) \/ Transmit(d) \/ Transmitted(d) \/ QueueLine(d) \/ LinesFinished(d) \/ ReadFinished(d)

\* Nothing runs after an exception in a callback.
LcdNext ==
    /\ ~crashed
    /\ \E d \in Displays :
        \/ Initialize(d) \/ Destruct(d)
        \/ Send(d) \/ SendLines(d) \/ WaitForLines(d) \/ Read(d)
        \/ Task(d) \/ Driver(d)

LcdSpec == LcdInit /\ [][LcdNext]_lcdVars

-----------------------------------------------------------------------------
(* Properties.                                                             *)

\* A transaction is on the bus with its display selected and no other one, with
\* the D/C pin for what it is, and lines with the bytes of their display; no
\* callback has failed.
SentAsMeant ==
    /\ ~crashed
    /\ \A d \in Displays : flying[d] # NoDisplay =>
         flying[d] = d /\ selected = {d} /\ dc_pin[d] = Head(queue[d]).kind

\* What the guard of the master is for: with each task waiting for the lines of
\* its own display, the displays do not disturb each other.
GuardSeparatesDisplays == ~impatient /\ refused = 0 => SentAsMeant

Orderly == ~impatient /\ ~interleaved /\ refused = 0

\* It holds as long as nobody begins lines or a read before the lines of every
\* display are sent; commands and data may be sent in between.
PinsMatchTransaction == Orderly => SentAsMeant

\* Two displays of a bus are never selected together, under the same condition:
\* a read keeps its display selected between two transactions.
OneSelected == Orderly => Cardinality(selected) <= 1

\* A display that is ready has an initialized bus, whoever came first and
\* whoever has gone.
BusOutlivesDisplays == (\E d \in Displays : displayLife[d] = "ready") => bus = "initialized"

\* Displays share the bus and the callbacks of its driver without disturbing
\* each other's transactions, as long as they take turns with lines and reads.
DisplaysShareBus == PinsMatchTransaction /\ OneSelected /\ BusOutlivesDisplays
=============================================================================
