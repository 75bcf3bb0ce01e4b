------------------------- MODULE ISRTaskEventQueue -------------------------
(***************************************************************************)
(* Queues that are filled by an interrupt handler and polled by the task   *)
(* (core/ipc/ISRTaskEventQueue.h), with the part of Task::exec() that      *)
(* polls and serves them under queue_mutex and the registration of polled  *)
(* queues under the same mutex (core/Task.cpp).                            *)
(*                                                                         *)
(* queue_mutex is held by the task from the poll to the end of forward or  *)
(* tick(), that is, whenever at is not "top"; a thread that creates or     *)
(* destructs a polled queue has to meet the task at "top".                 *)
(***************************************************************************)
EXTENDS Integers, Sequences, FiniteSets, Subsequence

CONSTANTS
    Queues,         \* the ISRTaskEventQueues of one task
    Size,           \* Size[q]: the template parameter Size of q
    MaxSignal,      \* bound: number of signals to each queue
    NoQueue,
    NoValue

\* FreeRTOS makes no queue without room for an item (configASSERT of
\* xQueueCreate()).
ASSUME IsrAssumption ==
    /\ Size \in [Queues -> Nat \ {0}]
    /\ MaxSignal \in Nat
    /\ NoQueue \notin Queues
    /\ NoValue \notin Nat

VARIABLES
    items,              \* items[q]: the FreeRTOS queue
    signalled,          \* signalled[q]: number of calls of signal()
    signalling,         \* signalling[q]: the value signal() is about to send
    read_since_poll,    \* ISRTaskEventQueue::read_since_poll
    polled,             \* Task::polled_queues
    notifications,      \* QueueNotification::queues
    life,               \* life[q]: the state of the queue object
    at,                 \* where the task is in Task::exec()
    current,            \* the queue of the notification the task works on
    delivered           \* history: delivered[q]: the values passed to event()

isrVars == <<signalled, signalling>>
taskVars == <<read_since_poll, notifications, at, current, delivered>>
isrTaskVars == <<items, isrVars, polled, life, taskVars>>

\* "new": not created; "registered": the constructor has run, no shared_ptr
\* exists yet; then as in TaskEventQueue.
Lives == {"new", "registered", "owned", "released", "expired", "gone"}

\* "top": outside the critical section; "wait": polled, in
\* wait_for_notification(); "lock": about to promote the weak pointer;
\* "forward": holds the queue; "stuck": the task waits for the mutex it holds;
\* "terminated": std::bad_weak_ptr has left Task::exec().
IsrPlaces == {"top", "wait", "lock", "forward", "stuck", "terminated"}

IsrInit ==
    /\ items = [q \in Queues |-> <<>>]
    /\ signalled = [q \in Queues |-> 0]
    /\ signalling = [q \in Queues |-> NoValue]
    /\ read_since_poll = [q \in Queues |-> TRUE]
    /\ polled = <<>>
    /\ notifications = <<>>
    /\ life = [q \in Queues |-> "new"]
    /\ at = "top"
    /\ current = NoQueue
    /\ delivered = [q \in Queues |-> <<>>]

Expired(q) == life[q] \in {"expired", "gone"}

-----------------------------------------------------------------------------
(* The interrupt handler.                                                  *)

\* InterruptInput::update() promotes its weak_ptr and calls signal().
Interrupt(q) ==
    /\ life[q] = "owned"
    /\ signalling[q] = NoValue
    /\ signalled[q] < MaxSignal
    /\ signalled' = [signalled EXCEPT ![q] = @ + 1]
    /\ signalling' = [signalling EXCEPT ![q] = signalled[q] + 1]
    /\ UNCHANGED <<items, polled, life, taskVars>>

\* Mutant of SendFromISR: a value that does not fit is dropped.
SendOrDrop(q) ==
    /\ signalling[q] # NoValue
    /\ items' = IF Len(items[q]) < Size[q]
                THEN [items EXCEPT ![q] = Append(@, signalling[q])] ELSE items
    /\ signalling' = [signalling EXCEPT ![q] = NoValue]
    /\ life' = IF life[q] = "released" /\ ~(at = "forward" /\ current = q)
               THEN [life EXCEPT ![q] = "expired"] ELSE life
    /\ UNCHANGED <<signalled, polled, taskVars>>

\* One turn of the loop in signal(): a full queue loses its oldest value,
\* otherwise the new value goes in and signal() is over.
SendFromISR(q) ==
    /\ signalling[q] # NoValue
    /\ IF Len(items[q]) < Size[q]
       THEN /\ items' = [items EXCEPT ![q] = Append(@, signalling[q])]
            /\ signalling' = [signalling EXCEPT ![q] = NoValue]
            /\ life' = IF life[q] = "released" /\ ~(at = "forward" /\ current = q)
                       THEN [life EXCEPT ![q] = "expired"] ELSE life
       ELSE /\ items' = [items EXCEPT ![q] = Tail(@)]
            /\ UNCHANGED <<signalling, life>>
    /\ UNCHANGED <<signalled, polled, taskVars>>

-----------------------------------------------------------------------------
(* The application's threads other than the task.                          *)

\* The constructor: register_polled_queue_with_task().
Register(q) ==
    /\ life[q] = "new"
    /\ at = "top"
    /\ polled' = Append(polled, q)
    /\ life' = [life EXCEPT ![q] = "registered"]
    /\ UNCHANGED <<items, isrVars, taskVars>>

\* create() returns the shared_ptr.
Created(q) ==
    /\ life[q] = "registered"
    /\ life' = [life EXCEPT ![q] = "owned"]
    /\ UNCHANGED <<items, isrVars, polled, taskVars>>

\* The application drops its shared_ptr.
Release(q) ==
    /\ life[q] = "owned"
    /\ life' = [life EXCEPT ![q] =
                    IF signalling[q] # NoValue \/ (at = "forward" /\ current = q)
                    THEN "released" ELSE "expired"]
    /\ UNCHANGED <<items, isrVars, polled, taskVars>>

\* ~ISRTaskEventQueue(): unregister_polled_queue_with_task().
Unregister(q) ==
    /\ life[q] = "expired"
    /\ at = "top"
    /\ polled' \in Without(polled, q)
    /\ life' = [life EXCEPT ![q] = "gone"]
    /\ UNCHANGED <<items, isrVars, taskVars>>

-----------------------------------------------------------------------------
(* The task.                                                               *)

Ready(q) == read_since_poll[q] /\ items[q] # <<>>

\* The polled queues that are ready, in the order of their registration.
ReadyQueues == Kept(polled, {i \in 1..Len(polled) : Ready(polled[i])})

\* Mutant of Poll: read_since_poll is not cleared.
PollAgain ==
    /\ at = "top"
    /\ IF \E i \in 1..Len(polled) : Ready(polled[i]) /\ Expired(polled[i])
       THEN /\ at' = "terminated"
            /\ UNCHANGED <<read_since_poll, notifications>>
       ELSE /\ at' = "wait"
            /\ notifications' \in {notifications \o ready : ready \in ReadyQueues}
            /\ UNCHANGED read_since_poll
    /\ UNCHANGED <<items, isrVars, polled, life, current, delivered>>

\* Task::exec() locks queue_mutex and polls the queues in the order of their
\* registration.  poll() calls shared_from_this(), which throws for a queue
\* that has expired and could not unregister itself yet.
Poll ==
    /\ at = "top"
    /\ IF \E i \in 1..Len(polled) : Ready(polled[i]) /\ Expired(polled[i])
       THEN /\ at' = "terminated"
            /\ UNCHANGED <<read_since_poll, notifications>>
       ELSE /\ at' = "wait"
            /\ notifications' \in {notifications \o ready : ready \in ReadyQueues}
            /\ read_since_poll' = [q \in Queues |->
                    read_since_poll[q] /\ ~(items[q] # <<>> /\ \E i \in 1..Len(polled) : polled[i] = q)]
    /\ UNCHANGED <<items, isrVars, polled, life, current, delivered>>

\* Timeout and tick(): nothing was ready.
PollTimeout ==
    /\ at = "wait"
    /\ notifications = <<>>
    /\ at' = "top"
    /\ UNCHANGED <<items, isrVars, polled, life, read_since_poll, notifications, current,
                   delivered>>

Take ==
    /\ at = "wait"
    /\ notifications # <<>>
    /\ current' = Head(notifications)
    /\ notifications' = Tail(notifications)
    /\ at' = "lock"
    /\ UNCHANGED <<items, isrVars, polled, life, read_since_poll, delivered>>

Lock ==
    /\ at = "lock"
    /\ IF Expired(current)
       THEN at' = "top" /\ current' = NoQueue
       ELSE at' = "forward" /\ UNCHANGED current
    /\ UNCHANGED <<items, isrVars, polled, life, read_since_poll, notifications, delivered>>

\* forward_to_event_listener() and the end of the block: the shared_ptr goes
\* before queue_mutex does.  If it is the last one, the destructor runs here
\* and unregisters under queue_mutex.  xQueueReceive() may find the queue empty
\* while signal() has dropped a value and not yet sent the new one.
Forward ==
    /\ at = "forward"
    /\ IF items[current] = <<>>
       THEN UNCHANGED <<items, delivered>>
       ELSE /\ items' = [items EXCEPT ![current] = Tail(@)]
            /\ delivered' = [delivered EXCEPT ![current] = Append(@, Head(items[current]))]
    /\ read_since_poll' = [read_since_poll EXCEPT ![current] = TRUE]
    /\ IF life[current] = "released" /\ signalling[current] = NoValue
       THEN life' = [life EXCEPT ![current] = "expired"] /\ at' = "stuck" /\ UNCHANGED current
       ELSE at' = "top" /\ current' = NoQueue /\ UNCHANGED life
    /\ UNCHANGED <<isrVars, polled, notifications>>

TaskStep == Poll \/ PollTimeout \/ Take \/ Lock \/ Forward

IsrNext ==
    \/ \E q \in Queues :
        \/ Interrupt(q) \/ SendFromISR(q)
        \/ Register(q) \/ Created(q) \/ Release(q) \/ Unregister(q)
    \/ TaskStep

IsrSpec == IsrInit /\ [][IsrNext]_isrTaskVars

\* The task and an interrupt handler that has been entered keep running.
IsrFairness == WF_isrTaskVars(TaskStep) /\ \A q \in Queues : WF_isrTaskVars(SendFromISR(q))

-----------------------------------------------------------------------------
(* Properties.                                                             *)

\* The interrupt-fed queues and the task keep their types; signal() overfills
\* no queue.
IsrTypeOK ==
    /\ items \in [Queues -> Seq(1..MaxSignal)]
    /\ \A q \in Queues : Len(items[q]) <= Size[q]
    /\ signalled \in [Queues -> 0..MaxSignal]
    /\ signalling \in [Queues -> 1..MaxSignal \cup {NoValue}]
    /\ read_since_poll \in [Queues -> BOOLEAN]
    /\ polled \in Seq(Queues)
    /\ notifications \in Seq(Queues)
    /\ life \in [Queues -> Lives]
    /\ at \in IsrPlaces
    /\ current \in Queues \cup {NoQueue}
    /\ delivered \in [Queues -> Seq(1..MaxSignal)]

Notified(q) == Cardinality({i \in 1..Len(notifications) : notifications[i] = q})
Serving(q) == IF at \in {"lock", "forward"} /\ current = q THEN 1 ELSE 0

\* The poll and the forward of a living queue take turns: there is a wake-up
\* for it exactly when read_since_poll is FALSE, and never more than one, so
\* that the notifications are bounded by the number of queues.
OneWakeUp ==
    \A q \in Queues : ~Expired(q) =>
        Notified(q) + Serving(q) = IF read_since_poll[q] THEN 0 ELSE 1

\* "this way we'll always get the last data value onto the queue"
\* (ISRTaskEventQueue.h:111): when signal() has returned, the newest value is
\* the last one waiting or the last one delivered.
NewestValueKept ==
    \A q \in Queues : (signalling[q] = NoValue /\ signalled[q] > 0 /\ ~Expired(q)) =>
        IF items[q] # <<>> THEN items[q][Len(items[q])] = signalled[q]
        ELSE /\ delivered[q] # <<>>
             /\ delivered[q][Len(delivered[q])] = signalled[q]

\* Values reach the listener in the order of the interrupts.
InterruptOrder ==
    \A q \in Queues : \A i, j \in 1..Len(delivered[q]) :
        i < j => delivered[q][i] < delivered[q][j]

\* As long as the queue and the task live, the newest value is delivered once
\* the interrupts pause (there are at most MaxSignal).
UpToDate(q) ==
    \/ signalled[q] = 0
    \/ delivered[q] # <<>> /\ delivered[q][Len(delivered[q])] = signalled[q]
    \/ life[q] \in {"released", "expired", "gone"}
    \/ at \in {"stuck", "terminated"}
NewestValueDelivered == \A q \in Queues : []<>UpToDate(q)

\* "entirely event driven and thread-safe" (README.md:12): a thread that drops
\* its queue does not make the task throw out of its loop.
TaskNotTerminated == at # "terminated"

\* Nor does it leave the task waiting for the mutex that it holds itself.
TaskNotStuck == at # "stuck"

\* What an interrupt signals reaches the listener: in order, the newest value
\* never the one that an overrun drops, and never left behind in the queue.
InterruptsArrive == [](IsrTypeOK /\ NewestValueKept /\ InterruptOrder) /\ NewestValueDelivered
=============================================================================
