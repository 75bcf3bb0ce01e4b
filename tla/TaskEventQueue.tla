--------------------------- MODULE TaskEventQueue ---------------------------
(***************************************************************************)
(* The event queues of one Task (core/ipc/TaskEventQueue.h, Queue.h,       *)
(* QueueNotification.cpp) and the loop that serves them                    *)
(* (core/Task.cpp, Task::exec).                                            *)
(*                                                                         *)
(* A push is two critical sections: the item goes into the Queue, then the *)
(* queue is appended to the task's QueueNotification.  The task takes one  *)
(* notification, promotes the weak pointer in it and pops one item.  Each  *)
(* critical section is a step, so producers, the task, an application that *)
(* releases a queue and one that clears a queue interleave between them.   *)
(***************************************************************************)
EXTENDS Integers, Sequences, FiniteSets

CONSTANTS
    Queues,         \* the TaskEventQueues that belong to the task
    Size,           \* Size[q]: the number of items q can hold
    Producers,      \* the threads that push
    MaxPush,        \* bound: items that each producer gets accepted
    Clearable,      \* the queues on which the application calls clear()
    NoQueue         \* no queue

ASSUME QueuesAssumption == IsFiniteSet(Queues) /\ NoQueue \notin Queues
ASSUME SizeAssumption == Size \in [Queues -> Nat]
ASSUME ProducersAssumption == IsFiniteSet(Producers)
ASSUME MaxPushAssumption == MaxPush \in Nat
ASSUME ClearableAssumption == Clearable \subseteq Queues

VARIABLES
    items,          \* items[q]: Queue::items of q
    notifications,  \* QueueNotification::queues
    life,           \* life[q]: the state of the queue object, see Lives
    pushed,         \* pushed[p]: the queue p has pushed to, not yet notified for
    sent,           \* sent[p]: number of items p got accepted
    clearing,       \* the queues a TaskEventQueue::clear() is at work on
    pc,             \* where the task's thread is in Task::exec()
    current,        \* the queue of the notification the task works on
    overdue,        \* delayed.get_running_time() > tick_interval
    delivered,      \* history: the items passed to event(), in order
    late,           \* history: items passed to event() since overdue became true
    senders,        \* history, senders[q]: the producers whose items q accepted
    cleared         \* history: the queues that clear() took items from

producerVars == <<pushed, sent>>
taskVars == <<pc, current, overdue, delivered, late>>
historyVars == <<senders, cleared>>
vars == <<items, notifications, life, clearing, producerVars, taskVars, historyVars>>

\* "owned": the application holds a shared_ptr; "released": it has let go, a
\* push or the task still holds one; "expired": no owner is left and the
\* destructor runs; "gone": destructed.
Lives == {"owned", "released", "expired", "gone"}

\* "test": at the test of delayed; "wait": in wait_for_notification();
\* "lock": about to promote the weak pointer; "forward": holds the queue and
\* is about to pop and forward an item.
Places == {"test", "wait", "lock", "forward"}

Items == [by : Producers, n : 1..MaxPush]

Init ==
    /\ items = [q \in Queues |-> <<>>]
    /\ notifications = <<>>
    /\ life = [q \in Queues |-> "owned"]
    /\ pushed = [p \in Producers |-> NoQueue]
    /\ sent = [p \in Producers |-> 0]
    /\ clearing = {}
    /\ pc = "test"
    /\ current = NoQueue
    /\ overdue = FALSE
    /\ delivered = <<>>
    /\ late = 0
    /\ senders = [q \in Queues |-> {}]
    /\ cleared = {}

\* weak_ptr::expired()
Expired(q) == life[q] \in {"expired", "gone"}

\* The life of q after a holder drops its shared_ptr, with "others" telling
\* whether somebody still holds one.
LifeAfterDrop(q, others) ==
    IF life[q] = "released" /\ ~others THEN [life EXCEPT ![q] = "expired"] ELSE life

-----------------------------------------------------------------------------
(* Producers.                                                              *)

\* The first half of push_internal(): Queue::push() accepts the item.  A full
\* queue refuses it, which changes nothing.  push() holds a shared_ptr to the
\* queue (shared_from_this()) until it returns.
Push(p, q) ==
    /\ pushed[p] = NoQueue
    /\ sent[p] < MaxPush
    /\ life[q] = "owned"
    /\ Len(items[q]) < Size[q]
    /\ items' = [items EXCEPT ![q] = Append(@, [by |-> p, n |-> sent[p] + 1])]
    /\ sent' = [sent EXCEPT ![p] = @ + 1]
    /\ pushed' = [pushed EXCEPT ![p] = q]
    /\ senders' = [senders EXCEPT ![q] = @ \cup {p}]
    /\ UNCHANGED <<notifications, life, clearing, taskVars, cleared>>

\* Mutant of Notify: the task is notified only of a queue it does not know of yet.
NotifyOnce(p) ==
    LET q == pushed[p]
        others == (\E o \in Producers \ {p} : pushed[o] = q) \/ (pc = "forward" /\ current = q)
    IN  /\ q # NoQueue
        /\ notifications' = IF \E i \in DOMAIN notifications : notifications[i] = q
                            THEN notifications ELSE Append(notifications, q)
        /\ pushed' = [pushed EXCEPT ![p] = NoQueue]
        /\ life' = LifeAfterDrop(q, others)
        /\ UNCHANGED <<items, sent, clearing, taskVars, historyVars>>

\* The second half: QueueNotification::notify(), and the end of push().
Notify(p) ==
    LET q == pushed[p]
        others == (\E o \in Producers \ {p} : pushed[o] = q) \/ (pc = "forward" /\ current = q)
    IN  /\ q # NoQueue
        /\ notifications' = Append(notifications, q)
        /\ pushed' = [pushed EXCEPT ![p] = NoQueue]
        /\ life' = LifeAfterDrop(q, others)
        /\ UNCHANGED <<items, sent, clearing, taskVars, historyVars>>

-----------------------------------------------------------------------------
(* The owner of a queue.                                                   *)

\* TaskEventQueue::clear() pops until empty() says so; both calls lock the
\* queue on their own, so that producers get in between.  The notifications
\* stay.
BeginClear(q) ==
    /\ q \in Clearable \ clearing
    /\ life[q] = "owned"
    /\ items[q] # <<>>
    /\ clearing' = clearing \cup {q}
    /\ UNCHANGED <<items, notifications, life, producerVars, taskVars, historyVars>>

Clear(q) ==
    /\ q \in clearing
    /\ IF items[q] = <<>>
       THEN clearing' = clearing \ {q} /\ UNCHANGED <<items, cleared>>
       ELSE /\ items' = [items EXCEPT ![q] = Tail(@)]
            /\ cleared' = cleared \cup {q}
            /\ UNCHANGED clearing
    /\ UNCHANGED <<notifications, life, producerVars, taskVars, senders>>

\* The application resets its shared_ptr.
Release(q) ==
    /\ life[q] = "owned"
    /\ q \notin clearing
    /\ life' = [life EXCEPT ![q] =
                    IF (\E p \in Producers : pushed[p] = q) \/ (pc = "forward" /\ current = q)
                    THEN "released" ELSE "expired"]
    /\ UNCHANGED <<items, notifications, clearing, producerVars, taskVars, historyVars>>

\* ~TaskEventQueue() calls QueueNotification::remove_expired_queues(), which
\* erases the notifications of every expired queue and keeps the order of the
\* others: the kept positions are mapped in order to a shorter sequence.
Destruct(q) ==
    LET kept == {i \in 1..Len(notifications) : ~Expired(notifications[i])}
    IN  /\ life[q] = "expired"
        /\ \E f \in [1..Cardinality(kept) -> kept] :
            /\ \A i, j \in DOMAIN f : i < j => f[i] < f[j]
            /\ \A k \in kept : \E i \in DOMAIN f : f[i] = k
            /\ notifications' = [i \in 1..Cardinality(kept) |-> notifications[f[i]]]
        /\ life' = [life EXCEPT ![q] = "gone"]
        /\ items' = [items EXCEPT ![q] = <<>>]
        /\ UNCHANGED <<clearing, producerVars, taskVars, historyVars>>

-----------------------------------------------------------------------------
(* The task.                                                               *)

\* More than a tick interval has passed since the last tick.
TimePasses ==
    /\ ~overdue
    /\ overdue' = TRUE
    /\ late' = 0
    /\ UNCHANGED <<items, notifications, life, clearing, producerVars, pc, current, delivered, historyVars>>

\* The test at the top of the loop: an overdue tick() comes before the queues.
\* The next test follows delayed.reset() directly and finds nothing overdue.
OverdueTick ==
    /\ pc = "test"
    /\ overdue
    /\ overdue' = FALSE
    /\ pc' = "wait"
    /\ UNCHANGED <<items, notifications, life, clearing, producerVars, current, delivered, late, historyVars>>

\* Mutant of NothingOverdue: the loop always goes on to the queues.
NeverOverdue ==
    /\ pc = "test"
    /\ pc' = "wait"
    /\ UNCHANGED <<items, notifications, life, clearing, producerVars, current, overdue, delivered, late,
                   historyVars>>

NothingOverdue ==
    /\ pc = "test"
    /\ ~overdue
    /\ pc' = "wait"
    /\ UNCHANGED <<items, notifications, life, clearing, producerVars, current, overdue, delivered, late,
                   historyVars>>

\* wait_for_notification() times out: tick() and delayed.reset().
Timeout ==
    /\ pc = "wait"
    /\ notifications = <<>>
    /\ overdue' = FALSE
    /\ UNCHANGED <<items, notifications, life, clearing, producerVars, pc, current, delivered, late,
                   historyVars>>

\* wait_for_notification() returns the oldest notification.
Take ==
    /\ pc = "wait"
    /\ notifications # <<>>
    /\ current' = Head(notifications)
    /\ notifications' = Tail(notifications)
    /\ pc' = "lock"
    /\ UNCHANGED <<items, life, clearing, producerVars, overdue, delivered, late, historyVars>>

\* queue_ptr.lock(): the queue may have expired since it was notified.
Lock ==
    /\ pc = "lock"
    /\ IF Expired(current)
       THEN pc' = "test" /\ current' = NoQueue
       ELSE pc' = "forward" /\ UNCHANGED current
    /\ UNCHANGED <<items, notifications, life, clearing, producerVars, overdue, delivered, late,
                   historyVars>>

\* Mutant of Forward: all items of the queue are retrieved at once.
ForwardAll ==
    /\ pc = "forward"
    /\ items' = [items EXCEPT ![current] = <<>>]
    /\ delivered' = delivered \o items[current]
    /\ late' = IF overdue THEN late + Len(items[current]) ELSE late
    /\ life' = LifeAfterDrop(current, \E p \in Producers : pushed[p] = current)
    /\ pc' = "test"
    /\ current' = NoQueue
    /\ UNCHANGED <<notifications, clearing, producerVars, overdue, historyVars>>

\* forward_to_event_listener(): pop one item, if there is one, call event(),
\* and drop the shared_ptr.
Forward ==
    /\ pc = "forward"
    /\ IF items[current] = <<>>
       THEN UNCHANGED <<items, delivered, late>>
       ELSE /\ items' = [items EXCEPT ![current] = Tail(@)]
            /\ delivered' = Append(delivered, Head(items[current]))
            /\ late' = IF overdue THEN late + 1 ELSE late
    /\ life' = LifeAfterDrop(current, \E p \in Producers : pushed[p] = current)
    /\ pc' = "test"
    /\ current' = NoQueue
    /\ UNCHANGED <<notifications, clearing, producerVars, overdue, historyVars>>

TaskStep == OverdueTick \/ NothingOverdue \/ Timeout \/ Take \/ Lock \/ Forward

Next ==
    \/ \E p \in Producers : (\E q \in Queues : Push(p, q)) \/ Notify(p)
    \/ \E q \in Queues : BeginClear(q) \/ Clear(q) \/ Release(q) \/ Destruct(q)
    \/ TimePasses
    \/ TaskStep

Spec == Init /\ [][Next]_vars

\* The task's thread and a thread inside push() or a destructor keep running.
Fairness ==
    /\ WF_vars(TaskStep)
    /\ \A p \in Producers : WF_vars(Notify(p))
    /\ \A q \in Queues : WF_vars(Destruct(q))

-----------------------------------------------------------------------------
(* Properties.                                                             *)

\* The queues, the notification list and the task loop keep their types; no
\* push makes a Queue longer than its size.
TypeOK ==
    /\ items \in [Queues -> Seq(Items)]
    /\ \A q \in Queues : Len(items[q]) <= Size[q]
    /\ notifications \in Seq(Queues)
    /\ life \in [Queues -> Lives]
    /\ pushed \in [Producers -> Queues \cup {NoQueue}]
    /\ sent \in [Producers -> 0..MaxPush]
    /\ clearing \subseteq Clearable
    /\ pc \in Places
    /\ current \in Queues \cup {NoQueue}
    /\ overdue \in BOOLEAN
    /\ delivered \in Seq(Items)
    /\ late \in Nat
    /\ senders \in [Queues -> SUBSET Producers]
    /\ cleared \subseteq Clearable

\* The positions at which q has been notified, the pushes to q that have not
\* notified yet, and the task's own hold on a notification of q.
Notified(q) == {i \in 1..Len(notifications) : notifications[i] = q}
Pushing(q) == {p \in Producers : pushed[p] = q}
Serving(q) == IF pc \in {"lock", "forward"} /\ current = q THEN 1 ELSE 0

\* The wake-ups that will make the task look into q.
WakeUps(q) == Cardinality(Notified(q)) + Cardinality(Pushing(q)) + Serving(q)

\* push() accepted an item: as long as the queue lives, there is a wake-up for
\* every item in it, whatever pushes, other queues' destructors and clear()
\* do in between.  An item without one would sit in the queue until the next
\* push (Task.cpp forwards one item per notification).
NoStrandedEvent == \A q \in Queues : ~Expired(q) => Len(items[q]) <= WakeUps(q)

\* "the queue can only be as large as the sum of all queues within the same
\* Task" (QueueNotification.cpp:28-29): a queue that is never cleared has at
\* most as many notifications as it can hold items.
NotificationBound ==
    \A q \in Queues \ Clearable : Cardinality(Notified(q)) <= Size[q]

\* A queue stays alive while push() or the task uses it: its shared_ptr is
\* released in one thread while others work on it.
UsedQueueLives ==
    \A q \in Queues :
        (Pushing(q) # {} \/ (pc = "forward" /\ current = q)) => ~Expired(q)

\* p has its queues to itself: only it has pushed to them, and clear() took
\* nothing from them.
Alone(p) == \A q \in Queues : p \in senders[q] => senders[q] = {p} /\ q \notin cleared

\* "messages [...] arrive in the same order they were sent when there are more
\* than one receiver queue" (Task.cpp:184-186): the items of one sender are
\* delivered in the order in which they were pushed, as long as it shares its
\* queues with nobody.  A second sender between its push and its notification,
\* or a clear() that leaves notifications behind, lets a wake-up find another
\* item than the one it was made for.
SendOrder ==
    \A i, j \in 1..Len(delivered) :
        (i < j /\ delivered[i].by = delivered[j].by /\ Alone(delivered[i].by))
            => delivered[i].n < delivered[j].n

\* "Try to keep the tick alive even when there are lots of incoming messages"
\* (Task.cpp:146): at most one item is forwarded after the tick fell due.
TickKeptAlive == late <= 1

\* An accepted item does not wait for ever: it is delivered, cleared or
\* destructed with its queue.
Waiting(m) == \E q \in Queues : \E i \in 1..Len(items[q]) : items[q][i] = m
EventuallyServed == \A m \in Items : Waiting(m) ~> ~Waiting(m)
=============================================================================
