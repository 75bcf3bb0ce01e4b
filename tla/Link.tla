-------------------------------- MODULE Link --------------------------------
(***************************************************************************)
(* Publish/subscribe: Link<T> and Publisher<T> (core/ipc/Link.h,           *)
(* Publisher.h) with the queues that subscribe through a LinkWrapper       *)
(* (core/ipc/SubscribingTaskEventQueue.h).                                 *)
(*                                                                         *)
(* One static mutex protects the list of subscribers and is held for a     *)
(* whole publish().  Queues are shared objects: the application owns a     *)
(* reference, a publisher holds one while it pushes, the task that serves  *)
(* the queue holds one while it forwards an event.  Whoever drops the last *)
(* reference runs the destructor, which unsubscribes under the same mutex. *)
(* What a push does inside the queue is TaskEventQueue's business; here a  *)
(* queue is a bounded sequence.                                            *)
(***************************************************************************)
EXTENDS Integers, Sequences, FiniteSets, Subsequence

CONSTANTS
    LinkQueues,     \* the SubscribingTaskEventQueues
    LinkSize,       \* LinkSize[q]: the number of items q can hold
    Publishers,     \* the threads that publish
    MaxPublish,     \* bound: publications of each thread
    Nobody          \* no thread, no queue

\* Sizes and the bound are numbers, and nobody is not a thread.
ASSUME LinkAssumption ==
    /\ LinkSize \in [LinkQueues -> Nat]
    /\ MaxPublish \in Nat
    /\ Nobody \notin Publishers

VARIABLES
    mutex,          \* the thread that holds Link<T>::get_mutex(), or Nobody
    subscribers,    \* Link<T>::get_subscribers(), front first
    linkLife,       \* linkLife[q]: the state of the queue object
    inbox,          \* inbox[q]: the items waiting in q
    serving,        \* the queues whose task holds a reference to them
    at,             \* at[t]: where publisher t is in Link<T>::publish()
    rest,           \* rest[t]: the subscribers t has still to visit
    res,            \* res[t]: the variable res of publish()
    refused,        \* history: refused[t]: a queue was full in this publish()
    published,      \* published[t]: number of publications of t so far
    received        \* history: received[q]: all items pushed to q, in order

queueVars == <<linkLife, inbox, serving, received>>
publisherVars == <<at, rest, res, refused, published>>
linkVars == <<mutex, subscribers, queueVars, publisherVars>>

\* "new": not created yet; "owned", "released", "expired", "gone": as in
\* TaskEventQueue.
LinkLives == {"new", "owned", "released", "expired", "gone"}

\* "idle": outside publish(); "visit": at the loop; "push": has promoted the
\* weak pointer of the first of rest; "drop": has pushed to it; "done": after
\* the loop; "stuck": locks, in a destructor, the mutex it holds.
PublishPlaces == {"idle", "visit", "push", "drop", "done", "stuck"}

Publications == [by : Publishers, n : 1..MaxPublish]

LinkInit ==
    /\ mutex = Nobody
    /\ subscribers = <<>>
    /\ linkLife = [q \in LinkQueues |-> "new"]
    /\ inbox = [q \in LinkQueues |-> <<>>]
    /\ serving = {}
    /\ at = [t \in Publishers |-> "idle"]
    /\ rest = [t \in Publishers |-> <<>>]
    /\ res = [t \in Publishers |-> FALSE]
    /\ refused = [t \in Publishers |-> FALSE]
    /\ published = [t \in Publishers |-> 0]
    /\ received = [q \in LinkQueues |-> <<>>]

Dying(q) == linkLife[q] \in {"expired", "gone"}

\* A publisher holds a shared_ptr to q.
Holds(t, q) == at[t] \in {"push", "drop"} /\ Head(rest[t]) = q

-----------------------------------------------------------------------------
(* The owner and the task of a queue.                                      *)

\* SubscribingTaskEventQueue::create(): link_up() subscribes the wrapper.
Create(q) ==
    /\ linkLife[q] = "new"
    /\ mutex = Nobody
    /\ linkLife' = [linkLife EXCEPT ![q] = "owned"]
    /\ subscribers' = <<q>> \o subscribers
    /\ UNCHANGED <<mutex, inbox, serving, received, publisherVars>>

\* The owner drops its shared_ptr.
ReleaseQueue(q) ==
    /\ linkLife[q] = "owned"
    /\ linkLife' = [linkLife EXCEPT ![q] =
                    IF q \in serving \/ \E t \in Publishers : Holds(t, q)
                    THEN "released" ELSE "expired"]
    /\ UNCHANGED <<mutex, subscribers, inbox, serving, received, publisherVars>>

\* Mutant of Unsubscribe: the list is changed without the mutex.
UnsubscribeUnlocked(q) ==
    /\ linkLife[q] = "expired"
    /\ subscribers' \in Without(subscribers, q)
    /\ linkLife' = [linkLife EXCEPT ![q] = "gone"]
    /\ UNCHANGED <<mutex, inbox, serving, received, publisherVars>>

\* ~SubscribingTaskEventQueue() on the owner's or the task's thread.
Unsubscribe(q) ==
    /\ linkLife[q] = "expired"
    /\ mutex = Nobody
    /\ subscribers' \in Without(subscribers, q)
    /\ linkLife' = [linkLife EXCEPT ![q] = "gone"]
    /\ UNCHANGED <<mutex, inbox, serving, received, publisherVars>>

\* The task pops an event and forwards it, with a shared_ptr to the queue.
Serve(q) ==
    /\ ~Dying(q)
    /\ q \notin serving
    /\ inbox[q] # <<>>
    /\ serving' = serving \cup {q}
    /\ inbox' = [inbox EXCEPT ![q] = Tail(@)]
    /\ UNCHANGED <<mutex, subscribers, linkLife, received, publisherVars>>

Served(q) ==
    /\ q \in serving
    /\ serving' = serving \ {q}
    /\ linkLife' = IF linkLife[q] = "released" /\ ~\E t \in Publishers : Holds(t, q)
               THEN [linkLife EXCEPT ![q] = "expired"] ELSE linkLife
    /\ UNCHANGED <<mutex, subscribers, inbox, received, publisherVars>>

-----------------------------------------------------------------------------
(* Link<T>::publish()                                                      *)

\* Mutant of LockLink: the subscribers are copied and the mutex is given back.
LockToCopy(t) ==
    /\ at[t] = "idle"
    /\ published[t] < MaxPublish
    /\ mutex = Nobody
    /\ UNCHANGED mutex
    /\ at' = [at EXCEPT ![t] = "visit"]
    /\ rest' = [rest EXCEPT ![t] = subscribers]
    /\ res' = [res EXCEPT ![t] = FALSE]
    /\ refused' = [refused EXCEPT ![t] = FALSE]
    /\ published' = [published EXCEPT ![t] = @ + 1]
    /\ UNCHANGED <<subscribers, queueVars>>

LockLink(t) ==
    /\ at[t] = "idle"
    /\ published[t] < MaxPublish
    /\ mutex = Nobody
    /\ mutex' = t
    /\ at' = [at EXCEPT ![t] = "visit"]
    /\ rest' = [rest EXCEPT ![t] = subscribers]
    /\ res' = [res EXCEPT ![t] = FALSE]
    /\ refused' = [refused EXCEPT ![t] = FALSE]
    /\ published' = [published EXCEPT ![t] = @ + 1]
    /\ UNCHANGED <<subscribers, queueVars>>

\* LinkWrapper::receive_published_data(): promote the weak pointer; an expired
\* queue counts as having received the item.
Visit(t) ==
    /\ at[t] = "visit"
    /\ rest[t] # <<>>
    /\ IF Dying(Head(rest[t]))
       THEN rest' = [rest EXCEPT ![t] = Tail(@)] /\ UNCHANGED at
       ELSE at' = [at EXCEPT ![t] = "push"] /\ UNCHANGED rest
    /\ UNCHANGED <<mutex, subscribers, queueVars, res, refused, published>>

\* q->push(data).  Whatever it returns, "res &= ..." leaves res FALSE.
PushTo(t) ==
    LET q == Head(rest[t])
        item == [by |-> t, n |-> published[t]]
        accepted == Len(inbox[q]) < LinkSize[q]
    IN  /\ at[t] = "push"
        /\ IF accepted
           THEN /\ inbox' = [inbox EXCEPT ![q] = Append(@, item)]
                /\ received' = [received EXCEPT ![q] = Append(@, item)]
                /\ UNCHANGED refused
           ELSE /\ refused' = [refused EXCEPT ![t] = TRUE]
                /\ UNCHANGED <<inbox, received>>
        /\ res' = [res EXCEPT ![t] = @ /\ accepted]
        /\ at' = [at EXCEPT ![t] = "drop"]
        /\ UNCHANGED <<mutex, subscribers, linkLife, serving, rest, published>>

\* The shared_ptr q of receive_published_data() goes out of scope.  If it is
\* the last one, the destructor runs here and locks the mutex once more.
Drop(t) ==
    LET q == Head(rest[t])
        last == /\ linkLife[q] = "released"
                /\ q \notin serving
                /\ ~\E o \in Publishers \ {t} : Holds(o, q)
    IN  /\ at[t] = "drop"
        /\ IF last
           THEN /\ linkLife' = [linkLife EXCEPT ![q] = "expired"]
                /\ at' = [at EXCEPT ![t] = "stuck"]
                /\ UNCHANGED rest
           ELSE /\ at' = [at EXCEPT ![t] = "visit"]
                /\ rest' = [rest EXCEPT ![t] = Tail(@)]
                /\ UNCHANGED linkLife
        /\ UNCHANGED <<mutex, subscribers, inbox, serving, received, res, refused, published>>

\* Every subscriber has been visited: the mutex is released.
Unlock(t) ==
    /\ at[t] = "visit"
    /\ rest[t] = <<>>
    /\ mutex' = Nobody
    /\ at' = [at EXCEPT ![t] = "done"]
    /\ UNCHANGED <<subscribers, queueVars, rest, res, refused, published>>

Return(t) ==
    /\ at[t] = "done"
    /\ at' = [at EXCEPT ![t] = "idle"]
    /\ UNCHANGED <<mutex, subscribers, queueVars, rest, res, refused, published>>

PublishStep(t) == Visit(t) \/ PushTo(t) \/ Drop(t) \/ Unlock(t) \/ Return(t)

LinkNext ==
    \/ \E q \in LinkQueues : Create(q) \/ ReleaseQueue(q) \/ Unsubscribe(q) \/ Serve(q) \/ Served(q)
    \/ \E t \in Publishers : LockLink(t) \/ PublishStep(t)

LinkSpec == LinkInit /\ [][LinkNext]_linkVars

-----------------------------------------------------------------------------
(* Properties.                                                             *)

\* The queues that have the current publication of t.
Reached(t) ==
    {q \in LinkQueues : \E i \in 1..Len(received[q]) :
        received[q][i] = [by |-> t, n |-> published[t]]}

\* The subscriber list, the queues and the publishing threads keep their
\* types; publish() overfills no queue.
LinkTypeOK ==
    /\ mutex \in Publishers \cup {Nobody}
    /\ subscribers \in Seq(LinkQueues)
    /\ linkLife \in [LinkQueues -> LinkLives]
    /\ inbox \in [LinkQueues -> Seq(Publications)]
    /\ \A q \in LinkQueues : Len(inbox[q]) <= LinkSize[q]
    /\ serving \subseteq LinkQueues
    /\ at \in [Publishers -> PublishPlaces]
    /\ rest \in [Publishers -> Seq(LinkQueues)]
    /\ res \in [Publishers -> BOOLEAN]
    /\ refused \in [Publishers -> BOOLEAN]
    /\ published \in [Publishers -> 0..MaxPublish]
    /\ received \in [LinkQueues -> Seq(Publications)]

\* Every wrapper that is or will be called belongs to an object that still
\* exists: destruction waits for the publish() that is under way.
NoDanglingSubscriber ==
    /\ \A i \in 1..Len(subscribers) : linkLife[subscribers[i]] # "gone"
    /\ \A t \in Publishers : \A i \in 1..Len(rest[t]) :
            at[t] \notin {"idle", "done"} => linkLife[rest[t][i]] # "gone"

\* All queues receive the publications of all threads in one and the same
\* order, however the threads interleave.
OnePublicationOrder ==
    \A q, r \in LinkQueues :
        ~ \E i, j \in 1..Len(received[q]), k, l \in 1..Len(received[r]) :
            /\ i < j /\ k < l
            /\ received[q][i] = received[r][l]
            /\ received[q][j] = received[r][k]

\* "any Task can call [...] publish(T&)" "in a thread-safe manner"
\* (Link.h:28-29): publish() never waits for the mutex it holds itself.
NoSelfDeadlock == \A t \in Publishers : at[t] # "stuck"

\* "true of all subscribers could receive the item, false if one or more
\* queues were full" (Link.h:56), for a publication that somebody received.
PublishResult ==
    \A t \in Publishers :
        (at[t] = "done" /\ ~refused[t] /\ Reached(t) # {}) => res[t]
=============================================================================
