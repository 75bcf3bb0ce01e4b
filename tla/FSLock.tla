------------------------------- MODULE FSLock -------------------------------
(***************************************************************************)
(* The counting lock that bounds the number of open files                  *)
(* (core/filesystem/FSLock.cpp).  Every FSLock object is a member of       *)
(* Locks and is constructed and destructed by a thread of its own.  A      *)
(* critical section of the static mutex is one step; a thread that waits   *)
(* on the condition variable is in state "waiting" and must be notified    *)
(* before it evaluates the predicate again.                                *)
(***************************************************************************)
EXTENDS Integers, FiniteSets

CONSTANTS
    Locks,      \* the FSLock objects
    Limits      \* the values FSLock::set_limit() is called with

ASSUME LocksAssumption == IsFiniteSet(Locks)
ASSUME LimitsAssumption == Limits \subseteq Nat \ {0}

VARIABLES
    max,                \* FSLock::max
    count,              \* FSLock::count
    max_ever_opened,    \* FSLock::max_ever_opened
    state,              \* how far each lock's constructor has come
    raised              \* history: the limit was raised with threads asleep

vars == <<max, count, max_ever_opened, state, raised>>

\* "free": no object; "waiting": asleep in cv.wait(); "woken": notified, has
\* not yet evaluated the predicate; "counted": count was incremented, the
\* mutex is released, notify_one() is still to come; "held": constructed.
States == {"free", "waiting", "woken", "counted", "held"}

Sleeping == {l \in Locks : state[l] = "waiting"}

Init ==
    /\ max = 0
    /\ count = 0
    /\ max_ever_opened = 0
    /\ state = [l \in Locks |-> "free"]
    /\ raised = FALSE

\* The state after cv.notify_one(), called once the caller's own state is s.
AfterNotifyOne(s) ==
    LET sleeping == {l \in Locks : s[l] = "waiting"}
    IN  IF sleeping = {} THEN {s}
        ELSE {[s EXCEPT ![l] = "woken"] : l \in sleeping}

\* FSLock::set_limit(): EarlyInit and the constructors of the file systems.
\* It notifies nobody.
set_limit(n) ==
    /\ max' = n
    /\ raised' = (raised \/ (n > max /\ Sleeping # {}))
    /\ UNCHANGED <<count, max_ever_opened, state>>

\* The predicate of cv.wait() is evaluated under the mutex: the lock is
\* counted, or its thread goes (back) to sleep.
TryToCount(l) ==
    \/ /\ count < max
       /\ count' = count + 1
       /\ max_ever_opened' = IF count' > max_ever_opened THEN count' ELSE max_ever_opened
       /\ state' = [state EXCEPT ![l] = "counted"]
    \/ /\ count >= max
       /\ state' = [state EXCEPT ![l] = "waiting"]
       /\ UNCHANGED <<count, max_ever_opened>>

\* Mutant of Wake: the predicate is an if, not a loop.
WakeWithoutRecheck(l) ==
    /\ state[l] = "woken"
    /\ count' = count + 1
    /\ max_ever_opened' = IF count' > max_ever_opened THEN count' ELSE max_ever_opened
    /\ state' = [state EXCEPT ![l] = "counted"]
    /\ UNCHANGED <<max, raised>>

\* FSLock::FSLock() up to the first evaluation of the predicate.  While
\* max <= 0 the constructor throws and leaves everything as it was.
Construct(l) ==
    /\ state[l] = "free"
    /\ max > 0
    /\ TryToCount(l)
    /\ UNCHANGED <<max, raised>>

\* A notified thread re-acquires the mutex.
Wake(l) ==
    /\ state[l] = "woken"
    /\ TryToCount(l)
    /\ UNCHANGED <<max, raised>>

\* std::condition_variable may wake a thread that nobody notified.
SpuriousWake(l) ==
    /\ state[l] = "waiting"
    /\ state' = [state EXCEPT ![l] = "woken"]
    /\ UNCHANGED <<max, count, max_ever_opened, raised>>

\* The end of the constructor: guard.unlock(); cv.notify_one().
NotifyNext(l) ==
    /\ state[l] = "counted"
    /\ state' \in AfterNotifyOne([state EXCEPT ![l] = "held"])
    /\ UNCHANGED <<max, count, max_ever_opened, raised>>

\* Mutant of Destruct: nobody is notified.
DestructSilently(l) ==
    /\ state[l] = "held"
    /\ count' = count - 1
    /\ state' = [state EXCEPT ![l] = "free"]
    /\ UNCHANGED <<max, max_ever_opened, raised>>

\* FSLock::~FSLock()
Destruct(l) ==
    /\ state[l] = "held"
    /\ count' = count - 1
    /\ state' \in AfterNotifyOne([state EXCEPT ![l] = "free"])
    /\ UNCHANGED <<max, max_ever_opened, raised>>

Next ==
    \/ \E n \in Limits : set_limit(n)
    \/ \E l \in Locks :
        Construct(l) \/ Wake(l) \/ SpuriousWake(l) \/ NotifyNext(l) \/ Destruct(l)

Spec == Init /\ [][Next]_vars

-----------------------------------------------------------------------------
\* The counters and the progress of every FSLock object keep their types
\* through construction, waiting and destruction.
TypeOK ==
    /\ max \in Limits \cup {0}
    /\ count \in Nat
    /\ max_ever_opened \in Nat
    /\ state \in [Locks -> States]
    /\ raised \in BOOLEAN

\* FSLock::count is the number of objects past their constructor's wait and
\* not yet destructed: no path through wait, wake-up and destruction counts
\* an object twice or forgets one.
CountIsOpenLocks ==
    count = Cardinality({l \in Locks : state[l] \in {"counted", "held"}})

\* Whatever happens between a notification and the re-evaluation of the
\* predicate (another thread may take the slot first), a step that opens a
\* file leaves no more files open than the limit allows.
OpenWithinLimit == [][count' > count => count' <= max]_vars

\* Unless the limit is raised over sleeping threads, a free slot is never left
\* unused with threads asleep: somebody who will notify or re-evaluate the
\* predicate is on the way, although a woken thread may find its slot taken
\* by a newcomer.
NoLostWakeup ==
    (~raised /\ Sleeping # {} /\ count < max) =>
        \E l \in Locks : state[l] \in {"woken", "counted"}

\* A free slot does not stay free while constructors wait for one: either
\* every waiting thread gets through or the slots are used up again.
FreeSlotIsTaken ==
    (~raised /\ Sleeping # {} /\ count < max) ~> (raised \/ Sleeping = {} \/ count >= max)
=============================================================================
