---------------------------- MODULE TimerService ----------------------------
(***************************************************************************)
(* The timer service (core/timer/TimerService.cpp, TimerService.h) and the *)
(* timers that tasks start and stop (core/timer/Timer.cpp).                *)
(*                                                                         *)
(* The service keeps the running timers in a std::priority_queue, that is, *)
(* in a vector kept in heap order by std::push_heap and std::pop_heap, and *)
(* sleeps until the timer at the top expires or the number of timers       *)
(* changes.  Time is relative: left[t] is the time until t expires, in     *)
(* ticks of the clock.  The service is taken to need no time, so that the  *)
(* clock stands still while it has something to do.  Each timer is used by *)
(* one thread.                                                             *)
(***************************************************************************)
EXTENDS Integers, Sequences, SequencesExt

CONSTANTS
    Timers,         \* the timers
    Repeating,      \* the timers created with auto_reload
    Intervals       \* the intervals that timers are started with

ASSUME TimersAssumption == Repeating \subseteq Timers
ASSUME IntervalsAssumption == Intervals \subseteq Nat \ {0}

VARIABLES
    queue,          \* TimerService::queue: the vector of the priority queue
    left,           \* left[t]: Timer::expire_time, relative to now; 0 if it is not queued
    timer_interval, \* Timer::timer_interval
    state,          \* state[t]: what the user of t has done, see States
    fired,          \* fired[t]: t has expired since it was added to the queue
    pc,             \* where the service is in tick()
    processed,      \* the repeating timers that expired in this tick()
    deadline,       \* the time the service sleeps until, relative to now
    current_queue_length,
    notified,       \* cond was notified, the service has not looked yet
    disturbed       \* history: a running timer was taken out of the queue

timerVars == <<timer_interval, state>>
waitVars == <<deadline, current_queue_length>>
vars == <<queue, left, timerVars, fired, pc, processed, waitVars, notified, disturbed>>

\* "starting": between the stop() and the add_timer() of Timer::start().
States == {"stopped", "starting", "started"}

\* "run": between two ticks, or about to take the lock after a wait; "fire":
\* in the loop over the expired timers, with the lock; "waiting": in
\* cond.wait_until(); "empty": in cond.wait_for().
Places == {"run", "fire", "waiting", "empty"}

Locked == pc = "fire"

Init ==
    /\ queue = <<>>
    /\ left = [t \in Timers |-> 0]
    /\ timer_interval \in [Timers -> Intervals]
    /\ state = [t \in Timers |-> "stopped"]
    /\ fired = [t \in Timers |-> FALSE]
    /\ pc = "run"
    /\ processed = <<>>
    /\ deadline = 0
    /\ current_queue_length = 0
    /\ notified = FALSE
    /\ disturbed = FALSE

-----------------------------------------------------------------------------
(* std::priority_queue over the vector s, ordered by the expiry times e.   *)

Swap(s, i, j) == [s EXCEPT ![i] = s[j], ![j] = s[i]]

\* std::push_heap: the element at position i rises while it expires before
\* its parent.
RECURSIVE Rise(_, _, _)
Rise(s, i, e) ==
    IF i > 1 /\ e[s[i \div 2]] > e[s[i]]
    THEN Rise(Swap(s, i, i \div 2), i \div 2, e) ELSE s

PushHeap(s, t, e) == Rise(Append(s, t), Len(s) + 1, e)

\* std::pop_heap moves the hole at position i down to a leaf, always to the
\* child that expires first (the right one if they expire together).
RECURSIVE Sink(_, _, _)
Sink(s, i, e) ==
    LET l == 2 * i
        r == 2 * i + 1
    IN  IF l > Len(s) THEN <<s, i>>
        ELSE IF r > Len(s) \/ e[s[r]] > e[s[l]] THEN Sink(Swap(s, i, l), l, e)
        ELSE Sink(Swap(s, i, r), r, e)

\* The last element takes the place of the top and settles.
PopHeap(s, e) ==
    IF Len(s) = 1 THEN <<>>
    ELSE LET sunk == Sink(<<Last(s)>> \o SubSeq(s, 2, Len(s) - 1), 1, e)
         IN  Rise(sunk[1], sunk[2], e)

\* TimerQueue::remove_timer() erases the timer from the vector; nothing puts
\* the rest back into heap order.
RemoveOne(s, t) == RemoveFirst(s, t)

-----------------------------------------------------------------------------
(* The users of the timers.                                                *)

\* TimerService::remove_timer(), called by Timer::stop().
RemoveTimer(t) ==
    /\ ~Locked
    /\ queue' = RemoveOne(queue, t)
    /\ notified' = TRUE
    /\ disturbed' = (disturbed \/ queue' # queue)
    /\ left' = [left EXCEPT ![t] = 0]
    /\ UNCHANGED <<fired, pc, processed, waitVars>>

\* Timer::stop(), by the user or by ~TimerOwner().
Stop(t) ==
    /\ state[t] = "started"
    /\ RemoveTimer(t)
    /\ state' = [state EXCEPT ![t] = "stopped"]
    /\ UNCHANGED timer_interval

\* Timer::start(interval), also as part of reset(): the first half, stop().
BeginStart(t, interval) ==
    /\ state[t] # "starting"
    /\ RemoveTimer(t)
    /\ state' = [state EXCEPT ![t] = "starting"]
    /\ timer_interval' = [timer_interval EXCEPT ![t] = interval]

\* TimerService::add_timer(), the second half of Timer::start().
AddTimer(t) ==
    /\ state[t] = "starting"
    /\ ~Locked
    /\ left' = [left EXCEPT ![t] = timer_interval[t]]
    /\ queue' = PushHeap(queue, t, left')
    /\ state' = [state EXCEPT ![t] = "started"]
    /\ fired' = [fired EXCEPT ![t] = FALSE]
    /\ notified' = TRUE
    /\ UNCHANGED <<timer_interval, pc, processed, waitVars, disturbed>>

-----------------------------------------------------------------------------
(* TimerService::tick()                                                    *)

\* Lock; with no timers wait for one, otherwise process those that expired.
BeginTick ==
    /\ pc = "run"
    /\ pc' = IF queue = <<>> THEN "empty" ELSE "fire"
    /\ notified' = FALSE
    /\ UNCHANGED <<queue, left, timerVars, fired, processed, waitVars, disturbed>>

\* now >= queue.top()->expires_at()
TopExpired == queue # <<>> /\ left[queue[1]] <= 0

\* The timer at the top has expired: post the event, pop the timer.
Fire ==
    /\ pc = "fire"
    /\ TopExpired
    /\ fired' = [fired EXCEPT ![queue[1]] = TRUE]
    /\ queue' = PopHeap(queue, left)
    /\ processed' = IF queue[1] \in Repeating THEN Append(processed, queue[1]) ELSE processed
    /\ left' = [left EXCEPT ![queue[1]] = 0]
    /\ UNCHANGED <<timerVars, pc, waitVars, notified, disturbed>>

\* Mutant of EndTick: the service sleeps for the interval of the timer at the
\* top, not for what is left of it.
EndTickFullInterval ==
    /\ pc = "fire"
    /\ ~TopExpired
    /\ left' = [t \in Timers |->
                    IF Contains(processed, t) THEN timer_interval[t] ELSE left[t]]
    /\ queue' = FoldLeft(LAMBDA s, t : PushHeap(s, t, left'), queue, processed)
    /\ processed' = <<>>
    /\ IF queue' = <<>>
       THEN pc' = "run" /\ UNCHANGED waitVars
       ELSE /\ pc' = "waiting"
            /\ deadline' = timer_interval[queue'[1]]
            /\ current_queue_length' = Len(queue')
    /\ fired' = [t \in Timers |-> fired[t] /\ ~Contains(processed, t)]
    /\ UNCHANGED <<timerVars, notified, disturbed>>

\* No more expired timer at the top: the repeating timers are added again and
\* the service sleeps until the next one expires.
EndTick ==
    /\ pc = "fire"
    /\ ~TopExpired
    /\ left' = [t \in Timers |->
                    IF Contains(processed, t) THEN timer_interval[t] ELSE left[t]]
    /\ queue' = FoldLeft(LAMBDA s, t : PushHeap(s, t, left'), queue, processed)
    /\ processed' = <<>>
    /\ IF queue' = <<>>
       THEN pc' = "run" /\ UNCHANGED waitVars
       ELSE /\ pc' = "waiting"
            /\ deadline' = left'[queue'[1]]
            /\ current_queue_length' = Len(queue')
    /\ fired' = [t \in Timers |-> fired[t] /\ ~Contains(processed, t)]
    /\ UNCHANGED <<timerVars, notified, disturbed>>

\* The service looks at the predicate of wait_until() when it is notified.
Wake ==
    /\ notified
    /\ \/ pc = "empty" /\ pc' = "run"
       \/ pc = "waiting" /\ Len(queue) # current_queue_length /\ pc' = "run"
       \/ pc = "waiting" /\ Len(queue) = current_queue_length /\ UNCHANGED pc
    /\ notified' = FALSE
    /\ UNCHANGED <<queue, left, timerVars, fired, processed, waitVars, disturbed>>

\* wait_until() times out, or wait_for() does: nothing depends on when.
Timeout ==
    /\ pc = "empty" \/ (pc = "waiting" /\ deadline <= 0)
    /\ pc' = "run"
    /\ UNCHANGED <<queue, left, timerVars, fired, processed, waitVars, notified, disturbed>>

\* Time passes while the service has nothing to do.
ClockTick ==
    /\ pc = "empty" \/ (pc = "waiting" /\ deadline > 0)
    /\ ~notified
    /\ left' = [t \in Timers |-> IF Contains(queue, t) THEN left[t] - 1 ELSE left[t]]
    /\ deadline' = IF pc = "waiting" THEN deadline - 1 ELSE deadline
    /\ UNCHANGED <<queue, timerVars, fired, pc, processed, current_queue_length, notified, disturbed>>

ServiceStep == BeginTick \/ Fire \/ EndTick \/ Wake \/ Timeout

Next ==
    \/ \E t \in Timers :
        Stop(t) \/ AddTimer(t) \/ \E i \in Intervals : BeginStart(t, i)
    \/ ServiceStep
    \/ ClockTick

Spec == Init /\ [][Next]_vars

\* The service runs when it can, a start() that was begun is ended, and time
\* goes on, and a wait times out, however often timers are started and stopped.
Fairness ==
    /\ WF_vars(ServiceStep)
    /\ SF_vars(Timeout)
    /\ \A t \in Timers : WF_vars(AddTimer(t))
    /\ SF_vars(ClockTick)

-----------------------------------------------------------------------------
(* Properties.                                                             *)

\* The service and the timers keep their types; tick() saves only repeating
\* timers to be added again.
TypeOK ==
    /\ queue \in Seq(Timers)
    /\ left \in [Timers -> Int]
    /\ timer_interval \in [Timers -> Intervals]
    /\ state \in [Timers -> States]
    /\ fired \in [Timers -> BOOLEAN]
    /\ pc \in Places
    /\ processed \in Seq(Repeating)
    /\ deadline \in Int
    /\ current_queue_length \in Nat
    /\ notified \in BOOLEAN
    /\ disturbed \in BOOLEAN

\* The service holds exactly the timers that are running, each once: a stopped
\* timer is out of reach of the service even if it stopped while the service
\* slept for it, and a started one is not lost when the service fires it, pops
\* it and adds it again.
ServiceHoldsRunningTimers ==
    \A t \in Timers :
        Len(SelectSeq(queue \o processed, LAMBDA o : o = t)) =
            IF state[t] = "started" /\ (t \in Repeating \/ ~fired[t]) THEN 1 ELSE 0

\* A timer that is started and not stopped expires.
StartedTimerFires ==
    \A t \in Timers :
        (state[t] = "started" /\ ~fired[t]) ~> (fired[t] \/ state[t] # "started")

\* As long as no running timer was stopped, no timer is late: the service is
\* never asleep past the expiry of a running timer.
Punctual == ~disturbed => \A i \in 1..Len(queue) : left[queue[i]] >= 0

\* Whatever is stopped and started, and in whatever order remove_timer() leaves
\* the vector, an expired timer that waits behind others is never pushed back:
\* as long as it is queued, its place in the vector only comes nearer to the top.
\* How long that takes is not bounded by one interval: each of the timers before
\* it may be slept for.
PlaceOf(t, s) == CHOOSE i \in DOMAIN s : s[i] = t
LateTimersAdvance ==
    [][\A t \in Timers :
          Contains(queue, t) /\ left[t] <= 0 /\ Contains(queue', t)
            => PlaceOf(t, queue') <= PlaceOf(t, queue)]_vars

\* "We want the timer with the least time left to be first in the list"
\* (TimerService.cpp:34).
TopExpiresFirst ==
    ~Locked => \A i \in 1..Len(queue) : left[queue[1]] <= left[queue[i]]
=============================================================================
