----------------------------- MODULE TaskStart -----------------------------
(***************************************************************************)
(* How a Task comes to life (core/Task.cpp, start() and the beginning of   *)
(* exec()): threads call start(), which creates the worker and waits on a  *)
(* condition variable until the worker says that it runs; a task that is   *)
(* attached to its caller's thread runs inside start() for ever.           *)
(***************************************************************************)
EXTENDS Naturals

CONSTANTS
    Starters,   \* the threads that call start()
    Nobody,
    MaxStarts,  \* bound: calls of each thread
    MaxSpurious \* bound: wake-ups without a reason

VARIABLES
    is_attached, started,
    start_mutex,    \* the thread that holds it, or Nobody
    at,             \* at[c]: where thread c is in start(), see Places
    worker,         \* where the worker is: "none", "begin", "notify" or "run"
    notified,       \* the waiting threads that were notified
    terminated,     \* the program has ended: a running std::thread was assigned to
    starts,         \* starts[c]: the calls of c
    spurious,       \* the wake-ups without a reason so far
    overlapped      \* history: two threads were in start() at the same time

history == <<starts, spurious, overlapped>>
vars == <<is_attached, started, start_mutex, at, worker, notified, terminated, history>>

\* "out": not in start(); "lock": waits for the mutex; "check": evaluates the
\* predicate of the wait; "sleep": found it false; "wait": waits, without the
\* mutex; "relock": awake; "exec": runs the attached task.
Places == {"out", "lock", "check", "sleep", "wait", "relock", "exec"}

Init ==
    /\ is_attached \in BOOLEAN
    /\ started = FALSE
    /\ start_mutex = Nobody
    /\ at = [c \in Starters |-> "out"]
    /\ worker = "none"
    /\ notified = {}
    /\ terminated = FALSE
    /\ starts = [c \in Starters |-> 0]
    /\ spurious = 0
    /\ overlapped = FALSE

Go(c, place) == at' = [at EXCEPT ![c] = place]

Call(c) ==
    /\ ~terminated
    /\ at[c] = "out"
    /\ starts[c] < MaxStarts
    /\ starts' = [starts EXCEPT ![c] = @ + 1]
    /\ overlapped' = (overlapped \/ \E o \in Starters : at[o] # "out")
    /\ Go(c, "lock")
    /\ UNCHANGED <<is_attached, started, start_mutex, worker, notified, terminated, spurious>>

\* start() with the mutex: a task that has started is left alone; an attached
\* task runs, with the mutex; otherwise the worker is created, and assigned to
\* a std::thread that must not be one that runs.
Enter(c) ==
    /\ ~terminated
    /\ at[c] = "lock"
    /\ start_mutex = Nobody
    /\ IF started THEN Go(c, "out") /\ UNCHANGED <<start_mutex, worker, terminated>>
       ELSE /\ start_mutex' = c
            /\ IF is_attached THEN Go(c, "exec") /\ UNCHANGED <<worker, terminated>>
               ELSE IF worker # "none" THEN terminated' = TRUE /\ UNCHANGED <<at, worker>>
               ELSE worker' = "begin" /\ Go(c, "check") /\ UNCHANGED terminated
    /\ UNCHANGED <<is_attached, started, notified, history>>

\* start_condition.wait(): the predicate, ...
Check(c) ==
    /\ ~terminated
    /\ at[c] = "check"
    /\ IF started
       THEN start_mutex' = Nobody /\ Go(c, "out")
       ELSE Go(c, "sleep") /\ UNCHANGED start_mutex
    /\ UNCHANGED <<is_attached, started, worker, notified, terminated, history>>

\* ... the mutex given back, ...
Sleep(c) ==
    /\ ~terminated
    /\ at[c] = "sleep"
    /\ start_mutex' = Nobody
    /\ Go(c, "wait")
    /\ UNCHANGED <<is_attached, started, worker, notified, terminated, history>>

\* ... a wake-up, with or without a reason, ...
Wake(c) ==
    /\ ~terminated
    /\ at[c] = "wait"
    /\ IF c \in notified THEN UNCHANGED spurious
       ELSE spurious < MaxSpurious /\ spurious' = spurious + 1
    /\ notified' = notified \ {c}
    /\ Go(c, "relock")
    /\ UNCHANGED <<is_attached, started, start_mutex, worker, terminated, starts, overlapped>>

\* ... and the mutex taken again.
Relock(c) ==
    /\ ~terminated
    /\ at[c] = "relock"
    /\ start_mutex = Nobody
    /\ start_mutex' = c
    /\ Go(c, "check")
    /\ UNCHANGED <<is_attached, started, worker, notified, terminated, history>>

\* exec() of the worker: started is set, without the mutex, ...
SetStarted ==
    /\ ~terminated
    /\ worker = "begin"
    /\ started' = TRUE
    /\ worker' = "notify"
    /\ UNCHANGED <<is_attached, start_mutex, at, notified, terminated, history>>

\* Mutant of NotifyAll: without the mutex.
NotifyAllUnlocked ==
    /\ ~terminated
    /\ worker = "notify"
    /\ notified' = {c \in Starters : at[c] = "wait"}
    /\ worker' = "run"
    /\ UNCHANGED <<is_attached, started, start_mutex, at, terminated, history>>

\* ... and who waits is notified, with it.  init() and the loop follow.
NotifyAll ==
    /\ ~terminated
    /\ worker = "notify"
    /\ start_mutex = Nobody
    /\ notified' = {c \in Starters : at[c] = "wait"}
    /\ worker' = "run"
    /\ UNCHANGED <<is_attached, started, start_mutex, at, terminated, history>>

Next ==
    \/ \E c \in Starters : Call(c) \/ Enter(c) \/ Check(c) \/ Sleep(c) \/ Wake(c) \/ Relock(c)
    \/ SetStarted \/ NotifyAll

Spec == Init /\ [][Next]_vars

\* The worker and the threads in start() go on; one that waits may sleep for
\* ever if it is not notified.
Fairness ==
    /\ WF_vars(SetStarted \/ NotifyAll)
    /\ \A c \in Starters :
        WF_vars(Enter(c) \/ Check(c) \/ Sleep(c) \/ Relock(c) \/ (c \in notified /\ Wake(c)))

-----------------------------------------------------------------------------
(* Properties.                                                             *)

\* "always wait for the new task to start" (Task.cpp:110): start() has not
\* returned from anywhere before the worker runs, whatever wakes it up.
ReturnsWhenStarted == \A c \in Starters : starts[c] > 0 /\ at[c] = "out" => started

\* "Prevent multiple starts" (Task.cpp:70): a task that is started again, by any
\* thread, is left alone; only two calls at the same time create two workers.
OnlyOverlapTerminates == terminated => overlapped

\* The notification is never lost between the look at started and the wait:
\* start() returns, unless it runs the attached task.
StartReturns == []<>(is_attached \/ terminated \/ \A c \in Starters : at[c] = "out")

\* start() hands the task over to one worker: it returns when the worker runs,
\* not before, and whoever calls it again finds the task started.
StartHandsOver == [](ReturnsWhenStarted /\ OnlyOverlapTerminates) /\ StartReturns
============================================================================
