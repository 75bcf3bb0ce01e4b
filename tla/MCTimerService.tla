--------------------------- MODULE MCTimerService ---------------------------
(* Where events come from and who serves them, under fairness: the timer     *)
(* service, a thread that sends to two queues of a task, two queues that     *)
(* interrupts feed, and the start of a task, each on its own.                *)
EXTENDS TimerService, ISRTaskEventQueue

CONSTANTS t1, t2, t3, q1, q2, p1, c1, c2, Nobody

MCTimers == {t1, t2, t3}
MCRepeating == {t1}
MCIntervals == {1, 2}
MCQueues == {q1, q2}
MCSize == [q \in {q1, q2} |-> IF q = q1 THEN 2 ELSE 1]

VARIABLES part,
          waiting, wakeUps, queueLife, pushed, sent, clearing, step, working, overdue,
          handled, late, senders, cleared,
          is_attached, started, start_mutex, place, worker, woken, terminated, starts, spurious,
          overlapped

\* One sender, no clear().
Q == INSTANCE TaskEventQueue
       WITH Producers <- {p1}, MaxPush <- 4, Clearable <- {}, items <- waiting,
            notifications <- wakeUps, life <- queueLife, pc <- step, current <- working,
            delivered <- handled
S == INSTANCE TaskStart
       WITH Starters <- {c1, c2}, MaxStarts <- 2, MaxSpurious <- 2, at <- place, notified <- woken

queueVars == <<waiting, wakeUps, queueLife, pushed, sent, clearing, step, working, overdue,
               handled, late, senders, cleared>>
startVars == <<is_attached, started, start_mutex, place, worker, woken, terminated, starts,
               spurious, overlapped>>

\* The state of a part that is not looked at: it can take no step.
TimerRests ==
  /\ queue = <<>> /\ left = [t \in Timers |-> 0] /\ timer_interval = [t \in Timers |-> 1]
  /\ state = [t \in Timers |-> "stopped"] /\ fired = [t \in Timers |-> FALSE]
  /\ pc = "none" /\ processed = <<>> /\ deadline = 0 /\ current_queue_length = 0
  /\ notified = FALSE /\ disturbed = FALSE
QueueRests ==
  /\ waiting = [q \in Queues |-> <<>>] /\ wakeUps = <<>>
  /\ queueLife = [q \in Queues |-> "gone"] /\ pushed = [p \in {p1} |-> NoQueue]
  /\ sent = [p \in {p1} |-> 0] /\ clearing = {} /\ step = "wait" /\ working = NoQueue
  /\ overdue = FALSE /\ handled = <<>> /\ late = 0
  /\ senders = [q \in Queues |-> {}] /\ cleared = {}
IsrRests ==
  /\ items = [q \in Queues |-> <<>>] /\ signalled = [q \in Queues |-> 0]
  /\ signalling = [q \in Queues |-> NoValue]
  /\ read_since_poll = [q \in Queues |-> TRUE] /\ polled = <<>> /\ notifications = <<>>
  /\ life = [q \in Queues |-> "gone"] /\ at = "terminated" /\ current = NoQueue
  /\ delivered = [q \in Queues |-> <<>>]
StartRests ==
  /\ is_attached = FALSE /\ started = FALSE /\ start_mutex = Nobody
  /\ place = [c \in {c1, c2} |-> "out"] /\ worker = "none" /\ woken = {}
  /\ terminated = TRUE /\ starts = [c \in {c1, c2} |-> 0] /\ spurious = 0
  /\ overlapped = TRUE

MCInit ==
  \/ part = "timer" /\ Init /\ QueueRests /\ IsrRests /\ StartRests
  \/ part = "queue" /\ TimerRests /\ Q!Init /\ IsrRests /\ StartRests
  \/ part = "isr" /\ TimerRests /\ QueueRests /\ IsrInit /\ StartRests
  \/ part = "start" /\ TimerRests /\ QueueRests /\ IsrRests /\ S!Init
MCNext ==
  /\ UNCHANGED part
  /\ \/ part = "timer" /\ Next /\ UNCHANGED <<queueVars, isrTaskVars, startVars>>
     \/ part = "queue" /\ Q!Next /\ UNCHANGED <<vars, isrTaskVars, startVars>>
     \/ part = "isr" /\ IsrNext /\ UNCHANGED <<vars, queueVars, startVars>>
     \/ part = "start" /\ S!Next /\ UNCHANGED <<vars, queueVars, isrTaskVars>>
MCvars == <<part, vars, queueVars, isrTaskVars, startVars>>
MCSpec ==
  MCInit /\ [][MCNext]_MCvars /\ Fairness /\ Q!Fairness /\ IsrFairness /\ S!Fairness

\* A running timer is held by the service and fires; it is late only after a
\* removal, and then never falls back behind timers that are not (Punctual,
\* LateTimersAdvance of TimerService).
TimersKept ==
  /\ [](part = "timer" => TypeOK /\ ServiceHoldsRunningTimers /\ Punctual)
  /\ LateTimersAdvance
  /\ StartedTimerFires

\* Of TaskEventQueue and TaskStart, see there.
EventuallyServed == Q!EventuallyServed
StartHandsOver == S!StartHandsOver
=============================================================================
