SPECIFICATION MCSpec
CONSTANTS
    t1 = t1
    t2 = t2
    t3 = t3
    q1 = q1
    q2 = q2
    p1 = p1
    c1 = c1
    c2 = c2
    Nobody = Nobody
    NoQueue = NoQueue
    NoValue = NoValue
    Timers <- MCTimers
    Repeating <- MCRepeating
    Intervals <- MCIntervals
    Queues <- MCQueues
    Size <- MCSize
    MaxSignal = 3
CHECK_DEADLOCK FALSE
INVARIANT OneWakeUp
PROPERTIES TimersKept EventuallyServed InterruptsArrive StartHandsOver
