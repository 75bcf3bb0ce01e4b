SPECIFICATION MCSpec
CONSTANTS
    q1 = q1
    q2 = q2
    p1 = p1
    p2 = p2
    NoQueue = NoQueue
    Nobody = Nobody
    Queues <- MCTwoQueues
    Producers <- MCTwoProducers
    MaxPush = 3
    Size <- MCSize
    Clearable <- MCClearQ2
    LinkQueues <- MCTwoQueues
    LinkSize <- MCSize
    Publishers <- MCTwoProducers
    MaxPublish = 2
SYMMETRY MCSymmetry
CHECK_DEADLOCK FALSE
INVARIANTS NoStrandedEvent NotificationBound TickKeptAlive SendOrder NoDanglingSubscriber OnePublicationOrder
