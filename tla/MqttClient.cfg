SPECIFICATION MCSpec
CONSTANTS
    Plans <- MCPlans
    QoSOf <- MCQoSOf
    TopicOf <- MCTopicOf
    IdRange = 8
    MaxOutgoing = 2
    TxSize = 2
INVARIANTS PacketsReadBack PublicationsKept
PROPERTIES SessionKept
CHECK_DEADLOCK FALSE
