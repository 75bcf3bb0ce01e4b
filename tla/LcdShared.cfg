SPECIFICATION MCSpec
CONSTANTS
    t1 = t1
    t2 = t2
    d1 = d1
    d2 = d2
    NoThread = NoThread
    NoDisplay = NoDisplay
    Displays = {d1, d2}
    MaxOps <- MCMaxOps
    MaxRefusals = 1
    Users = {"u1", "u2"}
    MaxCalls = 3
    Words <- MCWords
    Flips <- MCFlips
    DhtBytes <- MCDhtBytes
CHECK_DEADLOCK FALSE
INVARIANT GuardSeparatesDisplays
