SPECIFICATION MCSpec
CONSTANTS
    t1 = t1
    t2 = t2
    Threads <- MCThreads
    Locks <- MCLocks
    Limits <- MCLimits
    Values <- MCValues
    MaxSaves = 2
    MaxReads = 3
    MaxCrashes = 1
INVARIANTS NoLostWakeup SavedIsThere PathsAgree
PROPERTIES OpenWithinLimit ReadsReturn
