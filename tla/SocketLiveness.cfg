SPECIFICATION FairSpec
CONSTANTS
    Sockets = {s1}
    Releasing = {s1}
    Fds = {0, 1}
    OpLimit = 3
    MaxStarts = 2
INVARIANTS
    OnlyRaceMisleads
PROPERTIES
    LostConnectionCloses
