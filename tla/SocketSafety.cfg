SPECIFICATION Spec
CONSTANTS
    Sockets = {s1, s2}
    Releasing = {}
    Fds = {0}
    OpLimit = 2
    MaxStarts = 2
INVARIANTS
    RegistryAgrees
    NoLeakedDescriptor
SYMMETRY SocketSymmetry
