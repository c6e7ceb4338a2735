SPECIFICATION Spec
CONSTANTS
    r1 = r1
    r2 = r2
    r3 = r3
    k1 = k1
    k2 = k2
    k3 = k3
    Readers = {r1, r2, r3}
    Chunks = {k1, k2, k3}
    Objs = {1, 2, 3, 4, 5, 6}
    None = None
    Closer = Closer
    MaxChunks = 2
    MaxFails = 1
INVARIANT RingMatchesChunks
INVARIANT ReadOnce
INVARIANT ErrorsNotKept
INVARIANT ReadsWhileOpen
INVARIANT NobodyWaitsInVain
SYMMETRY Symmetry
