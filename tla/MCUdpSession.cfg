CONSTANTS
    Slots = {1, 2}
    Clients = {c1, c2, c3}
    IdleTimeout = 2
    ConnectTimeout = 1
    Batch = 2
    MaxEvents = 3
    MaxQueued = 1
    Forever = Forever
    None = None
SPECIFICATION Spec
SYMMETRY Symmetry
INVARIANTS PoolExact NothingDueAsleep SlotsNotConfused
