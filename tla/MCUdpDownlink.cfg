SPECIFICATION Spec
CONSTANTS
    Sessions = {s1, s2}
    Slots = {1, 2}
    port = port
    Remotes = {a, b}
    Ports = {port}
    PortOf <- OnePort
    Fds = {f1, f2}
    IdleTimeout = 1
    None = None
    Channels = {x1, x2}
    Listener = Listener
    Batch = 2
    BudgetCap = 3
    OthersHold = {0, 3}
    MaxEvents = 1
    MaxGeneration = 2
SYMMETRY Symmetry
INVARIANTS CountersExact PausedForReason RepliesFaithful NoEventOfFreed
