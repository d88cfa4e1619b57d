CONSTANTS
    port = port
    Ports = {port}
    Clients = {c4, c6}
    PortOf <- SamePort
    Retry = 1
    Recent = 1
    MaxDelay = 0
    None = None
SPECIFICATION Spec
SYMMETRY Symmetry
INVARIANT NoneForgotten
PROPERTY UsersKept
