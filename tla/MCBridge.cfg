CONSTANTS
    MaxWorkers = 2
    AutoWorkers = {1, 2}
    MaxTcp = 4
    DefaultTcp = 3
    DefaultUdp = 2
    DefaultBindings = 3
    TcpFds = 6
    UdpFds = 2
    BindingFds = 1
    StaticFds = 4
    WorkerFds = 3
    Unlimited = Unlimited
    Requests <- Requests2
    Nofiles <- Nofiles2
    Opens = {0}
    None = None
SPECIFICATION Spec
INVARIANTS OrderlyEnd EveryWorkerHasRoom
PROPERTY StopEnds
