CONSTANTS
    connect = connect
    peer = peer
    Ordinary <- Leaf1
    Cap = "cap"
    Peer = "peer"
    HookOf <- Hook2
    Exclusive = {connect}
    Gens = {g1, g2}
    None = None
    InitialHooks <- InitialHooks2
    Procs = {p1, p2}
    Inodes = {i1, i2}
    MaxEdits = 1
    MaxCrashes = 1
SPECIFICATION Spec
SYMMETRY Symmetry
INVARIANTS Recoverable  
 
CHECK_DEADLOCK FALSE
