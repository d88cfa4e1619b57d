SPECIFICATION FairSpec
CONSTANTS
    Request = 2
    Reply = 2
    ResponseCap = 3
    Capacity = 2
    RecvBuf = 2
    SendBuf = 1
    MaxSent <- SentBound
CHECK_DEADLOCK FALSE
INVARIANTS NothingLost NoSilentTruncation 
 
