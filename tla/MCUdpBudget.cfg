CONSTANTS
    Workers = {w1, w2}
    Sessions = {s1}
    DnsChannels = {d1}
    Cap = 2
    Slot = 1
    Batch = 2
    NoRelay = NoRelay
SPECIFICATION Spec
SYMMETRY Symmetry
INVARIANTS WithinCap AccountingExact NoLostWakeup
