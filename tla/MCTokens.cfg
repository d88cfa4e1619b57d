SPECIFICATION Spec
CONSTANTS
    l1 = l1  l2 = l2  h1 = h1  a = a  b = b  t1 = t1  t2 = t2  t3 = t3  t4 = t4  t5 = t5  t6 = t6  c1 = c1  c2 = c2
    Sockets = {l1, l2}
    Hosts = {h1}
    Dsts = {a, b}
    DnsDsts = {b}
    Tokens = {t1, t2, t3, t4, t5, t6}
    Cpus = {c1, c2}
    Hashes <- MCHashes
    Casts <- MCCasts
    MaxWire = 2
    None = None
SYMMETRY Symmetry
INVARIANTS RightDestination  Transparent NotPassed
CHECK_DEADLOCK FALSE
