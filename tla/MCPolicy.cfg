SPECIFICATION Spec
CONSTANTS
    Links = {wlan}
    Routes = {r4, r6}
    Routes6 = {r6}
    Nets = {wifi, cell}
    QueueCap = 1
    MaxChanges = 3
    MaxFailures = 1
    None = None
INVARIANTS QuietMeansFresh  HookAgreesWithTc
PROPERTY ThreadsProgress
CHECK_DEADLOCK FALSE
