SPECIFICATION HSpec
CONSTANTS
    Requests = {r1, r2, r3}
    Units = {u1, u2}
    Timeouts = {1, 3}
    MaxQueueSize = 2
    DrainTimeout = 1
    NoRequest = NoRequest
    Threshold = 1
    Cooldown = 1
    MaxCooldown = 2
    Factor = 2
    JitterPercent = {80, 120}
SYMMETRY Symmetry
VIEW View
INVARIANTS TypeOK SizeExact NoLostWakeup
PROPERTIES InTurn StepsSound KeepsPromise
CHECK_DEADLOCK FALSE
