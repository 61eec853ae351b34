SPECIFICATION Spec
CONSTANTS
    Requests = {r1, r2}
    Units = {u1}
    Timeouts = {2}
    MaxQueueSize = 0
    DrainTimeout = 2
    NoRequest = NoRequest
    Threshold = 1
    Cooldown = 2
    MaxCooldown = 4
    Factor = 2
    JitterPercent = {100}
INVARIANT
    OnTime
CHECK_DEADLOCK FALSE
