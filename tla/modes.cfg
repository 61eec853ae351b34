SPECIFICATION FairSpec
CONSTANTS
    Modes <- MCModes
    Priority <- MCPriority
    Kind <- MCKind
    Slow = {"island"}
    Suppress = {"bypass"}
    BaseModes = {"pq", "bypass"}
    Manual = {"bypass", "stop"}
    Events <- MCIslanding
    Cooldown <- MCIslandingCooldown
    Operators = {"op"}
    Run = "run"
    NotSet = NotSet
    Cascades = TRUE
    EarlyStop = FALSE
    Faults = {"execute", "hook"}
INVARIANTS TypeOK EffectiveRuns NoStray
PROPERTIES EventsFollow TriggerServed StopReturns
