SPECIFICATION Spec
CONSTANTS
    Modes <- MCModes
    Priority <- MCPriority
    Kind <- MCKind
    Slow = {"island"}
    Suppress = {"bypass"}
    BaseModes = {"pq"}
    Manual = {"island"}
    Events <- MCStopping
    Cooldown <- MCStoppingCooldown
    Operators = {"op"}
    Run = "run"
    NotSet = NotSet
    Cascades = TRUE
    EarlyStop = FALSE
    Faults = {}
INVARIANT EventWins
