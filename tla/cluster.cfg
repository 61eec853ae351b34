SPECIFICATION ControlSpec
CONSTANTS
    Nodes = {n1, n2}
    TTL = 12
    Interval = 4
    Poll = 6
    RetryDelay = 1
    Grace = 3
    MaxFailures = 1
    Patience = 1
    Faults = {"rpc", "crash", "stop"}
    None = None
    Modes = {"pq", "qv"}
    Configured <- BothPq
    MaxSwitches = 1
    MaxTerms = 2
    MayFail = {"redis", "crash", "expire"}
INVARIANTS ControlTypes AtMostOneController CommandsArrive ModesSurvive
PROPERTIES Replaced LeaderKnown
CHECK_DEADLOCK FALSE
