SPECIFICATION Spec
CONSTANTS
    Nodes = {n1, n2}
    TTL = 12
    Interval = 4
    Poll = 6
    RetryDelay = 1
    Grace = 3
    MaxFailures = 3
    Patience = 1
    Faults = {"rpc"}
    None = None
INVARIANT AtMostOneController
