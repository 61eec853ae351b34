SPECIFICATION SuiteSpec
CONSTANTS
    Parts = {"local"}
    d1 = d1  d2 = d2  d3 = d3
    telemetry = telemetry  history = history
    Docs = {d1, d2, d3}
    Collections = {telemetry, history}
    CollectionOf <- TwoCollections
    Registered = {telemetry}
    Rejected = {}
    BatchSize = 2
    Faults = {}
    BatchDocs = {1, 2, 3, 4, 5}
    BatchCollections = {"a", "b"}
    BatchCollectionOf <- ThirdAndFifth
    Refused = {2}
    Capacity = 2
    Threshold = 2
    MaxRetry = 1
    MayFail = {"mongo", "cancel"}
    Modules <- ThreePaths
    Levels = {0, 1}
    Broken = {9}
    MaxListeners = 2
    MaxChanges = 3
    MaxTroubles = 1
INVARIANT NoDuplicates
