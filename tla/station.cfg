SPECIFICATION StationSpec
CONSTANTS
    Parts = {"power", "strategies", "inputs", "settings", "history", "heartbeat", "microgrid", "aggregation",
             "telemetry", "states", "gateway", "sync", "emitter", "monitor",
             "sinks", "contexts", "panel", "modes panel", "batcher", "narrow batcher"}
    Registry <- Fleet
    Rated <- Ratings
    Gain = 2
    MaxEach = 40
    Rules <- Chain
    Targets <- Orders
    Fleets <- Charges
    Meters <- Flows
    Percents = {50, 100}
    Band = 10
    SocLow = 10
    SocHigh = 90
    Boosts = {110}
    EventIds = {1, 2, 3, 4}
    QueueSize = 3
INVARIANTS StationTypes ReportsFollow Attended InputsTrue Guarded
PROPERTY StepsHold
CHECK_DEADLOCK FALSE
