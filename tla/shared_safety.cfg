SPECIFICATION PlantSpec
CONSTANTS
    t1 = t1  t2 = t2  t3 = t3
    c1 = c1  c2 = c2  c3 = c3
    e1 = e1  e2 = e2
    Callers = {t1, t2, t3}
    Clients = {c1, c2, c3}
    Endpoints = {e1, e2}
    ClientOf <- OneEach
    EndpointOf <- TwoPlaces
    Instances = {i1, i2}
    MaxBacklog = 1
    MaxRefs = 3
    Vacant = Vacant
    Targeted = {"a"}
    Points = {"a1", "a2"}
    DeviceOf <- SameDevice
    Mappings <- TwoFields
    MaxCommands = 2
    Troubles = {{"reset"}, {"refuse"}, {"down", "raise"}, {"protect"}, {"unregister"}}
    Readers = {"loop", "group"}
    Threshold = 2
    ActivateAfter = 2
    ClearAfter = 2
    MayFail = {"repository"}
    Nodes = {"n1", "n2"}
    WriteCommands = {"w", "bad"}
    Actions = {"stop"}
    Invalid = {"bad"}
    MaxSent = 2
    CommandFaults = {"repository", "device", "redis", "crash"}
    PlantDevices = {"a", "b"}
    Capable = {"a"}
    CommandSteps <- Procedure
    Executions = {"e1", "e2"}
    Polls = 1
    MaxChanges = 2
    Parts = {"clients", "device", "can", "data", "redis", "fleet", "commands", "system",
             "routing", "schedule", "shedding", "remote", "stores"}
INVARIANTS PlantTypes ConnectionsHeld RecordsAgree JournalTruthful RecordsAndOrders CommandsPersist DataSound
PROPERTY StepsSound
CHECK_DEADLOCK FALSE
