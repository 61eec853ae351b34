------------------------------- MODULE MCPlant -------------------------------
(***************************************************************************)
(* The field side of the plant, one component in each behaviour, named by  *)
(* part; the components not chosen stay in their initial states.  The      *)
(* constants are of a size for TLC.  A variable whose name two components  *)
(* have bears the other one's name here as well.                           *)
(***************************************************************************)
EXTENDS SharedClient, CommandRouting, Device, PlantCommands, TLC

CONSTANTS
    Parts,        \* the components looked at
    t1, t2, t3, c1, c2, c3, e1, e2

\* Tasks t1 and t2 use one endpoint through a client each, t3 another endpoint.
OneEach == t1 :> c1 @@ t2 :> c2 @@ t3 :> c3
TwoPlaces == c1 :> e1 @@ c2 :> e1 @@ c3 :> e2

\* Two points of one device, set by a field of a command each.
SameDevice == [p \in Points |-> "a"]
TwoFields == << <<"a1">>, <<"a2">> >>

\* System commands: all devices first, with a check; then one of them.
Procedure == << [trait |-> TRUE, devices |-> {}, check |-> TRUE],
                [trait |-> FALSE, devices |-> {"a"}, check |-> FALSE] >>

VARIABLES
    part,
    client, device, silence, snapshots, due, emitter, shown, values, frame, written, sender,
    wire, asking, overtaken, closing, calls,
    registers, layout, turn, readingData, since, latestData, disabled, raised, writing,
    toggling, pulses, wanted, broken, failed, callsData,
    clientRedis, sentinel, made, linked, upRedis, field, call, borrowed, read, meant,
    tangled, callsRedis, troubles,
    registeredFleet, subscribed, entries, traits, index, watched, caps, words, running, startAt,
    stopAt, starting, stopping, removing, upFleet, readingFleet, looping, emits, callsFleet,
    changesFleet, crossedFleet, missed,
    day, hour, rules, edits, poll, stoppingSched, key, mode, inBase, dueSched, strayed,
    strategy, shed, held, asked, pending, acting, leaving, open, calm, wrong,
    condition, upRemote, redis, channel, received, runningRemote, cached, polling, override,
    cycle, sentRemote, steady, warned, changesRemote, troublesRemote,
    backend, opened, rows, last, durable, lockStore, taskStore, heldStore, time, acked,
    delivered, callsStore, faults

-----------------------------------------------------------------------------

\* Two signals of one frame.
Frame == [lo |-> [start |-> 0, bits |-> 2, low |-> 0, high |-> 9],
          hi |-> [start |-> 2, bits |-> 2, low |-> 1, high |-> 2]]

Can == INSTANCE CanDevice WITH
    Signals <- Frame, Writes <- {0, 3}, Readings <- {7}, Readers <- {"r1", "r2"},
    Evaluators <- {}, RxTimeout <- 1, MaxEvents <- 3, MaxCalls <- 4

\* A point of two registers, one that shares its first, a float and a switch.
Point(addr, size, low, signed, float, scale, offset, when, safe) ==
    [addr |-> addr, size |-> size, low |-> low, signed |-> signed, float |-> float,
     scale |-> scale, offset |-> offset, turn |-> when, guarded |-> safe]
FieldPoints == [big |-> Point(0, 2, TRUE, TRUE, FALSE, 2, 1, 0, FALSE),
                part |-> Point(0, 1, FALSE, FALSE, FALSE, 1, 0, 0, FALSE),
                temp |-> Point(3, 1, FALSE, FALSE, TRUE, 1, 0, 1, TRUE),
                sw |-> Point(2, 1, FALSE, FALSE, FALSE, 1, 0, 2, FALSE)]

Data == INSTANCE DataPath WITH
    Points <- FieldPoints, Layouts <- <<{"big", "part", "temp", "sw"}, {"big", "sw"}>>,
    Turns <- 2, Word <- 4, MaxLength <- 3, Switch <- "sw", Readers <- {"loop"},
    Togglers <- {"t1", "t2"},
    Inputs <- [temp |-> {2, 3}], Settings <- [big |-> {-3, 2, 3}], Limit <- 1, MaxFail <- 1,
    MaxCalls <- 3, latest <- latestData, reading <- readingData, calls <- callsData

Redis == INSTANCE RedisClient WITH
    Callers <- {"t1", "t2", "t3"}, SentinelMode <- TRUE, Texts <- {"abc", "7"},
    Numbers <- {7}, Json <- [n \in {7} |-> "7"], MaxCalls <- 4, MaxTroubles <- 1,
    client <- clientRedis, up <- upRedis, calls <- callsRedis

Fleet == INSTANCE DeviceFleet WITH
    Standalone <- {"a"}, Group <- <<"b">>, Caps <- {"x"}, MaxCalls <- 2, MaxChanges <- 1,
    registered <- registeredFleet, crossed <- crossedFleet, up <- upFleet,
    reading <- readingFleet, calls <- callsFleet, changes <- changesFleet

\* A rule for every night, which an operator may switch off; one that comes before it,
\* on one day of the week; one for a day, whose strategy cannot be built.
Night(on) ==
    [name |-> "night", type |-> "daily", days |-> {}, start |-> 2, end |-> 0,
     first |-> 0, last |-> 0, priority |-> 1, enabled |-> on,
     strategy |-> "pq", config |-> "low"]
Weekday ==
    [name |-> "day", type |-> "weekly", days |-> {0}, start |-> 0, end |-> 1,
     first |-> 0, last |-> 0, priority |-> 2, enabled |-> TRUE,
     strategy |-> "qv", config |-> "c"]
Once == [Weekday EXCEPT !.type = "once", !.days = {}, !.end = 1, !.first = 1,
                        !.last = 1, !.priority = 1, !.strategy = "island"]

Schedule == INSTANCE ScheduleService WITH
    Versions <- {Night(TRUE), Night(FALSE), Weekday, Once}, NoRule <- [name |-> "none"],
    Built <- {"pq", "qv"}, Hours <- 3, Week <- 2, LastDay <- 1, MaxEdits <- 3,
    MayFail <- {"repository", "hook"}, stopping <- stoppingSched, due <- dueSched

Shedding == INSTANCE LoadShedding WITH
    Stages <- {1, 2}, CircuitsOf <- << <<"a", "b">>, <<"c">> >>, ShedBelow <- <<2, 1>>,
    RestoreAbove <- <<2, 1>>, Levels <- {0, 2, 3}, MaxPending <- 1, MinHold <- 1,
    RestoreDelay <- 1, MayFail <- {"circuit"}

\* Two axes, and commands that leave one of them alone: that ends the route at the first, and
\* is passed over at the second, whose transform raises.
Axes == << [axis |-> "p", to |-> <<"a">>, transform |-> FALSE],
           [axis |-> "q", to |-> <<"a", "b">>, transform |-> TRUE] >>

Remote == INSTANCE RemoteControl WITH
    Devices <- <<"a", "b">>, SiteOf <- [a |-> "s", b |-> "t"], Mappings <- Axes,
    Commands <- {[q |-> 0], [p |-> 0]}, Unsteady <- {"a"}, MaxChanges <- 1, MaxTroubles <- 1,
    MaxFlight <- 1, up <- upRemote, running <- runningRemote, sent <- sentRemote,
    changes <- changesRemote, troubles <- troublesRemote

Stores == INSTANCE BufferStores WITH
    Backends <- {"sqlite", "mongo"}, Keys <- {"k1", "k2"}, Tasks <- {"t1", "t2"}, Limit <- 1,
    MaxTime <- 1, MaxCalls <- 4, MaxFaults <- 1, lock <- lockStore, task <- taskStore,
    held <- heldStore, calls <- callsStore

-----------------------------------------------------------------------------

canVars == <<client, device, silence, snapshots, due, emitter, shown, values, frame,
             written, sender, wire, asking, overtaken, closing, calls>>
dataVars == <<registers, layout, turn, readingData, since, latestData, disabled, raised,
              writing, toggling, pulses, wanted, broken, failed, callsData>>
redisVars == <<clientRedis, sentinel, made, linked, upRedis, field, call, borrowed, read,
               meant, tangled, callsRedis, troubles>>
fleetVars == <<registeredFleet, subscribed, entries, traits, index, watched, caps, words,
               running, startAt, stopAt, starting, stopping, removing, upFleet,
               readingFleet, looping, emits, callsFleet, changesFleet, crossedFleet, missed>>
scheduleVars == <<day, hour, rules, edits, poll, stoppingSched, key, mode, inBase, dueSched,
                  strayed>>
sheddingVars == <<strategy, shed, held, asked, pending, acting, leaving, open, calm, wrong>>
remoteVars == <<condition, upRemote, redis, channel, received, runningRemote, cached, polling,
                override, cycle, sentRemote, steady, warned, changesRemote, troublesRemote>>
storeVars == <<backend, opened, rows, last, durable, lockStore, taskStore, heldStore, time,
               acked, delivered, callsStore, faults>>

fieldbus == <<vars, deviceVars, canVars, dataVars>>
stores == <<redisVars, fleetVars, executionVars, systemCommandVars>>
control == <<routingVars, scheduleVars, sheddingVars>>
away == <<remoteVars, storeVars>>

\* A component that may start in several ways does so where it is looked at.
PlantInit ==
    /\ part \in Parts
    /\ part # "device" => reader = "loop"
    /\ part # "routing" => trouble = {"reset"}
    /\ part # "remote" => condition = [d \in {"a", "b"} |-> [link |-> TRUE, alarm |-> FALSE]]
    /\ part # "stores" => backend = "sqlite"
    /\ Init /\ DeviceInit /\ Can!Init /\ Data!Init /\ Redis!Init
    /\ Fleet!Init /\ ExecutionInit /\ SystemInit /\ RoutingInit /\ Schedule!Init
    /\ Shedding!Init /\ Remote!Init /\ Stores!Init

PlantNext ==
    \/ /\ part = "clients" /\ Next
       /\ UNCHANGED <<part, deviceVars, canVars, dataVars, stores, control, away>>
    \/ /\ part = "device" /\ DeviceNext
       /\ UNCHANGED <<part, vars, canVars, dataVars, stores, control, away>>
    \/ /\ part = "can" /\ Can!Next
       /\ UNCHANGED <<part, vars, deviceVars, dataVars, stores, control, away>>
    \/ /\ part = "data" /\ Data!Next
       /\ UNCHANGED <<part, vars, deviceVars, canVars, stores, control, away>>
    \/ /\ part = "redis" /\ Redis!Next
       /\ UNCHANGED <<part, fieldbus, fleetVars, executionVars, systemCommandVars, control, away>>
    \/ /\ part = "fleet" /\ Fleet!Next
       /\ UNCHANGED <<part, fieldbus, redisVars, executionVars, systemCommandVars, control, away>>
    \/ /\ part = "commands" /\ ExecutionNext
       /\ UNCHANGED <<part, fieldbus, redisVars, fleetVars, systemCommandVars, control, away>>
    \/ /\ part = "system" /\ SystemNext
       /\ UNCHANGED <<part, fieldbus, redisVars, fleetVars, executionVars, control, away>>
    \/ /\ part = "routing" /\ RoutingNext
       /\ UNCHANGED <<part, fieldbus, stores, scheduleVars, sheddingVars, away>>
    \/ /\ part = "schedule" /\ Schedule!Next
       /\ UNCHANGED <<part, fieldbus, stores, routingVars, sheddingVars, away>>
    \/ /\ part = "shedding" /\ Shedding!Next
       /\ UNCHANGED <<part, fieldbus, stores, routingVars, scheduleVars, away>>
    \/ /\ part = "remote" /\ Remote!Next
       /\ UNCHANGED <<part, fieldbus, stores, control, storeVars>>
    \/ /\ part = "stores" /\ Stores!Next
       /\ UNCHANGED <<part, fieldbus, stores, control, remoteVars>>

PlantSpec == PlantInit /\ [][PlantNext]_<<part, fieldbus, stores, control, away>>

-----------------------------------------------------------------------------

\* Every variable of the component looked at holds a value of its kind.
PlantTypes ==
    CASE part = "clients" -> TypeOK
      [] part = "device" -> DeviceTypes
      [] part = "can" -> Can!CanTypes
      [] part = "data" -> Data!DataTypes
      [] part = "redis" -> Redis!ClientTypes
      [] part = "fleet" -> Fleet!FleetTypes
      [] part = "commands" -> ExecutionTypes
      [] part = "system" -> SystemCommandTypes
      [] part = "routing" -> RoutingTypes
      [] part = "schedule" -> Schedule!ScheduleTypes
      [] part = "shedding" -> Shedding!SheddingTypes
      [] part = "remote" -> Remote!RemoteTypes
      [] part = "stores" -> Stores!StoreTypes

\* The records are what happened: the report of a system command,
\* the index of the devices' traits, a store of documents.
\* And what was ordered is what there is: stages of load shedding, a schedule, the axes of
\* remote devices, the connections of a fleet.
RecordsAndOrders ==
    /\ part = "system" => StepsInTurn
    /\ part = "fleet" => Fleet!TraitsFollow /\ Fleet!NothingLeft
    /\ part = "stores" => Stores!StoreKept
    /\ part = "shedding" => Shedding!CircuitsFollow
    /\ part = "schedule" => Schedule!ScheduleFollows
    /\ part = "remote" => Remote!AxesArrive

\* Data come through whole: read from registers, from CAN frames, from the hashes of a Redis
\* client, which has one connection; and without alarm evaluators the silence of a CAN
\* device is noticed.
DataSound ==
    /\ part = "data" => Data!ReadsCoherent /\ Data!NaNHarmless /\ Data!TogglesAlternate
    /\ part = "can" => Can!CanSound /\ Can!TimeoutNoticed
    /\ part = "redis" => Redis!HashTrue /\ Redis!OneConnection

\* A step of an alarm debounces, one of a stage has waited, one of a write arrives, and
\* none sends a command to a remote device with an alarm.
StepsSound ==
    Debounced /\ Shedding!Settled /\ Data!WritesArrive /\ Remote!AlarmedLeftAlone
=============================================================================
