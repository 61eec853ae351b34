------------------------------ MODULE MCStation ------------------------------
(***************************************************************************)
(* What surrounds the devices, one component in each behaviour, named by   *)
(* part; the components not chosen stay in their initial states.  The      *)
(* constants are of a size for TLC.  A variable whose name two components  *)
(* have bears the other one's name here as well.                           *)
(***************************************************************************)
EXTENDS PowerPath, EventEmitter, TLC

CONSTANTS Parts   \* the components looked at

VARIABLES
    part,
    layers, freq, volt, history, off, last, ramp, relay, next, cal, table, switches,
    device, registered, traits, queue, feeds, buffer, param, setting, heard, lastUp,
    calling, status, contextIn, group, remote, fed, crossed, events, calls,
    loop, stopping, paused, atBeat, counters, statusBeat, answering, taken, silent, excused,
    spoilt, changes,
    serving, registers, pcs, alarms, gen, solar, load, links, aggs, raw, changesGrid,
    active, telling, publisher, out, listening, channel, remoteAgg, astray,
    kind, plan, plantTel, lineTel, workerTel, reader, leader, redis, told, target, stored, acc,
    missed, crossedTel, lost, count,
    server, answer, reg, saving, storedGw, astrayGw, idle, timed, watch, due, toldGw,
    unpaired,
    serverSync, loopSync, deviceSync, regs, paramsSync, channelSync, asked, written, said,
    lostSync, quiet, changesSync,
    runningMon, atMon, activeMon, countMon, unsent, bytes, health, redisMon, key, own,
    shared, notified, round, snapshot, ticked, time, lostMon, gone, outage, moved, troubles,
    handlers, managed, sent, queueLog, inHand, drain, closing, capture, bound, entered,
    token, accepted, handled, before, reused, callsLog,
    attached, snapshots, members, socket, linePanel, sending, pending, base, overrides,
    config, condition, activePanel, exported, request, cast, received, joined, cut,
    emittedPanel, toldPanel, met, callsPanel,
    waiting, flush, service, what, beforeStop

-----------------------------------------------------------------------------

\* Fleets that are balanced, nearly full, nearly empty, and of unknown charge.
Fleet == <<"a", "b", "c">>
Ratings == [a |-> 30, b |-> 30, c |-> 60]
Chain == <<"fixed", "soc", "reverse", "grid", "alarm", "ramp">>
Balanced == [a |-> 50, b |-> 50, c |-> 50]
Charges ==
    {Balanced, [a |-> 95, b |-> 60, c |-> 40],
     [a |-> 90, b |-> 95, c |-> -1], [a |-> -1, b |-> -1, c |-> -1],
     [a |-> 5, b |-> 95, c |-> 50]}
Orders == {-120, -50, 100}
Flows == {-20, 30}

\* Every strategy alone, and two cascades.
Layers ==
    {<<"pq">>, <<"pq", "qv">>, <<"fp", "qv">>, <<"droop">>, <<"fp">>, <<"qv">>, <<"smooth">>,
     <<"ramp">>, <<"island">>, <<"calibrate">>, <<"bypass">>, <<"stop">>}

Strat == INSTANCE Strategies WITH
    Offsets <- <<-50, -25, -2, 2, 25, 50>>, Percents <- <<100, 52, 9, -9, -52, -100>>,
    PBase <- 100, QBase <- 100, FullDroop <- 300, DroopBand <- 5, DroopMax <- 30,
    ScheduleP <- 20, VoltBand <- 5, VoltSpan <- 100, QMax <- 50, PQ <- [p |-> 60, q |-> 0],
    RampLimit <- 10, PvLoss <- 5, MinHistory <- 2, MaxHistory <- 2, RampStep <- 40,
    SMax <- 70, PFirst <- TRUE, CalBins <- <<50, 100, -50>>, SteadyCycles <- 2,
    SettleCycles <- 1, SteadyPercent <- 2, Freqs <- {-60, -40, -30, 0, 10, 40},
    Volts <- {-60, 0, 8, 90}, Solars <- {0, 80}, Shares <- {100, 99, 90},
    Layerings <- Layers, Switchable <- {"fp", "droop", "qv", "smooth", "ramp"}, MaxGap <- 1,
    SyncLooks <- 1, MaxSwitches <- 1

Measured == {0, 10, -2}   \* -2 is NaN
Unset == -1

\* A field of each source.
Field(source, aggregate, default) ==
    [source |-> source, device |-> "none", aggregate |-> aggregate, default |-> default,
     fails |-> {}, ratio |-> 0]
Fields ==
    [soc |-> Field("trait", "average", 5),
     lo |-> [Field("trait", "min", Unset) EXCEPT !.fails = {0}],
     p |-> Field("param", "none", 5),
     v |-> [Field("device", "none", Unset) EXCEPT !.device = "d1"],
     all |-> [Field("capability", "sum", Unset) EXCEPT !.ratio = 60],
     g |-> Field("group", "max", 5)]

Inputs == INSTANCE ControlInputs WITH
    Order <- <<"d1", "d2">>, Readings <- Measured, Trait <- {"d1", "d2"}, Group <- {"d2"},
    Feed <- [device |-> "none", aggregate |-> "max"], Fields <- Fields, Params <- {1, 2},
    Threads <- {"t1", "t2"}, MaxHistory <- 1, MaxEvents <- 2, MaxCalls <- 2,
    context <- contextIn

\* Three readings, more than the history has room for, of two values.
Past == INSTANCE ControlInputs WITH
    Order <- <<"d1", "d2">>, Readings <- {0, 10}, Trait <- {"d1", "d2"}, Group <- {"d2"},
    Feed <- [device |-> "none", aggregate |-> "max"],
    Fields <- Fields, Params <- {1}, Threads <- {"t1"}, MaxHistory <- 2,
    MaxEvents <- 3, MaxCalls <- 1, context <- contextIn

\* A third call, for a device that is told up, goes and is told down; with one reading and
\* one parameter.
Settings == INSTANCE ControlInputs WITH
    Order <- <<"d1", "d2">>, Readings <- {10}, Trait <- {"d1", "d2"}, Group <- {"d2"},
    Feed <- [device |-> "none", aggregate |-> "max"], Fields <- Fields, Params <- {1},
    Threads <- {"t1", "t2"}, MaxHistory <- 1, MaxEvents <- 2, MaxCalls <- 3,
    context <- contextIn

\* One mapping to the devices of a trait, one to a device.
Beating == << [by |-> "trait", to |-> <<"a", "b">>, mode |-> "toggle"],
              [by |-> "target", to |-> <<"c">>, mode |-> "increment"] >>

Beats == INSTANCE Heartbeat WITH
    Devices <- {"a", "b", "c"}, Routes <- Beating, IncrementMax <- 2, MaxChanges <- 1,
    MaxSilence <- 1, MayFail <- {"device", "other"}, status <- statusBeat, at <- atBeat

\* Sums of sums, one of them in a circle.
Metering == {[target |-> "m3", sources |-> {"m1", "m2"}], [target |-> "m2", sources |-> {"m1"}],
             [target |-> "m1", sources |-> {"m3"}]}

Grid == INSTANCE Microgrid WITH
    AlarmModes <- [a |-> "auto", m |-> "latched"], Pcs <- {"b1", "b2"}, Generators <- {"g"},
    Solars <- {"s"}, Loads <- {"l"}, Battery <- {"b1"}, Meters <- <<"m1", "m2", "m3">>,
    Losses <- {0}, Aggregations <- Metering, Setpoints <- {-2, 3}, Ramp <- 2,
    StartupDelay <- 2, ShutdownDelay <- 1, Sun <- {0, 1}, Full <- 6, Efficiency <- 50,
    MaxChanges <- 3, changes <- changesGrid

Aggregation == INSTANCE AlarmAggregation WITH
    Sources <- {"s1", "s2"}, MaxOut <- 3, MayFail <- {"redis"}, remote <- remoteAgg

\* Three readings of either kind of meter, and one event; then two readings, while the device
\* comes, goes and alarms.
Telem == INSTANCE Telemetry WITH
    Intervals <- {1, 2}, Hour <- 2, SaveInterval <- 2, Grains <- <<2, 3>>, MaxReads <- 3,
    MaxTroubles <- 1, MaxEvents <- 1, MaxQueue <- 1,
    MayFail <- {"redis", "enqueue", "transform", "restart"}, crossed <- crossedTel, plant <- plantTel,
    line <- lineTel, worker <- workerTel

States == INSTANCE Telemetry WITH
    Intervals <- {2}, Hour <- 2, SaveInterval <- 2, Grains <- <<2, 3>>, MaxReads <- 2,
    MaxTroubles <- 1, MaxEvents <- 3, MaxQueue <- 1,
    MayFail <- {"redis", "enqueue", "restart"}, crossed <- crossedTel, plant <- plantTel,
    line <- lineTel, worker <- workerTel

\* One register clamps a value out of range, the other refuses it.
Writings == {[a |-> 2, b |-> -1], [a |-> 0, b |-> 1], "b" :> 2}

NotANumber == -1
NoReading == -2

\* Three aggregates, one of them onto a register that has no room for it; messages with
\* values that do not fit.
Aggregates ==
    << [register |-> "mean", aggregate |-> "average", fallback |-> NoReading, param |-> TRUE],
       [register |-> "low", aggregate |-> "min", fallback |-> 0, param |-> FALSE],
       [register |-> "hold", aggregate |-> "max", fallback |-> NoReading, param |-> TRUE] >>
It(r, v) == [register |-> r, value |-> v]
News ==
    { [form |-> "dict", items |-> << It("news", 2), It("hold", 2), It("more", 4) >>],
      [form |-> "list", items |-> << It("news", NoReading), It("more", 6) >>],
      [form |-> "dict", items |-> << It("news", 4), It("more", NoReading), It("news", 0) >>],
      [form |-> "list", items |-> << It("more", 0), It("news", 20) >>] }

Gate == INSTANCE Gateway WITH
    Registers <- <<"a", "b">>, Top <- [r \in {"a", "b"} |-> 1], Clamps <- {"a"},
    Timeout <- 1, Requests <- Writings, Own <- {"b"}, Interval <- 1, MaxSaving <- 1,
    MayFail <- {"redis", "overtake", "callback", "crash"}, stored <- storedGw,
    astray <- astrayGw, told <- toldGw,
    Listed <- <<"d1", "d2">>, Holding <- {"hold"},
    Input <- {"mean", "low", "news", "more", "asked"}, Highest <- 6, Mappings <- Aggregates,
    Readings <- {2, 3, 6, NotANumber}, Messages <- News,
    Answers <- {<<>>, <<It("asked", 2), It("other", 2)>>, <<It("asked", 3)>>},
    MaxChannel <- 2, MaxChanges <- 3, phase <- serverSync, loop <- loopSync,
    device <- deviceSync, channel <- channelSync, lost <- lostSync, changes <- changesSync,
    params <- paramsSync

Mon == INSTANCE Monitor WITH
    Nodes <- {"n1"}, Gauges <- {"cpu"}, Interfaces <- {"eth"}, Traffic <- {2}, Limit <- 1,
    Unreadable <- {"cpu"}, Activate <- 2, Clear <- 1, Ttl <- 2, Modules <- {}, MaxTime <- 3,
    MaxTroubles <- 1, running <- runningMon, at <- atMon, active <- activeMon,
    count <- countMon, redis <- redisMon, lost <- lostMon

Logs == INSTANCE LogSinks WITH
    Sinks <- {"s1"}, QueueSize <- 2, Callers <- {"loop", "thread"}, Tasks <- {"t1", "t2"},
    Contexts <- {"c1", "c2"}, MaxMessages <- 4, MaxCalls <- 4, queue <- queueLog,
    calls <- callsLog

\* Files with a mode nobody registered and a configuration no strategy takes.
Written == {[base |-> <<"a", "x">>, overrides |-> {"m"}, config |-> {<<"a", 3>>}],
            [base |-> <<>>, overrides |-> {"x", "auto stop"},
             config |-> {<<"a", 2>>, <<"x", 1>>}]}

Panel == INSTANCE ControlPanel WITH
    Browsers <- {"b1", "b2"}, Devices <- {"d1", "d2"}, Requests <- {"r1", "r2"},
    Base <- {"a", "b"}, Manual <- {"m"}, Values <- {1, 2}, Files <- Written, MaxEvents <- 3,
    MaxCalls <- 4, line <- linePanel, active <- activePanel, emitted <- emittedPanel,
    told <- toldPanel, calls <- callsPanel

\* Two keys' worth of alarms and two events of their own; a deque with room for a batch, and
\* one without.
Batcher == INSTANCE NotificationBatcher WITH
    Items <- 1..4, NoKey <- "none",
    KeyOf <- [i \in 1..4 |-> IF i \in {1, 3} THEN "alarm" ELSE "none"],
    GroupOf <- [i \in 1..4 |-> IF i = 2 THEN "mail" ELSE "line"], Capacity <- 3,
    Threshold <- 3, before <- beforeStop

Narrow == INSTANCE NotificationBatcher WITH
    Items <- 1..4, NoKey <- "none",
    KeyOf <- [i \in 1..4 |-> IF i \in {1, 3} THEN "alarm" ELSE "none"],
    GroupOf <- [i \in 1..4 |-> IF i = 2 THEN "mail" ELSE "line"], Capacity <- 2,
    Threshold <- 3, before <- beforeStop

-----------------------------------------------------------------------------

strategiesVars == <<layers, freq, volt, history, off, last, ramp, relay, next, cal, table,
                    switches>>
inputsVars == <<device, registered, traits, queue, feeds, buffer, param, setting, heard,
                lastUp, calling, status, contextIn, group, remote, fed, crossed, events, calls>>
heartbeatVars == <<loop, stopping, paused, atBeat, counters, statusBeat, answering, taken,
                   silent, excused, spoilt, changes>>
microgridVars == <<serving, registers, pcs, alarms, gen, solar, load, links, aggs, raw,
                   changesGrid>>
aggregationVars == <<active, telling, publisher, out, listening, channel, remoteAgg, astray>>
telemetryVars == <<kind, plan, plantTel, lineTel, workerTel, reader, leader, redis, told,
                   target, stored, acc, missed, crossedTel, lost, count>>
gatewayVars == <<server, answer, reg, saving, storedGw, astrayGw, idle, timed, watch, due,
                 toldGw, unpaired>>
syncVars == <<serverSync, loopSync, deviceSync, regs, paramsSync, channelSync, asked, written,
              said, lostSync, quiet, changesSync>>
monitorVars == <<runningMon, atMon, activeMon, countMon, unsent, bytes, health, redisMon,
                 key, own, shared, notified, round, snapshot, ticked, time, lostMon, gone,
                 outage, moved, troubles>>
sinksVars == <<handlers, managed, sent, queueLog, inHand, drain, closing, capture, bound,
               entered, token, accepted, handled, before, reused, callsLog>>
panelVars == <<attached, snapshots, members, socket, linePanel, sending, pending, base,
               overrides, config, condition, activePanel, exported, request, cast, received,
               joined, cut, emittedPanel, toldPanel, met, callsPanel>>
batcherVars == <<waiting, flush, service, what, beforeStop>>

control == <<pathVars, strategiesVars, inputsVars, heartbeatVars, microgridVars>>
upward == <<aggregationVars, telemetryVars, gatewayVars, syncVars>>
around == <<emitterVars, monitorVars, sinksVars, panelVars, batcherVars>>

\* A component that may start in several ways does so where it is looked at.
StationInit ==
    /\ part \in Parts
    /\ part # "power" => plant = [meter |-> 30, alarm |-> FALSE] /\ charge = Balanced
    /\ part # "strategies" => layers = <<"pq">>
    /\ part # "telemetry" => kind = "cumulative"
    /\ part \notin {"telemetry", "states"} => plan = "legacy"
    /\ part # "panel" => config = [m \in {"a", "b"} |-> 1]
    /\ Init /\ Strat!Init /\ Inputs!Init /\ Beats!Init /\ Grid!Init /\ Aggregation!Init
    /\ Telem!Init /\ Gate!Init /\ EmitterInit /\ Mon!Init
    /\ Logs!Init /\ Panel!Init /\ Batcher!Init

StationNext ==
    \/ /\ part = "power" /\ Next
       /\ UNCHANGED <<part, strategiesVars, inputsVars, heartbeatVars, microgridVars, upward,
                    around>>
    \/ /\ part = "strategies" /\ Strat!Next
       /\ UNCHANGED <<part, pathVars, inputsVars, heartbeatVars, microgridVars, upward, around>>
    \/ /\ part = "inputs" /\ Inputs!Next
       /\ UNCHANGED <<part, pathVars, strategiesVars, heartbeatVars, microgridVars, upward, around>>
    \/ /\ part = "settings" /\ Settings!Next
       /\ UNCHANGED <<part, pathVars, strategiesVars, heartbeatVars, microgridVars, upward, around>>
    \/ /\ part = "history" /\ Past!Next
       /\ UNCHANGED <<part, pathVars, strategiesVars, heartbeatVars, microgridVars, upward, around>>
    \/ /\ part = "heartbeat" /\ Beats!Next
       /\ UNCHANGED <<part, pathVars, strategiesVars, inputsVars, microgridVars, upward, around>>
    \/ /\ part = "microgrid" /\ Grid!Next
       /\ UNCHANGED <<part, pathVars, strategiesVars, inputsVars, heartbeatVars, upward, around>>
    \/ /\ part = "aggregation" /\ Aggregation!Next
       /\ UNCHANGED <<part, control, telemetryVars, gatewayVars, syncVars, around>>
    \/ /\ part = "telemetry" /\ Telem!Next
       /\ UNCHANGED <<part, control, aggregationVars, gatewayVars, syncVars, around>>
    \/ /\ part = "states" /\ States!Next
       /\ UNCHANGED <<part, control, aggregationVars, gatewayVars, syncVars, around>>
    \/ /\ part = "gateway" /\ Gate!PipelineNext
       /\ UNCHANGED <<part, control, aggregationVars, telemetryVars, syncVars, around>>
    \/ /\ part = "sync" /\ Gate!FeedNext
       /\ UNCHANGED <<part, control, aggregationVars, telemetryVars, gatewayVars, around>>
    \/ /\ part = "emitter" /\ EmitterNext
       /\ UNCHANGED <<part, control, upward, monitorVars, sinksVars, panelVars, batcherVars>>
    \/ /\ part = "monitor" /\ Mon!Next
       /\ UNCHANGED <<part, control, upward, emitterVars, sinksVars, panelVars, batcherVars>>
    \/ /\ part = "sinks" /\ Logs!SinkNext
       /\ UNCHANGED <<part, control, upward, emitterVars, monitorVars, panelVars, batcherVars>>
    \/ /\ part = "contexts" /\ Logs!ContextNext
       /\ UNCHANGED <<part, control, upward, emitterVars, monitorVars, panelVars, batcherVars>>
    \/ /\ part = "panel" /\ Panel!StreamNext
       /\ UNCHANGED <<part, control, upward, emitterVars, monitorVars, sinksVars, batcherVars>>
    \/ /\ part = "modes panel" /\ Panel!ModeNext
       /\ UNCHANGED <<part, control, upward, emitterVars, monitorVars, sinksVars, batcherVars>>
    \/ /\ part = "batcher" /\ Batcher!Next
       /\ UNCHANGED <<part, control, upward, emitterVars, monitorVars, sinksVars, panelVars>>
    \/ /\ part = "narrow batcher" /\ Narrow!Next
       /\ UNCHANGED <<part, control, upward, emitterVars, monitorVars, sinksVars, panelVars>>

StationSpec == StationInit /\ [][StationNext]_<<part, control, upward, around>>

-----------------------------------------------------------------------------

\* Every variable of the component looked at holds a value of its kind.
StationTypes ==
    CASE part = "power" -> PathTypes
      [] part = "strategies" -> Strat!StrategyTypes
      [] part = "inputs" -> Inputs!InputTypes
      [] part = "settings" -> Settings!InputTypes
      [] part = "history" -> Past!InputTypes
      [] part = "heartbeat" -> Beats!HeartbeatTypes
      [] part = "microgrid" -> Grid!MicrogridTypes
      [] part = "aggregation" -> Aggregation!AggregationTypes
      [] part = "telemetry" -> Telem!TelemetryTypes
      [] part = "states" -> States!TelemetryTypes
      [] part = "gateway" -> Gate!GatewayTypes
      [] part = "sync" -> Gate!SyncTypes
      [] part = "emitter" -> EmitterTypes
      [] part = "monitor" -> Mon!MonitorTypes
      [] part \in {"sinks", "contexts"} -> Logs!SinkTypes
      [] part \in {"panel", "modes panel"} -> Panel!PanelTypes
      [] part = "batcher" -> Batcher!BatcherTypes
      [] part = "narrow batcher" -> Narrow!BatcherTypes

\* What is reported is what is: alarms at another site, the state in Redis, the uploads
\* and energies, the alarms and registration of a monitored node; the gateway's input
\* registers and its clients' silence; its holding registers after a restart.  What is
\* told arrives in turn, once and nothing lost: messages at browsers, log sinks and
\* notification channels, heartbeats at devices; and the bindings of a log message are
\* those of its task.
ReportsFollow ==
    /\ part = "aggregation" => Aggregation!RemoteFollows
    /\ part = "telemetry" => Telem!StateFollows /\ Telem!UploadsFollow /\ Telem!EnergyAddsUp
    /\ part = "states" => States!StateFollows /\ States!UploadsFollow /\ States!EnergyAddsUp
    /\ part = "monitor" => Mon!AlarmsMirrored /\ Mon!StaysRegistered /\ Mon!SnapshotTrue
    /\ part = "gateway" => Gate!RegistersKept /\ Gate!SilenceNoticed
    /\ part = "sync" => Gate!SyncFollows
    /\ part = "panel" => Panel!StreamInOrder
    /\ part = "sinks" => Logs!SinksDeliver
    /\ part = "contexts" => Logs!ContextRestored
    /\ part = "batcher" => Batcher!NoneSkipped
    /\ part = "narrow batcher" => Narrow!NoneSkipped
    /\ part = "heartbeat" => Beats!BeatsArrive

\* What a strategy or an operator looks at is what was told: the history of a feed, the
\* mirrors of parameters and states, the configuration of an import.
InputsTrue ==
    /\ part \in {"inputs", "settings"} => Inputs!HistoryTrue /\ Inputs!MirrorsAgree
    /\ part = "history" => Past!HistoryTrue /\ Past!MirrorsAgree
    /\ part = "modes panel" => Panel!ImportTrue

\* What a strategy asks for, a simulated tick makes and a context holds is sound, and the
\* devices' shares of a power fit it.
StepsHold ==
    /\ Strat!OutputsSound /\ Grid!TicksSound /\ [][Inputs!ContextSound]_(Inputs!inputVars)
    /\ []SharesFit
=============================================================================
