------------------------------ MODULE MCStorage ------------------------------
(***************************************************************************)
(* What must come about in the end, one component in each behaviour, named *)
(* by part: the local buffer with three documents, two of one collection;  *)
(* the batch uploader with five documents; the reconcilers of command      *)
(* routing; the compensator; the control of remote sites; the log levels.  *)
(* The components not chosen stay in their initial states, where no fair   *)
(* action of theirs is enabled.  A variable whose name two components have *)
(* bears the other one's name here as well.                                *)
(***************************************************************************)
EXTENDS LocalBuffer, BatchUploader, LogLevels, TLC

CONSTANTS
    Parts,        \* the components looked at
    d1, d2, d3, telemetry, history

TwoCollections == d1 :> telemetry @@ d2 :> telemetry @@ d3 :> history

\* Of the batch uploader's documents.
ThirdAndFifth == [d \in BatchDocs |-> IF d \in {3, 5} THEN "b" ELSE "a"]

\* Of the log levels: the default, a package, and a module of it.
ThreePaths == << <<>>, <<"a">>, <<"a", "b">> >>

VARIABLES
    part,
    table, value, latest, answering, guarded, registered, bus, tasks, cooling, commands,
    newest, crossed, trouble,
    gain, setpoint, changesComp, troublesComp, enabled, sent, integral, steady, hold, holdInitial,
    inHold, lastError, escapes, lastSetpoint, lastOutput, tableComp, kept,
    condition, up, redis, channel, received, running, cached, pollingRemote, override, cycle,
    sentRemote, steadyRemote, warned, changesRemote, troublesRemote

-----------------------------------------------------------------------------

Routing == INSTANCE CommandRouting WITH
    Targeted <- {"a"}, Points <- {"a1"}, DeviceOf <- [a1 |-> "a"],
    Mappings <- << <<"a1">> >>, MaxCommands <- 2,
    Troubles <- {{"reset"}, {"refuse"}, {"protect"}}

Compensation == INSTANCE Compensator WITH
    Rated <- 1000, OutMin <- -1000, OutMax <- 520, Ki <- 300, IntegralMax <- 50,
    Deadband <- 10, SetpointPercent <- 2, Steps <- 2, SteadyPercent <- 2, SteadyCycles <- 1,
    HoldCycles <- 1, EscapeCycles <- 2, FFMin <- 800, FFMax <- 1500, LearnStep <- 30,
    RateLimit <- 0, Gains <- {930}, Setpoints <- {500, -500}, Tunings <- {1040},
    MaxChanges <- 1, MaxTroubles <- 1, table <- tableComp,
    changes <- changesComp, troubles <- troublesComp

Axes == << [axis |-> "p", to |-> <<"b">>, transform |-> FALSE] >>

Remote == INSTANCE RemoteControl WITH
    Devices <- <<"a", "b">>, SiteOf <- [a |-> "s", b |-> "t"], Mappings <- Axes,
    Commands <- {[p |-> 1]}, Unsteady <- {"a"}, MaxChanges <- 1, MaxTroubles <- 0,
    MaxFlight <- 1, sent <- sentRemote, steady <- steadyRemote, changes <- changesRemote,
    troubles <- troublesRemote, polling <- pollingRemote

-----------------------------------------------------------------------------

routingVars == <<table, value, latest, answering, guarded, registered, bus, tasks, cooling,
                 commands, newest, crossed, trouble>>
compensatorVars == <<gain, setpoint, changesComp, troublesComp, enabled, sent, integral, steady,
                     hold, holdInitial, inHold, lastError, escapes, lastSetpoint,
                     lastOutput, tableComp, kept>>
remoteVars == <<condition, up, redis, channel, received, running, cached, pollingRemote, override,
                cycle, sentRemote, steadyRemote, warned, changesRemote, troublesRemote>>

SuiteInit ==
    /\ part \in Parts
    /\ part # "routing" => trouble = {"reset"}
    /\ part # "compensator" => setpoint = 500
    /\ part # "remote" => condition = [d \in {"a", "b"} |-> [link |-> TRUE, alarm |-> FALSE]]
    /\ Init /\ UploaderInit /\ Routing!RoutingInit /\ Compensation!Init
    /\ Remote!Init /\ LevelsInit

SuiteNext ==
    \/ /\ part = "local" /\ Next
       /\ UNCHANGED <<part, uploaderVars, routingVars, compensatorVars, remoteVars, levelVars>>
    \/ /\ part = "uploader" /\ UploaderNext
       /\ UNCHANGED <<part, vars, routingVars, compensatorVars, remoteVars, levelVars>>
    \/ /\ part = "routing" /\ Routing!RoutingNext
       /\ UNCHANGED <<part, vars, uploaderVars, compensatorVars, remoteVars, levelVars>>
    \/ /\ part = "compensator" /\ Compensation!Next
       /\ UNCHANGED <<part, vars, uploaderVars, routingVars, remoteVars, levelVars>>
    \/ /\ part = "remote" /\ Remote!Next
       /\ UNCHANGED <<part, vars, uploaderVars, routingVars, compensatorVars, levelVars>>
    \/ /\ part = "levels" /\ LevelsNext
       /\ UNCHANGED <<part, vars, uploaderVars, routingVars, compensatorVars, remoteVars>>

\* The fairness of each component, of its actions while it is looked at.
FairUploader ==
    /\ WF_uploaderVars(part = "uploader" /\ Triggered)
    /\ WF_uploaderVars(part = "uploader" /\ (Written \/ InsertFails))
FairRouting ==
    /\ \A t \in Routing!Reconcilers : WF_routingVars(part = "routing" /\ Routing!Round(t))
    /\ WF_routingVars(part = "routing"
                      /\ (Routing!Done("a") \/ Routing!Refuses("a") \/ Routing!Raises("a")))
    /\ WF_routingVars(part = "routing" /\ Routing!ReadAll("a"))
    /\ WF_routingVars(part = "routing" /\ Routing!CooledDown("a1"))
FairCompensator ==
    WF_compensatorVars(part = "compensator" /\ (Compensation!Cycle \/ Compensation!Off))
FairRemote ==
    /\ WF_remoteVars(part = "remote" /\ (Remote!BeginPoll \/ Remote!ReadKey))
    /\ WF_remoteVars(part = "remote" /\ Remote!Cycle)
    /\ \A x \in {"s", "t"} : WF_remoteVars(part = "remote" /\ Remote!Receive(x))
FairLevels ==
    /\ WF_levelVars(part = "levels" /\ PollAnswered)
    /\ WF_levelVars(part = "levels" /\ PollApply)
    /\ \A i \in 1..2 : WF_levelVars(part = "levels" /\ i \in DOMAIN listeners /\ Listen(i))
FairLocal ==
    /\ WF_vars(part = "local" /\ EnsureIndexes) /\ WF_vars(part = "local" /\ Fetch)
    /\ WF_vars(part = "local" /\ Close)
    /\ \A c \in Collections : WF_vars(part = "local" /\ Replay(c))
    /\ \A d \in Docs : WF_vars(part = "local" /\ (WriteOk(d) \/ WriteFails(d) \/ MarkOne(d)))

SuiteSpec ==
    /\ SuiteInit /\ [][SuiteNext]_<<part, vars, uploaderVars, routingVars, compensatorVars,
                                        remoteVars, levelVars>>
    /\ FairLocal /\ FairUploader /\ FairRouting /\ FairCompensator /\ FairRemote
    /\ FairLevels

-----------------------------------------------------------------------------

\* Every variable of the component looked at holds a value of its kind.
StorageTypes ==
    CASE part = "local" -> TypeOK
      [] part = "uploader" -> BatchTypes
      [] part = "routing" -> Routing!RoutingTypes
      [] part = "compensator" -> Compensation!CompensatorTypes
      [] part = "remote" -> Remote!RemoteTypes
      [] part = "levels" -> LevelTypes

\* What was handed over gets to MongoDB: from the local store, and from the queues of the
\* uploader.
Delivered ==
    /\ part = "local" => Delivers
    /\ part = "uploader" => Served

\* What was set comes about in the end and stays: the value of a point, the power of a
\* compensated plant, the stop of the sites while a device is lost, the level a hash of
\* log levels ends up with.
Settles ==
    /\ part = "routing" => Routing!Restores
    /\ part = "compensator" => Compensation!Converges
    /\ part = "remote" => Remote!LossStops
    /\ part = "levels" => LevelsArrive
=============================================================================
