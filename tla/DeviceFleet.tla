------------------------------ MODULE DeviceFleet ------------------------------
(***************************************************************************)
(* UnifiedDeviceManager with its DeviceManager and DeviceRegistry          *)
(* (csp_lib/manager/unified.py, manager/device, integration/registry.py):  *)
(* devices read by themselves and a group of devices read in turn are      *)
(* registered, started, stopped and unregistered while the manager runs.   *)
(* start and stop go through the devices at once, each by steps of its     *)
(* own; starting is cancelled wherever it is.  The registry knows what a   *)
(* device is able to do from the events that tell of changes.              *)
(*                                                                         *)
(* External: the devices, which connect or do not, and the application,    *)
(* which has one start, one stop and one removal of a device under way at  *)
(* a time.                                                                 *)
(***************************************************************************)
EXTENDS Naturals, Sequences, FiniteSets

CONSTANTS
    Standalone,   \* devices with a reader of their own
    Group,        \* the devices of the group, in order
    Caps,         \* what devices may be able to do
    MaxCalls,     \* bound: registrations, removals and cancelled starts
    MaxChanges    \* bound: changes of what a device is able to do

VARIABLES
    registered,   \* _standalone and _groups: devices
    subscribed,   \* devices the other managers listen to
    entries,      \* devices in the registry
    traits,       \* _device_traits
    index,        \* _trait_devices
    watched,      \* _capability_unsubscribes
    caps,         \* what each device is able to do
    words,        \* devices with an event for the registry in their queue
    running,      \* DeviceManager._running
    startAt, stopAt,               \* where start and stop are
    starting, stopping, removing,  \* where they, and unregister, are with each device
    up,           \* devices that are connected
    reading,      \* devices with a reader of their own
    looping,      \* the group's task
    emits,        \* devices whose events are handed on
    calls, changes,
    crossed,      \* history: devices a start was cut short, or crossed by another call
    missed        \* history: devices a change of which no event told

phases == <<startAt, stopAt, starting, stopping, removing>>
plant == <<up, reading, looping, emits>>
registry == <<entries, traits, index, watched>>
fleetVars == <<registered, subscribed, registry, caps, words, running, phases, plant,
               calls, changes, crossed, missed>>

Grouped == {Group[i] : i \in DOMAIN Group}
Devices == Standalone \cup Grouped
Own == "own"           \* the trait a device is registered with
Loop == "loop"         \* the group's task, in crossed
Names == Caps \cup {Own}

FleetTypes ==
    /\ registered \subseteq Devices /\ subscribed \subseteq Devices
    /\ registered \cap Grouped \in {{}, Grouped}
    /\ entries \subseteq Devices /\ watched \subseteq Devices
    /\ traits \in [Devices -> SUBSET Names] /\ index \in [Names -> SUBSET Devices]
    /\ caps \in [Devices -> SUBSET Caps]
    /\ words \subseteq Devices
    /\ running \in BOOLEAN /\ looping \in BOOLEAN
    /\ startAt \in {"off", "standalone", "group"}
    /\ stopAt \in {"off", "standalone", "loop", "group"}
    /\ starting \in [Devices -> {"no", "connect", "start"}]
    /\ stopping \in [Devices -> {"no", "stop", "disconnect"}]
    /\ removing \in [Devices -> {"no", "stop", "disconnect"}]
    /\ up \subseteq Devices /\ reading \subseteq Standalone /\ emits \subseteq Devices
    /\ calls \in 0..MaxCalls /\ changes \in 0..MaxChanges
    /\ crossed \subseteq Devices \cup {Loop} /\ missed \subseteq Devices

None == [d \in Devices |-> "no"]

Init ==
    /\ registered = {} /\ subscribed = {}
    /\ entries = {} /\ traits = [d \in Devices |-> {}] /\ index = [n \in Names |-> {}]
    /\ watched = {}
    /\ caps = [d \in Devices |-> Caps] /\ words = {}
    /\ running = FALSE
    /\ startAt = "off" /\ stopAt = "off"
    /\ starting = None /\ stopping = None /\ removing = None
    /\ up = {} /\ reading = {} /\ looping = FALSE /\ emits = {}
    /\ calls = 0 /\ changes = 0 /\ crossed = {} /\ missed = {}

-----------------------------------------------------------------------------
(* The registry                                                            *)

Call == calls < MaxCalls /\ calls' = calls + 1

\* _add_trait_index and _remove_trait_index, until every device in ds has the traits given.
Indexed(ds, names) ==
    /\ traits' = [d \in Devices |-> IF d \in ds THEN names[d] ELSE traits[d]]
    /\ index' = [n \in Names |-> (index[n] \ ds) \cup {d \in ds : n \in names[d]}]

\* Mutant: a refresh forgets no trait.
Grown(d) == traits[d] \cup caps[d]

\* refresh_capability_traits.
Refreshed(d) == (traits[d] \ Caps) \cup caps[d]

\* The application puts a device into the registry itself.
Listed(d) ==
    /\ Call /\ d \notin entries
    /\ entries' = entries \cup {d}
    /\ Indexed({d}, [x \in {d} |-> {Own}])
    /\ UNCHANGED <<registered, subscribed, watched, caps, words, running, phases, plant,
                   changes, crossed, missed>>

\* The rest of register and register_group: the managers subscribe, the registry takes
\* the devices and is told of changes from now on; it refuses one it has, and the call
\* ends there, with what it has done.
Subscribe(ds) ==
    LET refused == {i \in DOMAIN ds : ds[i] \in entries}
        reached == {i \in DOMAIN ds : \A j \in refused : i <= j}
        taken == {ds[i] : i \in reached \ refused}
    IN  /\ subscribed' = subscribed \cup {ds[i] : i \in reached}
        /\ entries' = entries \cup taken /\ watched' = watched \cup taken
        /\ Indexed(taken, [d \in taken |-> {Own} \cup caps[d]])
        /\ missed' = missed \ taken

Register(d) ==
    /\ Call /\ d \notin registered
    /\ registered' = registered \cup {d}
    /\ Subscribe(<<d>>)
    /\ UNCHANGED <<caps, words, running, phases, plant, changes, crossed>>

RegisterGroup ==
    /\ Call /\ Grouped \cap registered = {}
    /\ registered' = registered \cup Grouped
    /\ Subscribe(Group)
    /\ UNCHANGED <<caps, words, running, phases, plant, changes, crossed>>

\* add_capability and remove_capability; no event is queued for an emitter that does not
\* run, and reconfigure, which sets them too, emits none.
Change(d, c, told) ==
    /\ changes < MaxChanges /\ changes' = changes + 1
    /\ caps' = [caps EXCEPT ![d] = IF c \in @ THEN @ \ {c} ELSE @ \cup {c}]
    /\ IF told /\ d \in emits THEN words' = words \cup {d} /\ UNCHANGED missed
       ELSE missed' = missed \cup {d} /\ UNCHANGED words
    /\ UNCHANGED <<registered, subscribed, registry, running, phases, plant, calls, crossed>>

\* The event reaches the manager.
Hear(d) ==
    /\ d \in words
    /\ words' = words \ {d}
    /\ IF d \in watched \cap entries
       THEN Indexed({d}, [x \in {d} |-> Refreshed(d)]) /\ missed' = missed \ {d}
       ELSE UNCHANGED <<traits, index, missed>>
    /\ UNCHANGED <<registered, subscribed, entries, watched, caps, running, phases, plant,
                   calls, changes, crossed>>

-----------------------------------------------------------------------------
(* Starting                                                                *)

\* gather: the devices of ds are started at once, from their connect on.
Gather(ds) == [d \in Devices |-> IF d \in ds THEN "connect" ELSE starting[d]]

Start ==
    /\ ~running /\ startAt = "off"
    /\ running' = TRUE
    /\ startAt' = "standalone"
    /\ starting' = Gather(registered \cap Standalone)
    /\ crossed' = crossed \cup {d \in Devices : removing[d] # "no"}
                          \cup (IF \E d \in Grouped : removing[d] # "no" THEN {Loop} ELSE {})
    /\ UNCHANGED <<registered, subscribed, registry, caps, words, stopAt, stopping, removing,
                   plant, calls, changes, missed>>

\* A device that cannot be reached is started all the same.
Connected(d) ==
    /\ starting[d] = "connect"
    /\ starting' = [starting EXCEPT ![d] = "start"]
    /\ \/ up' = up \cup {d} /\ emits' = emits \cup {d}
       \/ d \notin up /\ UNCHANGED <<up, emits>>
    /\ UNCHANGED <<registered, subscribed, registry, caps, words, running, startAt, stopAt,
                   stopping, removing, reading, looping, calls, changes, crossed, missed>>

\* start of a device, ensure_event_loop_started of one in the group.
Started(d) ==
    /\ starting[d] = "start"
    /\ starting' = [starting EXCEPT ![d] = "no"]
    /\ reading' = reading \cup ({d} \cap Standalone)
    /\ emits' = emits \cup {d}
    /\ UNCHANGED <<registered, subscribed, registry, caps, words, running, startAt, stopAt,
                   stopping, removing, up, looping, calls, changes, crossed, missed>>

\* The standalone devices are through; the group is next, if there is one.
StartGroup ==
    /\ startAt = "standalone" /\ starting = None
    /\ IF Grouped \subseteq registered
       THEN startAt' = "group" /\ starting' = Gather(Grouped)
       ELSE startAt' = "off" /\ UNCHANGED starting
    /\ UNCHANGED <<registered, subscribed, registry, caps, words, running, stopAt, stopping,
                   removing, plant, calls, changes, crossed, missed>>

\* The last of the group is prepared: its task starts and so does the manager.
GroupStarted ==
    /\ startAt = "group" /\ starting = None
    /\ startAt' = "off" /\ looping' = TRUE
    /\ UNCHANGED <<registered, subscribed, registry, caps, words, running, stopAt, starting,
                   stopping, removing, up, reading, emits, calls, changes, crossed, missed>>

\* The task that starts the manager is cancelled: what is started stays, _running goes.
CancelStart ==
    /\ Call /\ startAt # "off"
    /\ startAt' = "off" /\ starting' = None
    /\ running' = FALSE
    /\ crossed' = crossed \cup Devices \cup {Loop}
    /\ UNCHANGED <<registered, subscribed, registry, caps, words, stopAt, stopping, removing,
                   plant, changes, missed>>

-----------------------------------------------------------------------------
(* Reading, stopping and unregistering                                     *)

\* The reader of a device connects it when it has lost, or never had, a connection.
Reconnect(d) ==
    /\ IF d \in Standalone THEN d \in reading ELSE looping
    /\ d \notin up
    /\ up' = up \cup {d}
    /\ UNCHANGED <<registered, subscribed, registry, caps, words, running, phases, reading,
                   looping, emits, calls, changes, crossed, missed>>

Stop ==
    /\ running /\ stopAt = "off"
    /\ running' = FALSE
    /\ stopAt' = "standalone"
    /\ stopping' = [d \in Devices |-> IF d \in registered \cap Standalone THEN "stop" ELSE "no"]
    /\ crossed' = IF startAt # "off" THEN crossed \cup Devices \cup {Loop} ELSE crossed
    /\ UNCHANGED <<registered, subscribed, registry, caps, words, startAt, starting, removing,
                   plant, calls, changes, missed>>

\* Mutant: a device that has stopped is done with.
ThatIsAll(d) == "no"

\* After its stop a device is disconnected.
AfterStop(d) == "disconnect"

\* stop of a device ends its reader; ensure_event_loop_stopped, of one in the group, its
\* events, once the queue is empty.
Stopped(d) ==
    /\ stopping[d] = "stop"
    /\ d \in Grouped => d \notin words
    /\ stopping' = [stopping EXCEPT ![d] = AfterStop(d)]
    /\ reading' = reading \ {d}
    /\ emits' = emits \ ({d} \cap Grouped)
    /\ UNCHANGED <<registered, subscribed, registry, caps, words, running, startAt, stopAt,
                   starting, removing, up, looping, calls, changes, crossed, missed>>

\* disconnect, which stops the reader first, and the events of a device that was connected.
Down(d) ==
    /\ reading' = reading \ {d}
    /\ up' = up \ {d}
    /\ d \in up => d \notin words
    /\ emits' = IF d \in up THEN emits \ {d} ELSE emits

Disconnected(d) ==
    /\ stopping[d] = "disconnect"
    /\ stopping' = [stopping EXCEPT ![d] = "no"]
    /\ Down(d)
    /\ crossed' = IF startAt = "off" /\ (d \in Grouped => ~looping) THEN crossed \ {d} ELSE crossed
    /\ UNCHANGED <<registered, subscribed, registry, caps, words, running, startAt, stopAt,
                   starting, removing, looping, calls, changes, missed>>

\* The standalone devices are down: the group's task is stopped, if there is a group.
StopGroup ==
    /\ stopAt = "standalone" /\ stopping = None
    /\ stopAt' = IF Grouped \subseteq registered THEN "loop" ELSE "off"
    /\ UNCHANGED <<registered, subscribed, registry, caps, words, running, startAt, starting,
                   stopping, removing, plant, calls, changes, crossed, missed>>

GroupStopped ==
    /\ stopAt = "loop"
    /\ looping' = FALSE
    /\ stopAt' = "group"
    /\ stopping' = [d \in Devices |-> IF d \in Grouped THEN "stop" ELSE "no"]
    /\ crossed' = IF startAt = "off" THEN crossed \ {Loop} ELSE crossed
    /\ UNCHANGED <<registered, subscribed, registry, caps, words, running, startAt, starting,
                   removing, up, reading, emits, calls, changes, missed>>

StopReturns ==
    /\ stopAt = "group" /\ stopping = None
    /\ stopAt' = "off"
    /\ UNCHANGED <<registered, subscribed, registry, caps, words, running, startAt, starting,
                   stopping, removing, plant, calls, changes, crossed, missed>>

\* _cascade_unsubscribe_device.
Forget(ds) ==
    /\ subscribed' = subscribed \ ds
    /\ watched' = watched \ ds
    /\ entries' = entries \ ds
    /\ Indexed(ds, [d \in ds |-> {}])
    /\ missed' = missed \ ds

\* unregister: the others forget the device, then a manager that runs takes it down.
Unregister(d) ==
    /\ Call /\ d \in registered \cap Standalone /\ removing[d] = "no"
    /\ Forget({d})
    /\ IF running
       THEN removing' = [removing EXCEPT ![d] = "stop"] /\ UNCHANGED registered
       ELSE registered' = registered \ {d} /\ UNCHANGED removing
    /\ crossed' = IF starting[d] # "no" THEN crossed \cup {d} ELSE crossed
    /\ UNCHANGED <<caps, words, running, startAt, stopAt, starting, stopping, plant, changes>>

\* unregister of a device of the group: the others forget it, the group goes on with it.
UnregisterMember(d) ==
    /\ Call /\ d \in registered \cap Grouped
    /\ Forget({d})
    /\ UNCHANGED <<registered, caps, words, running, phases, plant, changes, crossed>>

UnregisterGroup ==
    /\ Call /\ Grouped \subseteq registered /\ \A d \in Grouped : removing[d] = "no"
    /\ Forget(Grouped)
    /\ IF running
       THEN /\ looping' = FALSE
            /\ removing' = [d \in Devices |-> IF d \in Grouped THEN "disconnect" ELSE removing[d]]
            /\ UNCHANGED registered
       ELSE registered' = registered \ Grouped /\ UNCHANGED <<looping, removing>>
    /\ crossed' = IF startAt # "off" \/ stopAt = "standalone"
                  THEN crossed \cup Grouped \cup {Loop} ELSE crossed
    /\ UNCHANGED <<caps, words, running, startAt, stopAt, starting, stopping, up, reading,
                   emits, changes>>

RemovedStops(d) ==
    /\ removing[d] = "stop"
    /\ removing' = [removing EXCEPT ![d] = "disconnect"]
    /\ reading' = reading \ {d}
    /\ UNCHANGED <<registered, subscribed, registry, caps, words, running, startAt, stopAt,
                   starting, stopping, up, looping, emits, calls, changes, crossed, missed>>

\* A device is forgotten when it is down, the group when all of its devices are.
Removed(d) ==
    /\ removing[d] = "disconnect"
    /\ removing' = [removing EXCEPT ![d] = "no"]
    /\ Down(d)
    /\ registered' = IF d \in Standalone THEN registered \ {d}
                     ELSE IF \E x \in Grouped \ {d} : removing[x] # "no" THEN registered
                     ELSE registered \ Grouped
    /\ UNCHANGED <<subscribed, registry, caps, words, running, startAt, stopAt, starting,
                   stopping, looping, calls, changes, crossed, missed>>

-----------------------------------------------------------------------------
Next ==
    \/ \E d \in Devices :
         \/ Listed(d) \/ Hear(d)
         \/ \E c \in Caps, told \in BOOLEAN : Change(d, c, told)
         \/ Connected(d) \/ Started(d) \/ Reconnect(d)
         \/ Stopped(d) \/ Disconnected(d) \/ RemovedStops(d) \/ Removed(d)
    \/ \E d \in Standalone : Register(d) \/ Unregister(d)
    \/ RegisterGroup \/ UnregisterGroup
    \/ \E d \in Grouped : UnregisterMember(d)
    \/ Start \/ StartGroup \/ GroupStarted \/ CancelStart
    \/ Stop \/ StopGroup \/ GroupStopped \/ StopReturns

Spec == Init /\ [][Next]_fleetVars

-----------------------------------------------------------------------------
(* Properties                                                              *)

\* Once start, stop and removals are through, whatever is connected or read belongs to a
\* manager that runs, which will stop it: a device that was unregistered or stopped is
\* left to no task, save where a start was cancelled or crossed by another call, and
\* then no longer than until a stop has gone through.
NothingLeft ==
    startAt = "off" /\ stopAt = "off" /\ removing = None =>
        /\ \A d \in (up \cup reading) \ crossed : running /\ d \in registered
        /\ looping /\ Loop \notin crossed => running /\ Grouped \subseteq registered

\* The index of the registry agrees with the traits of each device, and these with what
\* the device is able to do, once the events that tell of it have been heard; and no
\* manager listens to a device that is not registered.
TraitsFollow ==
    /\ \A n \in Names : index[n] = {d \in entries : n \in traits[d]}
    /\ \A d \in watched \ (words \cup missed) : d \in entries /\ traits[d] \cap Caps = caps[d]
    /\ subscribed \subseteq registered
=============================================================================
