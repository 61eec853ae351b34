----------------------------- MODULE RemoteControl -----------------------------
(***************************************************************************)
(* Control of remote sites over Redis (csp_lib/integration/distributed):   *)
(* the sites' devices publish their condition under Redis keys, the        *)
(* DeviceStateSubscriber polls the keys, the DistributedController runs    *)
(* its cycle on what was polled, and the RemoteCommandRouter publishes     *)
(* commands on the channel of each site.  External: Redis and the devices. *)
(***************************************************************************)
EXTENDS Integers, Sequences, SequencesExt

CONSTANTS
    Devices,       \* all_device_ids, in order
    SiteOf,        \* device_site_map
    Mappings,      \* CommandMappings, in order: [axis, to: devices in order, transform: BOOLEAN]
    Commands,      \* what the strategy may return: a number for each axis that is not NO_CHANGE
    Unsteady,      \* bound: devices whose link, alarm or site comes and goes
    MaxChanges,    \* bound: devices and sites that come and go, starts and stops
    MaxTroubles,   \* bound: operations of Redis that fail
    MaxFlight      \* bound: messages on their way to a site

VARIABLES
    condition,   \* what each device is: its link and its alarm
    up,          \* sites whose RemoteSiteRunner runs
    redis,       \* the keys of each device: online and alarms
    channel,     \* messages on the channel of each site
    received,    \* the last value of each axis that came to each device
    running,     \* the DistributedController
    cached,      \* _device_online, _device_alarms
    polling,     \* the keys _poll_all has still to read
    override,    \* the stop override of the ModeManager
    cycle,       \* the executor: its command and what the router has still to publish; seen:
                 \*   devices available at some time of it (history)
    sent,        \* <<device, axis>> of this cycle's messages, or failures to publish
    steady,      \* devices available since the cycle began
    warned,      \* devices whose alarm was read, and has not been withdrawn since
    changes, troubles

remoteVars == <<condition, up, redis, channel, received, running, cached, polling, override, cycle,
                sent, steady, warned, changes, troubles>>
world == <<condition, up, redis, channel, received>>
control == <<running, cached, polling, override, cycle, sent, steady, warned>>

Ids == ToSet(Devices)
Sites == {SiteOf[d] : d \in Ids}
Axes == {Mappings[n].axis : n \in DOMAIN Mappings}
Stop0 == [x \in Axes |-> 0]
Nothing == -1
NoChange(command, axis) == axis \notin DOMAIN command

RemoteTypes ==
    /\ condition \in [Ids -> [link : BOOLEAN, alarm : BOOLEAN]]
    /\ up \subseteq Sites
    /\ received \in [Ids -> [Axes -> {0, 1, Nothing}]]
    /\ redis \in [Ids -> [online : {"1", "0", "none"}, alarms : BOOLEAN]]
    /\ cached \in [Ids -> [online : BOOLEAN, alarms : BOOLEAN]]
    /\ running \in BOOLEAN /\ override \in BOOLEAN
    /\ ToSet(polling) \subseteq Ids \X {"online", "alarms"}
    /\ cycle.at \in {"route", "done"}
    /\ steady \subseteq cycle.seen /\ cycle.seen \subseteq Ids /\ warned \subseteq Ids
    /\ changes \in 0..MaxChanges /\ troubles \in 0..MaxTroubles

Unread == [d \in Ids |-> [online |-> FALSE, alarms |-> FALSE]]
NoCycle == [at |-> "done", command |-> <<>>, plan |-> <<>>, seen |-> {}]

Init ==
    /\ condition \in [Ids -> [link : BOOLEAN, alarm : BOOLEAN]]
    /\ \A d \in Ids \ Unsteady : condition[d] = [link |-> TRUE, alarm |-> FALSE]
    /\ up = Sites
    /\ redis = [d \in Ids |-> [online |-> IF condition[d].link THEN "1" ELSE "0",
                                alarms |-> condition[d].alarm]]
    /\ channel = [s \in Sites |-> <<>>]
    /\ received = [d \in Ids |-> [x \in Axes |-> Nothing]]
    /\ running = FALSE /\ cached = Unread /\ polling = <<>> /\ override = FALSE
    /\ cycle = NoCycle /\ sent = {} /\ steady = {} /\ warned = {}
    /\ changes = 0 /\ troubles = 0

-----------------------------------------------------------------------------
(* The sites                                                               *)

Change == changes < MaxChanges /\ changes' = changes + 1
Trouble == troubles < MaxTroubles /\ troubles' = troubles + 1

BecomesOther(d, what) ==
    /\ Change
    /\ condition' = [condition EXCEPT ![d][what] = ~@]
    /\ UNCHANGED <<up, redis, channel, received, control, troubles>>

\* RemoteSiteRunner._on_start, _on_stop; a site that is gone hears nothing.
ComeOrGo(s) ==
    /\ Change
    /\ up' = IF s \in up THEN up \ {s} ELSE up \cup {s}
    /\ channel' = [channel EXCEPT ![s] = <<>>]
    /\ UNCHANGED <<condition, redis, received, control, troubles>>

\* The StateSyncManager of the site writes each key when the condition changes.
ReportLink(d) ==
    LET word == IF condition[d].link THEN "1" ELSE "0" IN
    /\ SiteOf[d] \in up /\ redis[d].online # word
    /\ redis' = [redis EXCEPT ![d].online = word]
    /\ UNCHANGED <<condition, up, channel, received, control, changes, troubles>>

ReportAlarm(d) ==
    /\ SiteOf[d] \in up /\ redis[d].alarms # condition[d].alarm
    /\ redis' = [redis EXCEPT ![d].alarms = condition[d].alarm]
    /\ warned' = warned \ {d}
    /\ UNCHANGED <<condition, up, channel, received, running, cached, polling, override, cycle,
                   sent, steady, changes, troubles>>

\* "1" is kept alive by the readings of the device, "0" and the alarms have no TTL.
Expire(d) ==
    /\ redis[d].online = "1" /\ (SiteOf[d] \notin up \/ ~condition[d].link)
    /\ redis' = [redis EXCEPT ![d].online = "none"]
    /\ UNCHANGED <<condition, up, channel, received, control, changes, troubles>>

\* RedisCommandAdapter takes the next message of the site's channel.
Receive(s) ==
    LET m == Head(channel[s]) IN
    /\ s \in up /\ channel[s] # <<>>
    /\ channel' = [channel EXCEPT ![s] = Tail(@)]
    /\ received' = IF condition[m.device].link
                   THEN [received EXCEPT ![m.device][m.axis] = m.value] ELSE received
    /\ UNCHANGED <<condition, up, redis, control, changes, troubles>>

-----------------------------------------------------------------------------
(* DeviceStateSubscriber                                                   *)

\* _poll_all asks for the state as well: nothing here depends on it.
BeginPoll ==
    /\ running /\ polling = <<>>
    /\ polling' = FlattenSeq([i \in DOMAIN Devices |->
                      <<<<Devices[i], "online">>, <<Devices[i], "alarms">>>>])
    /\ UNCHANGED <<world, running, cached, override, cycle, sent, steady, warned, changes, troubles>>

Online(word) == word = "1"

\* Mutant: any device that is online may be commanded.
OnlineOnly(d, cache) == cache[d].online

\* _is_device_available.
Available(d, cache) == cache[d].online /\ ~cache[d].alarms

Cache(cache) ==
    /\ cached' = cache
    /\ steady' = {d \in steady : Available(d, cache)}
    /\ cycle' = IF cycle.at # "route" THEN cycle
                ELSE [cycle EXCEPT !.seen = @ \cup {d \in Ids : Available(d, cache)}]

ReadKey ==
    LET d == Head(polling)[1]
        key == Head(polling)[2]
    IN
    /\ polling # <<>>
    /\ polling' = Tail(polling)
    /\ IF key = "online" THEN Cache([cached EXCEPT ![d].online = Online(redis[d].online)])
       ELSE Cache([cached EXCEPT ![d].alarms = redis[d].alarms])
    /\ warned' = IF key = "alarms" /\ redis[d].alarms THEN warned \cup {d} ELSE warned
    /\ UNCHANGED <<world, running, override, sent, changes, troubles>>

\* A device whose keys cannot be read is offline, and without alarms.
ReadFails ==
    LET d == Head(polling)[1]
        key == Head(polling)[2]
    IN
    /\ polling # <<>> /\ Trouble
    /\ polling' = Tail(polling)
    /\ Cache([cached EXCEPT ![d][key] = FALSE])
    /\ warned' = IF key = "alarms" THEN warned \ {d} ELSE warned
    /\ UNCHANGED <<world, running, override, sent, changes>>

-----------------------------------------------------------------------------
(* DistributedController and RemoteCommandRouter                           *)

Start ==
    /\ ~running
    /\ running' = TRUE /\ cached' = Unread /\ warned' = {}
    /\ UNCHANGED <<world, polling, override, cycle, sent, steady, changes, troubles>>

\* The SystemController ends its cycle before the subscriber is stopped.
Stop ==
    /\ Change /\ running /\ cycle.at # "route"
    /\ running' = FALSE /\ polling' = <<>> /\ cycle' = NoCycle /\ sent' = {} /\ steady' = {}
    /\ UNCHANGED <<world, cached, override, warned, troubles>>

\* _build_context: system_alarm.
HasOffline == \E d \in Ids : ~cached[d].online

\* A transform of NO_CHANGE raises, and the mapping is passed over.
Routed(command) ==
    SelectSeq([n \in DOMAIN Mappings |-> n],
              LAMBDA n : ~(NoChange(command, Mappings[n].axis) /\ Mappings[n].transform))

Plan(command) ==
    LET ns == Routed(command)
    IN  FlattenSeq([i \in DOMAIN ns |->
            [j \in DOMAIN Mappings[ns[i]].to |-> <<ns[i], Mappings[ns[i]].to[j]>>]])

\* The executor's cycle, up to the router's first message: the strategy of the effective
\* mode, _build_context, the protection, _handle_auto_stop.
Execute(command) ==
    /\ running /\ cycle.at # "route"
    /\ override => command = Stop0
    /\ override' = HasOffline
    /\ sent' = {} /\ steady' = {d \in Ids : Available(d, cached)}
    /\ cycle' = [at |-> "route", command |-> command, plan |-> Plan(command), seen |-> steady']
    /\ UNCHANGED <<world, running, cached, polling, warned, changes, troubles>>

\* Mutant: a device that is not available ends the broadcast of its mapping.
EndsMapping ==
    LET dark(job) == ~Available(job[2], cached) IN
    SelectSeq(cycle.plan, LAMBDA job : ~dark(job) /\
        \A i \in DOMAIN cycle.plan : cycle.plan[i][1] = job[1] => ~dark(cycle.plan[i]))

\* What is left of the plan: the router passes over a device that is not available when its
\* turn comes, without a pause.
Turns == LET Dark(job) == ~Available(job[2], cached)
         IN  IF \A i \in DOMAIN cycle.plan : Dark(cycle.plan[i]) THEN <<>>
             ELSE SubSeq(cycle.plan, SelectInSeq(cycle.plan, LAMBDA job : ~Dark(job)),
                         Len(cycle.plan))

Job == Turns[1]
Turn == cycle.at = "route" /\ Turns # <<>>

Publishing ==
    /\ Turn /\ ~NoChange(cycle.command, Mappings[Job[1]].axis)
    /\ cycle' = [cycle EXCEPT !.plan = Tail(Turns)]
    /\ sent' = sent \cup {<<Job[2], Mappings[Job[1]].axis>>}

Message == [device |-> Job[2], axis |-> Mappings[Job[1]].axis,
            value |-> cycle.command[Mappings[Job[1]].axis]]

\* _publish_command.  Nobody keeps a message for a site that does not listen.
Publish ==
    /\ Publishing
    /\ LET s == SiteOf[Job[2]] IN
       /\ Len(channel[s]) < MaxFlight
       /\ channel' = IF s \in up THEN [channel EXCEPT ![s] = Append(@, Message)] ELSE channel
    /\ UNCHANGED <<condition, up, redis, received, running, cached, polling, override, steady,
                   warned, changes, troubles>>

PublishFails ==
    /\ Publishing /\ Trouble
    /\ UNCHANGED <<world, running, cached, polling, override, steady, warned, changes>>

\* NO_CHANGE is no JSON: json.dumps raises, outside the try, and the executor logs it.
Unserializable ==
    /\ Turn /\ NoChange(cycle.command, Mappings[Job[1]].axis)
    /\ cycle' = [cycle EXCEPT !.at = "done", !.plan = <<>>]
    /\ UNCHANGED <<world, running, cached, polling, override, sent, steady, warned, changes, troubles>>

EndRoute ==
    /\ cycle.at = "route" /\ Turns = <<>>
    /\ cycle' = [cycle EXCEPT !.at = "done", !.plan = <<>>]
    /\ UNCHANGED <<world, running, cached, polling, override, sent, steady, warned, changes, troubles>>

Cycle == (\E command \in Commands \cup {Stop0} : Execute(command)) \/ Publish \/ Unserializable
         \/ EndRoute

Next ==
    \/ \E d \in Unsteady : (\E what \in {"link", "alarm"} : BecomesOther(d, what))
                           \/ ComeOrGo(SiteOf[d])
    \/ \E d \in Ids : ReportLink(d) \/ ReportAlarm(d) \/ Expire(d)
    \/ \E s \in Sites : Receive(s)
    \/ Start \/ Stop \/ BeginPoll \/ ReadKey \/ ReadFails \/ Cycle \/ PublishFails

\* The event loops run the poll, the executor and the adapters for ever.
Fairness ==
    /\ WF_remoteVars(BeginPoll \/ ReadKey) /\ WF_remoteVars(Cycle)
    /\ \A s \in Sites : WF_remoteVars(Receive(s))

Spec == Init /\ [][Next]_remoteVars /\ Fairness

-----------------------------------------------------------------------------
(* Properties                                                              *)

\* No message goes to a device whose alarm the subscriber has read, for as long as Redis
\* answers: until the alarm's withdrawal was published, or the key could not be read.
AlarmedLeftAlone ==
    [][\A d \in warned : sent' \subseteq sent \/ ~\E x \in Axes : <<d, x>> \in sent' \ sent]_remoteVars

\* A mapping the command breaks: it finds NO_CHANGE, and has no transform to stumble over it.
Breaks(n) == NoChange(cycle.command, Mappings[n].axis) /\ ~Mappings[n].transform
Before(n, devices) == \E m \in 1..(n - 1) : Breaks(m) /\ ToSet(Mappings[m].to) \cap devices # {}

\* When a cycle has ended, every device that was available throughout has been sent its
\* number for every axis the command changes, and none for another: a device that is offline
\* costs no other its command, nor does an axis with NO_CHANGE and a transform.  But where
\* there is no transform and a device of the mapping can be reached, the mappings after it
\* are lost to all: nothing they alone would send is sent.
AxesArrive ==
    cycle.at = "done" =>
      /\ \A n \in DOMAIN Mappings :
            ~NoChange(cycle.command, Mappings[n].axis) /\ ~Before(n, cycle.seen) =>
              \A d \in ToSet(Mappings[n].to) \cap steady : <<d, Mappings[n].axis>> \in sent
      /\ \A job \in sent : \E n \in DOMAIN Mappings :
            /\ Mappings[n].axis = job[2] /\ job[1] \in ToSet(Mappings[n].to)
            /\ ~NoChange(cycle.command, job[2]) /\ ~Before(n, steady)

Away(d) == redis[d].online # "1"
Sound(d) == redis[d] = [online |-> "1", alarms |-> FALSE] /\ condition[d].link /\ SiteOf[d] \in up

\* A device whose "online" key stays away, because it or its site is gone, stops the plant:
\* whatever else is lost, every device that is sound is sent the stop, and keeps it.  When all
\* are back, the stop is withdrawn.
LossStops ==
    /\ \A e \in Ids : \A d \in Ids \ {e} : <>[](running /\ Away(d) /\ Sound(e)) =>
           <>[](override /\ received[e] = [x \in Axes |-> IF \E n \in DOMAIN Mappings :
                    Mappings[n].axis = x /\ e \in ToSet(Mappings[n].to) THEN 0 ELSE Nothing])
    /\ <>[](running /\ \A d \in Ids : ~Away(d)) => <>[]~override
=============================================================================
