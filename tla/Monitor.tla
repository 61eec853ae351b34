-------------------------------- MODULE Monitor --------------------------------
(***************************************************************************)
(* csp_lib/monitor: a SystemMonitor on every node, which samples the host, *)
(* turns samples into alarms with a hysteresis, publishes them to Redis,   *)
(* notifies of them and keeps the node registered; and the                 *)
(* ClusterMonitorAggregator, which reads all nodes back.  Every Redis call *)
(* is a step of its own and fails while Redis is away.  A unit of time is  *)
(* one interval of the monitors.  External: the host, Redis, the channels  *)
(* of the dispatcher.                                                      *)
(***************************************************************************)
EXTENDS Integers, Sequences, SequencesExt, FiniteSets, FiniteSetsExt

CONSTANTS
    Nodes,
    Gauges,         \* alarm codes of cpu, ram and disks
    Interfaces,     \* alarm codes of network interfaces
    Traffic, Limit, \* bytes per unit; the threshold
    Unreadable,     \* disks whose usage may be unreadable
    Activate, Clear,         \* HysteresisConfig
    Ttl,                     \* units a registration lasts
    Modules,
    MaxTime, MaxTroubles     \* bounds

VARIABLES
    running, at,     \* node -> is the monitor running, the next step of its tick
    active, count,   \* node -> active alarms; counters: samples above (+) or below (-)
    unsent,          \* node -> events of the tick still to publish
    bytes,           \* node -> interface -> bytes since the counters were last read, or Never
    health,          \* node -> overall_status last published
    redis,           \* is Redis reachable
    key,             \* node -> remaining TTL of its registration
    own, shared,     \* node -> the two alarm sets in Redis
    notified,        \* node -> alarms whose last notification says TRIGGERED
    round,           \* the aggregator: nodes found, nodes still to read, unhealthy ones
    snapshot,        \* _last_snapshot
    ticked, time,
    lost, gone, outage, moved, troubles   \* history

monitorVars == <<running, at, active, count, unsent, bytes, health, redis, key, own, shared, notified,
                 round, snapshot, ticked, time, lost, gone, outage, moved, troubles>>
host == <<active, count, bytes>>
store == <<key, own, shared>>
aggregation == <<round, snapshot>>
past == <<lost, gone, outage>>

Codes == Gauges \cup Interfaces
Never == -1
NoRound == [found |-> {}, todo |-> {}, unhealthy |-> {}, on |-> FALSE]

MonitorTypes ==
    /\ \A n \in Nodes :
         /\ active[n] \subseteq Codes
         /\ \A c \in Codes : count[n][c] \in -Clear..Activate
         /\ \A e \in ToSet(unsent[n]) : e.raised <=> e.code \in active[n]
         /\ key[n] \in 0..Ttl
         /\ at[n] # "idle" => running[n]
    /\ snapshot.unhealthy \subseteq snapshot.nodes
    /\ round.todo \subseteq round.found
    /\ time \in 0..MaxTime /\ troubles \in 0..MaxTroubles

Init ==
    /\ running = [n \in Nodes |-> FALSE]
    /\ at = [n \in Nodes |-> "idle"]
    /\ active = [n \in Nodes |-> {}]
    /\ count = [n \in Nodes |-> [c \in Codes |-> 0]]
    /\ unsent = [n \in Nodes |-> <<>>]
    /\ bytes = [n \in Nodes |-> [i \in Interfaces |-> Never]]
    /\ health = [n \in Nodes |-> "none"]
    /\ redis = TRUE
    /\ key = [n \in Nodes |-> 0]
    /\ own = [n \in Nodes |-> {}]
    /\ shared = [n \in Nodes |-> {}]
    /\ notified = [n \in Nodes |-> {}]
    /\ round = NoRound
    /\ snapshot = [nodes |-> {}, unhealthy |-> {}, status |-> "HEALTHY"]
    /\ ticked = {} /\ time = 0
    /\ lost = {} /\ gone = {} /\ moved = {} /\ troubles = 0
    /\ outage = [n \in Nodes |-> 0]

Trouble == troubles < MaxTroubles /\ troubles' = troubles + 1

-----------------------------------------------------------------------------
\* Sampling.  An interface gets a rate from its second reading on: all bytes
\* since it was last read, over the time since any interface was read.

Rate(n, i) == IF bytes[n][i] = Never THEN 0 ELSE bytes[n][i]
CountersAfter(n, present) ==
    [i \in Interfaces |-> IF i \in present THEN 0 ELSE bytes[n][i]]
Evaluations(n, readable, high, present) ==
    [c \in readable \cup present |-> IF c \in Gauges THEN c \in high ELSE Rate(n, c) > Limit]

\* AlarmState.update; only the comparison with the threshold matters.
Above(c, k) == Min({Activate, IF k > 0 THEN k + 1 ELSE 1})
Below(c, k) == Max({-Clear, IF k < 0 THEN k - 1 ELSE -1})
Counted(n, evaluations) ==
    [c \in Codes |-> IF c \notin DOMAIN evaluations THEN count[n][c]
                     ELSE IF evaluations[c] THEN Above(c, count[n][c]) ELSE Below(c, count[n][c])]
Cleared(evaluations, counted, raised, c) == c \in DOMAIN evaluations /\ counted[c] = -Clear
Changed(evaluations, counted, raised) ==
    {[code |-> c, raised |-> TRUE] : c \in {x \in Codes \ raised : x \in DOMAIN evaluations /\ counted[x] = Activate}}
    \cup {[code |-> c, raised |-> FALSE] : c \in {x \in raised : Cleared(evaluations, counted, raised, x)}}
ActiveAfter(raised, changes) ==
    (raised \cup {e.code : e \in {x \in changes : x.raised}}) \ {e.code : e \in {x \in changes : ~x.raised}}

\* Collect and evaluate: one step, nothing is awaited.
BeginTick(n) ==
    /\ running[n] /\ at[n] = "idle" /\ n \notin ticked
    /\ \E missing \in SUBSET Unreadable, high \in SUBSET Gauges, present \in SUBSET Interfaces :
         LET evaluations == Evaluations(n, Gauges \ missing, high, present)
             counted == Counted(n, evaluations)
             changes == Changed(evaluations, counted, active[n]) IN
         /\ bytes' = [bytes EXCEPT ![n] = CountersAfter(n, present)]
         /\ count' = [count EXCEPT ![n] = counted]
         /\ active' = [active EXCEPT ![n] = ActiveAfter(@, changes)]
         /\ unsent' = [unsent EXCEPT ![n] = SetToSeq(changes)]
    /\ at' = [at EXCEPT ![n] = "metrics"]
    /\ UNCHANGED <<running, health, redis, store, notified, aggregation, ticked, time, past, moved, troubles>>

AfterMetrics(n) == IF unsent[n] = <<>> THEN "modules" ELSE "own"

\* publish_metrics ends with the heartbeat: a registration that is still
\* there is written again, one that has expired is not.
PublishMetrics(n) ==
    /\ at[n] = "metrics"
    /\ at' = [at EXCEPT ![n] = IF redis THEN "refresh" ELSE AfterMetrics(n)]
    /\ UNCHANGED <<running, host, unsent, health, redis, store, notified, aggregation, ticked, time, past, moved, troubles>>
\* Mutant: the time to live is not renewed.
SeenOnly(n) == key[n]
Renewed(n) == IF key[n] > 0 THEN Ttl ELSE 0
RefreshRegistration(n) ==
    /\ at[n] = "refresh"
    /\ key' = IF redis THEN [key EXCEPT ![n] = Renewed(n)] ELSE key
    /\ outage' = IF redis THEN [outage EXCEPT ![n] = 0] ELSE outage
    /\ at' = [at EXCEPT ![n] = AfterMetrics(n)]
    /\ UNCHANGED <<running, host, unsent, health, redis, own, shared, notified, aggregation, ticked, time, lost, gone, moved, troubles>>

\* Mutant: cleared alarms are not removed.
Adding(set, event) == set \cup {event.code}
Changing(set, event) == IF event.raised THEN set \cup {event.code} ELSE set \ {event.code}
\* publish_alarm_event writes the set of the node, then the one of the cluster.
PublishOwn(n) ==
    /\ at[n] = "own"
    /\ own' = IF redis THEN [own EXCEPT ![n] = Changing(@, Head(unsent[n]))] ELSE own
    /\ lost' = IF redis THEN lost ELSE lost \cup {n}
    /\ at' = [at EXCEPT ![n] = IF redis THEN "shared" ELSE "notify"]
    /\ UNCHANGED <<running, host, unsent, health, redis, key, shared, notified, aggregation, ticked, time, gone, outage, moved, troubles>>
PublishShared(n) ==
    /\ at[n] = "shared"
    /\ shared' = IF redis THEN [shared EXCEPT ![n] = Changing(@, Head(unsent[n]))] ELSE shared
    /\ lost' = IF redis THEN lost ELSE lost \cup {n}
    /\ moved' = moved \cup {n}
    /\ at' = [at EXCEPT ![n] = "notify"]
    /\ UNCHANGED <<running, host, unsent, health, redis, key, own, notified, aggregation, ticked, time, gone, outage, troubles>>
NotifyAlarm(n) ==
    /\ at[n] = "notify"
    /\ notified' = [notified EXCEPT ![n] = Changing(@, Head(unsent[n]))]
    /\ unsent' = [unsent EXCEPT ![n] = Tail(@)]
    /\ at' = [at EXCEPT ![n] = IF Len(unsent[n]) > 1 THEN "own" ELSE "modules"]
    /\ UNCHANGED <<running, host, health, redis, store, aggregation, ticked, time, past, moved, troubles>>

\* A module whose check raises is UNHEALTHY; the worst status wins.
Statuses == {"HEALTHY", "DEGRADED", "UNHEALTHY"}
Overall(reports) ==
    CASE "UNHEALTHY" \in reports -> "UNHEALTHY"
      [] "UNHEALTHY" \notin reports /\ "DEGRADED" \in reports -> "DEGRADED"
      [] OTHER -> "HEALTHY"
PublishModules(n) ==
    /\ at[n] = "modules"
    /\ \E report \in [Modules -> Statuses] :
         health' = IF redis THEN [health EXCEPT ![n] = Overall({report[m] : m \in Modules})] ELSE health
    /\ at' = [at EXCEPT ![n] = "idle"]
    /\ ticked' = ticked \cup {n}
    /\ UNCHANGED <<running, host, unsent, redis, store, notified, aggregation, time, past, moved, troubles>>

-----------------------------------------------------------------------------
\* Starting, stopping and crashing; Redis; time.

Start(n) ==
    /\ ~running[n]
    /\ running' = [running EXCEPT ![n] = TRUE]
    /\ key' = IF redis THEN [key EXCEPT ![n] = Ttl] ELSE key
    /\ gone' = IF redis THEN gone \ {n} ELSE gone \cup {n}
    /\ outage' = [outage EXCEPT ![n] = 0]
    /\ moved' = moved \cup {n}
    /\ UNCHANGED <<at, host, unsent, health, redis, own, shared, notified, aggregation, ticked, time, lost, troubles>>

\* Stopping cancels the tick; what it had not yet published never is.
Cut(n) ==
    /\ running' = [running EXCEPT ![n] = FALSE]
    /\ at' = [at EXCEPT ![n] = "idle"]
    /\ unsent' = [unsent EXCEPT ![n] = <<>>]
Stop(n) ==
    /\ Trouble /\ running[n] /\ Cut(n)
    /\ lost' = IF unsent[n] = <<>> THEN lost ELSE lost \cup {n}
    /\ UNCHANGED <<host, health, redis, store, notified, aggregation, ticked, time, gone, outage, moved>>
Crash(n) ==
    /\ Trouble /\ running[n] /\ Cut(n)
    /\ active' = [active EXCEPT ![n] = {}]
    /\ count' = [count EXCEPT ![n] = [c \in Codes |-> 0]]
    /\ bytes' = [bytes EXCEPT ![n] = [i \in Interfaces |-> Never]]
    /\ lost' = IF active[n] = {} /\ unsent[n] = <<>> THEN lost ELSE lost \cup {n}
    /\ UNCHANGED <<health, redis, store, notified, aggregation, ticked, time, gone, outage, moved>>

GoOrCome ==
    /\ IF redis THEN Trouble ELSE UNCHANGED troubles
    /\ redis' = ~redis
    /\ UNCHANGED <<running, at, host, unsent, health, store, notified, aggregation, ticked, time, past, moved>>

\* One interval passes; no running monitor is slower than that.
Pass ==
    /\ time < MaxTime /\ time' = time + 1
    /\ \A n \in Nodes : running[n] => n \in ticked
    /\ ticked' = {}
    /\ key' = [n \in Nodes |-> Max({0, key[n] - 1})]
    /\ outage' = [n \in Nodes |-> Min({Ttl, outage[n] + 1})]
    /\ gone' = gone \cup {n \in Nodes : outage'[n] = Ttl}
    /\ moved' = moved \cup {n \in Nodes : key[n] = 1}
    /\ \E flow \in [Interfaces -> Traffic] :
         bytes' = [n \in Nodes |-> [i \in Interfaces |->
                     IF bytes[n][i] = Never THEN Never ELSE Min({2 * Limit, bytes[n][i] + flow[i]})]]
    /\ UNCHANGED <<running, at, active, count, unsent, health, redis, own, shared, notified, aggregation, lost, troubles>>

-----------------------------------------------------------------------------
\* The aggregator.

Discover ==
    /\ ~round.on /\ redis
    /\ LET found == {n \in Nodes : key[n] > 0} IN
         round' = [found |-> found, todo |-> found, unhealthy |-> {}, on |-> TRUE]
    /\ moved' = {}
    /\ UNCHANGED <<running, at, host, unsent, health, redis, store, notified, snapshot, ticked, time, past, troubles>>

\* Mutant: the set under the prefix of the node itself.
OwnAlarms(n) == redis /\ own[n] # {}
\* An unreadable alarm set counts as an empty one.
Unhealthy(n) == redis /\ shared[n] # {}
CollectNode(n) ==
    /\ n \in round.todo
    /\ round' = [round EXCEPT !.todo = @ \ {n},
                              !.unhealthy = IF Unhealthy(n) THEN @ \cup {n} ELSE @]
    /\ moved' = IF redis THEN moved ELSE moved \cup {n}
    /\ UNCHANGED <<running, at, host, unsent, health, redis, store, notified, snapshot, ticked, time, past, troubles>>

\* Every node found is online, so the cluster is never UNHEALTHY.
Conclude ==
    /\ round.on /\ round.todo = {}
    /\ snapshot' = [nodes |-> round.found, unhealthy |-> round.unhealthy,
                    status |-> IF round.unhealthy = {} THEN "HEALTHY" ELSE "DEGRADED"]
    /\ round' = NoRound
    /\ UNCHANGED <<running, at, host, unsent, health, redis, store, notified, ticked, time, past, moved, troubles>>

Next ==
    \/ \E n \in Nodes :
         \/ BeginTick(n) \/ PublishMetrics(n) \/ RefreshRegistration(n) \/ PublishOwn(n) \/ PublishShared(n)
         \/ NotifyAlarm(n) \/ PublishModules(n) \/ Start(n) \/ Stop(n) \/ Crash(n) \/ CollectNode(n)
    \/ GoOrCome \/ Pass \/ Discover \/ Conclude

Spec == Init /\ [][Next]_monitorVars
-----------------------------------------------------------------------------
\* Unless Redis was away or the monitor stopped while it had something to
\* say, both alarm sets and the notifications of a node are what its
\* evaluator holds active, once the tick is over.
AlarmsMirrored ==
    \A n \in Nodes \ lost :
        at[n] = "idle" => own[n] = active[n] /\ shared[n] = active[n] /\ notified[n] = active[n]

\* A running monitor that never missed Redis for a whole TTL stays registered.
StaysRegistered == \A n \in Nodes \ gone : running[n] => key[n] > 0

\* The last snapshot has exactly the registered nodes, and reports the ones
\* with alarms, as far as nothing moved since its round began.
SnapshotTrue ==
    ~round.on /\ snapshot.nodes # {} =>
        \A n \in Nodes \ moved : (n \in snapshot.nodes <=> key[n] > 0)
                                 /\ (n \in snapshot.unhealthy <=> key[n] > 0 /\ shared[n] # {})
=============================================================================
