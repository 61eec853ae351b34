------------------------------ MODULE Cluster ------------------------------
(***************************************************************************)
(* csp_lib/cluster: nodes elect a leader over an etcd lease (LeaderElector *)
(* of election.py) and switch between a follower whose commands go nowhere *)
(* and a leader that starts the devices and commands them                  *)
(* (ClusterController of controller.py).                                   *)
(*                                                                         *)
(* A node is three tasks: the one that starts and stops the controller,    *)
(* the campaign task, which also carries out the promotion, and the        *)
(* keepalive task, which also carries out the demotion.  Time is counted   *)
(* in ticks; a sleep ends on its tick, a call takes at most Patience.      *)
(* etcd is external: the election key hangs on the lease of its owner; a   *)
(* call takes effect when it is sent and is answered later, or fails, with *)
(* or without having taken effect.                                         *)
(***************************************************************************)
EXTENDS Naturals, FiniteSets

CONSTANTS
    Nodes,
    TTL,          \* lease_ttl
    Interval,     \* max(lease_ttl / 3, 1): between keepalives
    Poll,         \* max(lease_ttl / 2, 1): between a follower's looks at the key
    RetryDelay,   \* campaign_retry_delay
    Grace,        \* failover_grace_period
    MaxFailures,  \* max_keepalive_failures
    Patience,     \* bound: how long a call to etcd, Redis or the devices takes
    Faults,       \* what may go wrong, of "rpc", "crash", "promotion", "resign", "stop"
    None

ASSUME ClusterAssumption ==
    /\ TTL \in Nat \ {0} /\ Interval \in Nat \ {0} /\ Poll \in Nat \ {0}
    /\ RetryDelay \in Nat \ {0} /\ Grace \in Nat /\ Patience \in Nat
    /\ MaxFailures \in Nat \ {0}
    /\ Faults \subseteq {"rpc", "crash", "promotion", "resign", "stop"}
    /\ None \notin Nodes

VARIABLES
    owner,    \* whose instance_id the election key holds, or None
    left,     \* ticks until the lease the key hangs on expires
    holds,    \* whether the last lease of each node is that of a key it has put
    state,    \* ElectionState of each node
    ctl,      \* its controller: running, or where in stop
    task,     \* where its campaign task is suspended
    keep,     \* where its keepalive task is suspended
    age,      \* ticks each of the three has been suspended there
    fails,    \* consecutive_failures of the keepalive
    live,     \* the executor commands the devices (leader mode)
    devices   \* UnifiedDeviceManager

vars == <<owner, left, holds, state, ctl, task, keep, age, fails, live, devices>>
lease == <<owner, left>>
key == <<lease, holds>>

Calling == {"granting", "won", "lost", "reading", "getting", "starting", "announcing"}

\* Every variable holds a value of its kind, no one waits longer than what it
\* waits for allows, and the key is there exactly as long as its lease.
TypeOK ==
    /\ owner \in Nodes \cup {None} /\ left \in 0..TTL
    /\ left = 0 <=> owner = None
    /\ holds \in [Nodes -> BOOLEAN]
    /\ state \in [Nodes -> {"candidate", "leader", "follower", "stopped"}]
    /\ ctl \in [Nodes -> {"down", "up", "resigning", "closing", "draining"}]
    /\ task \in [Nodes -> Calling \cup {"off", "polling", "grace", "leading", "retrying"}]
    /\ keep \in [Nodes -> {"off", "waiting", "renewed", "failing", "demoting", "closing"}]
    /\ age \in [Nodes -> [task : Nat, keep : Nat, ctl : Nat]]
    /\ fails \in [Nodes -> 0..MaxFailures - 1]
    /\ live \in [Nodes -> BOOLEAN]
    /\ devices \in [Nodes -> {"off", "on", "leaked"}]

Init ==
    /\ owner = None /\ left = 0
    /\ holds = [n \in Nodes |-> FALSE]
    /\ state = [n \in Nodes |-> "stopped"]
    /\ ctl = [n \in Nodes |-> "down"]
    /\ task = [n \in Nodes |-> "off"]
    /\ keep = [n \in Nodes |-> "off"]
    /\ age = [n \in Nodes |-> [task |-> 0, keep |-> 0, ctl |-> 0]]
    /\ fails = [n \in Nodes |-> 0]
    /\ live = [n \in Nodes |-> FALSE]
    /\ devices = [n \in Nodes |-> "off"]

\* The campaign task of n suspends at p, its keepalive task at k, stop at c.
TaskTo(n, p) ==
    /\ task' = [task EXCEPT ![n] = p]
    /\ age' = [age EXCEPT ![n].task = 0]

KeepTo(n, k) ==
    /\ keep' = [keep EXCEPT ![n] = k]
    /\ age' = [age EXCEPT ![n].keep = 0]

CtlTo(n, c) ==
    /\ ctl' = [ctl EXCEPT ![n] = c]
    /\ age' = [age EXCEPT ![n] = [task |-> 0, keep |-> 0, ctl |-> 0]]

\* _lease of n is gone, or another one than the key's.
Drop(n) == holds' = [holds EXCEPT ![n] = FALSE]

\* _resign_internal: lease_revoke of n's last lease, and the key with it if it is
\* the key's; a failure is only logged.
Revoked(n) ==
    /\ Drop(n)
    /\ \/ owner = n /\ holds[n] /\ owner' = None /\ left' = 0
       \/ (owner = n /\ holds[n] => "rpc" \in Faults) /\ UNCHANGED lease

-----------------------------------------------------------------------------
(* The campaign: _campaign_loop, _try_campaign, _wait_for_leader_loss      *)

\* lease_grant is answered and the transaction sent.  The lease is as old as
\* the call that granted it.
Put(n) ==
    /\ task[n] = "granting"
    /\ IF owner = None /\ age[n].task < TTL
       THEN /\ owner' = n /\ left' = TTL - age[n].task
            /\ holds' = [holds EXCEPT ![n] = TRUE]
            /\ TaskTo(n, "won")
       ELSE /\ TaskTo(n, "lost")
            /\ Drop(n) /\ UNCHANGED lease
    /\ UNCHANGED <<state, ctl, keep, fails, live, devices>>

\* The transaction is answered: leader; _handle_elected is awaited.
Win(n) ==
    /\ task[n] = "won"
    /\ state' = [state EXCEPT ![n] = "leader"]
    /\ TaskTo(n, "starting")
    /\ UNCHANGED <<key, ctl, keep, fails, live, devices>>

Lose(n) ==
    /\ task[n] = "lost"
    /\ TaskTo(n, "reading")
    /\ UNCHANGED <<key, state, ctl, keep, fails, live, devices>>

\* The current leader is read, the unused lease revoked.
Follow(n) ==
    /\ task[n] = "reading"
    /\ state' = [state EXCEPT ![n] = "follower"]
    /\ TaskTo(n, IF ctl[n] = "up" THEN "polling" ELSE "off")
    /\ UNCHANGED <<key, ctl, keep, fails, live, devices>>

Look(n) ==
    /\ task[n] = "polling" /\ age[n].task = Poll
    /\ TaskTo(n, "getting")
    /\ UNCHANGED <<key, state, ctl, keep, fails, live, devices>>

\* Mutant: a key that has gone is not noticed.
NeverLost == FALSE

LeaderLost == owner = None

\* The answer to the poll: a key that has gone means a new campaign.
Seen(n) ==
    /\ task[n] = "getting"
    /\ IF LeaderLost
       THEN /\ state' = [state EXCEPT ![n] = "candidate"]
            /\ TaskTo(n, "granting")
       ELSE /\ TaskTo(n, "polling")
            /\ UNCHANGED state
    /\ UNCHANGED <<key, ctl, keep, fails, live, devices>>

\* A call raises: the campaign is tried again after a while, unless a stop has
\* come, the poll at its next turn.  What the call did to etcd stays done.
CallFails(n) ==
    /\ "rpc" \in Faults
    /\ \/ /\ task[n] \in {"granting", "won", "lost", "reading"}
          /\ TaskTo(n, IF ctl[n] = "up" THEN "retrying" ELSE "off")
       \/ task[n] = "getting" /\ TaskTo(n, "polling")
    /\ UNCHANGED <<key, state, ctl, keep, fails, live, devices>>

Retry(n) ==
    /\ task[n] = "retrying" /\ age[n].task = RetryDelay
    /\ TaskTo(n, "granting")
    /\ UNCHANGED <<key, state, ctl, keep, fails, live, devices>>

-----------------------------------------------------------------------------
(* The promotion: _handle_elected, then keepalive                          *)

DevicesStarted(n) ==
    /\ task[n] = "starting"
    /\ devices' = [devices EXCEPT ![n] = "on"]
    /\ TaskTo(n, "grace")
    /\ UNCHANGED <<key, state, ctl, keep, fails, live>>

\* failover_grace_period is over: _enter_leader_mode, then publisher.start.
GoLive(n) ==
    /\ task[n] = "grace" /\ age[n].task = Grace
    /\ live' = [live EXCEPT ![n] = TRUE]
    /\ TaskTo(n, "announcing")
    /\ UNCHANGED <<key, state, ctl, keep, fails, devices>>

\* The promotion is through: the keepalive task starts; a stop meanwhile ends
\* both at once.
Announced(n) ==
    /\ task[n] = "announcing"
    /\ task' = [task EXCEPT ![n] = IF ctl[n] = "up" THEN "leading" ELSE "off"]
    /\ keep' = [keep EXCEPT ![n] = IF ctl[n] = "up" THEN "waiting" ELSE "off"]
    /\ age' = [age EXCEPT ![n].task = 0, ![n].keep = 0]
    /\ fails' = [fails EXCEPT ![n] = 0]
    /\ UNCHANGED <<key, state, ctl, live, devices>>

\* on_elected raises: the campaign loop catches it and tries again.
PromotionFails(n) ==
    /\ "promotion" \in Faults
    /\ task[n] \in {"starting", "announcing"}
    /\ TaskTo(n, IF ctl[n] = "up" THEN "retrying" ELSE "off")
    /\ UNCHANGED <<key, state, ctl, keep, fails, live, devices>>

-----------------------------------------------------------------------------
(* Keepalive and demotion: _keepalive_loop, _handle_demotion               *)

\* A keepalive is sent; it renews the lease if that is still there.
Renew(n) ==
    /\ keep[n] = "waiting" /\ age[n].keep = Interval
    /\ \/ owner = n /\ left' = TTL /\ KeepTo(n, "renewed")
       \/ owner = n /\ "rpc" \in Faults /\ left' \in {left, TTL} /\ KeepTo(n, "failing")
       \/ owner # n /\ UNCHANGED left /\ KeepTo(n, "failing")
    /\ UNCHANGED <<owner, holds, state, ctl, task, fails, live, devices>>

RenewOk(n) ==
    /\ keep[n] = "renewed"
    /\ fails' = [fails EXCEPT ![n] = 0]
    /\ KeepTo(n, IF ctl[n] = "up" THEN "waiting" ELSE "off")
    /\ UNCHANGED <<key, state, ctl, task, live, devices>>

\* Mutant: one failure more than configured.
OneMore(n) == fails[n] + 1 > MaxFailures

TooMany(n) == fails[n] + 1 >= MaxFailures

\* It raises: count, and after too many fence oneself; publisher.stop is
\* awaited before the executor leaves leader mode.
RenewFails(n) ==
    /\ keep[n] = "failing"
    /\ IF TooMany(n)
       THEN /\ state' = [state EXCEPT ![n] = "follower"]
            /\ KeepTo(n, "demoting")
            /\ UNCHANGED fails
       ELSE /\ fails' = [fails EXCEPT ![n] = @ + 1]
            /\ KeepTo(n, IF ctl[n] = "up" THEN "waiting" ELSE "off")
            /\ UNCHANGED state
    /\ UNCHANGED <<key, ctl, task, live, devices>>

\* Mutant: the devices are stopped before the executor is switched.
DevicesFirst(n) ==
    /\ keep[n] = "demoting"
    /\ devices' = [devices EXCEPT ![n] = "off"]
    /\ age' = [age EXCEPT ![n].keep = 0]
    /\ UNCHANGED <<key, state, ctl, task, keep, fails, live>>

\* Mutant: the executor is not switched.
NotSwitched(n) ==
    /\ keep[n] = "demoting"
    /\ KeepTo(n, "closing")
    /\ UNCHANGED <<key, state, ctl, task, fails, live, devices>>

\* _enter_follower_mode, then unified_manager.stop.
Fenced(n) ==
    /\ keep[n] = "demoting"
    /\ live' = [live EXCEPT ![n] = FALSE]
    /\ KeepTo(n, "closing")
    /\ UNCHANGED <<key, state, ctl, task, fails, devices>>

\* The demotion is through.  The campaign task still waits for stop.
Demoted(n) ==
    /\ keep[n] = "closing"
    /\ devices' = [devices EXCEPT ![n] = "off"]
    /\ KeepTo(n, "off")
    /\ UNCHANGED <<key, state, ctl, task, fails, live>>

\* resign(): the lease is revoked, and nothing else done.
Resign(n) ==
    /\ "resign" \in Faults
    /\ state[n] = "leader" /\ ctl[n] = "up" /\ holds[n]
    /\ Revoked(n)
    /\ UNCHANGED <<state, ctl, task, keep, age, fails, live, devices>>

-----------------------------------------------------------------------------
(* Start, stop, crash                                                      *)

\* start(): follower mode, then the elector.
Start(n) ==
    /\ ctl[n] = "down"
    /\ CtlTo(n, "up")
    /\ state' = [state EXCEPT ![n] = "candidate"]
    /\ task' = [task EXCEPT ![n] = "granting"]
    /\ live' = [live EXCEPT ![n] = FALSE]
    /\ UNCHANGED <<key, keep, fails, devices>>

\* Cancelled in the middle of starting or stopping the devices, the manager
\* says that it does not run, whatever its devices do.
Interrupted(n) ==
    \/ task[n] = "starting" /\ devices[n] # "on"
    \/ keep[n] = "closing"

\* The elector has stopped: its tasks are cancelled.
ElectorStopped(n) ==
    /\ state' = [state EXCEPT ![n] = "stopped"]
    /\ task' = [task EXCEPT ![n] = "off"]
    /\ keep' = [keep EXCEPT ![n] = "off"]
    /\ devices' = [devices EXCEPT ![n] = IF Interrupted(n) THEN "leaked" ELSE @]
    /\ CtlTo(n, "closing")
    /\ Drop(n) /\ UNCHANGED lease

StopFollower(n) ==
    /\ "stop" \in Faults
    /\ ctl[n] = "up" /\ state[n] # "leader"
    /\ ElectorStopped(n)
    /\ UNCHANGED <<fails, live>>

\* A leader gives its lease back first; tasks that wait for the stop event end.
StopLeader(n) ==
    /\ "stop" \in Faults
    /\ ctl[n] = "up" /\ state[n] = "leader"
    /\ Revoked(n)
    /\ ctl' = [ctl EXCEPT ![n] = "resigning"]
    /\ age' = [age EXCEPT ![n].ctl = 0]
    /\ task' = [task EXCEPT ![n] = IF @ \in {"leading", "polling", "retrying"} THEN "off" ELSE @]
    /\ keep' = [keep EXCEPT ![n] = IF @ = "waiting" THEN "off" ELSE @]
    /\ UNCHANGED <<state, fails, live, devices>>

Resigned(n) ==
    /\ ctl[n] = "resigning"
    /\ ElectorStopped(n)
    /\ UNCHANGED <<fails, live>>

\* publisher.stop and system_controller.stop: the executor is gone.
ExecutorStopped(n) ==
    /\ ctl[n] = "closing"
    /\ live' = [live EXCEPT ![n] = FALSE]
    /\ CtlTo(n, "draining")
    /\ UNCHANGED <<key, state, task, keep, fails, devices>>

\* unified_manager.stop, if it says that it runs.
Stopped(n) ==
    /\ ctl[n] = "draining"
    /\ devices' = [devices EXCEPT ![n] = IF @ = "on" THEN "off" ELSE @]
    /\ CtlTo(n, "down")
    /\ UNCHANGED <<key, state, task, keep, fails, live>>

\* The process dies: nothing is left of it but its lease.
Crash(n) ==
    /\ "crash" \in Faults
    /\ ctl[n] # "down"
    /\ CtlTo(n, "down")
    /\ state' = [state EXCEPT ![n] = "stopped"]
    /\ task' = [task EXCEPT ![n] = "off"]
    /\ keep' = [keep EXCEPT ![n] = "off"]
    /\ live' = [live EXCEPT ![n] = FALSE]
    /\ devices' = [devices EXCEPT ![n] = "off"]
    /\ Drop(n) /\ UNCHANGED <<lease, fails>>

-----------------------------------------------------------------------------
(* Time                                                                    *)

\* How long the campaign task, the keepalive task and stop of n wait at most
\* where they are (0: they do not wait for time).
TaskLimit(n) ==
    CASE task[n] \in Calling -> Patience
      [] task[n] = "polling" -> Poll
      [] task[n] = "grace" -> Grace
      [] task[n] = "retrying" -> RetryDelay
      [] OTHER -> 0

KeepLimit(n) ==
    CASE keep[n] = "waiting" -> Interval
      [] keep[n] = "off" -> 0
      [] OTHER -> Patience

Waits(n) == [task |-> task[n] \notin {"off", "leading"}, keep |-> keep[n] # "off",
             ctl |-> ctl[n] \notin {"up", "down"}]

\* Nobody is due.
Idle(n) ==
    /\ Waits(n).task => age[n].task < TaskLimit(n)
    /\ Waits(n).keep => age[n].keep < KeepLimit(n)
    /\ Waits(n).ctl => age[n].ctl < Patience

Tick ==
    /\ \A n \in Nodes : Idle(n)
    /\ left' = IF left > 0 THEN left - 1 ELSE 0
    /\ owner' = IF left > 1 THEN owner ELSE None
    /\ age' = [n \in Nodes |-> [f \in {"task", "keep", "ctl"} |->
                  IF Waits(n)[f] THEN age[n][f] + 1 ELSE 0]]
    /\ UNCHANGED <<holds, state, ctl, task, keep, fails, live, devices>>

Campaign(n) ==
    \/ Put(n) \/ Win(n) \/ Lose(n) \/ Follow(n) \/ Look(n) \/ Seen(n) \/ Retry(n)
    \/ DevicesStarted(n) \/ GoLive(n) \/ Announced(n)

Keepalive(n) == Renew(n) \/ RenewOk(n) \/ RenewFails(n) \/ Fenced(n) \/ Demoted(n)

Shutdown(n) == Resigned(n) \/ ExecutorStopped(n) \/ Stopped(n)

Next ==
    \/ \E n \in Nodes :
         \/ Campaign(n) \/ CallFails(n) \/ PromotionFails(n) \/ Keepalive(n)
         \/ Resign(n) \/ Start(n) \/ StopFollower(n) \/ StopLeader(n)
         \/ Shutdown(n) \/ Crash(n)
    \/ Tick

Spec == Init /\ [][Next]_vars

\* Time passes, and what a node waits for arrives.
Fairness ==
    /\ WF_vars(Tick)
    /\ \A n \in Nodes :
         WF_vars(Campaign(n)) /\ WF_vars(Keepalive(n)) /\ WF_vars(Shutdown(n))

FairSpec == Spec /\ Fairness

-----------------------------------------------------------------------------
(* Properties                                                              *)

\* What the configuration must satisfy for AtMostOneController: the lease outlasts
\* a promotion, the failures after it and the demotion (six calls besides the
\* keepalives), and the grace period outlasts the two calls of a stop that come
\* between giving the lease back and stopping the executor.  The default
\* configuration, with MaxFailures * Interval = TTL, does not satisfy it.
Timely ==
    /\ 6 * Patience + MaxFailures * (Interval + Patience) < TTL
    /\ 2 * Patience < Grace

\* At most one node commands the devices, whatever calls fail, nodes crash or
\* stop (self-fencing is there to avoid split brain).
AtMostOneController == Cardinality({n \in Nodes : live[n]}) <= 1

\* Commands go to devices that have been started and not begun to stop.
CommandsReachDevices == \A n \in Nodes : live[n] => devices[n] = "on"

\* A node that follows another does not command the devices, but for the moment
\* its demotion takes.
FollowerNeverCommands ==
    \A n \in Nodes : state[n] = "follower" /\ live[n] => keep[n] = "demoting"

\* Who commands has devices to command, and the lead.
CommandsArrive == CommandsReachDevices /\ FollowerNeverCommands

\* A node whose term is over without a stop: it is up, but its campaign task
\* only waits for the stop event and it never campaigns again.
SpentUp(n) == task[n] = "leading" /\ keep[n] = "off"

Settled(n) == <>[](ctl[n] = "up") \/ <>[](ctl[n] = "down")

\* Once nodes no longer come and go and promotions no longer fail, some node ends
\* up commanding the devices for good, provided one is up that has not spent its
\* term: a leader that crashed, stopped, resigned or failed in its promotion, at
\* whatever point, is replaced.
TakenOver ==
    /\ \A n \in Nodes : Settled(n)
    /\ \E n \in Nodes : <>[](ctl[n] = "up" /\ ~SpentUp(n))
    /\ <>[][\A n \in Nodes : ~PromotionFails(n)]_vars
    => <>[](\E n \in Nodes : live[n])
=============================================================================
