----------------------------- MODULE ClusterSync -----------------------------
(***************************************************************************)
(* What the nodes of a cluster tell each other over Redis                  *)
(* (csp_lib/cluster/sync.py) and what a new leader takes over from it      *)
(* (ClusterController._handle_elected).  The leader publishes its identity *)
(* and its base modes in rounds; every node polls them into a snapshot; a  *)
(* node that is promoted adds the base modes of its snapshot to its own.   *)
(* The protection state, the last command and the auto-stop flag are       *)
(* published and polled in the same rounds and left out.                   *)
(*                                                                         *)
(* The election is in Cluster: here a leader is fenced, stops or crashes   *)
(* at any time, and another node may be promoted while the fenced one      *)
(* still publishes.  Redis is external: its keys expire when nobody        *)
(* refreshes them.                                                         *)
(***************************************************************************)
EXTENDS Naturals, FiniteSets

CONSTANTS
    Nodes,
    Modes,         \* the registered modes
    Configured,    \* the base modes the application gives each node when it starts
    MaxSwitches,   \* bounds of the instance: how often operators change the modes
    MaxTerms,      \* and how often a node is promoted
    MayFail,       \* what may happen, of "redis", "crash", "expire"
    None

VARIABLES
    term,          \* where each node is in its term as a leader
    modes,         \* base_mode_names of its mode manager
    taking,        \* the modes a promoted node has still to add
    round,         \* what its publisher publishes next
    leaderKey,     \* Redis: whose identity "leader" holds
    modeKey,       \* Redis: the base modes of "mode_state"; {} when it is absent
    snapshot,      \* ClusterSnapshot of each node: leader and base modes
    switches, terms,
    wanted,        \* history: the base modes the last leader had
    missed         \* history: some of them may not have reached its successor

syncVars == <<term, modes, taking, round, leaderKey, modeKey, snapshot,
              switches, terms, wanted, missed>>
redis == <<leaderKey, modeKey>>
bounds == <<switches, terms>>

\* A node is down, follows, has announced nothing yet, adds modes, leads, has lost its
\* lease without its publisher knowing, stops the publisher, or follows for good.
Terms == {"down", "follower", "announcing", "adding", "leading", "fenced", "retiring", "spent"}

\* The publisher of n runs.
Publishing(n) == term[n] \in {"adding", "leading", "fenced"}
Nothing == [leader |-> None, modes |-> {}]

SyncTypes ==
    /\ term \in [Nodes -> Terms]
    /\ modes \in [Nodes -> SUBSET Modes] /\ taking \in [Nodes -> SUBSET Modes]
    /\ \A n \in Nodes : term[n] \notin {"adding", "fenced", "retiring"} => taking[n] = {}
    /\ round \in [Nodes -> {"identity", "modes"}]
    /\ leaderKey \in Nodes \cup {None} /\ modeKey \subseteq Modes
    /\ snapshot \in [Nodes -> [leader : Nodes \cup {None}, modes : SUBSET Modes]]
    /\ switches \in 0..MaxSwitches /\ terms \in 0..MaxTerms
    /\ wanted \subseteq Modes /\ missed \in BOOLEAN

Init ==
    /\ term = [n \in Nodes |-> "follower"]
    /\ modes = Configured
    /\ taking = [n \in Nodes |-> {}]
    /\ round = [n \in Nodes |-> "identity"]
    /\ leaderKey = None /\ modeKey = {}
    /\ snapshot = [n \in Nodes |-> Nothing]
    /\ switches = 0 /\ terms = 0
    /\ wanted = {} /\ missed = FALSE

-----------------------------------------------------------------------------
(* A term                                                                  *)

\* What a leader that goes leaves behind has its modes: the key, the snapshot of every
\* node that may follow it, and the node of every publisher that goes on writing.
HandedOn(n) ==
    /\ wanted \subseteq modeKey
    /\ \A m \in Nodes \ {n} : term[m] # "down" => wanted \subseteq snapshot[m].modes
    /\ \A m \in Nodes : Publishing(m)' => wanted \subseteq modes[m]

Leaves(n) == missed' = (missed \/ ~HandedOn(n))

\* _handle_elected has started the devices and entered the leader mode; nobody else
\* has the lease.
Elected(n) ==
    /\ term[n] = "follower" /\ terms < MaxTerms
    /\ \A m \in Nodes : term[m] \notin {"announcing", "adding", "leading"}
    /\ term' = [term EXCEPT ![n] = "announcing"]
    /\ terms' = terms + 1
    /\ UNCHANGED <<modes, taking, round, redis, snapshot, switches, wanted, missed>>

\* Mutant: the publisher's task has published a round before the snapshot is looked at.
Overwritten(n) == modes[n]

\* The snapshot a promoted node takes its modes from.
Inherited(n) == snapshot[n].modes

\* publisher.start has written the identity, and _sync_mode_state_from_snapshot
\* looks at the snapshot before the publishing task runs.
Announced(n) ==
    /\ term[n] = "announcing"
    /\ term' = [term EXCEPT ![n] = "adding"]
    /\ leaderKey' = n
    /\ round' = [round EXCEPT ![n] = "identity"]
    /\ taking' = [taking EXCEPT ![n] = Inherited(n) \ modes[n]]
    /\ UNCHANGED <<modes, modeKey, snapshot, bounds, wanted, missed>>

\* One mode is added, which awaits hooks.
Takes(n, m) ==
    /\ m \in taking[n]
    /\ modes' = [modes EXCEPT ![n] = @ \cup {m}]
    /\ taking' = [taking EXCEPT ![n] = @ \ {m}]
    /\ UNCHANGED <<term, round, redis, snapshot, bounds, wanted, missed>>

\* The node leads.
Leads(n) ==
    /\ term[n] = "adding" /\ taking[n] = {}
    /\ term' = [term EXCEPT ![n] = "leading"]
    /\ wanted' = IF missed \/ wanted = {} THEN modes[n] ELSE wanted
    /\ missed' = FALSE
    /\ UNCHANGED <<modes, taking, round, redis, snapshot, bounds>>

\* Its lease is lost, whatever it is doing.
Fenced(n) ==
    /\ term[n] \in {"adding", "leading"}
    /\ term' = [term EXCEPT ![n] = "fenced"]
    /\ Leaves(n)
    /\ UNCHANGED <<modes, taking, round, redis, snapshot, bounds, wanted>>

\* _handle_demoted and _on_stop stop the publisher first.
Retire(n) ==
    /\ term[n] \in {"leading", "fenced"}
    /\ term' = [term EXCEPT ![n] = "retiring"]
    /\ taking' = [taking EXCEPT ![n] = {}]
    /\ round' = [round EXCEPT ![n] = "identity"]
    /\ IF term[n] = "leading" THEN Leaves(n) ELSE UNCHANGED missed
    /\ UNCHANGED <<modes, redis, snapshot, bounds, wanted>>

\* Mutant: the modes are deleted with the identity.
ModesGoToo == {}

\* mode_state stays when its publisher stops.
ModesStay == modeKey

\* The publisher deletes the identity, whoever's it is; a failure is logged.
Retired(n) ==
    /\ term[n] = "retiring"
    /\ term' = [term EXCEPT ![n] = "spent"]
    /\ \/ leaderKey' = None /\ modeKey' = ModesStay
       \/ "redis" \in MayFail /\ UNCHANGED redis
    /\ UNCHANGED <<modes, taking, round, snapshot, bounds, wanted, missed>>

\* The node is stopped and started again: its mode manager keeps its modes.
Restart(n) ==
    /\ term[n] \in {"spent", "follower"}
    /\ term' = [term EXCEPT ![n] = "follower"]
    /\ snapshot' = [snapshot EXCEPT ![n] = Nothing]
    /\ UNCHANGED <<modes, taking, round, redis, bounds, wanted>>
    /\ missed' = (missed \/ (wanted # {} /\ \A m \in Nodes : term[m] # "leading"))

Crash(n) ==
    /\ "crash" \in MayFail
    /\ term[n] # "down"
    /\ term' = [term EXCEPT ![n] = "down"]
    /\ taking' = [taking EXCEPT ![n] = {}]
    /\ round' = [round EXCEPT ![n] = "identity"]
    /\ snapshot' = [snapshot EXCEPT ![n] = Nothing]
    /\ modes' = [modes EXCEPT ![n] = Configured[n]]
    /\ IF term[n] \in {"adding", "leading"} THEN Leaves(n) ELSE UNCHANGED missed
    /\ UNCHANGED <<redis, bounds, wanted>>

Boot(n) ==
    /\ term[n] = "down"
    /\ term' = [term EXCEPT ![n] = "follower"]
    /\ missed' = (missed \/ (wanted # {} /\ \A m \in Nodes : term[m] # "leading"))
    /\ UNCHANGED <<modes, taking, round, redis, snapshot, bounds, wanted>>

\* set_base_mode, add_base_mode and remove_base_mode, by an operator of the leader.
Switch(n) ==
    /\ term[n] = "leading" /\ switches < MaxSwitches
    /\ switches' = switches + 1
    /\ \E ms \in SUBSET Modes \ {{}, modes[n]} :
         modes' = [modes EXCEPT ![n] = ms] /\ wanted' = ms
    /\ UNCHANGED <<term, taking, round, redis, snapshot, terms, missed>>

-----------------------------------------------------------------------------
(* Publishing and polling                                                  *)

RoundTo(n, step) == round' = [round EXCEPT ![n] = step]

\* Mutant: the identity is only written when the publisher starts.
WrittenOnce(n) == leaderKey

\* The identity each round writes.
Identity(n) == n

PublishIdentity(n) ==
    /\ Publishing(n) /\ round[n] = "identity"
    /\ leaderKey' = Identity(n)
    /\ RoundTo(n, "modes")
    /\ UNCHANGED <<term, modes, taking, modeKey, snapshot, bounds, wanted, missed>>

PublishModes(n) ==
    /\ Publishing(n) /\ round[n] = "modes"
    /\ modeKey' = modes[n]
    /\ RoundTo(n, "identity")
    /\ UNCHANGED <<term, modes, taking, leaderKey, snapshot, bounds, wanted, missed>>

\* A call to Redis raises, and the round ends: one for the identity changes nothing.
ModesFail(n) ==
    /\ "redis" \in MayFail
    /\ Publishing(n) /\ round[n] = "modes"
    /\ RoundTo(n, "identity")
    /\ UNCHANGED <<term, modes, taking, redis, snapshot, bounds, wanted, missed>>

\* A poll reads the keys and replaces the snapshot as a whole; one that raises leaves
\* it as it is.  (The keys are read one after another: no property relates them.)
PollAll(n) ==
    /\ term[n] # "down"
    /\ snapshot' = [snapshot EXCEPT ![n] = [leader |-> leaderKey, modes |-> modeKey]]
    /\ UNCHANGED <<term, modes, taking, round, redis, bounds, wanted, missed>>

\* Nobody has refreshed a key for state_ttl.
Expire ==
    /\ "expire" \in MayFail
    /\ \A n \in Nodes : ~Publishing(n)
    /\ leaderKey' \in {leaderKey, None} /\ modeKey' \in {modeKey, {}}
    /\ redis' # redis
    /\ missed' = (missed \/ (modeKey' # modeKey /\ wanted # {}))
    /\ UNCHANGED <<term, modes, taking, round, snapshot, bounds, wanted>>

-----------------------------------------------------------------------------
Publish(n) == PublishIdentity(n) \/ PublishModes(n) \/ ModesFail(n)

Promote(n) == Announced(n) \/ Leads(n) \/ \E m \in Modes : Takes(n, m)

Next ==
    \/ \E n \in Nodes :
         \/ Elected(n) \/ Promote(n) \/ Fenced(n) \/ Retire(n) \/ Retired(n)
         \/ Restart(n) \/ Crash(n) \/ Boot(n) \/ Switch(n) \/ Publish(n) \/ PollAll(n)
    \/ Expire

\* Rounds and polls come up again and again, of those that write the identity one
\* succeeds, and a promotion goes on.
Fairness ==
    \A n \in Nodes :
      WF_syncVars(Publish(n)) /\ WF_syncVars(PollAll(n)) /\ WF_syncVars(Promote(n))

Spec == Init /\ [][Next]_syncVars

FairSpec == Spec /\ Fairness

-----------------------------------------------------------------------------
(* Properties                                                              *)

\* The base modes of the plant survive their leader: a node that leads has all those
\* the last leader had, if when that one went every node that could succeed it had polled
\* them, the key had them too, and no publisher of an earlier term was left that writes
\* fewer.  (A fenced leader's publisher goes on until it is stopped, and its modes are
\* polled like the new leader's.)
ModesSurvive ==
    \A n \in Nodes : term[n] = "leading" /\ ~missed => wanted \subseteq modes[n]

\* The modes of the new leader are those of the last one ("同步 follower 快取的模式狀態到
\* live ModeManager" of the documentation: the mode state is synchronised).
ModesHandedOver ==
    \A n \in Nodes : term[n] = "leading" /\ ~missed => modes[n] = wanted

\* Once one node leads for good, every node that stays up knows it
\* as the leader, although publishers that stop late delete its identity.
LeaderKnown ==
    \A n \in Nodes :
      /\ <>[](term[n] = "leading" /\ \A m \in Nodes \ {n} : ~Publishing(m))
      /\ <>[][\A m \in Nodes : ~Restart(m)]_syncVars
      => \A m \in Nodes : <>[](term[m] \in {"follower", "leading"})
                          => <>[](snapshot[m].leader = n)
=============================================================================
