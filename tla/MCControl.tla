----------------------------- MODULE MCControl -----------------------------
(***************************************************************************)
(* The cluster, one question in each behaviour: the election with failing  *)
(* calls, crashes and stops; the election with leaders that resign or fail *)
(* in their promotion, for what follows in the end (a copy with variables  *)
(* of its own); what the nodes tell each other over Redis, with two modes  *)
(* and two nodes that both start with the first of them.  What is not      *)
(* looked at stays in its initial state.                                   *)
(***************************************************************************)
EXTENDS Cluster

CONSTANTS
    Modes, Configured, MaxSwitches, MaxTerms, MayFail   \* of ClusterSync

ASSUME ControlAssumption ==
    /\ Configured \in [Nodes -> SUBSET Modes]
    /\ MaxSwitches \in Nat /\ MaxTerms \in Nat

\* Both nodes start with the same mode.
BothPq == [n \in Nodes |-> {"pq"}]

VARIABLES
    part,
    owner2, left2, holds2, state2, ctl2, task2, keep2, age2, fails2, live2, devices2,
    term, modes, taking, round, leaderKey, modeKey, snapshot, switches, terms, wanted,
    missed

\* Who takes over in the end does not hang on how long the lease is.
Takeover == INSTANCE Cluster WITH
    TTL <- 6, Interval <- 2, Poll <- 3, Grace <- 1,
    Faults <- {"crash", "stop", "resign", "promotion"},
    owner <- owner2, left <- left2, holds <- holds2, state <- state2, ctl <- ctl2,
    task <- task2, keep <- keep2, age <- age2, fails <- fails2, live <- live2,
    devices <- devices2

Sync == INSTANCE ClusterSync

takeover == <<owner2, left2, holds2, state2, ctl2, task2, keep2, age2, fails2, live2,
              devices2>>
sync == <<term, modes, taking, round, leaderKey, modeKey, snapshot, switches, terms,
          wanted, missed>>

ControlInit ==
    /\ part \in {"election", "takeover", "sync"}
    /\ Init /\ Takeover!Init /\ Sync!Init

ControlNext ==
    \/ part = "election" /\ Next /\ UNCHANGED <<part, takeover, sync>>
    \/ part = "takeover" /\ Takeover!Next /\ UNCHANGED <<part, vars, sync>>
    \/ part = "sync" /\ Sync!Next /\ UNCHANGED <<part, vars, takeover>>

ControlSpec ==
    /\ ControlInit /\ [][ControlNext]_<<part, vars, takeover, sync>>
    /\ WF_takeover(part = "takeover" /\ Takeover!Tick)
    /\ \A n \in Nodes :
         /\ WF_takeover(part = "takeover" /\ Takeover!Campaign(n))
         /\ WF_takeover(part = "takeover" /\ Takeover!Keepalive(n))
         /\ WF_takeover(part = "takeover" /\ Takeover!Shutdown(n))
         /\ WF_sync(part = "sync" /\ Sync!Publish(n))
         /\ WF_sync(part = "sync" /\ Sync!PollAll(n))
         /\ WF_sync(part = "sync" /\ Sync!Promote(n))

-----------------------------------------------------------------------------
\* Every variable of every component holds a value of its kind.
ControlTypes == TypeOK /\ Takeover!TypeOK /\ Sync!SyncTypes

\* TakenOver of Cluster: a leader that crashes, stops, resigns or fails in its promotion
\* is replaced.
Replaced == part = "takeover" => Takeover!TakenOver

\* ModesSurvive and LeaderKnown of ClusterSync: what a new leader inherits, and that the
\* nodes agree on it in the end.
ModesSurvive == Sync!ModesSurvive
LeaderKnown == part = "sync" => Sync!LeaderKnown
=============================================================================
