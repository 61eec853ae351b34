------------------------------- MODULE Heartbeat -------------------------------
(***************************************************************************)
(* HeartbeatService (csp_lib/integration/heartbeat.py with its generators  *)
(* and targets): in every interval a value that changes is written to each *)
(* device, so that the watchdog of the device knows the controller alive.  *)
(*                                                                         *)
(* Routes are the mappings in their order, then the targets, then the      *)
(* devices with the capability.  External: the devices.                    *)
(***************************************************************************)
EXTENDS Integers, Sequences, SequencesExt, FiniteSets

CONSTANTS
    Devices,
    Routes,       \* sequence of [by: device, trait, target or capability; to: devices, in order; mode]
    IncrementMax, \* increment_max
    MaxChanges,   \* bound: pauses, stops, devices that come and go
    MaxSilence,   \* bound: intervals a watchdog counts
    MayFail       \* subset of {"device", "other"}: DeviceError, any other exception

VARIABLES
    loop,       \* off, due, round, waiting
    stopping,   \* _stop_event
    paused,     \* _paused
    at,         \* the route of this round, and the devices still to be written
    counters,   \* _counters and the states of the generators
    status,     \* ReconcilerStatus: whether the last round raised
    answering,  \* is_responsive
    taken,      \* the last value each device took
    silent,     \* intervals since the value of each device changed
    excused,    \* devices that had no beat for a reason of their own, of the operator's, or of
                \* a round that an exception ended
    spoilt,     \* the round met an exception that was no DeviceError
    changes

heartbeatVars == <<loop, stopping, paused, at, counters, status, answering, taken, silent,
                   excused, spoilt, changes>>

Never == -1
Start0 == [route |-> 1, queue |-> <<>>, addressed |-> FALSE]

\* A route by trait has one value for its devices, the others one for each.
KeyOf(n, d) == IF Routes[n].by = "trait" THEN <<n, "all">> ELSE <<n, d>>
Keys == UNION {{KeyOf(n, d) : d \in ToSet(Routes[n].to)} : n \in DOMAIN Routes}
Values == 0..IncrementMax

HeartbeatTypes ==
    /\ loop \in {"off", "due", "round", "waiting"}
    /\ stopping \in BOOLEAN /\ paused \in BOOLEAN /\ spoilt \in BOOLEAN
    /\ at.route \in 1..(Len(Routes) + 1) /\ ToSet(at.queue) \subseteq Devices
    /\ counters \in [Keys -> Values]
    /\ status \in {"healthy", "error"}
    /\ answering \subseteq Devices /\ excused \subseteq Devices
    /\ taken \in [Devices -> Values \cup {Never}]
    /\ silent \in [Devices -> 0..MaxSilence]
    /\ changes \in 0..MaxChanges

Init ==
    /\ loop = "off" /\ stopping = FALSE /\ paused = FALSE
    /\ at = Start0
    /\ counters = [k \in Keys |-> 0]
    /\ status = "healthy"
    /\ answering = Devices
    /\ taken = [d \in Devices |-> Never]
    /\ silent = [d \in Devices |-> 0]
    /\ excused = Devices /\ spoilt = FALSE /\ changes = 0

-----------------------------------------------------------------------------
(* The operator                                                            *)

Change == changes < MaxChanges /\ changes' = changes + 1

Start ==
    /\ loop = "off"
    /\ loop' = "due" /\ stopping' = FALSE /\ paused' = FALSE
    /\ UNCHANGED <<at, counters, status, answering, taken, silent, excused, spoilt, changes>>

\* stop returns when the loop has seen the event.
Stop ==
    /\ Change
    /\ loop # "off" /\ ~stopping
    /\ stopping' = TRUE /\ excused' = Devices
    /\ UNCHANGED <<loop, paused, at, counters, status, answering, taken, silent, spoilt>>

Pause ==
    /\ Change
    /\ paused' = ~paused /\ excused' = Devices
    /\ UNCHANGED <<loop, stopping, at, counters, status, answering, taken, silent, spoilt>>

ResetCounters ==
    /\ Change
    /\ counters' = [k \in Keys |-> 0] /\ excused' = Devices
    /\ UNCHANGED <<loop, stopping, paused, at, status, answering, taken, silent, spoilt>>

ComeOrGo(d) ==
    /\ Change
    /\ answering' = IF d \in answering THEN answering \ {d} ELSE answering \cup {d}
    /\ excused' = excused \cup {d}
    /\ UNCHANGED <<loop, stopping, paused, at, counters, status, taken, silent, spoilt>>

-----------------------------------------------------------------------------
(* A round                                                                 *)

\* _run: a round, unless it was stopped or is paused when the round is due.
Begin ==
    /\ loop = "due"
    /\ IF stopping THEN loop' = "off" /\ UNCHANGED at
       ELSE IF paused THEN loop' = "waiting" /\ UNCHANGED at
       ELSE loop' = "round" /\ at' = Start0
    /\ status' = IF paused /\ ~stopping THEN "healthy" ELSE status
    /\ spoilt' = (stopping /\ spoilt)
    /\ excused' = IF paused THEN Devices ELSE excused
    /\ UNCHANGED <<stopping, paused, counters, answering, taken, silent, changes>>

\* Mutant: the value counts up and stays at its end.
StaysAtEnd(mode, v) ==
    CASE mode = "toggle" -> 1 - v
      [] mode = "increment" -> IF v = IncrementMax THEN v ELSE v + 1
      [] mode = "constant" -> v

\* ToggleGenerator, IncrementGenerator, ConstantGenerator, _compute_next.
Beat(mode, v) ==
    CASE mode = "toggle" -> 1 - v
      [] mode = "increment" -> (v + 1) % (IncrementMax + 1)
      [] mode = "constant" -> v

\* The devices of the route that answer now; a target is written in any case, a mapping
\* of one device looks at it when its turn comes.
Reached(route) ==
    IF route.by = "target" THEN route.to
    ELSE SelectSeq(route.to, LAMBDA d : d \in answering)

\* A mapping takes its next value whether or not a device is there to get it.
Advanced(n) ==
    CASE Routes[n].by \in {"device", "trait"} -> {KeyOf(n, Routes[n].to[1])}
      [] Routes[n].by \in {"target", "capability"} -> {}

Address ==
    /\ loop = "round" /\ at.route <= Len(Routes) /\ ~at.addressed
    /\ at' = [at EXCEPT !.queue = Reached(Routes[at.route]), !.addressed = TRUE]
    /\ counters' = [k \in Keys |-> IF k \in Advanced(at.route)
                                   THEN Beat(Routes[at.route].mode, counters[k]) ELSE counters[k]]
    /\ UNCHANGED <<loop, stopping, paused, status, answering, taken, silent, excused, spoilt, changes>>

Addressed ==
    /\ loop = "round" /\ at.addressed /\ at.queue = <<>>
    /\ at' = [Start0 EXCEPT !.route = at.route + 1]
    /\ UNCHANGED <<loop, stopping, paused, counters, status, answering, taken, silent, excused,
                   spoilt, changes>>

\* The beat for the next device of the route.
Fresh(d) ==
    LET n == at.route
    IN  IF Advanced(n) = {} THEN Beat(Routes[n].mode, counters[KeyOf(n, d)])
        ELSE counters[KeyOf(n, d)]

\* Mutant: whatever one device raises ends the round.
Everything == {"device", "other"}

\* _safe_write passes over a DeviceError; _safe_target_write over whatever a target raises.
Spoils == IF Routes[at.route].by = "target" THEN {} ELSE {"other"}

Write(outcome) ==
    LET d == Head(at.queue) IN
    /\ loop = "round" /\ at.queue # <<>>
    /\ outcome \in {"taken"} \cup MayFail
    /\ outcome = "taken" => d \in answering
    /\ counters' = [counters EXCEPT ![KeyOf(at.route, d)] = Fresh(d)]
    /\ IF outcome = "taken"
       THEN /\ taken' = [taken EXCEPT ![d] = Fresh(d)]
            /\ silent' = [silent EXCEPT ![d] = IF taken[d] # Fresh(d) THEN 0 ELSE @]
            /\ excused' = IF taken[d] # Fresh(d) THEN excused \ {d} ELSE excused
       ELSE /\ UNCHANGED <<taken, silent>>
            /\ excused' = IF outcome = "other" /\ Routes[at.route].by # "target" THEN Devices ELSE excused \cup {d}
    /\ IF outcome \in Spoils
       THEN loop' = "waiting" /\ status' = "error" /\ UNCHANGED at
       ELSE at' = [at EXCEPT !.queue = Tail(@)] /\ UNCHANGED <<loop, status>>
    /\ spoilt' = (spoilt \/ (outcome = "other" /\ Routes[at.route].by # "target"))
    /\ UNCHANGED <<stopping, paused, answering, changes>>

\* _run_reconcile_scaffold has recorded the round.
End ==
    /\ loop = "round" /\ at.route > Len(Routes)
    /\ loop' = "waiting" /\ status' = "healthy"
    /\ UNCHANGED <<stopping, paused, at, counters, answering, taken, silent, excused, spoilt, changes>>

StopSeen ==
    /\ loop = "waiting" /\ stopping
    /\ loop' = "off"
    /\ UNCHANGED <<stopping, paused, at, counters, status, answering, taken, silent, excused,
                   spoilt, changes>>

\* The interval is over: the watchdog of every device counts.
Tick ==
    /\ loop = "waiting" /\ ~stopping
    /\ loop' = "due"
    /\ silent' = [d \in Devices |-> IF silent[d] < MaxSilence THEN silent[d] + 1 ELSE silent[d]]
    /\ UNCHANGED <<stopping, paused, at, counters, status, answering, taken, excused, spoilt, changes>>

Next ==
    \/ Start \/ Stop \/ Pause \/ ResetCounters
    \/ \E d \in Devices : ComeOrGo(d)
    \/ Begin \/ Address \/ Addressed \/ End \/ StopSeen \/ Tick
    \/ \E outcome \in {"taken", "device", "other"} : Write(outcome)

Spec == Init /\ [][Next]_heartbeatVars

-----------------------------------------------------------------------------
(* Properties                                                              *)

Changing == {d \in Devices : \E n \in DOMAIN Routes :
                 Routes[n].mode # "constant" /\ d \in ToSet(Routes[n].to)}

\* What is written to a device keeps its watchdog quiet: unless it has itself missed a
\* beat, or the service was paused or stopped, its value has changed in the last interval.
\* A write that another device refuses costs it no beat; only an exception that is no
\* DeviceError may, and then the status says so until the next round.
BeatsArrive ==
    /\ loop = "waiting" /\ status = "healthy" =>
           \A d \in Changing \ excused : silent[d] = 0
    /\ loop = "waiting" /\ status = "error" => spoilt
=============================================================================
