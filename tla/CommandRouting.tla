--------------------------- MODULE CommandRouting ---------------------------
(***************************************************************************)
(* csp_lib/integration: CommandRouter writes a command's values to the     *)
(* points they are mapped to and remembers what it has written last, the   *)
(* desired state; CommandRefreshService writes the desired state again in  *)
(* every round, SetpointDriftReconciler where the last reading differs     *)
(* from it.  Each of the three is one task that awaits one write at a      *)
(* time; the writes of a device are carried out in the order they were     *)
(* issued, by the device's request queue.                                  *)
(*                                                                         *)
(* Devices are external: they may be protected or not answer, be written   *)
(* by others or lose their setpoints, refuse a write, and be unregistered. *)
(***************************************************************************)
EXTENDS Naturals, FiniteSets, SequencesExt

CONSTANTS
    Targeted,      \* the devices that commands are written to
    Points,        \* their points
    DeviceOf,      \* the device of a point
    Mappings,      \* the points of each mapping, in the order of their devices
    MaxCommands,   \* bound: commands, numbered from 1
    Troubles       \* sets of what may happen in one behaviour, of "reset",
                   \* "refuse", "raise", "down", "protect", "unregister"

\* Finitely many devices and points, each point on one of the devices.
ASSUME RoutingAssumption ==
    IsFiniteSet(Targeted) /\ IsFiniteSet(Points) /\ DeviceOf \in [Points -> Targeted]

VARIABLES
    table,         \* _last_written, of each point
    value,         \* what the point holds
    latest,        \* what the device's last reading has of it
    answering, guarded,   \* is_responsive, is_protected
    registered,    \* the devices of the registry
    bus,           \* the writes issued and not carried out, of each device
    tasks,         \* of each task: the entries and mappings or devices left
    cooling,       \* the points within min_rewrite_interval of the drift task's write
    commands,      \* commands so far
    newest,        \* history: the last command written to each point
    crossed,       \* history: points written while a reconciler was at work on them
    trouble        \* what may happen in this behaviour

routingVars == <<table, value, latest, answering, guarded, registered, bus, tasks,
                 cooling, commands, newest, crossed, trouble>>
plant == <<value, latest, answering, guarded, registered>>

Reconcilers == {"refresh", "drift"}
Tasks == Reconcilers \cup {"route"}

\* No command has reached a point; a setpoint that a device has after it was reset.
None == 0

\* What a task has still to write of the mapping or device it is at, the mappings or
\* devices after it, and whether it awaits a write.
Idle == [list |-> <<>>, left |-> <<>>, busy |-> FALSE]
Entry(p, v) == [point |-> p, to |-> v]

RoutingTypes ==
    /\ table \in [Points -> 0..MaxCommands]
    /\ value \in [Points -> 0..MaxCommands] /\ latest \in [Points -> 0..MaxCommands]
    /\ answering \in [Targeted -> BOOLEAN] /\ guarded \in [Targeted -> BOOLEAN]
    /\ registered \subseteq Targeted
    /\ \A d \in Targeted : \A i \in DOMAIN bus[d] :
         bus[d][i].task \in Tasks /\ DeviceOf[bus[d][i].point] = d
    /\ \A t \in Tasks : tasks[t].busy <=>
         \E d \in Targeted : \E i \in DOMAIN bus[d] : bus[d][i].task = t
    /\ cooling \subseteq Points
    /\ commands \in 0..MaxCommands
    /\ newest \in [Points -> 0..MaxCommands] /\ crossed \subseteq Points
    /\ trouble \in Troubles

RoutingInit ==
    /\ table = [p \in Points |-> None]
    /\ value = [p \in Points |-> None] /\ latest = [p \in Points |-> None]
    /\ answering = [d \in Targeted |-> TRUE] /\ guarded = [d \in Targeted |-> FALSE]
    /\ registered = Targeted
    /\ bus = [d \in Targeted |-> <<>>]
    /\ tasks = [t \in Tasks |-> Idle]
    /\ cooling = {} /\ commands = 0
    /\ newest = [p \in Points |-> None] /\ crossed = {}
    /\ trouble \in Troubles

-----------------------------------------------------------------------------
(* What a task writes next                                                 *)

Writable(p) == ~guarded[DeviceOf[p]]
Reachable(p) == DeviceOf[p] \in registered /\ answering[DeviceOf[p]]

\* The entries of the mapping or device x that a task takes up: the router those of
\* responsive devices, the reconcilers a copy of the desired state, the drift task
\* without what its last reading agrees with and what it has just written.
Taken(t, x, tab, cool) ==
    CASE t = "route" ->
           [i \in DOMAIN SelectSeq(Mappings[x], Reachable) |->
              Entry(SelectSeq(Mappings[x], Reachable)[i], commands')]
      [] t = "refresh" ->
           LET ps == SetToSeq({p \in Points : DeviceOf[p] = x /\ tab[p] # None})
           IN  [i \in DOMAIN ps |-> Entry(ps[i], tab[ps[i]])]
      [] t = "drift" ->
           LET ps == SetToSeq({p \in Points : /\ DeviceOf[p] = x /\ Reachable(p)
                                              /\ tab[p] # None /\ latest[p] # tab[p]
                                              /\ p \notin cool})
           IN  [i \in DOMAIN ps |-> Entry(ps[i], tab[ps[i]])]

\* Whether an entry may be written: try_write_single looks at the device again for
\* each entry of a reconciler, a broadcast only for its protection.
MayWrite(t, e) == Writable(e.point) /\ (t \in Reconcilers => Reachable(e.point))

\* Mutant: the task keeps its mark after its last write.
StillBusy == [Idle EXCEPT !.busy = TRUE]

\* A task that has come to the end of its round or command.
Ended == Idle

\* What is left of a task's list, and the entries of what comes after.
Lists(t, list, left, tab, cool) ==
    <<list>> \o [i \in DOMAIN left |-> Taken(t, left[i], tab, cool)]

\* The places in lists of the entries that may be written, and the first of them.
Open(t, lists) ==
    {ij \in UNION {{<<i, j>> : j \in DOMAIN lists[i]} : i \in DOMAIN lists} :
       MayWrite(t, lists[ij[1]][ij[2]])}
FirstOf(places) ==
    CHOOSE a \in places :
      \A b \in places : a[1] < b[1] \/ (a[1] = b[1] /\ a[2] <= b[2])

\* The task goes on up to the next write it issues, or to its end.
Continue(t, list, left, tab, cool, bs) ==
    LET lists == Lists(t, list, left, tab, cool)
        c == FirstOf(Open(t, lists))
        e == lists[c[1]][c[2]]
    IN  IF Open(t, lists) = {}
        THEN tasks' = [tasks EXCEPT ![t] = Ended] /\ bus' = bs
        ELSE /\ tasks' = [tasks EXCEPT ![t] =
                  [list |-> SubSeq(lists[c[1]], c[2] + 1, Len(lists[c[1]])),
                   left |-> SubSeq(left, c[1], Len(left)), busy |-> TRUE]]
             /\ bus' = [bs EXCEPT ![DeviceOf[e.point]] =
                  Append(bs[DeviceOf[e.point]], [task |-> t, point |-> e.point, to |-> e.to])]

-----------------------------------------------------------------------------
(* The three tasks                                                         *)

\* route: fields without a value, or with NO_CHANGE, are not written.
Route ==
    /\ tasks["route"] = Idle /\ commands < MaxCommands
    /\ commands' = commands + 1
    /\ \E fields \in SUBSET (DOMAIN Mappings) \ {{}} :
         Continue("route", <<>>, SetToSortSeq(fields, <), table, cooling, bus)
    /\ UNCHANGED <<table, plant, cooling, newest, crossed, trouble>>

\* A round of a reconciler, over the devices tracked when it begins.
Round(t) ==
    /\ tasks[t] = Idle
    /\ \E p \in Points : table[p] # None
    /\ Continue(t, <<>>, SetToSeq({DeviceOf[p] : p \in {q \in Points : table[q] # None}}),
                table, cooling, bus)
    /\ UNCHANGED <<table, plant, cooling, commands, newest, crossed, trouble>>

\* Mutant: a write counts for the first point it is made for only.
RecordNew(p, v) == IF table[p] = None THEN [table EXCEPT ![p] = v] ELSE table

\* _record_written; an entry that was dropped with its device comes back.
Recorded(p, v) == [table EXCEPT ![p] = v]

\* A reconciler has taken a copy of the point's desired state and not written it yet.
Copied(p) ==
    \E t \in Reconcilers :
      \/ \E i \in DOMAIN tasks[t].list : tasks[t].list[i].point = p
      \/ \E i \in DOMAIN bus[DeviceOf[p]] :
           bus[DeviceOf[p]][i].task = t /\ bus[DeviceOf[p]][i].point = p

\* The next write of a device is carried out.  A refusal comes back as a result, which
\* _safe_write takes for success; only a DeviceError that is raised is not recorded.
Finish(d, result) ==
    LET w == Head(bus[d])
        t == w.task
        tab == IF result = "raised" THEN table ELSE Recorded(w.point, w.to)
        cool == IF t = "drift" /\ result # "raised" THEN cooling \cup {w.point} ELSE cooling
    IN  /\ bus[d] # <<>>
        /\ value' = IF result = "done" THEN [value EXCEPT ![w.point] = w.to] ELSE value
        /\ table' = tab
        /\ cooling' = cool
        /\ IF t = "route" /\ result # "raised"
           THEN /\ newest' = [newest EXCEPT ![w.point] = w.to]
                /\ crossed' = IF Copied(w.point) THEN crossed \cup {w.point}
                              ELSE crossed \ {w.point}
           ELSE UNCHANGED <<newest, crossed>>
        /\ UNCHANGED <<commands, trouble>>
        /\ Continue(t, tasks[t].list, tasks[t].left, tab, cool, [bus EXCEPT ![d] = Tail(bus[d])])
        /\ UNCHANGED <<latest, answering, guarded, registered>>

Done(d) == Finish(d, "done")
Refuses(d) == "refuse" \in trouble /\ Finish(d, "refused")
Raises(d) == "raise" \in trouble /\ Finish(d, "raised")

\* The rewrite interval has passed.
CooledDown(p) ==
    /\ p \in cooling
    /\ cooling' = cooling \ {p}
    /\ UNCHANGED <<table, plant, bus, tasks, commands, newest, crossed, trouble>>

-----------------------------------------------------------------------------
(* Devices                                                                 *)

\* A read of the device.
ReadAll(d) ==
    /\ answering[d]
    /\ latest' = [p \in Points |-> IF DeviceOf[p] = d THEN value[p] ELSE latest[p]]
    /\ UNCHANGED <<table, value, answering, guarded, registered, bus, tasks, cooling, commands,
                   newest, crossed, trouble>>

\* The device restarts, or another tool writes it.
Resets(d) ==
    /\ "reset" \in trouble
    /\ value' = [p \in Points |-> IF DeviceOf[p] = d THEN None ELSE value[p]]
    /\ UNCHANGED <<table, latest, answering, guarded, registered, bus, tasks, cooling, commands,
                   newest, crossed, trouble>>

Reachability(d) ==
    /\ "down" \in trouble
    /\ answering' = [answering EXCEPT ![d] = ~@]
    /\ UNCHANGED <<table, value, latest, guarded, registered, bus, tasks, cooling,
                   commands, newest, crossed, trouble>>

Protection(d) ==
    /\ "protect" \in trouble
    /\ guarded' = [guarded EXCEPT ![d] = ~@]
    /\ UNCHANGED <<table, value, latest, answering, registered, bus, tasks, cooling, commands,
                   newest, crossed, trouble>>

\* The registry drops the device, the router its desired state; its writes go on.
Unregister(d) ==
    /\ "unregister" \in trouble
    /\ d \in registered
    /\ registered' = registered \ {d}
    /\ table' = [p \in Points |-> IF DeviceOf[p] = d THEN None ELSE table[p]]
    /\ newest' = [p \in Points |-> IF DeviceOf[p] = d THEN None ELSE newest[p]]
    /\ crossed' = crossed \cup {p \in Points : DeviceOf[p] = d /\ Copied(p)}
    /\ UNCHANGED <<value, latest, answering, guarded, bus, tasks, cooling, commands, trouble>>

Register(d) ==
    /\ d \notin registered
    /\ registered' = registered \cup {d}
    /\ UNCHANGED <<table, value, latest, answering, guarded, bus, tasks, cooling, commands,
                   newest, crossed, trouble>>

-----------------------------------------------------------------------------
RoutingNext ==
    \/ Route
    \/ \E t \in Reconcilers : Round(t)
    \/ \E p \in Points : CooledDown(p)
    \/ \E d \in Targeted :
         \/ Done(d) \/ Refuses(d) \/ Raises(d)
         \/ ReadAll(d) \/ Resets(d) \/ Reachability(d) \/ Protection(d)
         \/ Unregister(d) \/ Register(d)

\* The reconcilers' rounds come up again, devices answer and are read.
RoutingFairness ==
    /\ \A t \in Reconcilers : WF_routingVars(Round(t))
    /\ \A d \in Targeted : WF_routingVars(Done(d) \/ Refuses(d) \/ Raises(d))
                          /\ WF_routingVars(ReadAll(d))
    /\ \A p \in Points : WF_routingVars(CooledDown(p))

RoutingSpec == RoutingInit /\ [][RoutingNext]_routingVars /\ RoutingFairness

-----------------------------------------------------------------------------
(* Properties                                                              *)

\* The desired state of a point is the last command that was written to it, whatever
\* is refreshed or rewritten between the commands, unless a command came to the point
\* while a reconciler had a copy of its former state: what it writes then is the older
\* value, and becomes the desired state.
CommandsPersist ==
    \A p \in Points : p \notin crossed /\ DeviceOf[p] \in registered
                      => table[p] = newest[p] \/ table[p] = None

\* The same without the proviso.
NewestWins ==
    \A p \in Points : DeviceOf[p] \in registered => table[p] = newest[p] \/ table[p] = None

\* From some point on nothing disturbs the devices; a refusal that changes nothing, as
\* the register holds the value already, disturbs nothing.
Quiet ==
    <>[][\A d \in Targeted :
           /\ Refuses(d) \/ Raises(d) => Done(d)
           /\ ~(Resets(d) \/ Reachability(d) \/ Protection(d) \/ Unregister(d))]_routingVars

\* Once it is quiet, every point of a device that may be written comes to hold its
\* desired state and keeps it, whatever was lost or refused before, although the two
\* reconcilers and the commands write beside each other.
Restores ==
    Quiet => <>[](\A p \in Points : table[p] # None /\ Reachable(p) /\ Writable(p)
                                    => value[p] = table[p])
=============================================================================
