----------------------------- MODULE ControlPanel -----------------------------
(***************************************************************************)
(* The control panel, csp_lib/gui.  EventBridge passes the events of the   *)
(* devices and a periodic snapshot to WebSocketManager, which sends each   *)
(* to every browser under one lock; the endpoints of modes.py and          *)
(* config_io.py switch the modes of the system controller and export and   *)
(* import them as a file.  The lock is fair, as asyncio's is.  A switch of *)
(* modes suspends, so requests meet in the middle of an import; the        *)
(* controller raises and lowers its own override meanwhile.                *)
(***************************************************************************)
EXTENDS Integers, Sequences, SequencesExt, FiniteSets

CONSTANTS
    Browsers, Devices,      \* web sockets; devices with an event worker each
    Requests,               \* requests that may be in progress together
    Base, Manual,           \* registered modes: used as base, pushed by users
    Values,                 \* configurations a strategy takes
    Files,                  \* files written by hand
    MaxEvents, MaxCalls     \* bounds

VARIABLES
    attached,    \* the bridge has its handlers on the devices
    snapshots,   \* _snapshot_task runs
    members,     \* _connections
    socket,      \* browser -> "closed", "open", "leaving"
    line,        \* who waits for the lock, first come first
    sending,     \* sender -> [todo, dead, n] while it has the lock; NoSend
    pending,     \* device -> events its worker has yet to handle
    base, overrides, config, condition, active,   \* the system controller
    exported,    \* the file exported last; NoFile
    request,     \* request -> where an import is
    cast, received, joined, cut, emitted, told, met, calls   \* history

bridge == <<attached, snapshots>>
streamHistory == <<cast, received, joined, cut, emitted>>
streamVars == <<bridge, members, socket, line, sending, pending, streamHistory>>
controllerVars == <<base, overrides, config, condition, active>>
modeVars == <<controllerVars, exported, request, told, met>>
panelVars == <<streamVars, modeVars, calls>>

Snapshot == "snapshot"
Senders == Devices \cup {Snapshot}
AutoStop == "auto stop"
Registered == Base \cup Manual \cup {AutoStop}
NoSend == [todo |-> {}, dead |-> {}, n |-> 0]
NoFile == [base |-> <<>>, overrides |-> {}, config |-> {}]
Idle == [at |-> "idle", file |-> NoFile, base |-> <<>>, names |-> {}, wrong |-> FALSE]
Untold == [file |-> NoFile, ok |-> FALSE]

PanelTypes ==
    /\ members \subseteq Browsers
    /\ \A s \in Senders : sending[s].todo \cup sending[s].dead \subseteq members
    /\ \A c \in members : socket[c] # "closed" /\ <<"join", c>> \notin ToSet(line)
    /\ ~attached => ~snapshots /\ sending[Snapshot] = NoSend
    /\ ToSet(base) \subseteq Base /\ IsInjective(base)
    /\ overrides \subseteq Manual \cup {AutoStop} /\ config \in [Base -> Values]
    /\ active \in BOOLEAN /\ condition \in BOOLEAN
    /\ \A r \in Requests : request[r].at \in {"idle", "base", "pop", "push"}
    /\ calls \in 0..MaxCalls /\ Len(cast) <= MaxEvents

Init ==
    /\ attached = FALSE /\ snapshots = FALSE
    /\ members = {} /\ socket = [c \in Browsers |-> "closed"]
    /\ line = <<>> /\ sending = [s \in Senders |-> NoSend]
    /\ pending = [d \in Devices |-> <<>>]
    /\ base = <<>> /\ overrides = {} /\ condition = FALSE /\ active = FALSE
    /\ config \in {[m \in Base |-> v] : v \in Values}
    /\ exported = NoFile /\ request = [r \in Requests |-> Idle]
    /\ cast = <<>> /\ received = [c \in Browsers |-> <<>>]
    /\ joined = [c \in Browsers |-> 0] /\ cut = {} /\ emitted = 0
    /\ told = Untold /\ met = {}
    /\ calls = 0

Call == calls < MaxCalls /\ calls' = calls + 1

-----------------------------------------------------------------------------
\* The stream.

Attach ==
    /\ Call /\ ~attached
    /\ attached' = TRUE /\ snapshots' = TRUE
    /\ UNCHANGED <<members, socket, line, sending, pending, streamHistory, modeVars>>

\* The handlers come off and the snapshot task is cancelled wherever it is.
Detach ==
    /\ Call /\ attached
    /\ attached' = FALSE /\ snapshots' = FALSE
    /\ line' = SelectSeq(line, LAMBDA w : w[2] # Snapshot)
    /\ sending' = [sending EXCEPT ![Snapshot] = NoSend]
    /\ cut' = cut \cup {<<c, sending[Snapshot].n>> : c \in sending[Snapshot].todo}
    /\ UNCHANGED <<members, socket, pending, cast, received, joined, emitted, modeVars>>

\* A device emits; its worker handles one event after the other.
Emit(d) ==
    /\ attached /\ emitted < MaxEvents
    /\ emitted' = emitted + 1
    /\ pending' = [pending EXCEPT ![d] = Append(@, emitted')]
    /\ UNCHANGED <<bridge, members, socket, line, sending, cast, received, joined, cut, modeVars, calls>>

InLine(s) == \E i \in DOMAIN line : line[i][2] = s
Busy(s) == InLine(s) \/ sending[s] # NoSend
\* A broadcast that finds no browser is over at once.
Begin(s, n) ==
    /\ ~Busy(s)
    /\ line' = IF members = {} THEN line ELSE Append(line, <<"send", s, n>>)
HandleEvent(d) ==
    /\ pending[d] # <<>> /\ Begin(d, Head(pending[d]))
    /\ pending' = [pending EXCEPT ![d] = Tail(@)]
    /\ UNCHANGED <<bridge, members, socket, sending, streamHistory, modeVars, calls>>
SnapshotLoop ==
    /\ snapshots /\ members # {} /\ emitted < MaxEvents
    /\ Begin(Snapshot, emitted + 1) /\ emitted' = emitted + 1
    /\ UNCHANGED <<bridge, members, socket, sending, pending, cast, received, joined, cut, modeVars, calls>>

Connect(c) ==
    /\ Call /\ socket[c] = "closed" /\ c \notin members /\ joined[c] = 0
    /\ socket' = [socket EXCEPT ![c] = "open"]
    /\ line' = Append(line, <<"join", c>>)
    /\ UNCHANGED <<bridge, members, sending, pending, streamHistory, modeVars>>

\* The browser goes away; its endpoint notices once connect is through.
Leave(c) ==
    /\ socket[c] = "open" /\ ~InLine(c)
    /\ socket' = [socket EXCEPT ![c] = "leaving"]
    /\ line' = Append(line, <<"leave", c>>)
    /\ UNCHANGED <<bridge, members, sending, pending, streamHistory, modeVars, calls>>

\* Mutant: the browsers are written to without the lock.
Unlocked == TRUE
Free == \A s \in Senders : sending[s] = NoSend
\* The lock goes to the first in line.
Acquire ==
    /\ Free /\ line # <<>>
    /\ LET w == Head(line) IN
         CASE w[1] = "join" ->
                /\ members' = members \cup {w[2]}
                /\ joined' = [joined EXCEPT ![w[2]] = Len(cast) + 1]
                /\ UNCHANGED <<socket, sending, cast>>
           [] w[1] = "leave" ->
                /\ members' = members \ {w[2]}
                /\ socket' = [socket EXCEPT ![w[2]] = "closed"]
                /\ UNCHANGED <<sending, cast, joined>>
           [] OTHER ->
                /\ sending' = [sending EXCEPT ![w[2]] = [todo |-> members, dead |-> {}, n |-> w[3]]]
                /\ cast' = IF members = {} THEN cast ELSE Append(cast, w[3])
                /\ UNCHANGED <<members, socket, joined>>
    /\ line' = Tail(line)
    /\ UNCHANGED <<bridge, pending, received, cut, emitted, modeVars, calls>>

\* One browser has taken the message, or the send raised: it is dropped at the end.
Sent(s, c) ==
    /\ c \in sending[s].todo
    /\ LET ok == socket[c] = "open"
           now == [sending[s] EXCEPT !.todo = @ \ {c}, !.dead = IF ok THEN @ ELSE @ \cup {c}]
           over == now.todo = {}
       IN /\ received' = IF ok THEN [received EXCEPT ![c] = Append(@, now.n)] ELSE received
          /\ members' = IF over THEN members \ now.dead ELSE members
          /\ sending' = [sending EXCEPT ![s] = IF over THEN NoSend ELSE now]
    /\ UNCHANGED <<bridge, socket, line, pending, cast, joined, cut, emitted, modeVars, calls>>

-----------------------------------------------------------------------------
\* The modes.

\* The request switches something; an import in progress has met another.
Switched(r) == told' = Untold /\ met' = met \cup {q \in Requests \ {r} : request[q] # Idle}
Endpoint(r) == Call /\ request[r] = Idle
SetBaseMode(r) ==
    /\ Endpoint(r) /\ Switched(r)
    /\ \E m \in Base : base' = <<m>>
    /\ UNCHANGED <<streamVars, overrides, config, condition, active, exported, request>>
AddBaseMode(r) ==
    /\ Endpoint(r) /\ Switched(r)
    /\ \E m \in Base \ ToSet(base) : base' = Append(base, m)
    /\ UNCHANGED <<streamVars, overrides, config, condition, active, exported, request>>
RemoveBaseMode(r) ==
    /\ Endpoint(r) /\ Switched(r)
    /\ \E m \in ToSet(base) : base' = Remove(base, m)
    /\ UNCHANGED <<streamVars, overrides, config, condition, active, exported, request>>
\* A push of an override that is up, or a pop of one that is not, is refused.
PushOverride(r) ==
    /\ Endpoint(r) /\ Switched(r)
    /\ \E m \in (Manual \cup {AutoStop}) \ overrides : overrides' = overrides \cup {m}
    /\ UNCHANGED <<streamVars, base, config, condition, active, exported, request>>
PopOverride(r) ==
    /\ Endpoint(r) /\ Switched(r)
    /\ \E m \in overrides : overrides' = overrides \ {m}
    /\ UNCHANGED <<streamVars, base, config, condition, active, exported, request>>
UpdateModeConfig(r) ==
    /\ Endpoint(r) /\ Switched(r)
    /\ \E m \in Base, v \in Values : config' = [config EXCEPT ![m] = v]
    /\ UNCHANGED <<streamVars, base, overrides, condition, active, exported, request>>

Export == [base |-> base, overrides |-> overrides, config |-> {<<m, config[m]>> : m \in Base}]
ExportConfig(r) ==
    /\ Endpoint(r) /\ exported # Export
    /\ exported' = Export
    /\ UNCHANGED <<streamVars, controllerVars, request, told, met>>

\* What update_config raises on is reported; a mode that is unknown is skipped.
Fits(e) == e[1] \in Base /\ e[2] \in Values
Configured(f) == [m \in Base |-> IF \E e \in f.config : Fits(e) /\ e[1] = m
                                 THEN (CHOOSE e \in f.config : Fits(e) /\ e[1] = m)[2] ELSE config[m]]
Misfits(f) == \E e \in f.config : e[1] \in Base /\ ~Fits(e)

\* The import pops every override there is, whoever pushed it, from the
\* list as it is when the base modes are set; the first falls at once.
PopAll(r, d) ==
    IF overrides = {}
    THEN /\ request' = [request EXCEPT ![r] = [d EXCEPT !.at = "push", !.names = d.file.overrides]]
         /\ UNCHANGED overrides
    ELSE \E o \in overrides :
         /\ request' = [request EXCEPT ![r] = [d EXCEPT !.at = "pop", !.names = overrides \ {o}]]
         /\ overrides' = overrides \ {o}

ImportConfig(r) ==
    /\ Endpoint(r)
    /\ \E f \in Files \cup ({exported} \ {NoFile}) :
         LET d == [at |-> "base", file |-> f, base |-> f.base, names |-> {}, wrong |-> Misfits(f)] IN
           /\ config' = Configured(f)
           /\ IF f.base # <<>>
              THEN /\ base' = <<>>
                   /\ request' = [request EXCEPT ![r] = d]
                   /\ UNCHANGED overrides
              ELSE PopAll(r, d) /\ UNCHANGED base
    /\ Switched(r)
    /\ UNCHANGED <<streamVars, condition, active, exported>>

\* The first name that is not registered ends the base modes.
ImportBase(r) ==
    /\ request[r].at = "base"
    /\ LET d == request[r] IN
         IF d.base = <<>> \/ Head(d.base) \notin Registered
         THEN /\ PopAll(r, [d EXCEPT !.wrong = @ \/ d.base # <<>>])
              /\ UNCHANGED base
         ELSE /\ base' = IF Contains(base, Head(d.base)) THEN base ELSE Append(base, Head(d.base))
              /\ request' = [request EXCEPT ![r].base = Tail(@)]
              /\ UNCHANGED overrides
    /\ Switched(r)
    /\ UNCHANGED <<streamVars, config, condition, active, exported, calls>>

ImportPop(r) ==
    /\ request[r].at = "pop"
    /\ LET left == request[r].names \cap overrides IN
         IF left = {}
         THEN /\ request' = [request EXCEPT ![r].at = "push", ![r].names = request[r].file.overrides]
              /\ UNCHANGED overrides
         ELSE \E o \in left :
              /\ overrides' = overrides \ {o}
              /\ request' = [request EXCEPT ![r].names = @ \ {o}]
    /\ Switched(r)
    /\ UNCHANGED <<streamVars, base, config, condition, active, exported, calls>>

\* Mutant: a push that fails is not reported.
Unreported(o) == FALSE
Refused(o) == o \notin Registered \/ o \in overrides
ImportPush(r) ==
    /\ request[r].at = "push"
    /\ LET d == request[r] IN
         IF d.names = {}
         THEN /\ request' = [request EXCEPT ![r] = Idle]
              /\ told' = [file |-> d.file, ok |-> ~d.wrong /\ r \notin met]
              /\ met' = met \ {r}
              /\ UNCHANGED overrides
         ELSE \E o \in d.names :
              /\ overrides' = IF o \notin Registered THEN overrides ELSE overrides \cup {o}
              /\ request' = [request EXCEPT ![r].names = @ \ {o}, ![r].wrong = @ \/ Refused(o)]
              /\ Switched(r)
    /\ UNCHANGED <<streamVars, base, config, condition, active, exported, calls>>

\* The controller's own override: _evaluate_event_overrides.
Flip ==
    /\ Call /\ condition' = ~condition
    /\ UNCHANGED <<streamVars, base, overrides, config, active, exported, request, told, met>>
Evaluate ==
    /\ active # condition
    /\ active' = condition /\ Switched(AutoStop)
    /\ overrides' = IF condition THEN overrides \cup {AutoStop} ELSE overrides \ {AutoStop}
    /\ UNCHANGED <<streamVars, base, config, condition, exported, request, calls>>

StreamNext ==
    \/ Attach \/ Detach \/ SnapshotLoop \/ Acquire
    \/ \E d \in Devices : Emit(d) \/ HandleEvent(d)
    \/ \E c \in Browsers : Connect(c) \/ Leave(c) \/ \E s \in Senders : Sent(s, c)
ModeNext ==
    \/ Flip \/ Evaluate
    \/ \E r \in Requests : \/ SetBaseMode(r) \/ AddBaseMode(r) \/ RemoveBaseMode(r)
                           \/ PushOverride(r) \/ PopOverride(r) \/ UpdateModeConfig(r)
                           \/ ExportConfig(r) \/ ImportConfig(r)
                           \/ ImportBase(r) \/ ImportPop(r) \/ ImportPush(r)
Next == StreamNext \/ ModeNext

Spec == Init /\ [][Next]_panelVars
-----------------------------------------------------------------------------
\* Every browser that is still there has got every message broadcast since it
\* joined, once each and in the one order all browsers see, but for the
\* message a broadcast is at; a snapshot the bridge was cut off in is lost to
\* those it had not reached.
Awaited(c) == {sending[s].n : s \in {x \in Senders : c \in sending[x].todo}}
StreamInOrder ==
    \A c \in members : socket[c] = "open" =>
        received[c] = SelectSeq(SubSeq(cast, joined[c], Len(cast)),
                                LAMBDA n : n \notin Awaited(c) /\ <<c, n>> \notin cut)

\* An import that was answered "ok", and that no other request met, has made
\* the modes those of the file; base modes the file does not name stay when it
\* names none.
ImportTrue ==
    told.ok => /\ overrides = told.file.overrides
               /\ told.file.base # <<>> => base = told.file.base
               /\ \A e \in told.file.config : e[1] \in Base => config[e[1]] = e[2]
=============================================================================
