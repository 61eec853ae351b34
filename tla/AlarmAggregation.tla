--------------------------- MODULE AlarmAggregation ---------------------------
(***************************************************************************)
(* csp_lib/alarm: AlarmAggregator joins the alarms of many sources into    *)
(* one, tells its observers when that changes, outside its lock, and       *)
(* RedisAlarmPublisher passes it on to a Redis channel, a task for each    *)
(* change; RedisAlarmSource listens there and marks one source of another  *)
(* site's aggregator.                                                      *)
(*                                                                         *)
(* Sources are marked in the event loop (device events, watchdogs) or in   *)
(* another thread.  Redis is external: publishing takes a connection of    *)
(* its own for each task, reaches who listens at the time, and may fail.   *)
(***************************************************************************)
EXTENDS Naturals, SequencesExt

CONSTANTS
    Sources,
    MaxOut,        \* bound: publishing tasks and messages under way
    MayFail        \* of "redis"

VARIABLES
    active,        \* _active_sources
    telling,       \* what the other thread has still to tell the observers, or "nothing"
    publisher,     \* the publisher runs
    out,           \* the publishing tasks: what each says, and whether stop awaits it
    listening,     \* the remote source listens
    channel,       \* messages on their way to it
    remote,        \* the remote site's source is active
    astray         \* history: a change was not told to who listens, or not in its turn

aggregationVars ==
    <<active, telling, publisher, out, listening, channel, remote, astray>>

AggregationTypes ==
    /\ active \subseteq Sources
    /\ telling \in {"nothing", "alarm", "clear"}
    /\ publisher \in {"off", "on", "stopping"}
    /\ \A i \in DOMAIN out : out[i] \in [says : BOOLEAN, awaited : BOOLEAN]
    /\ listening \in BOOLEAN /\ channel \in Seq(BOOLEAN)
    /\ remote \in BOOLEAN /\ astray \in BOOLEAN
    /\ ~listening => channel = <<>> /\ ~remote

Init ==
    /\ active = {} /\ telling = "nothing"
    /\ publisher = "off" /\ out = <<>>
    /\ listening = FALSE /\ channel = <<>> /\ remote = FALSE
    /\ astray = FALSE

-----------------------------------------------------------------------------
(* The aggregator                                                          *)

\* Mutant: the observers only hear of a new alarm.
OnlyAlarms(old, new) == old = {} /\ new # {}

\* Whether the observers are told of a change of the active sources.
Told(old, new) == (old = {}) # (new = {})

\* What marking the source, active or not, makes of the active sources.
Marked(s, on) == IF on THEN active \cup {s} ELSE active \ {s}

Task(says, awaited) == [says |-> says, awaited |-> awaited]

\* _set_source_active in the event loop: the observer makes a publishing task before
\* anything else happens.
MarkInLoop(s, on) ==
    /\ Len(out) + Len(channel) < MaxOut
    /\ active' = Marked(s, on)
    /\ IF Told(active, active')
       THEN IF publisher = "on"
            THEN out' = Append(out, Task(active' # {}, TRUE)) /\ UNCHANGED astray
            ELSE astray' = TRUE /\ UNCHANGED out
       ELSE UNCHANGED <<out, astray>>
    /\ UNCHANGED <<telling, publisher, listening, channel, remote>>

\* In another thread, the observers it found are told after the lock was given back.
MarkInThread(s, on) ==
    /\ telling = "nothing"
    /\ active' = Marked(s, on)
    /\ IF Told(active, active')
       THEN IF publisher = "on"
            THEN telling' = (IF active' # {} THEN "alarm" ELSE "clear") /\ UNCHANGED astray
            ELSE astray' = TRUE /\ UNCHANGED telling
       ELSE UNCHANGED <<telling, astray>>
    /\ UNCHANGED <<publisher, out, listening, channel, remote>>

\* The thread tells the observer, which has the event loop run the task, unless the
\* publisher has stopped meanwhile.  What it says may have been overtaken by then.
Tells ==
    /\ telling # "nothing" /\ Len(out) + Len(channel) < MaxOut
    /\ telling' = "nothing"
    /\ IF publisher # "off"
       THEN /\ out' = Append(out, Task(telling = "alarm", FALSE))
            /\ astray' = (astray \/ (telling = "alarm") # (active # {}))
       ELSE astray' = TRUE /\ UNCHANGED out
    /\ UNCHANGED <<active, publisher, listening, channel, remote>>

-----------------------------------------------------------------------------
(* Publishing                                                              *)

\* A new publisher says nothing of the alarms there are.
StartPublisher ==
    /\ publisher = "off"
    /\ publisher' = "on"
    /\ UNCHANGED <<active, telling, out, listening, channel, remote, astray>>

\* stop removes the observer and waits for the tasks that were made in the event loop.
StopPublisher ==
    /\ publisher = "on"
    /\ publisher' = "stopping"
    /\ UNCHANGED <<active, telling, out, listening, channel, remote, astray>>

PublisherStopped ==
    /\ publisher = "stopping"
    /\ \A i \in DOMAIN out : ~out[i].awaited
    /\ publisher' = "off"
    /\ UNCHANGED <<active, telling, out, listening, channel, remote, astray>>

\* One of the tasks has published: what it says comes after what others have said
\* before it, whenever they were made, and is lost if nobody listens.
Published(i) ==
    /\ out' = RemoveAt(out, i)
    /\ \/ /\ listening
          /\ channel' = Append(channel, out[i].says)
          /\ astray' = (astray \/ i > 1)
       \/ /\ ~listening \/ "redis" \in MayFail
          /\ UNCHANGED channel
          /\ astray' = TRUE
    /\ UNCHANGED <<active, telling, publisher, listening, remote>>

-----------------------------------------------------------------------------
(* The remote site                                                         *)

StartListening ==
    /\ ~listening
    /\ listening' = TRUE
    /\ astray' = (astray \/ active # {})
    /\ UNCHANGED <<active, telling, publisher, out, channel, remote>>

\* stop unbinds the source, which counts as inactive from then on.
StopListening ==
    /\ listening
    /\ listening' = FALSE
    /\ channel' = <<>> /\ remote' = FALSE
    /\ astray' = (astray \/ active # {} \/ channel # <<>>)
    /\ UNCHANGED <<active, telling, publisher, out>>

\* _listen_loop marks the source.
Hear ==
    /\ channel # <<>>
    /\ remote' = Head(channel)
    /\ channel' = Tail(channel)
    /\ UNCHANGED <<active, telling, publisher, out, listening, astray>>

-----------------------------------------------------------------------------
Next ==
    \/ \E s \in Sources, on \in BOOLEAN : MarkInLoop(s, on) \/ MarkInThread(s, on)
    \/ Tells \/ StartPublisher \/ StopPublisher \/ PublisherStopped
    \/ \E i \in DOMAIN out : Published(i)
    \/ StartListening \/ StopListening \/ Hear

Spec == Init /\ [][Next]_aggregationVars

-----------------------------------------------------------------------------
(* Properties                                                              *)

\* Once everything under way has arrived, the remote site has the alarm exactly while
\* a source is active here, as long as no change was made without a publisher, before
\* the other site listened, lost, or overtaken by a later one: nothing is said twice.
RemoteFollows ==
    /\ telling = "nothing" /\ out = <<>> /\ channel = <<>> /\ listening
    /\ ~astray
    => remote = (active # {})
=============================================================================
