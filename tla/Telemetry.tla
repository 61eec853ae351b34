------------------------------- MODULE Telemetry -------------------------------
(***************************************************************************)
(* What becomes of the events of a device: StateSyncManager writes its     *)
(* state to Redis (csp_lib/manager/state/sync.py), DataUploadManager its   *)
(* readings to collections (manager/data/upload.py), StatisticsManager its *)
(* energy per interval (csp_lib/statistics).                               *)
(*                                                                         *)
(* Two tasks run their handlers: the worker of the emitter takes the       *)
(* readings from its queue; the read loop itself awaits the handlers of    *)
(* connected, disconnected and the alarms.  Time counts in minutes of an   *)
(* hour of Hour minutes.  External: the device and its meter, Redis, the   *)
(* uploader behind enqueue, the cluster that decides who leads.            *)
(***************************************************************************)
EXTENDS Integers, Sequences, SequencesExt, FiniteSets, FiniteSetsExt

CONSTANTS
    Intervals, Hour,    \* intervals_minutes, minutes of an hour
    SaveInterval,       \* save_interval of a legacy target
    Grains,             \* the ON_CHANGE target keeps the reading in steps of each of these: its
                        \*   transform gives a document for each
    MaxReads, MaxEvents,    \* bounds: readings; connections and alarms
    MaxTroubles,        \* bound: failures, restarts, changes of the leader, lifetimes over
    MaxQueue,           \* bound: readings waiting
    MayFail             \* subset of {"redis", "enqueue", "transform", "restart"}

VARIABLES
    kind,       \* cumulative or instantaneous: the meter
    plan,       \* legacy or fanout: how the device is configured
    plant,      \* connected, alarm, meter, clock
    line,       \* readings in the emitter's queue
    worker,     \* the reading the worker handles, and where it is
    reader,     \* the event the read loop awaits, and where it is
    leader,     \* leader_gate.is_leader
    redis,      \* the keys of the device
    told,       \* the last status and alarm messages
    target,     \* _TargetRuntime: last_raw_values or last_shape_cache, last_result, last_save_time;
                \*   whole: nothing of the last result was refused (history)
    stored,     \* documents, in the order they were enqueued; of change: which of the result's, the
                \*   reading it is of, and whether a document of the result before was refused
    acc,        \* IntervalAccumulator of each interval
    missed,     \* what Redis does not show: a handler was skipped or failed
    crossed,    \* a reading was still being handled when the device disconnected
    lost,       \* a document of the first target was not enqueued, or a transform raised
    count       \* readings, events and troubles so far

telemetryVars == <<kind, plan, plant, line, worker, reader, leader, redis, told, target,
                   stored, acc, missed, crossed, lost, count>>

None == [at |-> "idle"]
Nothing == -1
Null(t) == [v |-> Nothing, t |-> t]
Empty == [start |-> Nothing, first |-> 0, last |-> 0, kwh |-> 0, t |-> 0]

TelemetryTypes ==
    /\ kind \in {"cumulative", "instantaneous"} /\ plan \in {"legacy", "fanout"}
    /\ plant.connected \in BOOLEAN /\ plant.alarm \in BOOLEAN
    /\ plant.meter \in Nat /\ plant.clock \in Nat
    /\ Len(line) <= MaxQueue
    /\ worker.at \in {"idle", "upload", "change", "docs", "sync", "stats", "save"}
    /\ reader.at \in {"idle", "null", "set", "tell"}
    /\ redis.online \in {"1", "0", "none"} /\ redis.alarm \in BOOLEAN /\ redis.state >= Nothing
    /\ \A i \in Intervals : acc[i].start >= Nothing /\ acc[i].start <= plant.clock
    /\ missed \subseteq {"online", "alarm", "state"}
    /\ crossed \in BOOLEAN /\ lost \in BOOLEAN

Init ==
    /\ kind \in {"cumulative", "instantaneous"} /\ plan \in {"legacy", "fanout"}
    /\ plant = [connected |-> FALSE, alarm |-> FALSE, meter |-> 0, clock |-> 0]
    /\ line = <<>> /\ worker = None /\ reader = None /\ leader = TRUE
    /\ redis = [online |-> "none", alarm |-> FALSE, state |-> Nothing]
    /\ told = [online |-> FALSE, alarm |-> FALSE]
    /\ target = [shape |-> Nothing, result |-> <<>>, saved |-> Nothing, whole |-> TRUE]
    /\ stored = [main |-> <<>>, change |-> <<>>, energy |-> <<>>]
    /\ acc = [i \in Intervals |-> Empty]
    /\ missed = {} /\ crossed = FALSE /\ lost = FALSE
    /\ count = [reads |-> 0, events |-> 0, troubles |-> 0]

Trouble == count.troubles < MaxTroubles /\ count' = [count EXCEPT !.troubles = @ + 1]
Fine(ok) == IF ok THEN UNCHANGED count ELSE Trouble

-----------------------------------------------------------------------------
(* The device                                                              *)

\* emit of read_complete, without waiting; the next cycle of the read loop comes.
Read(minutes, more) ==
    /\ reader = None /\ plant.connected
    /\ count.reads < MaxReads /\ Len(line) < MaxQueue
    /\ count' = [count EXCEPT !.reads = @ + 1]
    /\ plant' = [plant EXCEPT !.meter = @ + more, !.clock = @ + minutes]
    /\ line' = Append(line, [v |-> plant'.meter, t |-> plant'.clock])
    /\ UNCHANGED <<kind, plan, worker, reader, leader, redis, told, target, stored, acc,
                   missed, crossed, lost>>

\* emit_await of an event: its handlers are run here, whatever the worker is doing.
Happen(event) ==
    /\ reader = None /\ count.events < MaxEvents
    /\ count' = [count EXCEPT !.events = @ + 1]
    /\ plant' = CASE event = "connected" -> [plant EXCEPT !.connected = TRUE]
                  [] event = "disconnected" -> [plant EXCEPT !.connected = FALSE]
                  [] event = "alarm" -> [plant EXCEPT !.alarm = TRUE]
                  [] event = "cleared" -> [plant EXCEPT !.alarm = FALSE]
    /\ plant' # plant
    /\ event \in {"alarm", "cleared"} => plant.connected
    /\ reader' = [at |-> IF event = "disconnected" THEN "null" ELSE "set", event |-> event]
    /\ crossed' = (event = "disconnected" /\ (line # <<>> \/ worker # None))
    /\ UNCHANGED <<kind, plan, line, worker, leader, redis, told, target, stored, acc, missed, lost>>

-----------------------------------------------------------------------------
(* State synchronisation                                                   *)

Subject(event) == IF event \in {"connected", "disconnected"} THEN "online" ELSE "alarm"

\* _on_connected, _on_disconnected, _on_alarm_triggered, _on_alarm_cleared: a node that
\* does not lead returns at once.
Skip ==
    /\ reader.at = "set" /\ ~leader
    /\ reader' = None
    /\ missed' = missed \cup {Subject(reader.event)}
    /\ UNCHANGED <<kind, plan, plant, line, worker, leader, redis, told, target, stored, acc,
                   crossed, lost, count>>

\* Mutant: an alarm that has ended is told, and stays in the set.
ToldOnly(event) ==
    CASE event = "connected" -> [redis EXCEPT !.online = "1"]
      [] event = "disconnected" -> [redis EXCEPT !.online = "0"]
      [] event = "alarm" -> [redis EXCEPT !.alarm = TRUE]
      [] event = "cleared" -> redis

Shown(event) ==
    CASE event = "connected" -> [redis EXCEPT !.online = "1"]
      [] event = "disconnected" -> [redis EXCEPT !.online = "0"]
      [] event = "alarm" -> [redis EXCEPT !.alarm = TRUE]
      [] event = "cleared" -> [redis EXCEPT !.alarm = FALSE]

Set ==
    /\ reader.at = "set" /\ leader
    /\ reader' = [reader EXCEPT !.at = "tell"]
    /\ redis' = Shown(reader.event)
    /\ UNCHANGED <<kind, plan, plant, line, worker, leader, told, target, stored, acc, missed,
                   crossed, lost, count>>

Tell ==
    /\ reader.at = "tell"
    /\ reader' = None
    /\ told' = CASE reader.event = "connected" -> [told EXCEPT !.online = TRUE]
                 [] reader.event = "disconnected" -> [told EXCEPT !.online = FALSE]
                 [] reader.event = "alarm" -> [told EXCEPT !.alarm = TRUE]
                 [] reader.event = "cleared" -> [told EXCEPT !.alarm = FALSE]
    /\ missed' = missed \ {Subject(reader.event)}
    /\ UNCHANGED <<kind, plan, plant, line, worker, leader, redis, target, stored, acc,
                   crossed, lost, count>>

\* Redis raises; the emitter logs it, and the event has been.
RedisFails ==
    /\ "redis" \in MayFail
    /\ Trouble
    /\ reader.at = "tell" \/ (reader.at = "set" /\ leader)
    /\ reader' = None
    /\ missed' = missed \cup {Subject(reader.event)}
    /\ UNCHANGED <<kind, plan, plant, line, worker, leader, redis, told, target, stored, acc,
                   crossed, lost>>

\* _on_read_complete: the state, its lifetime, that the device is online, and the message,
\* in one pipeline; a reading of a node that does not lead, or that Redis refuses, is not shown.
Sync(reached) ==
    /\ worker.at = "sync"
    /\ ~reached => "redis" \in MayFail
    /\ Fine(reached)
    /\ worker' = [worker EXCEPT !.at = "stats"]
    /\ IF reached /\ leader
       THEN /\ redis' = [redis EXCEPT !.state = worker.v, !.online = "1"]
            /\ missed' = missed \ {"state"}
       ELSE UNCHANGED redis /\ missed' = missed \cup {"state"}
    /\ UNCHANGED <<kind, plan, plant, line, reader, leader, told, target, stored, acc, crossed, lost>>

\* The keys of the state and of an online device have a lifetime.
Expire ==
    /\ Trouble
    /\ redis.online = "1" \/ redis.state # Nothing
    /\ \/ redis.online = "1" /\ redis' = [redis EXCEPT !.online = "none"]
       \/ redis.state # Nothing /\ redis' = [redis EXCEPT !.state = Nothing]
    /\ UNCHANGED <<kind, plan, plant, line, worker, reader, leader, told, target, stored, acc,
                   missed, crossed, lost>>

-----------------------------------------------------------------------------
(* Data upload                                                             *)

\* What the transform of the ON_CHANGE target makes of a reading.
Documents(v) == [n \in DOMAIN Grains |-> [of |-> n, v |-> v \div Grains[n]]]

\* A legacy target whose interval is not over is passed over; so is a result that has not
\* changed.
TooSoon(t) == plan = "legacy" /\ target.saved # Nothing /\ t - target.saved < SaveInterval
After(at) == IF at = "upload" /\ plan = "fanout" THEN "change" ELSE "sync"

\* Mutant: a document counts as kept when it is handed over.
KeptAnyway(ok, new, old) == new

\* last_result, last_shape_cache and last_save_time follow what has been enqueued.
Kept(ok, new, old) == IF ok THEN new ELSE old

Take ==
    /\ worker = None /\ line # <<>>
    /\ worker' = [at |-> "upload", v |-> Head(line).v, t |-> Head(line).t, records |-> <<>>, all |-> TRUE]
    /\ line' = Tail(line)
    /\ UNCHANGED <<kind, plan, plant, reader, leader, redis, told, target, stored, acc, missed,
                   crossed, lost, count>>

\* The reading goes to the first target: the legacy one, or the one with policy ALWAYS.
Upload(ok) ==
    /\ worker.at = "upload"
    /\ ~ok => "enqueue" \in MayFail /\ ~TooSoon(worker.t)
    /\ Fine(ok)
    /\ worker' = [worker EXCEPT !.at = After("upload")]
    /\ IF TooSoon(worker.t)
       THEN target' = [target EXCEPT !.shape = worker.v] /\ UNCHANGED <<stored, lost>>
       ELSE /\ target' = [target EXCEPT
                   !.shape = IF plan = "legacy" THEN worker.v ELSE Kept(ok, worker.v, @),
                   !.saved = IF plan = "legacy" THEN Kept(ok, worker.t, @) ELSE @]
            /\ stored' = IF ok THEN [stored EXCEPT !.main = Append(@, [v |-> worker.v, t |-> worker.t])]
                         ELSE stored
            /\ lost' = (lost \/ ~ok)
    /\ UNCHANGED <<kind, plan, plant, line, reader, leader, redis, told, acc, missed, crossed>>

\* A transform that raises is logged, and its target passed over.
TransformRaises ==
    /\ plan = "fanout" /\ worker.at \in {"upload", "change"}
    /\ "transform" \in MayFail /\ Trouble
    /\ worker' = [worker EXCEPT !.at = After(@)]
    /\ lost' = TRUE
    /\ UNCHANGED <<kind, plan, plant, line, reader, leader, redis, told, target, stored, acc,
                   missed, crossed>>

\* The target with policy ON_CHANGE: a result like the last one is passed over.
Compare ==
    /\ worker.at = "change"
    /\ worker' = IF Documents(worker.v) = target.result THEN [worker EXCEPT !.at = "sync"]
                 ELSE [worker EXCEPT !.at = "docs", !.records = Documents(worker.v)]
    /\ UNCHANGED <<kind, plan, plant, line, reader, leader, redis, told, target, stored, acc,
                   missed, crossed, lost, count>>

\* Its documents, one by one, whatever becomes of the others; the result is kept only if all
\* were enqueued.
UploadChange(ok) ==
    LET doc == Head(worker.records)
        all == worker.all /\ ok
        last == Len(worker.records) = 1
    IN  /\ worker.at = "docs"
        /\ ~ok => "enqueue" \in MayFail
        /\ Fine(ok)
        /\ worker' = [worker EXCEPT !.records = Tail(@), !.all = all,
                                    !.at = IF last THEN "sync" ELSE @]
        /\ stored' = IF ok THEN [stored EXCEPT !.change = Append(@, [of |-> doc.of, v |-> worker.v,
                                                                     retry |-> ~target.whole])]
                     ELSE stored
        /\ target' = IF last THEN [target EXCEPT !.result = Kept(all, Documents(worker.v), @),
                                                 !.whole = all]
                     ELSE target
    /\ UNCHANGED <<kind, plan, plant, line, reader, leader, redis, told, acc, missed, crossed, lost>>

\* _on_disconnected: a record without values, of the shape of the last reading.
UploadNull(ok) ==
    /\ reader.at = "null"
    /\ ~ok => "enqueue" \in MayFail /\ target.shape # Nothing
    /\ Fine(ok)
    /\ reader' = [reader EXCEPT !.at = "set"]
    /\ stored' = IF ok /\ target.shape # Nothing
                 THEN [stored EXCEPT !.main = Append(@, Null(plant.clock))] ELSE stored
    /\ lost' = (lost \/ ~ok)
    /\ UNCHANGED <<kind, plan, plant, line, worker, leader, redis, told, target, acc, missed,
                   crossed>>

-----------------------------------------------------------------------------
(* Statistics                                                              *)

\* IntervalAccumulator._floor_timestamp, within the hour.
Floor(i, t) == t - (t % Hour) + ((t % Hour) \div i) * i

Started(i, v, t) == [start |-> Floor(i, t), first |-> v, last |-> v, kwh |-> 0, t |-> t]

\* Mutant: the sample that ends an interval is its last one, too.
FinalizedWith(i, a, v, t) ==
    [interval |-> i, start |-> a.start, end |-> a.start + i,
     kwh |-> IF kind = "cumulative" THEN v - a.first ELSE a.kwh + (a.last + v) * (t - a.t)]

\* _finalize; energy counts twice, to stay whole.
Finalized(i, a, v, t) ==
    [interval |-> i, start |-> a.start, end |-> a.start + i,
     kwh |-> IF kind = "cumulative" THEN a.last - a.first ELSE a.kwh]

\* _accumulate.
Accumulated(a, v, t) ==
    [a EXCEPT !.last = v, !.t = t,
              !.kwh = IF kind = "cumulative" THEN @ ELSE @ + (a.last + v) * (t - a.t)]

\* IntervalAccumulator.feed.
Over(i, t) == acc[i].start # Nothing /\ t >= acc[i].start + i
Fed(i, v, t) ==
    IF acc[i].start = Nothing \/ Over(i, t) THEN Started(i, v, t) ELSE Accumulated(acc[i], v, t)

\* StatisticsEngine.process_read, at once; the records it gives are enqueued one by one.
Count ==
    /\ worker.at = "stats"
    /\ acc' = [i \in Intervals |-> Fed(i, worker.v, worker.t)]
    /\ LET due == SetToSortSeq({i \in Intervals : Over(i, worker.t)}, <)
           records == [n \in DOMAIN due |->
                          Finalized(due[n], acc[due[n]], worker.v, worker.t)]
       IN  worker' = IF records = <<>> THEN None
                     ELSE [worker EXCEPT !.at = "save", !.records = records]
    /\ UNCHANGED <<kind, plan, plant, line, reader, leader, redis, told, target, stored, missed,
                   crossed, lost, count>>

\* StatisticsManager._on_read_complete: what raises is lost with the records after it.
Save(ok) ==
    /\ worker.at = "save"
    /\ ~ok => "enqueue" \in MayFail
    /\ Fine(ok)
    /\ worker' = IF ok /\ Len(worker.records) > 1
                 THEN [worker EXCEPT !.records = Tail(@)] ELSE None
    /\ stored' = IF ok THEN [stored EXCEPT !.energy = Append(@, Head(worker.records))] ELSE stored
    /\ UNCHANGED <<kind, plan, plant, line, reader, leader, redis, told, target, acc, missed,
                   crossed, lost>>

-----------------------------------------------------------------------------
(* The node                                                                *)

Lead ==
    /\ Trouble
    /\ leader' = ~leader
    /\ UNCHANGED <<kind, plan, plant, line, worker, reader, redis, told, target, stored, acc,
                   missed, crossed, lost>>

\* The process starts again: what it knew is gone, what Redis and the collections hold is
\* not; an alarm that has ended meanwhile is never taken back.
Restart ==
    /\ "restart" \in MayFail /\ Trouble
    /\ plant' = [plant EXCEPT !.connected = FALSE, !.alarm = FALSE]
    /\ line' = <<>> /\ worker' = None /\ reader' = None
    /\ target' = [shape |-> Nothing, result |-> <<>>, saved |-> Nothing, whole |-> FALSE]
    /\ acc' = [i \in Intervals |-> Empty]
    /\ missed' = {"online", "alarm", "state"}
    /\ lost' = TRUE
    /\ UNCHANGED <<kind, plan, leader, redis, told, stored, crossed>>

Next ==
    \/ \E minutes \in 1..2, more \in 0..1 : Read(minutes, more)
    \/ \E event \in {"connected", "disconnected", "alarm", "cleared"} : Happen(event)
    \/ Skip \/ Set \/ Tell \/ RedisFails \/ Expire
    \/ \E ok \in BOOLEAN :
           Sync(ok) \/ Upload(ok) \/ UploadChange(ok) \/ UploadNull(ok) \/ Save(ok)
    \/ Take \/ TransformRaises \/ Compare \/ Count
    \/ Lead \/ Restart

Spec == Init /\ [][Next]_telemetryVars

-----------------------------------------------------------------------------
(* Properties                                                              *)

Quiet == line = <<>> /\ worker = None /\ reader = None

\* When everything is handled, Redis shows the device as it is, though two tasks write it:
\* except what a node that did not lead, or Redis, has missed, a key whose lifetime is
\* over, and a device that was lost while a reading of it was still on the way.
StateFollows ==
    Quiet =>
        /\ "online" \notin missed /\ ~crossed =>
               /\ plant.connected => redis.online \in {"1", "none"}
               /\ ~plant.connected => redis.online # "1"
               /\ told.online = plant.connected
        /\ "alarm" \notin missed => redis.alarm = plant.alarm /\ told.alarm = plant.alarm
        /\ "state" \notin missed => redis.state \in {plant.meter, Nothing}

\* The documents of a kind in the ON_CHANGE collection, each with the reading it is of.
Changes(k) == SelectSeq(stored.change, LAMBDA d : d.of = k)

\* The collections tell the readings as they were: in order; on change only a result that
\* differs, in one of its documents at least, from the one stored before it, unless a document
\* of that one was refused, for then it is not remembered and all of it may be sent again; a
\* result is remembered only when each of its documents is there, as the last of its kind while
\* none was refused, and is then, once all is handled, that of the last reading; a device that is lost ends its readings
\* with a record without values.
UploadsFollow ==
    /\ \A k \in DOMAIN Grains : \A n \in 2..Len(Changes(k)) :
           \/ Documents(Changes(k)[n].v) # Documents(Changes(k)[n - 1].v)
           \/ Changes(k)[n].retry
    /\ \A m, n \in DOMAIN stored.main :
           m < n /\ Nothing \notin {stored.main[m].v, stored.main[n].v} =>
               stored.main[m].t < stored.main[n].t
    /\ target.result # <<>> => \A k \in DOMAIN Grains :
           \E n \in DOMAIN Changes(k) :
               /\ Documents(Changes(k)[n].v)[k] = target.result[k]
               /\ worker.at # "docs" /\ target.whole => n = Len(Changes(k))
    /\ Quiet /\ plan = "fanout" /\ count.reads > 0 /\ target.whole /\ ~lost =>
           target.result = Documents(plant.meter)
    /\ Quiet /\ ~plant.connected /\ ~crossed /\ ~lost /\ stored.main # <<>> =>
           Last(stored.main).v = Nothing

\* No energy is counted twice or in another interval than its own: the intervals of one
\* length do not overlap, the short ones within a long one add up to no more than it has,
\* and what an interval has is the difference of the readings that were kept of it.
EnergyAddsUp ==
    LET of(i) == SelectSeq(stored.energy, LAMBDA r : r.interval = i)
        total(s) == FoldSeq(LAMBDA r, sum : r.kwh + sum, 0, s)
        within(r) == SelectSeq(stored.main, LAMBDA d : d.v # Nothing /\ r.start <= d.t /\ d.t < r.end)
        most == Max(Intervals)
    IN  /\ \A i \in Intervals : \A n \in 2..Len(of(i)) : of(i)[n - 1].end <= of(i)[n].start
        /\ \A n \in DOMAIN of(most) : \A i \in Intervals :
               total(SelectSeq(of(i), LAMBDA r : of(most)[n].start <= r.start /\ r.end <= of(most)[n].end))
                   <= of(most)[n].kwh
        /\ kind = "cumulative" /\ plan = "fanout" /\ ~lost =>
               \A n \in DOMAIN stored.energy :
                   LET r == stored.energy[n]
                   IN  r.kwh = Last(within(r)).v - Head(within(r)).v
=============================================================================
