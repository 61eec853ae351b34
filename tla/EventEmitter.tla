---------------------------- MODULE EventEmitter ----------------------------
(***************************************************************************)
(* DeviceEventEmitter of csp_lib/equipment/device/events.py: emit puts an  *)
(* event on a bounded queue, one worker hands the events to the handlers   *)
(* in turn, and stop sends a sentinel and waits for the worker to drain    *)
(* the queue, five seconds at most.  start and stop are called by the      *)
(* device's connect and disconnect, one after the other.                   *)
(***************************************************************************)
EXTENDS Naturals, SequencesExt

CONSTANTS
    EventIds,     \* events, numbered from 1 in the order they are emitted
    QueueSize     \* max_queue_size

\* Events have numbers from 1 on, and the queue holds at least one.
ASSUME EmitterAssumption == EventIds \subseteq Nat \ {0} /\ QueueSize \in Nat \ {0}

VARIABLES
    running,      \* _running
    line,         \* _queue
    worker,       \* where the worker is, with which event
    stopper,      \* where stop is
    handed,       \* history: the events handed to the handlers, in order
    emitted,      \* history: the last event emitted
    expired       \* history: a stop went past its timeout

emitterVars == <<running, line, worker, stopper, handed, emitted, expired>>

Sentinel == 0

\* The worker: no task; in its main loop, between events; in a handler, of the main
\* loop or of the draining that follows it; the task done.
Worker(p, e) == [at |-> p, event |-> e]

EmitterTypes ==
    /\ running \in BOOLEAN
    /\ line \in Seq(EventIds \cup {Sentinel}) /\ Len(line) <= QueueSize
    /\ worker \in [at : {"none", "main", "handling", "drain", "draining", "done"},
                   event : EventIds \cup {Sentinel}]
    /\ stopper \in {"off", "waiting", "cancelling"}
    /\ handed \in Seq(EventIds)
    /\ emitted \in EventIds \cup {0}
    /\ expired \in BOOLEAN

EmitterInit ==
    /\ running = FALSE /\ line = <<>> /\ worker = Worker("none", Sentinel)
    /\ stopper = "off" /\ handed = <<>> /\ emitted = 0 /\ expired = FALSE

-----------------------------------------------------------------------------
\* emit: nothing is queued for an emitter that does not run, or past the limit.
Emit ==
    /\ emitted + 1 \in EventIds
    /\ emitted' = emitted + 1
    /\ line' = IF running /\ Len(line) < QueueSize THEN Append(line, emitted') ELSE line
    /\ UNCHANGED <<running, worker, stopper, handed, expired>>

Start ==
    /\ ~running /\ stopper = "off"
    /\ running' = TRUE
    /\ worker' = Worker("main", Sentinel)
    /\ UNCHANGED <<line, stopper, handed, emitted, expired>>

\* The queue with the sentinel at its end, if it has room.
WithSentinel == IF Len(line) < QueueSize THEN Append(line, Sentinel) ELSE line

Stop ==
    /\ running
    /\ running' = FALSE
    /\ line' = WithSentinel
    /\ stopper' = "waiting"
    /\ UNCHANGED <<worker, handed, emitted, expired>>

\* The worker takes the next event, or leaves its main loop: at a sentinel, or when it
\* sees that the emitter was stopped.
Take ==
    /\ worker.at = "main"
    /\ running => line # <<>>
    /\ IF running /\ Head(line) # Sentinel
       THEN /\ worker' = Worker("handling", Head(line))
            /\ handed' = Append(handed, Head(line))
            /\ line' = Tail(line)
       ELSE /\ worker' = Worker("drain", Sentinel)
            /\ line' = IF running THEN Tail(line) ELSE line
            /\ UNCHANGED handed
    /\ UNCHANGED <<running, stopper, emitted, expired>>

\* Mutant: draining ends at the sentinel.
AtSentinel(q) == q = <<>> \/ Head(q) = Sentinel

\* Where the draining ends.
Drained(q) == q = <<>>

\* It empties the queue without waiting, passes over sentinels, and ends.
Drain ==
    /\ worker.at = "drain"
    /\ IF Drained(line) THEN worker' = Worker("done", Sentinel) /\ UNCHANGED <<line, handed>>
       ELSE /\ line' = Tail(line)
            /\ IF Head(line) = Sentinel THEN UNCHANGED <<worker, handed>>
               ELSE /\ worker' = Worker("draining", Head(line))
                    /\ handed' = Append(handed, Head(line))
    /\ UNCHANGED <<running, stopper, emitted, expired>>

\* The handlers have returned.
Handled ==
    /\ worker.at \in {"handling", "draining"}
    /\ worker' = Worker(IF worker.at = "handling" /\ running THEN "main" ELSE "drain", Sentinel)
    /\ UNCHANGED <<running, line, stopper, handed, emitted, expired>>

\* stop's timeout cancels the worker in a handler: in the main loop it goes on to
\* drain, in the draining it ends, and leaves the rest in the queue.
Timeout ==
    /\ stopper = "waiting" /\ worker.at \in {"handling", "draining"}
    /\ stopper' = "cancelling"
    /\ expired' = TRUE
    /\ worker' = Worker(IF worker.at = "handling" THEN "drain" ELSE "done", Sentinel)
    /\ UNCHANGED <<running, line, handed, emitted>>

StopReturns ==
    /\ stopper # "off" /\ worker.at = "done"
    /\ stopper' = "off"
    /\ worker' = Worker("none", Sentinel)
    /\ UNCHANGED <<running, line, handed, emitted, expired>>

-----------------------------------------------------------------------------
EmitterNext ==
    Emit \/ Start \/ Stop \/ Take \/ Drain \/ Handled \/ Timeout \/ StopReturns

EmitterSpec == EmitterInit /\ [][EmitterNext]_emitterVars

-----------------------------------------------------------------------------
(* Properties                                                              *)

\* The handlers are given the events in the order they were emitted, none twice, also
\* across stops that are cut short and restarts.  Somebody serves the queue of an
\* emitter that runs, as long as no stop has gone past its timeout: a stop takes its
\* sentinel out of the queue again, and leaves nothing behind that the next worker
\* would take for the end.
Attended ==
    /\ \A i, j \in DOMAIN handed : i < j => handed[i] < handed[j]
    /\ ~expired =>
         /\ running => worker.at \in {"main", "handling"}
         /\ stopper = "off" /\ ~running => line = <<>>

\* The same without the proviso, which a stop past its timeout violates: it says that
\* it drops the events it has not got to ("丟棄 {} 筆未處理事件"), and leaves them in the
\* queue with its sentinel.  The next worker ends there.
NeverDead == running => worker.at \in {"main", "handling"}
=============================================================================
