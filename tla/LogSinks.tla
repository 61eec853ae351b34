------------------------------- MODULE LogSinks -------------------------------
(***************************************************************************)
(* Where log records of csp_lib/core/logging go: SinkManager adds and      *)
(* removes loguru handlers; an AsyncSinkAdapter behind one keeps messages  *)
(* in a bounded queue that a task drains into an async handler; LogCapture *)
(* is a handler of its own.  LogContext binds values to the records of a   *)
(* task.  Messages are numbered.  loguru is external: it calls a handler   *)
(* for one message at a time, and not after it has removed it.             *)
(***************************************************************************)
EXTENDS Integers, Sequences, SequencesExt, FiniteSets

CONSTANTS
    Sinks,          \* async sinks, each added once
    QueueSize,
    Callers,        \* "loop" is the thread of the event loop
    Tasks, Contexts,        \* asyncio tasks and LogContext objects
    MaxMessages, MaxCalls   \* bounds

VARIABLES
    handlers,    \* handlers loguru has
    managed,     \* _sinks
    sent,        \* number of messages logged
    queue,       \* adapter -> its queue; Sentinel ends it
    inHand,      \* adapter -> the message its handler is awaited for
    drain,       \* _drain_task: "none", "running", "done", "cancelled"
    closing,     \* "no", "scheduled", "waiting", "closed", "timed out"
    capture,     \* LogCapture: open, records
    bound,       \* task -> the bindings in force
    entered,     \* task -> LogContext objects it is inside of, outermost first
    token,       \* _token of each LogContext: [task, before] or NoToken
    accepted, handled, before, reused, calls   \* history

sinkVars == <<handlers, managed, sent, queue, inHand, drain, closing, capture, accepted, handled>>
contextVars == <<bound, entered, token, before, reused>>
logVars == <<sinkVars, contextVars, calls>>

Sentinel == 0
Empty == -1
NoToken == [task |-> "none", before |-> {}]
Alive(s) == drain[s] = "running"
Closed(s) == closing[s] \in {"waiting", "closed", "timed out"}

SinkTypes ==
    /\ managed = handlers
    /\ \A s \in Sinks :
         /\ Len(queue[s]) <= QueueSize
         /\ inHand[s] # Empty => Alive(s) \/ drain[s] = "cancelled"
         /\ closing[s] = "waiting" => drain[s] \in {"running", "done"}
         /\ s \in handlers => closing[s] = "no"
    /\ \A t \in Tasks : Len(entered[t]) <= MaxCalls
    /\ calls \in 0..MaxCalls /\ sent \in 0..MaxMessages

Init ==
    /\ handlers = {} /\ managed = {}
    /\ sent = 0
    /\ queue = [s \in Sinks |-> <<>>]
    /\ inHand = [s \in Sinks |-> Empty]
    /\ drain = [s \in Sinks |-> "none"]
    /\ closing = [s \in Sinks |-> "no"]
    /\ capture = [open |-> FALSE, records |-> <<>>]
    /\ bound = [t \in Tasks |-> {}]
    /\ entered = [t \in Tasks |-> <<>>]
    /\ token = [c \in Contexts |-> NoToken]
    /\ accepted = [s \in Sinks |-> <<>>] /\ handled = [s \in Sinks |-> <<>>]
    /\ before = [t \in Tasks |-> {}] /\ reused = {}
    /\ calls = 0

Call == calls < MaxCalls /\ calls' = calls + 1

-----------------------------------------------------------------------------
\* The manager.

AddAsyncSink(s) ==
    /\ Call /\ s \notin managed /\ closing[s] = "no" /\ accepted[s] = <<>>
    /\ handlers' = handlers \cup {s}
    /\ managed' = managed \cup {s}
    /\ UNCHANGED <<sent, queue, inHand, drain, closing, capture, accepted, handled, contextVars>>

\* Closing the adapter is a task of the running loop; another thread has none.
Closing(s, caller) == IF caller = "loop" THEN "scheduled" ELSE closing[s]
RemoveSink(s, caller) ==
    /\ Call /\ s \in managed
    /\ handlers' = handlers \ {s}
    /\ managed' = managed \ {s}
    /\ closing' = [closing EXCEPT ![s] = Closing(s, caller)]
    /\ UNCHANGED <<sent, queue, inHand, drain, capture, accepted, handled, contextVars>>
RemoveAll(caller) ==
    /\ Call /\ managed # {}
    /\ handlers' = handlers \ managed
    /\ managed' = {}
    /\ closing' = [s \in Sinks |-> IF s \in managed THEN Closing(s, caller) ELSE closing[s]]
    /\ UNCHANGED <<sent, queue, inHand, drain, capture, accepted, handled, contextVars>>

OpenCapture ==
    /\ Call /\ ~capture.open
    /\ capture' = [open |-> TRUE, records |-> <<>>]
    /\ UNCHANGED <<handlers, managed, sent, queue, inHand, drain, closing, accepted, handled, contextVars>>
CloseCapture ==
    /\ Call /\ capture.open
    /\ capture' = [capture EXCEPT !.open = FALSE]
    /\ UNCHANGED <<handlers, managed, sent, queue, inHand, drain, closing, accepted, handled, contextVars>>

-----------------------------------------------------------------------------
\* The adapter.

Takes(s) == s \in handlers /\ Len(queue[s]) < QueueSize
\* A message that finds the queue full is dropped; only the thread of the
\* loop can start the drain task.
Log(caller) ==
    /\ sent < MaxMessages /\ sent' = sent + 1
    /\ queue' = [s \in Sinks |-> IF Takes(s) THEN Append(queue[s], sent') ELSE queue[s]]
    /\ accepted' = [s \in Sinks |-> IF Takes(s) THEN Append(accepted[s], sent') ELSE accepted[s]]
    /\ drain' = [s \in Sinks |-> IF s \in handlers /\ caller = "loop" THEN "running" ELSE drain[s]]
    /\ capture' = IF capture.open THEN [capture EXCEPT !.records = Append(@, sent')] ELSE capture
    /\ UNCHANGED <<handlers, managed, inHand, closing, handled, contextVars, calls>>

\* Mutant: the loop looks at _closed alone.
OnceClosed(s) == Closed(s)
Finished(s) == Closed(s) /\ queue[s] = <<>>
Drain(s) ==
    /\ Alive(s) /\ inHand[s] = Empty
    /\ IF Finished(s) \/ (queue[s] # <<>> /\ Head(queue[s]) = Sentinel)
       THEN /\ drain' = [drain EXCEPT ![s] = "done"]
            /\ queue' = [queue EXCEPT ![s] = IF @ = <<>> THEN @ ELSE Tail(@)]
            /\ UNCHANGED inHand
       ELSE /\ queue[s] # <<>>
            /\ inHand' = [inHand EXCEPT ![s] = Head(queue[s])]
            /\ queue' = [queue EXCEPT ![s] = Tail(@)]
            /\ UNCHANGED drain
    /\ UNCHANGED <<handlers, managed, sent, closing, capture, accepted, handled, contextVars, calls>>

\* The handler returns or raises.
Handle(s) ==
    /\ Alive(s) /\ inHand[s] # Empty
    /\ handled' = [handled EXCEPT ![s] = Append(@, inHand[s])]
    /\ inHand' = [inHand EXCEPT ![s] = Empty]
    /\ UNCHANGED <<handlers, managed, sent, queue, drain, closing, capture, accepted, contextVars, calls>>

Close(s) ==
    /\ closing[s] = "scheduled"
    /\ closing' = [closing EXCEPT ![s] = IF Alive(s) THEN "waiting" ELSE "closed"]
    /\ queue' = [queue EXCEPT ![s] = IF Len(@) < QueueSize THEN Append(@, Sentinel) ELSE @]
    /\ UNCHANGED <<handlers, managed, sent, inHand, drain, capture, accepted, handled, contextVars, calls>>
CloseEnds(s) ==
    /\ closing[s] = "waiting"
    /\ \/ drain[s] = "done" /\ closing' = [closing EXCEPT ![s] = "closed"] /\ UNCHANGED drain
       \/ /\ Alive(s)      \* flush_timeout
          /\ closing' = [closing EXCEPT ![s] = "timed out"]
          /\ drain' = [drain EXCEPT ![s] = "cancelled"]
    /\ UNCHANGED <<handlers, managed, sent, queue, inHand, capture, accepted, handled, contextVars, calls>>

-----------------------------------------------------------------------------
\* LogContext, as "with" uses it.

Enter(t, c) ==
    /\ Call
    /\ token' = [token EXCEPT ![c] = [task |-> t, before |-> bound[t]]]
    /\ bound' = [bound EXCEPT ![t] = @ \cup {c}]
    /\ entered' = [entered EXCEPT ![t] = Append(@, c)]
    /\ before' = IF entered[t] = <<>> THEN [before EXCEPT ![t] = bound[t]] ELSE before
    /\ reused' = IF token[c] = NoToken THEN reused ELSE reused \cup {c}
    /\ UNCHANGED sinkVars

\* Mutant: the bindings of the object are taken back, not the state before.
WithoutOwn(t, c) == bound[t] \ {c}
Restored(t, c) == token[c].before
\* A token of another task raises; one that was used already is gone.
Exit(t) ==
    /\ entered[t] # <<>>
    /\ LET c == Last(entered[t]) IN
         /\ bound' = IF token[c].task = t THEN [bound EXCEPT ![t] = Restored(t, c)] ELSE bound
         /\ token' = IF token[c].task \in {t, "none"} THEN [token EXCEPT ![c] = NoToken] ELSE token
    /\ entered' = [entered EXCEPT ![t] = Front(@)]
    /\ UNCHANGED <<sinkVars, before, reused, calls>>
Bind(t, key) ==
    /\ Call
    /\ bound' = [bound EXCEPT ![t] = @ \cup {key}]
    /\ before' = IF entered[t] = <<>> THEN [before EXCEPT ![t] = @ \cup {key}] ELSE before
    /\ UNCHANGED <<sinkVars, entered, token, reused>>
Unbind(t, key) ==
    /\ Call
    /\ bound' = [bound EXCEPT ![t] = @ \ {key}]
    /\ before' = IF entered[t] = <<>> THEN [before EXCEPT ![t] = @ \ {key}] ELSE before
    /\ UNCHANGED <<sinkVars, entered, token, reused>>
\* A new task starts with a copy of the context of the task that makes it.
Spawn(t, u) ==
    /\ Call /\ t # u /\ entered[u] = <<>>
    /\ bound' = [bound EXCEPT ![u] = bound[t]]
    /\ before' = [before EXCEPT ![u] = bound[t]]
    /\ UNCHANGED <<sinkVars, entered, token, reused>>

Keys == {"key"}
SinkNext ==
    \/ \E s \in Sinks : \/ AddAsyncSink(s) \/ Drain(s) \/ Handle(s) \/ Close(s) \/ CloseEnds(s)
                        \/ \E c \in Callers : RemoveSink(s, c)
    \/ \E c \in Callers : Log(c) \/ RemoveAll(c)
    \/ OpenCapture \/ CloseCapture
ContextNext ==
    \E t \in Tasks : \/ Exit(t)
                     \/ \E c \in Contexts : Enter(t, c)
                     \/ \E k \in Keys : Bind(t, k) \/ Unbind(t, k)
                     \/ \E u \in Tasks : Spawn(t, u)
Next == SinkNext \/ ContextNext

Spec == Init /\ [][Next]_logVars
-----------------------------------------------------------------------------
\* A message the queue of a sink took is never lost on its way nor handled
\* out of turn; and when closing ended without a timeout, a sink whose drain
\* task ever ran has handled all of them.
Held(s) == (IF inHand[s] = Empty THEN <<>> ELSE <<inHand[s]>>) \o SelectSeq(queue[s], LAMBDA m : m # Sentinel)
SinksDeliver ==
    \A s \in Sinks :
        /\ handled[s] \o Held(s) = accepted[s]
        /\ closing[s] = "closed" /\ drain[s] # "none" => handled[s] = accepted[s]

\* When a task has left all its contexts it has the bindings it had before,
\* whatever was bound inside and whatever other tasks did, unless one object
\* was entered while it was entered already.
ContextRestored == reused = {} => \A t \in Tasks : entered[t] = <<>> => bound[t] = before[t]
=============================================================================
