----------------------------- MODULE BufferStores -----------------------------
(***************************************************************************)
(* The two stores the local buffer can keep its documents in              *)
(* (csp_lib/mongo/local_buffer): SqliteBufferStore, whose writers take     *)
(* turns at one connection and commit, and MongoBufferStore, whose writers *)
(* each make one request.  A writer may fail or be cancelled at any of its *)
(* awaits; nothing is rolled back then, so what it executed is committed   *)
(* by the next writer, or lost with the connection.  The database itself   *)
(* is external.                                                            *)
(***************************************************************************)
EXTENDS Integers, FiniteSets, FiniteSetsExt

CONSTANTS
    Backends,      \* of "sqlite", "mongo"
    Keys,          \* idempotency keys
    Tasks,
    Limit,         \* of fetch_pending
    MaxTime, MaxCalls, MaxFaults   \* bounds

VARIABLES
    backend,
    opened,
    rows, last,    \* what the connection sees, and the last id given
    durable,       \* what has been committed: [rows, last]
    lock,          \* the task that holds _lock
    task,          \* task -> the call it awaits, or Idle
    held,          \* task -> [id, key] of the rows it fetched
    time,
    acked, delivered, calls, faults   \* history

storeVars == <<backend, opened, rows, last, durable, lock, task, held, time, acked, delivered, calls, faults>>

Idle == [op |-> "none"]
Nobody == "nobody"
Never == -1
Waits(t, op) == task[t].op = op

StoreTypes ==
    /\ opened \in BOOLEAN
    /\ \A r \in rows : r.key \in Keys /\ (r.synced <=> r.at # Never)
    /\ durable.last <= last
    /\ backend = "mongo" => durable = [rows |-> rows, last |-> last] /\ lock = Nobody
    /\ lock # Nobody => task[lock] # Idle /\ task[lock].executed
    /\ calls \in 0..MaxCalls /\ faults \in 0..MaxFaults

Init ==
    /\ backend \in Backends
    /\ opened = FALSE
    /\ rows = {} /\ last = 0
    /\ durable = [rows |-> {}, last |-> 0]
    /\ lock = Nobody
    /\ task = [t \in Tasks |-> Idle]
    /\ held = [t \in Tasks |-> {}]
    /\ time = 0
    /\ acked = {} /\ delivered = {}
    /\ calls = 0 /\ faults = 0

\* SqliteBufferStore answers nothing before it is open; MongoBufferStore never looks.
Answers == backend = "mongo" \/ opened
Begin(t, call) ==
    /\ Answers /\ task[t] = Idle
    /\ calls < MaxCalls /\ calls' = calls + 1
    /\ task' = [task EXCEPT ![t] = call]

-----------------------------------------------------------------------------
(* What a call does to the rows                                            *)

Present(key) == \E r \in rows : r.key = key
NextId == last + 1

Marked(r, c) == IF r.id \in c.ids /\ ~r.synced THEN [r EXCEPT !.synced = TRUE, !.at = c.now] ELSE r
\* Mutant: a row without synced_at is older than any.
Older(r, c) == r.at < c.cutoff
Expired(r, c) == r.synced /\ r.at < c.cutoff
\* A key that is there already is no error and changes nothing.
Effect(c) ==
    CASE c.op = "append" ->
           IF Present(c.key) THEN rows
           ELSE rows \cup {[id |-> IF backend = "mongo" THEN c.id ELSE NextId, key |-> c.key,
                            synced |-> FALSE, at |-> Never]}
      [] c.op = "mark" -> {Marked(r, c) : r \in rows}
      [] c.op = "bump" -> rows        \* retry_count is left out
      [] c.op = "delete" -> {r \in rows : ~Expired(r, c)}
Inserts(c) == c.op = "append" /\ ~Present(c.key)

-----------------------------------------------------------------------------
(* Calls                                                                   *)

Open ==
    /\ ~opened
    /\ opened' = TRUE
    /\ UNCHANGED <<backend, rows, last, durable, lock, task, held, time, acked, delivered, calls, faults>>
\* The SQLite connection is closed as it is: what is not committed is gone.  The uploader
\* closes its store when nobody uses it any more.
Close ==
    /\ opened
    /\ \A t \in Tasks : task[t] = Idle
    /\ opened' = FALSE
    /\ rows' = durable.rows /\ last' = durable.last
    /\ held' = [t \in Tasks |-> {}]
    /\ UNCHANGED <<backend, durable, lock, task, time, acked, delivered, calls, faults>>

\* The driver gives a document its ObjectId when insert_one is called.
Append(t, key) ==
    /\ Begin(t, [op |-> "append", key |-> key, id |-> last + 1, executed |-> FALSE])
    /\ last' = IF backend = "mongo" THEN last + 1 ELSE last
    /\ durable' = IF backend = "mongo" THEN [durable EXCEPT !.last = last'] ELSE durable
    /\ UNCHANGED <<backend, opened, rows, lock, held, time, acked, delivered, faults>>
FetchPending(t) ==
    /\ Answers /\ task[t] = Idle
    /\ held' = [held EXCEPT ![t] =
                  {[id |-> r.id, key |-> r.key] : r \in
                     {x \in rows : ~x.synced /\ Cardinality({y \in rows : ~y.synced /\ y.id < x.id}) < Limit}}]
    /\ UNCHANGED <<backend, opened, rows, last, durable, lock, task, time, acked, delivered, calls, faults>>
\* The rows this task fetched are in MongoDB now.
MarkSynced(t) ==
    /\ held[t] # {}
    /\ Begin(t, [op |-> "mark", ids |-> {h.id : h \in held[t]}, now |-> time, executed |-> FALSE])
    /\ delivered' = delivered \cup {h.key : h \in held[t]}
    /\ UNCHANGED <<backend, opened, rows, last, durable, lock, held, time, acked, faults>>
BumpRetry(t) ==
    /\ held[t] # {}
    /\ Begin(t, [op |-> "bump", ids |-> {h.id : h \in held[t]}, executed |-> FALSE])
    /\ UNCHANGED <<backend, opened, rows, last, durable, lock, held, time, acked, delivered, faults>>
DeleteSyncedBefore(t) ==
    /\ Begin(t, [op |-> "delete", cutoff |-> time, executed |-> FALSE])
    /\ UNCHANGED <<backend, opened, rows, last, durable, lock, held, time, acked, delivered, faults>>

\* The statement is executed; SQLite commits it next, unless the key was there, which
\* ends the call without a commit.
Execute(t) ==
    LET c == task[t] IN
    /\ c # Idle /\ ~c.executed /\ lock = Nobody
    /\ rows' = Effect(c)
    /\ last' = IF backend = "sqlite" /\ Inserts(c) THEN NextId ELSE last
    /\ IF backend = "sqlite" /\ (c.op # "append" \/ Inserts(c))
       THEN /\ lock' = t
            /\ task' = [task EXCEPT ![t].executed = TRUE]
            /\ UNCHANGED <<durable, acked>>
       ELSE /\ task' = [task EXCEPT ![t] = Idle]
            /\ durable' = IF backend = "mongo" THEN [rows |-> rows', last |-> last'] ELSE durable
            /\ acked' = IF backend = "mongo" /\ Inserts(c) THEN acked \cup {c.key} ELSE acked
            /\ UNCHANGED lock
    /\ UNCHANGED <<backend, opened, held, time, delivered, calls, faults>>
Commit(t) ==
    /\ lock = t
    /\ durable' = [rows |-> rows, last |-> last]
    /\ lock' = Nobody
    /\ task' = [task EXCEPT ![t] = Idle]
    /\ acked' = IF task[t].op = "append" THEN acked \cup {task[t].key} ELSE acked
    /\ UNCHANGED <<backend, opened, rows, last, held, time, delivered, calls, faults>>

\* The caller gets an exception or is cancelled, and the store an answer of no use: what
\* was asked for may have been executed all the same.
Breaks(t) ==
    LET c == task[t] IN
    /\ c # Idle
    /\ faults < MaxFaults /\ faults' = faults + 1
    /\ task' = [task EXCEPT ![t] = Idle]
    /\ lock' = IF lock = t THEN Nobody ELSE lock
    /\ \/ UNCHANGED <<rows, last, durable>>
       \/ /\ ~c.executed /\ lock = Nobody
          /\ rows' = Effect(c)
          /\ last' = IF backend = "sqlite" /\ Inserts(c) THEN NextId ELSE last
          /\ durable' = IF backend = "mongo" THEN [rows |-> rows', last |-> last'] ELSE durable
       \/ /\ c.executed
          /\ durable' = [rows |-> rows, last |-> last]
                /\ UNCHANGED <<rows, last>>
    /\ UNCHANGED <<backend, opened, held, time, acked, delivered, calls>>

Crash ==
    /\ faults < MaxFaults /\ faults' = faults + 1
    /\ opened' = FALSE
    /\ rows' = durable.rows /\ last' = durable.last
    /\ lock' = Nobody
    /\ task' = [t \in Tasks |-> Idle] /\ held' = [t \in Tasks |-> {}]
    /\ UNCHANGED <<backend, durable, time, acked, delivered, calls>>
Tick ==
    /\ time < MaxTime
    /\ time' = time + 1
    /\ UNCHANGED <<backend, opened, rows, last, durable, lock, task, held, acked, delivered, calls, faults>>

Next ==
    \/ Open \/ Close \/ Crash \/ Tick
    \/ \E t \in Tasks : \/ FetchPending(t) \/ MarkSynced(t) \/ BumpRetry(t) \/ DeleteSyncedBefore(t)
                        \/ Execute(t) \/ Commit(t) \/ Breaks(t)
                        \/ \E key \in Keys : Append(t, key)

Spec == Init /\ [][Next]_storeVars
-----------------------------------------------------------------------------
(* Properties                                                              *)

\* What append gave an id is in the database, whatever broke since, until somebody had
\* it delivered; a key is there once; and a row counts as synced only when the task that
\* marked it had fetched that very document, however late it came and whatever was
\* deleted and appended meanwhile.
StoreKept ==
    /\ \A key \in acked \ delivered : \E r \in durable.rows : r.key = key /\ ~r.synced
    /\ \A r, s \in rows : r.key = s.key \/ r.id = s.id => r = s
    /\ \A r \in rows \cup durable.rows : r.synced => r.key \in delivered
=============================================================================
