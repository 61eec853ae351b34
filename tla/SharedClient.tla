---------------------------- MODULE SharedClient ----------------------------
(***************************************************************************)
(* The shared connection of csp_lib/modbus/clients/client.py: clients of   *)
(* one endpoint (SharedPymodbusTcpClient; PymodbusRtuClient does the same  *)
(* for a serial port) share a pymodbus client and a request queue, counted *)
(* in a registry under one lock for the whole process.                     *)
(*                                                                         *)
(* A task calls connect and disconnect on a client of its own choice in    *)
(* ClientOf; it can be cancelled wherever it is suspended.  The request    *)
(* queue is reduced to what the registry sees of it: whether it runs, how  *)
(* many requests wait, and whether its worker is waiting for the registry  *)
(* lock (every _do_* coroutine takes it) or for the bus.                   *)
(***************************************************************************)
EXTENDS Naturals, FiniteSets

CONSTANTS
    Callers, Clients, Endpoints,
    ClientOf,     \* the client a task works for
    EndpointOf,   \* the host:port (or serial port) a client was made for
    Instances,    \* pymodbus client + queue pairs, recycled when forgotten
    MaxBacklog,   \* bound: requests waiting in a queue
    MaxRefs,      \* bound: the count a connect still adds to (it can leak)
    Vacant

ASSUME SharedAssumption ==
    /\ ClientOf \in [Callers -> Clients]
    /\ EndpointOf \in [Clients -> Endpoints]
    /\ Vacant \notin Instances \cup Callers
    /\ MaxBacklog \in Nat /\ MaxRefs \in Nat

VARIABLES
    lock,      \* the task that holds _tcp_instances_lock across an await, or Vacant
    entry,     \* _tcp_instances: the instance of each endpoint, or Vacant
    refs,      \* its ref_count
    acquired,  \* _resources_acquired of each client
    pc,        \* where each task is suspended
    mine,      \* the instance a connecting task holds in its locals
    socket,    \* client.connected of each instance
    queue,     \* the queue of each instance
    backlog,   \* requests waiting in it
    work,      \* what its worker is suspended on
    up         \* history: a connect was carried through, disconnect not called since

vars == <<lock, entry, refs, acquired, pc, mine, socket, queue, backlog, work, up>>
registry == <<lock, entry, refs>>
instances == <<socket, queue, backlog, work>>

\* Every variable holds a value of its kind; an endpoint is registered exactly
\* when somebody is counted.
TypeOK ==
    /\ lock \in Callers \cup {Vacant}
    /\ entry \in [Endpoints -> Instances \cup {Vacant}]
    /\ refs \in [Endpoints -> Nat]
    /\ \A e \in Endpoints : refs[e] = 0 <=> entry[e] = Vacant
    /\ acquired \in [Clients -> BOOLEAN]
    /\ pc \in [Callers -> {"idle", "acquiring", "connecting", "failing",
                         "releasing", "abandoning", "stopping"}]
    /\ mine \in [Callers -> Instances \cup {Vacant}]
    /\ socket \in [Instances -> BOOLEAN]
    /\ queue \in [Instances -> {"idle", "running", "draining"}]
    /\ backlog \in [Instances -> 0..MaxBacklog]
    /\ work \in [Instances -> {"none", "locking", "bus"}]
    /\ up \in [Clients -> BOOLEAN]

Init ==
    /\ lock = Vacant
    /\ entry = [e \in Endpoints |-> Vacant]
    /\ refs = [e \in Endpoints |-> 0]
    /\ acquired = [c \in Clients |-> FALSE]
    /\ pc = [t \in Callers |-> "idle"]
    /\ mine = [t \in Callers |-> Vacant]
    /\ socket = [i \in Instances |-> FALSE]
    /\ queue = [i \in Instances |-> "idle"]
    /\ backlog = [i \in Instances |-> 0]
    /\ work = [i \in Instances |-> "none"]
    /\ up = [c \in Clients |-> FALSE]

Place(t) == EndpointOf[ClientOf[t]]

\* An instance nothing refers to stands for the next one to be made.
Unused(i) ==
    /\ \A e \in Endpoints : entry[e] # i
    /\ \A t \in Callers : mine[t] # i
    /\ ~socket[i] /\ queue[i] = "idle"

-----------------------------------------------------------------------------
(* connect                                                                 *)

\* connect finds the lock taken and waits for it, its check of
\* _resources_acquired behind it.
WaitToConnect(t) ==
    /\ pc[t] = "idle" /\ ~acquired[ClientOf[t]]
    /\ lock # Vacant
    /\ pc' = [pc EXCEPT ![t] = "acquiring"]
    /\ UNCHANGED <<registry, acquired, mine, instances, up>>

\* queue.start(): a running queue stays as it is.
Started(i) == [queue EXCEPT ![i] = "running"]

\* Mutant: an existing entry is shared without being counted.
CountOnce(n) == 1

\* The reference count of an endpoint with one more user.
Counted(n) == n + 1

\* _acquire_resources and what connect does next without suspending.
Acquire(t) ==
    LET c == ClientOf[t]
        e == Place(t) IN
    /\ pc[t] = "acquiring" \/ (pc[t] = "idle" /\ ~acquired[c])
    /\ lock = Vacant /\ refs[e] < MaxRefs
    /\ \E i \in Instances :
         /\ IF entry[e] = Vacant THEN Unused(i) ELSE i = entry[e]
         /\ entry' = [entry EXCEPT ![e] = i]
         /\ refs' = [refs EXCEPT ![e] = IF entry[e] = Vacant THEN 1 ELSE Counted(@)]
         /\ IF socket[i]
            THEN /\ queue' = Started(i)
                 /\ pc' = [pc EXCEPT ![t] = "idle"]
                 /\ up' = [up EXCEPT ![c] = TRUE]
                 /\ UNCHANGED mine
            ELSE /\ pc' = [pc EXCEPT ![t] = "connecting"]
                 /\ mine' = [mine EXCEPT ![t] = i]
                 /\ UNCHANGED <<queue, up>>
    /\ acquired' = [acquired EXCEPT ![c] = TRUE]
    /\ UNCHANGED <<lock, socket, backlog, work>>

\* client.connect() succeeds; the queue is started in the same step.
Connected(t) ==
    /\ pc[t] = "connecting"
    /\ socket' = [socket EXCEPT ![mine[t]] = TRUE]
    /\ queue' = Started(mine[t])
    /\ up' = [up EXCEPT ![ClientOf[t]] = TRUE]
    /\ pc' = [pc EXCEPT ![t] = "idle"]
    /\ mine' = [mine EXCEPT ![t] = Vacant]
    /\ UNCHANGED <<registry, acquired, backlog, work>>

-----------------------------------------------------------------------------
(* disconnect, a failed client.connect() and _release_shared_resources     *)

\* Task t comes to the release with the lock taken and waits.  A failed
\* connect has cleared the flag by then, disconnect has not.
WaitToRelease(t) ==
    /\ lock # Vacant
    /\ \/ /\ pc[t] = "idle" /\ acquired[ClientOf[t]]
          /\ pc' = [pc EXCEPT ![t] = "releasing"]
          /\ up' = [up EXCEPT ![ClientOf[t]] = FALSE]
          /\ UNCHANGED <<acquired, mine>>
       \/ /\ pc[t] = "connecting"
          /\ pc' = [pc EXCEPT ![t] = "failing"]
          /\ acquired' = [acquired EXCEPT ![ClientOf[t]] = FALSE]
          /\ mine' = [mine EXCEPT ![t] = Vacant]
          /\ UNCHANGED up
    /\ UNCHANGED <<registry, instances>>

\* Task t is at the release: of disconnect, or of a failed connect.
Releasing(t) ==
    /\ lock = Vacant
    /\ \/ pc[t] \in {"releasing", "failing", "connecting"}
       \/ pc[t] = "idle" /\ acquired[ClientOf[t]]

FailedConnect(t) == pc[t] \in {"connecting", "failing", "abandoning"}

\* The release is through.  Only now does disconnect clear the flag; a failed
\* connect cleared it before and does not come back to it.
Released(t) ==
    /\ pc' = [pc EXCEPT ![t] = "idle"]
    /\ mine' = [mine EXCEPT ![t] = Vacant]
    /\ acquired' = IF pc[t] \in {"failing", "abandoning"}
                   THEN acquired ELSE [acquired EXCEPT ![ClientOf[t]] = FALSE]
    /\ up' = IF FailedConnect(t) THEN up ELSE [up EXCEPT ![ClientOf[t]] = FALSE]

\* Mutant: the last user taken for the last but one.
LastTwo(t) == refs[Place(t)] <= 2

\* Mutant: <= 0 for <= 1.
LastNone(t) == refs[Place(t)] <= 0

LastUser(t) == refs[Place(t)] <= 1

\* Other users are left, or nothing is registered.
ReleaseOne(t) ==
    /\ Releasing(t)
    /\ entry[Place(t)] = Vacant \/ ~LastUser(t)
    /\ refs' = [refs EXCEPT ![Place(t)] = IF entry[Place(t)] = Vacant THEN @ ELSE @ - 1]
    /\ Released(t)
    /\ UNCHANGED <<lock, entry, instances>>

\* Mutant: the connection is left open.
LeftOpen(i) == socket

\* client.close().
Closed(i) == [socket EXCEPT ![i] = FALSE]

\* Close the connection and forget the instance.
Forget(e) ==
    /\ socket' = Closed(entry[e])
    /\ entry' = [entry EXCEPT ![e] = Vacant]
    /\ refs' = [refs EXCEPT ![e] = 0]

\* The last user of a queue that does not run: stop returns at once.
ReleaseLast(t) ==
    LET e == Place(t) IN
    /\ Releasing(t)
    /\ entry[e] # Vacant /\ LastUser(t)
    /\ queue[entry[e]] = "idle"
    /\ Forget(e)
    /\ Released(t)
    /\ UNCHANGED <<lock, queue, backlog, work>>

\* The last user of a running queue: stop is awaited with the lock held.
BeginStop(t) ==
    LET e == Place(t) IN
    /\ Releasing(t)
    /\ entry[e] # Vacant /\ LastUser(t)
    /\ queue[entry[e]] = "running"
    /\ queue' = [queue EXCEPT ![entry[e]] = "draining"]
    /\ lock' = t
    /\ pc' = [pc EXCEPT ![t] = IF FailedConnect(t) THEN "abandoning" ELSE "stopping"]
    /\ mine' = [mine EXCEPT ![t] = Vacant]
    /\ acquired' = IF pc[t] = "connecting"
                   THEN [acquired EXCEPT ![ClientOf[t]] = FALSE] ELSE acquired
    /\ up' = IF FailedConnect(t) THEN up ELSE [up EXCEPT ![ClientOf[t]] = FALSE]
    /\ UNCHANGED <<entry, refs, socket, backlog, work>>

\* The worker is gone, with what it was doing.
Halted(i) ==
    /\ queue' = [queue EXCEPT ![i] = "idle"]
    /\ backlog' = [backlog EXCEPT ![i] = 0]
    /\ work' = [work EXCEPT ![i] = "none"]

\* stop returns, the queue drained or drain_timeout over (module RequestQueue):
\* close, forget the instance, leave the lock.
EndStop(t) ==
    /\ lock = t
    /\ Halted(entry[Place(t)])
    /\ Forget(Place(t))
    /\ lock' = Vacant
    /\ Released(t)

-----------------------------------------------------------------------------
(* Cancellation of a suspended task: nothing it has done is undone.        *)

Cancel(t) ==
    /\ \/ pc[t] = "connecting"
       \/ pc[t] \in {"acquiring", "releasing", "failing"} /\ lock # Vacant
    /\ pc' = [pc EXCEPT ![t] = "idle"]
    /\ mine' = [mine EXCEPT ![t] = Vacant]
    /\ UNCHANGED <<registry, acquired, instances, up>>

\* While it awaits stop: the worker is cancelled, the instance stays
\* registered and, after disconnect, the flag set.
CancelStop(t) ==
    /\ lock = t
    /\ Halted(entry[Place(t)])
    /\ lock' = Vacant
    /\ pc' = [pc EXCEPT ![t] = "idle"]
    /\ UNCHANGED <<entry, refs, acquired, mine, socket, up>>

-----------------------------------------------------------------------------
(* The queue, as far as the registry sees it, and the network.             *)

\* _submit_request: look the queue up under the lock and submit; a queue that
\* does not run refuses.
SubmitRequest(e) ==
    /\ lock = Vacant
    /\ entry[e] # Vacant
    /\ queue[entry[e]] = "running" /\ backlog[entry[e]] < MaxBacklog
    /\ backlog' = [backlog EXCEPT ![entry[e]] = @ + 1]
    /\ UNCHANGED <<registry, acquired, pc, mine, socket, queue, work, up>>

\* The worker takes a request; _do_* takes the lock to look its client up.
TakeRequest(i) ==
    /\ queue[i] # "idle" /\ work[i] = "none" /\ backlog[i] > 0
    /\ backlog' = [backlog EXCEPT ![i] = @ - 1]
    /\ work' = [work EXCEPT ![i] = IF lock = Vacant THEN "bus" ELSE "locking"]
    /\ UNCHANGED <<registry, acquired, pc, mine, socket, queue, up>>

\* The lock is free at last.
LookUp(i) ==
    /\ work[i] = "locking" /\ lock = Vacant
    /\ work' = [work EXCEPT ![i] = "bus"]
    /\ UNCHANGED <<registry, acquired, pc, mine, socket, queue, backlog, up>>

\* The operation ends, or worker_timeout cancels it, be it at the lock.
RequestEnds(i) ==
    /\ work[i] # "none"
    /\ work' = [work EXCEPT ![i] = "none"]
    /\ UNCHANGED <<registry, acquired, pc, mine, socket, queue, backlog, up>>

\* The peer closes the connection.
Dropped(i) ==
    /\ socket[i]
    /\ socket' = [socket EXCEPT ![i] = FALSE]
    /\ UNCHANGED <<registry, acquired, pc, mine, queue, backlog, work, up>>

Next ==
    \/ \E t \in Callers :
         \/ WaitToConnect(t) \/ Acquire(t) \/ Connected(t)
         \/ WaitToRelease(t) \/ ReleaseOne(t) \/ ReleaseLast(t)
         \/ BeginStop(t) \/ EndStop(t)
         \/ Cancel(t) \/ CancelStop(t)
    \/ \E e \in Endpoints : SubmitRequest(e)
    \/ \E i \in Instances :
         TakeRequest(i) \/ LookUp(i) \/ RequestEnds(i) \/ Dropped(i)

Spec == Init /\ [][Next]_vars

-----------------------------------------------------------------------------
(* Properties                                                              *)

Users(e) == {c \in Clients : acquired[c] /\ EndpointOf[c] = e}

\* No client whose flag is set goes uncounted: the count that decides when to
\* close covers every one of them, whatever was cancelled on the way.
EveryUserCounted == \A e \in Endpoints : refs[e] >= Cardinality(Users(e))

\* A client that has connected and not begun to disconnect has its endpoint
\* registered and the queue running: no other client's disconnect, failed
\* connect or cancellation stops it.
NobodyCutOff ==
    \A c \in Clients : up[c] =>
        /\ entry[EndpointOf[c]] # Vacant
        /\ queue[entry[EndpointOf[c]]] = "running"

\* An open connection and a live queue belong to a registered instance: there is
\* one master on a bus and every one of them is found again to be closed.
NoOrphan ==
    \A i \in Instances : socket[i] \/ queue[i] # "idle" =>
        \E e \in Endpoints : entry[e] = i

\* A connecting client connects the instance that is registered, even when
\* others came and went while it waited.
ConnectsTheShared ==
    \A t \in Callers : pc[t] = "connecting" => mine[t] = entry[Place(t)]

\* What is connected has an owner, and nobody loses a connection he uses.
ConnectionsHeld == EveryUserCounted /\ NobodyCutOff /\ NoOrphan /\ ConnectsTheShared
=============================================================================
